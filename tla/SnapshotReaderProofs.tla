------------------------ MODULE SnapshotReaderProofs ------------------------
(***************************************************************************)
(* The safety properties of the Datomic reader, for any number of          *)
(* requests, closes and permits.                                           *)
(*                                                                         *)
(* The inductive invariant says who holds the lease lock, that a close     *)
(* that holds it holds it alone, and how far each close can be with what   *)
(* has been released.  A request that looked at closing? before the close  *)
(* began may still get the lock after it, and is the reason why only those *)
(* that looked again under the lock count as borrowers.                    *)
(***************************************************************************)
EXTENDS SnapshotReaderProperties, FiniteSetTheorems, TLAPS

Stages == {"new", "waiting", "locking", "done"} \cup Admitted \cup Lent \cup {"locked"}
CloseStages == {"idle", "draining", "dropping", "disconnecting", "unlocking", "done"}
OpenStages == {"connected", "selected", "open", "dropping", "disconnecting", "failed"}

ReaderTypes ==
    /\ opener \in OpenStages
    /\ requests \in [Requests -> Stages]
    /\ late \subseteq Requests /\ permits \in Int
    /\ readers \subseteq Requests /\ writer \in Closers \cup {None}
    /\ exact \in [Requests -> {"none", "open"} \cup Outcomes]
    /\ freed \in [Resources -> {0, 1}]
    /\ closers \in [Closers -> CloseStages]
    /\ closing \in BOOLEAN /\ closed \in BOOLEAN

\* Nobody uses a reader that is still being opened, or failed to.
OpeningInv ==
    opener # "open" =>
        /\ \A q \in Requests : requests[q] = "new"
        /\ \A c \in Closers : closers[c] = "idle"
        /\ ~closing /\ ~closed
        /\ opener \in {"connected", "selected", "dropping"} =>
               freed["snapshot"] = 0 /\ freed["connection"] = 0
        /\ opener = "disconnecting" => freed["connection"] = 0

\* One close is inside, and it alone has the lock once it has it.
LockInv ==
    /\ readers = {q \in Requests : requests[q] \in Lent \cup {"locked"}}
    /\ writer # None => readers = {}
    /\ \A c \in Closers :
         /\ closers[c] \in {"dropping", "disconnecting", "unlocking"} <=> writer = c
         /\ Inside(c) => closing
         /\ \A d \in Closers : Inside(c) /\ Inside(d) => c = d

\* What has been released, of an open reader.
ReleaseInv ==
    opener = "open" =>
        /\ freed["connection"] = 1 => freed["snapshot"] = 1
        /\ closed <=> freed["connection"] = 1
        /\ freed["snapshot"] = 1 => closing /\ \A q \in Requests : requests[q] \notin Lent
        /\ \A c \in Closers :
             /\ closers[c] \in {"draining", "dropping", "disconnecting"} => ~closed
             /\ closers[c] = "disconnecting" => freed["snapshot"] = 1

\* An exact snapshot is open from its selection to its release.
ExactInv ==
    \A q \in Requests :
        /\ requests[q] \in {"selecting", "selected", "releasing"} => q \in Historical
        /\ exact[q] = "open" <=> \/ requests[q] \in {"selected", "releasing"}
                                 \/ requests[q] = "handling" /\ q \in Historical

ReaderInv == ReaderTypes /\ OpeningInv /\ LockInv /\ ReleaseInv /\ ExactInv

-----------------------------------------------------------------------------
(* The steps of opening, of a request and of a close. *)

OpenStep == SelectFixed \/ Publish \/ OpenFails \/ \E done \in BOOLEAN : Abandon(done)
RequestStep(q) == Reject(q) \/ Submit(q) \/ Expire(q) \/ Interrupt(q) \/ Serve(q)
CloseStep(c) == BeginClose(c) \/ Close(c)

LEMMA OpeningKeeps == ASSUME ReaderInv, OpenStep PROVE ReaderInv'
<1>1. /\ UNCHANGED <<requests, admission, lock, exact, closers, closing, closed>>
      /\ opener # "open"
      /\ freed' \in [Resources -> {0, 1}]
  BY DEF ReaderInv, ReaderTypes, OpenStep, SelectFixed, Publish, OpenFails, Abandon, Opens, ReleaseOnce
<1>2. /\ opener' \in OpenStages
      /\ opener' \in {"connected", "selected", "dropping", "open"} =>
             freed'["snapshot"] = 0 /\ freed'["connection"] = 0
      /\ opener' = "disconnecting" => freed'["connection"] = 0
  BY DEF ReaderInv, ReaderTypes, OpeningInv, OpenStep, SelectFixed, Publish, OpenFails, Abandon,
         Opens, ReleaseOnce, Resources, OpenStages
<1>3. ReaderTypes' /\ LockInv' /\ ExactInv'
  BY <1>1, <1>2 DEF ReaderInv, ReaderTypes, LockInv, ExactInv, admission, lock, Inside
<1>4. OpeningInv' /\ ReleaseInv'
  BY <1>1, <1>2 DEF ReaderInv, OpeningInv, ReleaseInv, ReaderTypes, admission, lock, Lent
<1> QED
  BY <1>3, <1>4 DEF ReaderInv

LEMMA RequestKeeps == ASSUME ReaderInv, NEW q \in Requests, RequestStep(q) PROVE ReaderInv'
<1> USE DEF admission, lock, reader, Goes
<1>0. /\ opener = "open"
      /\ UNCHANGED <<opener, writer, reader>>
      /\ \A p \in Requests : p # q => requests'[p] = requests[p] /\ exact'[p] = exact[p]
  <2>1. requests[q] # "new" => opener = "open"
    BY DEF ReaderInv, OpeningInv
  <2> QED
    BY <2>1 DEF ReaderInv, ReaderTypes, RequestStep, Serve, Reject, Submit, Expire, Interrupt, GiveUp,
         Admit, Capture, ReadLock, Lend, Refuse, SelectFails, Select, Support, Handle,
         ReleaseExact, ReturnLease, ReturnPermit
<1>1. ReaderTypes'
  BY DEF ReaderInv, ReaderTypes, RequestStep, Serve, Reject, Submit, Expire, Interrupt, GiveUp,
         Admit, Capture, ReadLock, Lend, Refuse, SelectFails, Select, Support, Handle,
         ReleaseExact, ReturnLease, ReturnPermit, Stages, Admitted, Lent
<1>2. /\ readers' = {p \in Requests : requests'[p] \in Lent \cup {"locked"}}
      /\ writer # None => readers' = {}
  BY DEF ReaderInv, ReaderTypes, LockInv, RequestStep, Serve, Reject, Submit, Expire, Interrupt, GiveUp,
         Admit, Capture, ReadLock, Lend, Refuse, SelectFails, Select, Support, Handle,
         ReleaseExact, ReturnLease, ReturnPermit, Lent
<1>3. LockInv'
  BY <1>0, <1>2 DEF ReaderInv, LockInv, Inside
<1>4. requests'[q] \in Lent => requests[q] \in Lent \/ ~closing
  BY DEF ReaderInv, ReaderTypes, RequestStep, Serve, Reject, Submit, Expire, Interrupt, GiveUp,
         Admit, Capture, ReadLock, Lend, Refuse, SelectFails, Select, Support, Handle,
         ReleaseExact, ReturnLease, ReturnPermit, Lent
<1>5. ReleaseInv'
  BY <1>0, <1>4 DEF ReaderInv, ReleaseInv
<1>6. ExactInv'
  <2> DEFINE Sound(stage, snapshot) ==
               /\ stage \in {"selecting", "selected", "releasing"} => q \in Historical
               /\ snapshot = "open" <=> \/ stage \in {"selected", "releasing"}
                                        \/ stage = "handling" /\ q \in Historical
  <2>1. Sound(requests[q], exact[q])
    BY DEF ReaderInv, ExactInv
  <2>2. requests \in [Requests -> Stages] /\ exact \in [Requests -> {"none", "open"} \cup Outcomes]
    BY DEF ReaderInv, ReaderTypes
  <2>3. Sound(requests'[q], exact'[q])
    <3>1. CASE Reject(q) \/ Submit(q) \/ Expire(q) \/ Interrupt(q)
      BY <2>1, <2>2, <3>1 DEF Reject, Submit, Expire, Interrupt
    <3>2. CASE GiveUp(q) \/ Admit(q) \/ Capture(q) \/ ReadLock(q)
      BY <2>1, <2>2, <3>2 DEF GiveUp, Admit, Capture, ReadLock
    <3>3. CASE Refuse(q) \/ ReturnLease(q) \/ ReturnPermit(q)
      BY <2>1, <2>2, <3>3 DEF Refuse, ReturnLease, ReturnPermit
    <3>4. CASE Lend(q) \/ SelectFails(q) \/ Select(q) \/ Support(q) \/ Handle(q)
      BY <2>1, <2>2, <3>4 DEF Lend, SelectFails, Select, Support, Handle
    <3>5. CASE \E o \in Outcomes : ReleaseExact(q, o)
      BY <2>1, <2>2, <3>5 DEF ReleaseExact, Outcomes
    <3> QED
      BY <3>1, <3>2, <3>3, <3>4, <3>5 DEF RequestStep, Serve
  <2> QED
    BY <1>0, <2>3 DEF ReaderInv, ExactInv
<1>7. OpeningInv'
  BY <1>0 DEF OpeningInv
<1> QED
  BY <1>1, <1>3, <1>5, <1>6, <1>7 DEF ReaderInv

LEMMA ClosingKeeps == ASSUME ReaderInv, NEW c \in Closers, CloseStep(c) PROVE ReaderInv'
<1> USE DEF admission, lock, reader, CloseGoes
<1>0. /\ opener = "open"
      /\ UNCHANGED <<opener, requests, admission, readers, exact>>
      /\ \A d \in Closers : d # c => closers'[d] = closers[d]
      /\ closing => closing'
  <2>1. closers[c] # "idle" => opener = "open"
    BY DEF ReaderInv, OpeningInv
  <2> QED
    BY <2>1 DEF ReaderInv, ReaderTypes, CloseStep, Close, BeginClose, WriteLock, CloseSnapshot,
           CloseConnection, Unlock
<1>1. ReaderTypes'
  <2>1. freed' \in [Resources -> {0, 1}]
    BY DEF ReaderInv, ReaderTypes, CloseStep, Close, BeginClose, WriteLock, CloseSnapshot,
           CloseConnection, Unlock, ReleaseOnce
  <2>2. /\ closers' \in [Closers -> CloseStages] /\ writer' \in Closers \cup {None}
        /\ closing' \in BOOLEAN /\ closed' \in BOOLEAN
    BY DEF ReaderInv, ReaderTypes, CloseStep, Close, BeginClose, WriteLock, CloseSnapshot,
           CloseConnection, Unlock, CloseStages
  <2> QED
    BY <1>0, <2>1, <2>2 DEF ReaderInv, ReaderTypes
<1>2. LockInv'
  BY <1>0, ReaderAssumption DEF ReaderInv, ReaderTypes, LockInv, Inside, CloseStep, Close, BeginClose, WriteLock,
         CloseSnapshot, CloseConnection, Unlock
<1>3. ReleaseInv'
  <2> USE <1>0 DEF ReaderInv, ReaderTypes, LockInv, ReleaseInv, Inside
  <2>1. CASE BeginClose(c)
    BY <2>1 DEF BeginClose
  <2>2. CASE WriteLock(c) \/ Unlock(c)
    BY <2>2 DEF WriteLock, Unlock
  <2>3. ASSUME NEW done \in BOOLEAN, CloseSnapshot(c, done) PROVE ReleaseInv'
    <3>1. writer = c /\ closing /\ readers = {} /\ freed["connection"] = 0 /\ ~closed
      BY <2>3, ReaderAssumption DEF CloseSnapshot, Resources
    <3>2. freed'["connection"] = 0 /\ (closers'[c] = "disconnecting" => freed'["snapshot"] = 1)
      BY <2>3, <3>1 DEF CloseSnapshot, ReleaseOnce, Resources
    <3>3. \A d \in Closers : d # c => closers[d] \in {"idle", "done"}
      BY <2>3 DEF CloseSnapshot
    <3> QED
      BY <2>3, <3>1, <3>2, <3>3 DEF CloseSnapshot
  <2>4. ASSUME NEW done \in BOOLEAN, CloseConnection(c, done) PROVE ReleaseInv'
    <3>1. writer = c /\ closing /\ freed["connection"] = 0 /\ freed["snapshot"] = 1 /\ ~closed
      BY <2>4, ReaderAssumption DEF CloseConnection, Resources
    <3>2. freed'["snapshot"] = 1 /\ (closed' <=> freed'["connection"] = 1)
      BY <2>4, <3>1 DEF CloseConnection, ReleaseOnce, Resources
    <3>3. \A d \in Closers : d # c => closers[d] \in {"idle", "done"}
      BY <2>4 DEF CloseConnection
    <3> QED
      BY <2>4, <3>1, <3>2, <3>3 DEF CloseConnection
  <2> QED
    BY <2>1, <2>2, <2>3, <2>4 DEF CloseStep, Close
<1>4. ExactInv' /\ OpeningInv'
  BY <1>0 DEF ReaderInv, ExactInv, OpeningInv
<1> QED
  BY <1>1, <1>2, <1>3, <1>4 DEF ReaderInv

-----------------------------------------------------------------------------
(* Permits. *)

Taken == {q \in Requests : requests[q] \in Admitted}
Permits == permits + Cardinality(Taken) = MaximumConcurrency

LEMMA PermitsKept == ASSUME ReaderTypes, Permits, [Next]_vars PROVE Permits'
<1>1. CASE UNCHANGED <<permits, Taken>>
  BY <1>1 DEF Permits
<1>2. IsFiniteSet(Taken)
  BY ReaderAssumption, FS_Subset DEF Taken
<1>3. ASSUME NEW q \in Requests, Admit(q) PROVE Permits'
  <2>1. Taken' = Taken \cup {q} /\ q \notin Taken
    BY <1>3 DEF ReaderTypes, Admit, Goes, Taken, Admitted, Lent
  <2>2. Cardinality(Taken') = Cardinality(Taken) + 1
    BY <1>2, <2>1, FS_AddElement
  <2> QED
    BY <1>2, <1>3, <2>2, FS_CardinalityType DEF ReaderTypes, Admit, Permits
<1>4. ASSUME NEW q \in Requests, ReturnPermit(q) PROVE Permits'
  <2>1. Taken' = Taken \ {q} /\ q \in Taken
    BY <1>4 DEF ReaderTypes, ReturnPermit, Goes, Taken, Admitted, Lent
  <2>2. Cardinality(Taken') = Cardinality(Taken) - 1
    BY <1>2, <2>1, FS_RemoveElement
  <2> QED
    BY <1>2, <1>4, <2>2, FS_CardinalityType DEF ReaderTypes, ReturnPermit, Permits
<1>5. ASSUME NEW q \in Requests, RequestStep(q), ~Admit(q), ~ReturnPermit(q)
      PROVE UNCHANGED <<permits, Taken>>
  <2>1. UNCHANGED permits /\ \A p \in Requests : p # q => requests'[p] = requests[p]
    BY <1>5 DEF ReaderTypes, RequestStep, Serve, Reject, Submit, Expire, Interrupt, GiveUp,
         Capture, ReadLock, Lend, Refuse, SelectFails, Select, Support, Handle,
         ReleaseExact, ReturnLease, Goes, admission
  <2>2. requests'[q] \in Admitted <=> requests[q] \in Admitted
    <3>1. CASE Reject(q) \/ Submit(q) \/ Expire(q) \/ Interrupt(q) \/ GiveUp(q)
      BY <3>1 DEF ReaderTypes, Reject, Submit, Expire, Interrupt, GiveUp, Goes, Admitted, Lent
    <3>2. CASE Capture(q) \/ ReadLock(q) \/ Lend(q) \/ Refuse(q) \/ ReturnLease(q)
      BY <3>2 DEF ReaderTypes, Capture, ReadLock, Lend, Refuse, ReturnLease, Goes, Admitted, Lent
    <3>3. CASE SelectFails(q) \/ Select(q) \/ Support(q) \/ Handle(q) \/ \E o \in Outcomes : ReleaseExact(q, o)
      BY <3>3 DEF ReaderTypes, SelectFails, Select, Support, Handle, ReleaseExact, Goes, Admitted, Lent
    <3> QED
      BY <1>5, <3>1, <3>2, <3>3 DEF RequestStep, Serve
  <2> QED
    BY <2>1, <2>2 DEF Taken
<1>6. CASE OpenStep \/ UNCHANGED vars
  BY <1>1, <1>6 DEF OpenStep, SelectFixed, Publish, OpenFails, Abandon, Opens, vars, admission, Taken
<1>7. ASSUME NEW c \in Closers, CloseStep(c) PROVE UNCHANGED <<permits, Taken>>
  BY <1>7 DEF CloseStep, BeginClose, Close, WriteLock, CloseSnapshot, CloseConnection, Unlock, admission, Taken
<1> QED
  BY <1>1, <1>3, <1>4, <1>5, <1>6, <1>7 DEF Next, OpenStep, RequestStep, CloseStep

-----------------------------------------------------------------------------

LEMMA StepKeeps == ASSUME ReaderInv, [Next]_vars PROVE ReaderInv'
<1>1. CASE UNCHANGED vars
  BY <1>1 DEF vars, admission, lock, reader, ReaderInv, ReaderTypes, OpeningInv, LockInv, ReleaseInv,
              ExactInv, Inside
<1> QED
  BY <1>1, OpeningKeeps, RequestKeeps, ClosingKeeps DEF Next, OpenStep, RequestStep, CloseStep

LEMMA InitHolds == Init => ReaderInv /\ Permits
<1> SUFFICES ASSUME Init PROVE ReaderInv /\ Permits
  OBVIOUS
<1>1. ReaderTypes
  <2>1. "new" \in Stages /\ "idle" \in CloseStages /\ "connected" \in OpenStages
        /\ MaximumConcurrency \in Int
    BY ReaderAssumption DEF Stages, CloseStages, OpenStages
  <2> QED
    BY <2>1 DEF Init, ReaderTypes
<1>2. OpeningInv /\ ReleaseInv /\ ExactInv
  BY DEF Init, OpeningInv, ReleaseInv, ExactInv, Resources
<1>3. LockInv
  BY ReaderAssumption DEF Init, LockInv, Lent, Inside
<1>4. Taken = {}
  BY DEF Init, Taken, Admitted, Lent
<1>5. Permits
  BY <1>4, FS_EmptySet, ReaderAssumption DEF Init, Permits
<1> QED
  BY <1>1, <1>2, <1>3, <1>5 DEF ReaderInv

\* The inductive invariant of the reader and its boundary.
THEOREM ReaderInvariant == Spec => [](ReaderInv /\ Permits)
<1>1. ReaderInv /\ Permits /\ [Next]_vars => (ReaderInv /\ Permits)'
  BY StepKeeps, PermitsKept DEF ReaderInv
<1> QED
  BY <1>1, InitHolds, PTL DEF Spec

\* No request reads a snapshot, or over a connection, that a close has released.
THEOREM LeasedIsOpen == Spec => []LeasedSnapshotOpen
<1>1. ReaderInv => LeasedSnapshotOpen
  <2> SUFFICES ASSUME ReaderInv, NEW q \in Requests, requests[q] \in Lent
               PROVE /\ \A r \in Resources : freed[r] = 0
                     /\ (requests[q] = "handling" /\ q \in Historical) => exact[q] = "open"
    BY DEF LeasedSnapshotOpen
  <2>1. opener = "open"
    BY DEF ReaderInv, OpeningInv, Lent
  <2>2. freed["snapshot"] # 1 /\ freed["connection"] # 1
    BY <2>1 DEF ReaderInv, ReleaseInv
  <2> QED
    BY <2>2 DEF ReaderInv, ReaderTypes, ExactInv, Resources
<1> QED
  BY <1>1, ReaderInvariant, PTL

\* What a request took is given back on every path, for any number of permits.
THEOREM EverythingReturned == Spec => []NothingLeaks
<1>1. ReaderInv /\ Permits => NothingLeaks
  BY DEF NothingLeaks, ReaderInv, Permits, Taken, LockInv, ExactInv, Lent
<1> QED
  BY <1>1, ReaderInvariant, PTL

\* The reader implements SharedSnapshot.
THEOREM ImplementsShared == Spec => HoldsSnapshot
<1>1. Init => Shared!Init
  BY DEF Init, Shared!Init, Phase, Borrowing, Lent
<1>2. ReaderInv /\ [Next]_vars => [Shared!Next]_<<Phase, Borrowing, freed>>
  <2> SUFFICES ASSUME ReaderInv, [Next]_vars PROVE [Shared!Next]_<<Phase, Borrowing, freed>>
    OBVIOUS
  <2>0. ASSUME UNCHANGED <<Phase, Borrowing, freed>> PROVE [Shared!Next]_<<Phase, Borrowing, freed>>
    BY <2>0
  <2>1. CASE UNCHANGED vars
    BY <2>0, <2>1 DEF vars, reader, Phase, Borrowing
  <2>2. CASE OpenStep
    <3>1. opener # "open" /\ Phase = "opening" /\ Borrowing = {} /\ Borrowing' = {} /\ ~closing /\ closing' = closing
      BY <2>2 DEF ReaderInv, OpeningInv, Lent, Phase, Borrowing, OpenStep, SelectFixed, Publish,
                  OpenFails, Abandon, Opens
    <3>2. CASE SelectFixed \/ OpenFails
      BY <2>0, <3>1, <3>2 DEF SelectFixed, OpenFails, Opens, Phase
    <3>3. CASE Publish
      <4>1. Phase' = "lending" /\ freed' = freed /\ \A r \in Resources : freed[r] = 0
        BY <3>1, <3>3 DEF Publish, Opens, Phase, ReaderInv, OpeningInv, Resources
      <4> QED
        BY <3>1, <4>1 DEF Shared!Next, Shared!Open
    <3>4. ASSUME NEW done \in BOOLEAN, Abandon(done) PROVE [Shared!Next]_<<Phase, Borrowing, freed>>
      <4>1. Phase' = "opening"
        BY <3>4 DEF Abandon, Opens, Phase
      <4>2. \E r \in Resources : ReleaseOnce(r, done)
        BY <3>4 DEF Abandon, Resources
      <4>3. freed' = freed \/ \E r \in Resources : freed[r] = 0 /\ freed' = [freed EXCEPT ![r] = 1]
        BY <4>2 DEF ReleaseOnce
      <4> QED
        BY <2>0, <3>1, <4>1, <4>3 DEF Shared!Next, Shared!Free
    <3> QED
      BY <2>2, <3>2, <3>3, <3>4 DEF OpenStep
  <2>3. ASSUME NEW q \in Requests, RequestStep(q) PROVE [Shared!Next]_<<Phase, Borrowing, freed>>
    <3>1. /\ UNCHANGED <<Phase, freed>>
          /\ \A p \in Requests : p # q => requests'[p] = requests[p]
      BY <2>3 DEF ReaderInv, ReaderTypes, Phase, RequestStep, Serve, Reject, Submit, Expire, Interrupt,
           GiveUp, Admit, Capture, ReadLock, Lend, Refuse, SelectFails, Select, Support, Handle,
           ReleaseExact, ReturnLease, ReturnPermit, Goes, reader
    <3>2. requests'[q] \in Lent /\ requests[q] \notin Lent => ~closing /\ opener = "open"
      BY <2>3 DEF ReaderInv, ReaderTypes, OpeningInv, RequestStep, Serve, Reject, Submit, Expire, Interrupt,
           GiveUp, Admit, Capture, ReadLock, Lend, Refuse, SelectFails, Select, Support, Handle,
           ReleaseExact, ReturnLease, ReturnPermit, Goes, Lent
    <3>3. \/ Borrowing' = Borrowing
          \/ Borrowing' = Borrowing \ {q}
          \/ Borrowing' = Borrowing \cup {q} /\ Phase = "lending"
      BY <3>1, <3>2 DEF Borrowing, Phase
    <3> QED
      BY <2>0, <3>1, <3>3 DEF Shared!Next, Shared!Borrow, Shared!Return
  <2>4. ASSUME NEW c \in Closers, CloseStep(c) PROVE [Shared!Next]_<<Phase, Borrowing, freed>>
    <3>1. Borrowing' = Borrowing /\ opener' = opener
      BY <2>4 DEF CloseStep, BeginClose, Close, WriteLock, CloseSnapshot, CloseConnection, Unlock, Borrowing
    <3>2. CASE BeginClose(c)
      <4>1. freed' = freed /\ (Phase' = Phase \/ (Phase = "lending" /\ Phase' = "draining"))
        BY <3>2 DEF BeginClose, Phase
      <4> QED
        BY <2>0, <3>1, <4>1 DEF Shared!Next, Shared!Drain
    <3>3. CASE WriteLock(c) \/ Unlock(c)
      BY <2>0, <3>1, <3>3 DEF WriteLock, Unlock, Phase
    <3>4. closers[c] \in {"dropping", "disconnecting"} =>
              opener = "open" /\ closing /\ Borrowing = {} /\ Phase = "draining"
      <4>1. SUFFICES ASSUME closers[c] \in {"dropping", "disconnecting"}
                     PROVE opener = "open" /\ closing /\ Borrowing = {} /\ Phase = "draining"
        OBVIOUS
      <4>2. opener = "open" /\ closing /\ writer = c
        BY <4>1 DEF ReaderInv, OpeningInv, LockInv, Inside
      <4>3. readers = {}
        BY <4>2, ReaderAssumption DEF ReaderInv, LockInv
      <4> QED
        BY <4>2, <4>3 DEF ReaderInv, LockInv, Borrowing, Phase
    <3>5. ASSUME NEW done \in BOOLEAN, CloseSnapshot(c, done)
          PROVE [Shared!Next]_<<Phase, Borrowing, freed>>
      <4>1. Borrowing = {} /\ Phase = "draining" /\ Phase' = Phase
        BY <3>1, <3>4, <3>5 DEF CloseSnapshot, Phase
      <4>2. freed' = freed \/ (freed["snapshot"] = 0 /\ freed' = [freed EXCEPT !["snapshot"] = 1])
        BY <3>5 DEF CloseSnapshot, ReleaseOnce
      <4> QED
        BY <2>0, <3>1, <4>1, <4>2 DEF Shared!Next, Shared!Free, Resources
    <3>6. ASSUME NEW done \in BOOLEAN, CloseConnection(c, done)
          PROVE [Shared!Next]_<<Phase, Borrowing, freed>>
      <4>1. Borrowing = {} /\ Phase = "draining" /\ Phase' = Phase /\ freed["snapshot"] = 1
        BY <3>1, <3>4, <3>6 DEF CloseConnection, Phase, ReaderInv, ReleaseInv
      <4>2. freed' = freed \/ (freed["connection"] = 0 /\ freed' = [freed EXCEPT !["connection"] = 1])
        BY <3>6 DEF CloseConnection, ReleaseOnce
      <4> QED
        BY <2>0, <3>1, <4>1, <4>2 DEF Shared!Next, Shared!Free, Resources
    <3> QED
      BY <2>4, <3>2, <3>3, <3>5, <3>6 DEF CloseStep, Close
  <2> QED
    BY <2>1, <2>2, <2>3, <2>4 DEF Next, OpenStep, RequestStep, CloseStep
<1> QED
  BY <1>1, <1>2, ReaderInvariant, PTL DEF Spec, HoldsSnapshot, Shared!Spec
-----------------------------------------------------------------------------
(* Why everything settles: someone can always go, and nobody ever goes back. *)

\* The guards under which the thread of a request, or of a close, takes a step.
CanServe(q) ==
    \/ requests[q] \in Admitted \ {"locking"}
    \/ requests[q] = "waiting" /\ (permits > 0 \/ q \in late)
    \/ requests[q] = "locking" /\ writer = None
CanClose(c) ==
    \/ closers[c] \in {"dropping", "disconnecting", "unlocking"}
    \/ closers[c] = "draining" /\ writer = None /\ readers = {}

\* Requests wait for permits and for the lock, a close for the requests that hold it:
\* never do all of them wait.
NeverStuck ==
    (\E q \in Requests : requests[q] \notin {"new", "done"}) \/ (\E c \in Closers : Inside(c))
        => (\E q \in Requests : CanServe(q)) \/ (\E c \in Closers : CanClose(c))

\* Requests and closes never wait for one another in a circle, for any number of permits.
THEOREM NobodyStuck == Spec => []NeverStuck
<1>1. ReaderInv /\ Permits => NeverStuck
  <2> SUFFICES ASSUME ReaderInv, Permits,
                      \A q \in Requests : ~CanServe(q), \A c \in Closers : ~CanClose(c)
               PROVE  /\ \A q \in Requests : requests[q] \in {"new", "done"}
                      /\ \A c \in Closers : ~Inside(c)
    BY DEF NeverStuck
  <2>1. writer = None
    BY DEF ReaderInv, ReaderTypes, LockInv, CanClose
  <2>2. \A q \in Requests : requests[q] \notin Admitted
    BY <2>1 DEF CanServe
  <2>3. \A c \in Closers : ~Inside(c)
    <3>1. readers = {}
      BY <2>2 DEF ReaderInv, LockInv, Lent, Admitted
    <3> QED
      BY <2>1, <3>1 DEF CanClose, ReaderInv, ReaderTypes, CloseStages, Inside
  <2>4. permits > 0
    <3>1. Taken = {}
      BY <2>2 DEF Taken
    <3> QED
      BY <3>1, FS_EmptySet, ReaderAssumption DEF Permits, ReaderInv, ReaderTypes
  <2>5. \A q \in Requests : requests[q] # "waiting"
    BY <2>4 DEF CanServe
  <2> QED
    BY <2>2, <2>3, <2>5 DEF ReaderInv, ReaderTypes, Stages, Admitted
<1> QED
  BY <1>1, ReaderInvariant, PTL

\* How far an opening, a request and a close are.
OpenRank(stage) ==
    CASE stage = "connected" -> 0 [] stage = "selected" -> 1 [] stage \in {"open", "dropping"} -> 2
      [] stage = "disconnecting" -> 3 [] OTHER -> 4
RequestRank(stage) ==
    CASE stage = "new" -> 0 [] stage = "waiting" -> 1 [] stage = "admitted" -> 2
      [] stage = "locking" -> 3 [] stage = "locked" -> 4 [] stage = "selecting" -> 5
      [] stage = "selected" -> 6 [] stage = "handling" -> 7 [] stage = "releasing" -> 8
      [] stage = "returning" -> 9 [] stage = "finishing" -> 10 [] OTHER -> 11
CloseRank(stage) ==
    CASE stage = "idle" -> 0 [] stage = "draining" -> 1 [] stage = "dropping" -> 2
      [] stage = "disconnecting" -> 3 [] stage = "unlocking" -> 4 [] OTHER -> 5

OpenAdvances == OpenRank(opener) < OpenRank(opener')
RequestAdvances(q) == RequestRank(requests[q]) < RequestRank(requests'[q])
CloseAdvances(c) == CloseRank(closers[c]) < CloseRank(closers'[c])
IsLate(q) == q \notin late /\ late' = late \cup {q}

\* A step that changes anything moves one of them on and leaves the others where they are.
OneAdvances ==
    \/ OpenAdvances /\ UNCHANGED <<requests, late, closers>>
    \/ \E q \in Requests :
         /\ \/ RequestAdvances(q) /\ UNCHANGED late
            \/ IsLate(q) /\ UNCHANGED requests
         /\ \A p \in Requests \ {q} : requests'[p] = requests[p]
         /\ UNCHANGED <<opener, closers>>
    \/ \E c \in Closers :
         /\ CloseAdvances(c)
         /\ \A d \in Closers \ {c} : closers'[d] = closers[d]
         /\ UNCHANGED <<opener, requests, late>>

\* Every step brings one thread nearer to its end, so finitely many threads take finitely
\* many: with NobodyStuck, all of them end unless the threads stop running.
THEOREM EveryStepAdvances == Spec => [][OneAdvances]_vars
<1>1. ReaderInv /\ [Next]_vars => [OneAdvances]_vars
  <2> SUFFICES ASSUME ReaderInv, Next PROVE OneAdvances
    OBVIOUS
  <2>1. CASE OpenStep
    BY <2>1 DEF OpenStep, SelectFixed, Publish, OpenFails, Abandon, Opens, OneAdvances, OpenAdvances,
                OpenRank, admission
  <2>2. ASSUME NEW q \in Requests, RequestStep(q) PROVE OneAdvances
    <3>1. UNCHANGED <<opener, closers>> /\ \A p \in Requests \ {q} : requests'[p] = requests[p]
      BY <2>2 DEF ReaderInv, ReaderTypes, RequestStep, Serve, Reject, Submit, Expire, Interrupt,
           GiveUp, Admit, Capture, ReadLock, Lend, Refuse, SelectFails, Select, Support, Handle,
           ReleaseExact, ReturnLease, ReturnPermit, Goes, reader
    <3>2. CASE Expire(q)
      BY <3>1, <3>2 DEF Expire, IsLate, OneAdvances
    <3>3. CASE ~Expire(q)
      <4>1. UNCHANGED late /\ RequestAdvances(q)
        BY <2>2, <3>3 DEF ReaderInv, ReaderTypes, RequestStep, Serve, Reject, Submit, Interrupt,
             GiveUp, Admit, Capture, ReadLock, Lend, Refuse, SelectFails, Select, Support, Handle,
             ReleaseExact, ReturnLease, ReturnPermit, Goes, admission, RequestAdvances, RequestRank
      <4> QED
        BY <3>1, <4>1 DEF OneAdvances
    <3> QED
      BY <3>2, <3>3
  <2>3. ASSUME NEW c \in Closers, CloseStep(c) PROVE OneAdvances
    <3>1. UNCHANGED <<opener, requests, late>> /\ \A d \in Closers \ {c} : closers'[d] = closers[d]
      BY <2>3 DEF ReaderInv, ReaderTypes, CloseStep, BeginClose, Close, WriteLock, CloseSnapshot,
           CloseConnection, Unlock, CloseGoes, admission
    <3>2. CloseAdvances(c)
      BY <2>3 DEF ReaderInv, ReaderTypes, CloseStep, BeginClose, Close, WriteLock, CloseSnapshot,
           CloseConnection, Unlock, CloseGoes, CloseAdvances, CloseRank
    <3> QED
      BY <3>1, <3>2 DEF OneAdvances
  <2> QED
    BY <2>1, <2>2, <2>3 DEF Next, OpenStep, RequestStep, CloseStep
<1> QED
  BY <1>1, ReaderInvariant, PTL DEF Spec
=============================================================================
