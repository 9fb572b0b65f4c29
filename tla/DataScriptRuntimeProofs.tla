----------------------- MODULE DataScriptRuntimeProofs -----------------------
(***************************************************************************)
(* For any number of sessions, requests and seed jobs, overlapping or not: *)
(* the data of a session only grows, its counts and ordinals agree,        *)
(* cursors belong to the current revision, and a released session stays    *)
(* empty.                                                                  *)
(***************************************************************************)
EXTENDS DataScriptRuntimeProperties, SequenceTheorems, FiniteSetTheorems, TLAPS

Elements(s) == {s[i] : i \in DOMAIN s}
Task == [id : 1..MaxRequests, request : Requests, generation : Owners, runtime : Runtimes]
Chain == [job : 1..MaxRequests, owner : Owners, next : Nat, end : Int]

\* The data set of a restored session: the counts are those of its ordinals.
Sound(rt) ==
    /\ rt.seed.status # "none" /\ rt.count >= SmallCount
    /\ rt.ordinals = 0..(rt.count - SmallCount - 1)
    /\ rt.seed.total = rt.count

\* Whatever is queued is of a session that has begun; the current one is built once.
OwnersInv ==
    /\ owner \in used \cup {NoOwner}
    /\ \A o \in Owners : builds[o] > 0 => o \in used
    /\ \A m \in Elements(microtasks) : m.generation \in used
    /\ \A c \in chains : c.owner \in used
    /\ owner = NoOwner => runtime = NoRuntime /\ ~initialization
    /\ owner # NoOwner /\ builds[owner] > 0
           => builds[owner] = 1 /\ initialization /\ runtime = NoRuntime

\* The requests of the current session captured its current data, and its jobs are not
\* ahead of it.
DataInv ==
    /\ runtime # NoRuntime => Sound(runtime)
    /\ \A m \in Elements(microtasks) : m.generation = owner =>
           runtime # NoRuntime /\ Sound(m.runtime) /\ m.runtime.count = runtime.count
    /\ \A c \in chains : c.owner = owner =>
           runtime # NoRuntime /\ c.next <= runtime.count - SmallCount

RuntimeInv == RuntimeTypeOK /\ OwnersInv /\ DataInv /\ CursorsOfThisRevision

-----------------------------------------------------------------------------
(* Sequences by their elements.                                            *)

LEMMA NoElements == Elements(<<>>) = {}
  BY DEF Elements

LEMMA ElementsTyped ==
    ASSUME NEW S, NEW s \in Seq(S)
    PROVE  Elements(s) \subseteq S
  BY LenProperties, ElementOfSeq DEF Elements

LEMMA AppendElements ==
    ASSUME NEW S, NEW s \in Seq(S), NEW e \in S
    PROVE  Append(s, e) \in Seq(S) /\ Elements(Append(s, e)) = Elements(s) \cup {e}
<1>1. /\ Append(s, e) \in Seq(S) /\ Len(Append(s, e)) = Len(s) + 1 /\ Len(s) \in Nat
      /\ DOMAIN s = 1..Len(s)
      /\ \A i \in 1..Len(s) : Append(s, e)[i] = s[i]
      /\ Append(s, e)[Len(s) + 1] = e
  BY AppendProperties, LenProperties
<1>2. DOMAIN Append(s, e) = 1..(Len(s) + 1)
  BY <1>1, LenProperties
<1> QED
  BY <1>1, <1>2 DEF Elements

LEMMA TailElements ==
    ASSUME NEW S, NEW s \in Seq(S), s # <<>>
    PROVE  /\ Head(s) \in S /\ Head(s) \in Elements(s)
           /\ Tail(s) \in Seq(S) /\ Elements(Tail(s)) \subseteq Elements(s)
<1>1. /\ Head(s) \in S /\ Tail(s) \in Seq(S) /\ Len(Tail(s)) = Len(s) - 1
      /\ \A i \in 1..Len(Tail(s)) : Tail(s)[i] = s[i + 1]
  BY HeadTailProperties
<1>2. Len(s) \in Nat /\ Len(s) # 0 /\ DOMAIN s = 1..Len(s)
  BY LenProperties, EmptySeq
<1>3. DOMAIN Tail(s) = 1..(Len(s) - 1)
  BY <1>1, LenProperties
<1>4. Head(s) = s[1]
  OBVIOUS
<1> QED
  BY <1>1, <1>2, <1>3, <1>4 DEF Elements

\* The tokens a pool keeps are among those it had.
LEMMA RetainedElements ==
    ASSUME NEW S, NEW s \in Seq(S)
    PROVE  Retained(s) \in Seq(S) /\ Elements(Retained(s)) \subseteq Elements(s)
<1>1. CASE Len(s) >= CursorLimit
  <2>1. s # <<>>
    BY <1>1, RuntimeAssumption, EmptySeq
  <2> QED
    BY <1>1, <2>1, TailElements DEF Retained
<1>2. CASE ~(Len(s) >= CursorLimit)
  BY <1>2 DEF Retained
<1> QED
  BY <1>1, <1>2

\* A batch is an interval from the next ordinal of its job.
LEMMA BundleIsInterval ==
    ASSUME NEW c \in Chain
    PROVE  /\ Added(c) \in Nat
           /\ Bundle(c) = c.next..(c.next + Added(c) - 1)
<1>1. c.next \in Nat /\ c.end \in Int /\ BatchSize \in Nat
  BY RuntimeAssumption DEF Chain
<1> DEFINE last == IF c.end - 1 < c.next + BatchSize - 1 THEN c.end - 1
                   ELSE c.next + BatchSize - 1
<1>2. last \in Int /\ Bundle(c) = c.next..last
  BY <1>1 DEF Bundle
<1> HIDE DEF last
<1>3. Added(c) = IF c.next > last THEN 0 ELSE last - c.next + 1
  BY <1>1, <1>2, FS_Interval DEF Added
<1> QED
  BY <1>1, <1>2, <1>3

\* A restored runtime has the canonical dataset; the counts of a sound one are exact.
LEMMA RestoredSound == Restored \in Runtimes /\ Sound(Restored) /\ Restored # NoRuntime
<1>1. Restored.seed = [status |-> "ready", completed |-> 0, target |-> 0, total |-> SmallCount]
  BY DEF Restored, Seed
<1>2. Restored.seed \in Seeds
  BY <1>1, RuntimeAssumption DEF Seeds
<1>3. Restored.count = SmallCount /\ Restored.ordinals = {}
  BY DEF Restored
<1>4. Restored \in Runtimes
  BY <1>2, <1>3, RuntimeAssumption DEF Restored, Runtimes
<1>5. SmallCount - SmallCount - 1 = -1 /\ 0..(-1) = {}
  BY RuntimeAssumption
<1>6. Sound(Restored)
  BY <1>1, <1>3, <1>5, RuntimeAssumption DEF Sound
<1>7. NoRuntime.seed.status = "none"
  BY DEF NoRuntime, Seed
<1> QED
  BY <1>1, <1>4, <1>6, <1>7

LEMMA NoRuntimeType == NoRuntime \in Runtimes /\ NoRuntime.seed.status = "none"
<1>1. NoRuntime.seed = [status |-> "none", completed |-> 0, target |-> 0, total |-> 0]
  BY DEF NoRuntime, Seed
<1>2. NoRuntime.seed \in Seeds
  BY <1>1 DEF Seeds
<1> QED
  BY <1>1, <1>2 DEF NoRuntime, Runtimes

-----------------------------------------------------------------------------
(* The steps.                                                              *)

LEMMA InitRuntime == RuntimeInit => RuntimeInv
<1> SUFFICES ASSUME RuntimeInit PROVE RuntimeInv
  OBVIOUS
<1> USE RuntimeAssumption
<1>1. Elements(microtasks) = {} /\ PageTokens = {}
  BY NoElements DEF RuntimeInit, Elements, PageTokens
<1>2. RuntimeTypeOK
  <2>1. \A S : <<>> \in Seq(S)
    BY EmptySeq
  <2>2. [o \in Owners |-> <<>>] \in [Owners -> Seq(Waiting)]
    BY <2>1
  <2>3. 0 \in 0..MaxRequests /\ 0 \in 0..MaxCursors
    OBVIOUS
  <2> QED
    BY <2>1, <2>2, <2>3, NoRuntimeType DEF RuntimeInit, RuntimeTypeOK
<1>3. OwnersInv /\ DataInv /\ CursorsOfThisRevision
  BY <1>1 DEF RuntimeInit, OwnersInv, DataInv, CursorsOfThisRevision
<1> QED
  BY <1>2, <1>3 DEF RuntimeInv

\* A session begins or ends: whatever is queued belongs to another.
LEMMA SessionStepKeeps ==
    ASSUME RuntimeInv, NEW o \in Owners, Initialize(o) \/ Release(o)
    PROVE  RuntimeInv'
<1> USE RuntimeAssumption
<1>0. RuntimeTypeOK /\ OwnersInv
  BY DEF RuntimeInv
<1>1. /\ owner' \in Owners \cup {NoOwner} /\ used' \subseteq Owners /\ used \subseteq used'
      /\ owner' \in used' \cup {NoOwner} /\ owner' \notin used
      /\ runtime' = NoRuntime /\ initialization' = FALSE
      /\ pageCursors' = <<>> /\ lookupCursors' = {}
      /\ UNCHANGED <<builds, waiters, microtasks, requested, chains, issued>>
  BY <1>0 DEF Initialize, Release, DropCursors, promises, RuntimeTypeOK, OwnersInv
<1>2. RuntimeTypeOK'
  BY <1>0, <1>1, NoRuntimeType, EmptySeq DEF RuntimeTypeOK
<1>3. OwnersInv'
  BY <1>0, <1>1 DEF OwnersInv, RuntimeTypeOK
<1>4. DataInv'
  BY <1>0, <1>1 DEF DataInv, OwnersInv
<1>5. CursorsOfThisRevision'
  BY <1>1, NoElements DEF CursorsOfThisRevision, PageTokens, Elements
<1> QED
  BY <1>2, <1>3, <1>4, <1>5 DEF RuntimeInv

\* A request is queued with the data of the moment, or waits for the session's build.
LEMMA RequestKeeps ==
    ASSUME RuntimeInv, NEW r \in Requests, Request(r)
    PROVE  RuntimeInv'
<1> USE RuntimeAssumption
<1>0. RuntimeTypeOK /\ OwnersInv /\ DataInv /\ CursorsOfThisRevision
  BY DEF RuntimeInv
<1>1. /\ owner \in Owners /\ owner \in used /\ requested' = requested + 1
      /\ requested + 1 \in 1..MaxRequests
      /\ UNCHANGED <<owner, runtime, used, chains, cursorVars>>
  BY <1>0 DEF Request, RuntimeTypeOK, OwnersInv
<1>2. CursorsOfThisRevision'
  BY <1>0, <1>1 DEF CursorsOfThisRevision, PageTokens, cursorVars
<1>3. CASE runtime # NoRuntime
  <2> DEFINE task == [id |-> requested + 1, request |-> r,
                      generation |-> owner, runtime |-> runtime]
  <2>1. microtasks' = Append(microtasks, task) /\ UNCHANGED <<initialization, builds, waiters>>
    BY <1>3 DEF Request, promises
  <2>2. task \in Task
    BY <1>0, <1>1 DEF Task, RuntimeTypeOK
  <2>3. microtasks \in Seq(Task)
    BY <1>0 DEF RuntimeTypeOK, Task
  <2>4. microtasks' \in Seq(Task) /\ Elements(microtasks') = Elements(microtasks) \cup {task}
    BY <2>1, <2>2, <2>3, AppendElements
  <2>5. RuntimeTypeOK'
    BY <1>0, <1>1, <2>1, <2>4 DEF RuntimeTypeOK, Task, cursorVars
  <2>6. OwnersInv'
    BY <1>0, <1>1, <2>1, <2>4 DEF OwnersInv
  <2>7. DataInv'
    BY <1>0, <1>1, <1>3, <2>1, <2>4 DEF DataInv
  <2> QED
    BY <1>2, <2>5, <2>6, <2>7 DEF RuntimeInv
<1>4. CASE runtime = NoRuntime
  <2>1. /\ UNCHANGED microtasks /\ EnsureRuntime
        /\ waiters' = [waiters EXCEPT ![owner] =
                           Append(@, [id |-> requested + 1, request |-> r])]
    BY <1>4 DEF Request
  <2>2. waiters' \in [Owners -> Seq(Waiting)]
    <3>1. [id |-> requested + 1, request |-> r] \in Waiting
      BY <1>1 DEF Waiting
    <3>2. Append(waiters[owner], [id |-> requested + 1, request |-> r]) \in Seq(Waiting)
      BY <1>0, <1>1, <3>1, AppendProperties DEF RuntimeTypeOK
    <3> QED
      BY <1>0, <1>1, <2>1, <3>2 DEF RuntimeTypeOK
  <2>3. /\ builds' \in [Owners -> Nat] /\ initialization' \in BOOLEAN
        /\ \A o \in Owners : o # owner => builds'[o] = builds[o]
        /\ initialization'
        /\ builds'[owner] > 0 => builds'[owner] = 1
    <3>1. builds[owner] \in Nat
      BY <1>0, <1>1 DEF RuntimeTypeOK
    <3>2. CASE initialization
      BY <1>0, <1>1, <2>1, <3>1, <3>2 DEF EnsureRuntime, RuntimeTypeOK, OwnersInv
    <3>3. CASE ~initialization
      <4>1. builds[owner] = 0
        BY <1>0, <1>1, <3>1, <3>3 DEF OwnersInv
      <4>2. builds' = [builds EXCEPT ![owner] = builds[owner] + 1] /\ initialization' = TRUE
        BY <2>1, <3>3 DEF EnsureRuntime
      <4> QED
        BY <1>0, <1>1, <4>1, <4>2 DEF RuntimeTypeOK
    <3> QED
      BY <3>2, <3>3
  <2>4. RuntimeTypeOK'
    BY <1>0, <1>1, <2>1, <2>2, <2>3 DEF RuntimeTypeOK, cursorVars
  <2>5. OwnersInv'
    BY <1>0, <1>1, <1>4, <2>1, <2>3 DEF OwnersInv
  <2>6. DataInv'
    BY <1>0, <1>1, <2>1 DEF DataInv
  <2> QED
    BY <1>2, <2>4, <2>5, <2>6 DEF RuntimeInv
<1> QED
  BY <1>3, <1>4

\* The session's build publishes the restored data and queues those who waited for it.
LEMMA BuildRuntimeKeeps ==
    ASSUME RuntimeInv, NEW o \in Owners, BuildRuntime(o)
    PROVE  RuntimeInv'
<1> USE RuntimeAssumption
<1> DEFINE n == Len(waiters[o])
           task(i) == [id |-> waiters[o][i].id, request |-> waiters[o][i].request,
                       generation |-> o, runtime |-> Restored]
<1>0. RuntimeTypeOK /\ OwnersInv /\ DataInv
  BY DEF RuntimeInv
<1>1. /\ o = owner /\ builds[o] > 0 /\ runtime' = Restored /\ initialization' = FALSE
      /\ pageCursors' = <<>> /\ lookupCursors' = {}
      /\ builds' = [builds EXCEPT ![o] = builds[o] - 1]
      /\ waiters' = [waiters EXCEPT ![o] = <<>>]
      /\ microtasks' = [i \in DOMAIN waiters[o] |-> task(i)]
      /\ UNCHANGED <<owner, used, requested, chains, issued>>
  BY DEF BuildRuntime, StillOwner, DropCursors
<1>2. o \in used /\ builds[o] = 1 /\ runtime = NoRuntime
  BY <1>0, <1>1 DEF OwnersInv
<1>3. microtasks' \in Seq(Task) /\ \A m \in Elements(microtasks') :
                                       m.generation = o /\ m.runtime = Restored
  <2>1. waiters[o] \in Seq(Waiting)
    BY <1>0 DEF RuntimeTypeOK
  <2>2. DOMAIN waiters[o] = 1..n /\ n \in Nat /\ \A i \in 1..n : waiters[o][i] \in Waiting
    BY <2>1, LenProperties, ElementOfSeq
  <2>3. \A i \in 1..n : task(i) \in Task
    BY <2>2, RestoredSound DEF Task, Waiting
  <2>4. microtasks' \in [1..n -> Task]
    BY <1>1, <2>2, <2>3
  <2>5. microtasks' \in Seq(Task)
    BY <2>2, <2>4
  <2>6. \A i \in DOMAIN microtasks' : microtasks'[i] = task(i)
    BY <1>1
  <2> QED
    BY <2>5, <2>6 DEF Elements
<1>4. builds' \in [Owners -> Nat] /\ builds'[o] = 0
      /\ \A p \in Owners : p # o => builds'[p] = builds[p]
  BY <1>0, <1>1, <1>2 DEF RuntimeTypeOK
<1>5. RuntimeTypeOK'
  <2>1. \A S : <<>> \in Seq(S)
    BY EmptySeq
  <2>2. waiters' \in [Owners -> Seq(Waiting)]
    BY <1>0, <1>1, <2>1 DEF RuntimeTypeOK
  <2> QED
    BY <1>0, <1>1, <1>3, <1>4, <2>1, <2>2, RestoredSound DEF RuntimeTypeOK, Task
<1>6. OwnersInv'
  BY <1>0, <1>1, <1>2, <1>3, <1>4 DEF OwnersInv
<1>7. DataInv'
  BY <1>0, <1>1, <1>2, <1>3, RestoredSound DEF DataInv
<1>8. CursorsOfThisRevision'
  BY <1>1, NoElements DEF CursorsOfThisRevision, PageTokens, Elements
<1> QED
  BY <1>5, <1>6, <1>7, <1>8 DEF RuntimeInv

\* A build that fails leaves its session empty, one of an earlier session does nothing.
LEMMA BuildFailsKeeps ==
    ASSUME RuntimeInv, NEW o \in Owners, BuildFails(o)
    PROVE  RuntimeInv'
<1> USE RuntimeAssumption
<1>0. RuntimeTypeOK /\ OwnersInv /\ DataInv /\ CursorsOfThisRevision
  BY DEF RuntimeInv
<1>1. /\ builds[o] > 0
      /\ builds' = [builds EXCEPT ![o] = builds[o] - 1]
      /\ waiters' = [waiters EXCEPT ![o] = <<>>]
      /\ UNCHANGED <<owner, used, microtasks, requested, chains, issued>>
  BY DEF BuildFails
<1>2. builds' \in [Owners -> Nat] /\ builds'[o] = builds[o] - 1
      /\ \A p \in Owners : p # o => builds'[p] = builds[p]
  BY <1>0, <1>1 DEF RuntimeTypeOK
<1>3. waiters' \in [Owners -> Seq(Waiting)]
  <2>1. <<>> \in Seq(Waiting)
    BY EmptySeq
  <2> QED
    BY <1>0, <1>1, <2>1 DEF RuntimeTypeOK
<1>4. CASE o = owner
  <2>1. /\ runtime = NoRuntime /\ builds[o] = 1
        /\ runtime' = NoRuntime /\ initialization' = FALSE
        /\ pageCursors' = <<>> /\ lookupCursors' = {}
    BY <1>0, <1>1, <1>4 DEF OwnersInv, BuildFails, StillOwner, DropCursors
  <2>2. RuntimeTypeOK'
    BY <1>0, <1>1, <1>2, <1>3, <2>1, EmptySeq, NoRuntimeType DEF RuntimeTypeOK
  <2>3. OwnersInv' /\ DataInv'
    BY <1>0, <1>1, <1>2, <1>4, <2>1 DEF OwnersInv, DataInv
  <2>4. CursorsOfThisRevision'
    BY <2>1, NoElements DEF CursorsOfThisRevision, PageTokens, Elements
  <2> QED
    BY <2>2, <2>3, <2>4 DEF RuntimeInv
<1>5. CASE o # owner
  <2>1. UNCHANGED <<runtime, initialization, pageCursors, lookupCursors>>
    BY <1>5 DEF BuildFails, StillOwner
  <2>2. RuntimeTypeOK'
    BY <1>0, <1>1, <1>2, <1>3, <2>1 DEF RuntimeTypeOK
  <2>3. OwnersInv'
    <3>1. \A p \in Owners : builds'[p] > 0 => builds[p] > 0
      BY <1>0, <1>1, <1>2 DEF RuntimeTypeOK
    <3> QED
      BY <1>0, <1>1, <1>2, <1>5, <2>1, <3>1 DEF OwnersInv, RuntimeTypeOK
  <2>4. DataInv' /\ CursorsOfThisRevision'
    BY <1>0, <1>1, <2>1 DEF DataInv, CursorsOfThisRevision, PageTokens
  <2> QED
    BY <2>2, <2>3, <2>4 DEF RuntimeInv
<1> QED
  BY <1>4, <1>5

\* What a dispatch takes from the queue: a request of the current session has the
\* current data.
LEMMA HeadIsCurrent ==
    ASSUME RuntimeInv, microtasks # <<>>, microtasks' = Tail(microtasks)
    PROVE  /\ Head_ \in Task
           /\ microtasks' \in Seq(Task) /\ Elements(microtasks') \subseteq Elements(microtasks)
           /\ StillOwner(Head_.generation) =>
                  /\ runtime # NoRuntime /\ owner \in Owners /\ owner \in used
                  /\ Sound(Head_.runtime) /\ Head_.runtime.count = runtime.count
<1>1. microtasks \in Seq(Task)
  BY DEF RuntimeInv, RuntimeTypeOK, Task
<1>2. /\ Head_ \in Task /\ Head_ \in Elements(microtasks)
      /\ microtasks' \in Seq(Task) /\ Elements(microtasks') \subseteq Elements(microtasks)
  BY <1>1, TailElements DEF Head_
<1>3. Head_.generation \in Owners /\ Head_.generation \in used
  BY <1>2 DEF Task, RuntimeInv, OwnersInv
<1> QED
  BY <1>2, <1>3 DEF RuntimeInv, DataInv, StillOwner

\* Replacing the progress of a runtime keeps its kind.
LEMMA WithSeed ==
    ASSUME NEW rt \in Runtimes, NEW s \in Seeds
    PROVE  /\ [rt EXCEPT !.seed = s] \in Runtimes
           /\ [rt EXCEPT !.seed = s].seed = s
           /\ [rt EXCEPT !.seed = s].count = rt.count
           /\ [rt EXCEPT !.seed = s].ordinals = rt.ordinals
  BY DEF Runtimes

LEMMA WithStatus ==
    ASSUME NEW rt \in Runtimes, NEW st \in {"ready", "seeding", "error"}
    PROVE  /\ [rt EXCEPT !.seed.status = st] \in Runtimes
           /\ [rt EXCEPT !.seed.status = st].count = rt.count
           /\ Sound(rt) => Sound([rt EXCEPT !.seed.status = st])
<1> DEFINE s == [rt.seed EXCEPT !.status = st]
           new == [rt EXCEPT !.seed = s]
<1>1. s \in Seeds /\ s.status = st /\ s.total = rt.seed.total
  BY DEF Runtimes, Seeds
<1>2. [rt EXCEPT !.seed.status = st] = new
  OBVIOUS
<1>3. new \in Runtimes /\ new.seed = s /\ new.count = rt.count /\ new.ordinals = rt.ordinals
  BY <1>1, WithSeed
<1>4. Sound(rt) => Sound(new)
  BY <1>1, <1>3 DEF Sound
<1> QED
  BY <1>2, <1>3, <1>4

\* Dispatches that only take their request from the queue.
LEMMA IgnoredKeeps ==
    ASSUME RuntimeInv, DispatchReleased \/ SeedRefused \/ PageEnds
    PROVE  RuntimeInv'
<1>1. /\ microtasks # <<>> /\ microtasks' = Tail(microtasks)
      /\ UNCHANGED <<lifecycle, used, promises, requested, chains, cursorVars>>
  BY DEF DispatchReleased, SeedRefused, PageEnds, Dispatching
<1>2. /\ UNCHANGED <<owner, runtime, initialization, used, builds, waiters, requested,
                     chains, pageCursors, lookupCursors, issued>>
      /\ microtasks' \in Seq(Task) /\ Elements(microtasks') \subseteq Elements(microtasks)
  BY <1>1, HeadIsCurrent DEF lifecycle, promises, cursorVars
<1>3. RuntimeTypeOK'
  BY <1>2 DEF RuntimeInv, RuntimeTypeOK, Task
<1>4. OwnersInv'
  BY <1>2 DEF RuntimeInv, OwnersInv
<1>5. DataInv' /\ CursorsOfThisRevision'
  BY <1>2 DEF RuntimeInv, DataInv, CursorsOfThisRevision, PageTokens
<1> QED
  BY <1>3, <1>4, <1>5 DEF RuntimeInv

\* A job begins at the count of the data it will extend.
LEMMA ScheduleKeeps ==
    ASSUME RuntimeInv, microtasks # <<>>, microtasks' = Tail(microtasks),
           StillOwner(Head_.generation),
           NEW rt \in Runtimes, Sound(rt), rt.count = runtime.count, Schedule(rt)
    PROVE  RuntimeInv'
<1> USE RuntimeAssumption
<1> DEFINE first == rt.count - SmallCount
           job == [job |-> Head_.id, owner |-> owner, next |-> first,
                   end |-> first + Remaining(rt)]
<1>0. RuntimeTypeOK /\ OwnersInv /\ DataInv /\ CursorsOfThisRevision
  BY DEF RuntimeInv
<1>1. /\ Head_ \in Task
      /\ microtasks' \in Seq(Task) /\ Elements(microtasks') \subseteq Elements(microtasks)
      /\ runtime # NoRuntime /\ owner \in Owners /\ owner \in used
  BY HeadIsCurrent
<1>2. /\ chains' = chains \cup {job} /\ runtime' = rt
      /\ UNCHANGED <<owner, initialization, used, builds, waiters, requested,
                     pageCursors, lookupCursors, issued>>
  BY DEF Schedule, promises, cursorVars
<1>3. job \in Chain
  <2>1. first \in Nat
    BY DEF Sound, Runtimes
  <2>2. Remaining(rt) \in Int
    BY DEF Remaining, Runtimes, Seeds
  <2>3. Head_.id \in 1..MaxRequests
    BY <1>1 DEF Task
  <2> QED
    BY <1>1, <2>1, <2>2, <2>3 DEF Chain
<1>4. rt # NoRuntime
  BY NoRuntimeType DEF Sound
<1>5. RuntimeTypeOK'
  BY <1>0, <1>1, <1>2, <1>3 DEF RuntimeTypeOK, Task, Chain
<1>6. OwnersInv'
  BY <1>0, <1>1, <1>2, <1>4 DEF OwnersInv
<1>7. DataInv'
  <2>1. job.next <= rt.count - SmallCount
    BY DEF Sound, Runtimes
  <2> QED
    BY <1>0, <1>1, <1>2, <1>4, <2>1 DEF DataInv
<1>8. CursorsOfThisRevision'
  BY <1>0, <1>2 DEF CursorsOfThisRevision, PageTokens
<1> QED
  BY <1>5, <1>6, <1>7, <1>8 DEF RuntimeInv

LEMMA StartSeedKeeps ==
    ASSUME RuntimeInv, StartSeed
    PROVE  RuntimeInv'
<1> DEFINE old == Head_.runtime
           s == Seed("seeding", 0, Head_.request.arg, old.count)
           rt == [old EXCEPT !.seed = s]
<1>1. /\ microtasks # <<>> /\ microtasks' = Tail(microtasks)
      /\ StillOwner(Head_.generation) /\ Head_.request.op = "seed-start"
      /\ Schedule(rt)
  BY DEF StartSeed, Dispatching
<1>2. Head_ \in Task /\ Sound(old) /\ old.count = runtime.count
  BY <1>1, HeadIsCurrent
<1>3. old \in Runtimes /\ old.count \in Nat /\ Head_.request \in Requests
  BY <1>2 DEF Task, Runtimes
<1>4. Head_.request.arg \in Nat
  <2>1. Amounts \subseteq Nat /\ {0} \subseteq Nat /\ 0..MaxCursors \subseteq Nat
    BY RuntimeAssumption
  <2>2. ASSUME NEW r \in Requests PROVE r.arg \in Nat
    BY <2>1 DEF Requests
  <2> QED
    BY <1>3, <2>2
<1>5. s = [status |-> "seeding", completed |-> 0, target |-> Head_.request.arg,
           total |-> old.count]
  BY DEF Seed
<1>6. s \in Seeds
  BY <1>3, <1>4, <1>5 DEF Seeds
<1>7. rt \in Runtimes /\ rt.seed = s /\ rt.count = old.count /\ rt.ordinals = old.ordinals
  BY <1>3, <1>6, WithSeed
<1>8. Sound(rt)
  BY <1>2, <1>5, <1>7 DEF Sound
<1> HIDE DEF rt, s
<1> QED
  BY <1>1, <1>2, <1>7, <1>8, ScheduleKeeps

LEMMA RetrySeedKeeps ==
    ASSUME RuntimeInv, RetrySeed
    PROVE  RuntimeInv'
<1> DEFINE old == Head_.runtime
           rt == [old EXCEPT !.seed.status = "seeding"]
<1>1. /\ microtasks # <<>> /\ microtasks' = Tail(microtasks)
      /\ StillOwner(Head_.generation)
      /\ Schedule(rt)
  BY DEF RetrySeed, Dispatching
<1>2. Head_ \in Task /\ Sound(old) /\ old.count = runtime.count
  BY <1>1, HeadIsCurrent
<1>3. old \in Runtimes
  BY <1>2 DEF Task
<1>4. rt \in Runtimes /\ rt.count = old.count /\ Sound(rt)
  BY <1>2, <1>3, WithStatus
<1> HIDE DEF rt
<1> QED
  BY <1>1, <1>2, <1>4, ScheduleKeeps

\* A page issues a token of the current session and the current count.
LEMMA IssueKeeps ==
    ASSUME RuntimeInv, Page \/ Lookup
    PROVE  RuntimeInv'
<1> USE RuntimeAssumption
<1>0. RuntimeTypeOK /\ OwnersInv /\ DataInv /\ CursorsOfThisRevision
  BY DEF RuntimeInv
<1>1. /\ microtasks # <<>> /\ microtasks' = Tail(microtasks)
      /\ StillOwner(Head_.generation)
      /\ issued < MaxCursors /\ issued' = issued + 1
      /\ UNCHANGED <<owner, runtime, initialization, used, builds, waiters, requested, chains>>
  BY DEF Page, Lookup, Dispatching, lifecycle, promises
<1>2. /\ Head_ \in Task
      /\ microtasks' \in Seq(Task) /\ Elements(microtasks') \subseteq Elements(microtasks)
      /\ owner \in Owners /\ Head_.runtime.count = runtime.count
  BY <1>1, HeadIsCurrent
<1>3. /\ Token \in Tokens /\ Token.generation = owner /\ Token.count = runtime.count
      /\ issued' \in 0..MaxCursors
  <2>1. runtime.count \in Nat /\ issued + 1 \in 1..MaxCursors
    BY <1>0, <1>1 DEF RuntimeTypeOK, Runtimes
  <2> QED
    BY <1>1, <1>2, <2>1 DEF Token, Tokens
<1>4. /\ pageCursors' \in Seq(Tokens) /\ lookupCursors' \subseteq Tokens
      /\ PageTokens' \cup lookupCursors' \subseteq PageTokens \cup lookupCursors \cup {Token}
  <2>1. pageCursors \in Seq(Tokens) /\ lookupCursors \subseteq Tokens
    BY <1>0 DEF RuntimeTypeOK
  <2>2. CASE Page
    <3>1. pageCursors' = Append(Retained(pageCursors), Token) /\ UNCHANGED lookupCursors
      BY <2>2 DEF Page
    <3>2. /\ Retained(pageCursors) \in Seq(Tokens)
          /\ Elements(Retained(pageCursors)) \subseteq Elements(pageCursors)
      BY <2>1, RetainedElements
    <3>3. /\ pageCursors' \in Seq(Tokens)
          /\ Elements(pageCursors') = Elements(Retained(pageCursors)) \cup {Token}
      BY <1>3, <3>1, <3>2, AppendElements
    <3>4. PageTokens = Elements(pageCursors) /\ PageTokens' = Elements(pageCursors')
      BY DEF PageTokens, Elements
    <3> QED
      BY <2>1, <3>1, <3>2, <3>3, <3>4
  <2>3. CASE Lookup
    <3>1. lookupCursors' = lookupCursors \cup {Token} /\ UNCHANGED pageCursors
      BY <2>3 DEF Lookup
    <3>2. PageTokens' = PageTokens
      BY <3>1 DEF PageTokens
    <3> QED
      BY <1>3, <2>1, <3>1, <3>2
  <2> QED
    BY <2>2, <2>3
<1>5. RuntimeTypeOK'
  BY <1>0, <1>1, <1>2, <1>3, <1>4 DEF RuntimeTypeOK, Task
<1>6. OwnersInv' /\ DataInv'
  <2>1. OwnersInv'
    BY <1>0, <1>1, <1>2 DEF OwnersInv
  <2>2. DataInv'
    BY <1>0, <1>1, <1>2 DEF DataInv
  <2> QED
    BY <2>1, <2>2
<1>7. CursorsOfThisRevision'
  BY <1>0, <1>1, <1>3, <1>4 DEF CursorsOfThisRevision
<1> QED
  BY <1>5, <1>6, <1>7 DEF RuntimeInv


\* A timer of a job that is over takes it from the pending ones.
LEMMA BatchDroppedKeeps ==
    ASSUME RuntimeInv, NEW c \in chains, BatchDropped(c)
    PROVE  RuntimeInv'
<1>1. /\ chains' \subseteq chains
      /\ UNCHANGED <<owner, runtime, initialization, used, builds, waiters, microtasks,
                     requested, pageCursors, lookupCursors, issued>>
  BY DEF BatchDropped, lifecycle, promises, cursorVars
<1>2. RuntimeTypeOK'
  BY <1>1 DEF RuntimeInv, RuntimeTypeOK
<1>3. OwnersInv'
  BY <1>1 DEF RuntimeInv, OwnersInv
<1>4. DataInv' /\ CursorsOfThisRevision'
  BY <1>1 DEF RuntimeInv, DataInv, CursorsOfThisRevision, PageTokens
<1> QED
  BY <1>2, <1>3, <1>4 DEF RuntimeInv

\* A batch that fails publishes its error and none of its data.
LEMMA BatchFailsKeeps ==
    ASSUME RuntimeInv, NEW c \in chains, BatchFails(c)
    PROVE  RuntimeInv'
<1>0. RuntimeTypeOK /\ OwnersInv /\ DataInv /\ CursorsOfThisRevision
  BY DEF RuntimeInv
<1>1. /\ microtasks = <<>> /\ runtime.seed.status = "seeding"
      /\ runtime' = [runtime EXCEPT !.seed.status = "error"]
      /\ chains' \subseteq chains
      /\ UNCHANGED <<owner, initialization, used, builds, waiters, microtasks,
                     requested, pageCursors, lookupCursors, issued>>
  BY DEF BatchFails, Fires, promises, cursorVars
<1>2. runtime \in Runtimes /\ runtime # NoRuntime
  BY <1>0, <1>1, NoRuntimeType DEF RuntimeTypeOK
<1>3. runtime' \in Runtimes /\ Sound(runtime') /\ runtime'.count = runtime.count
  <2>1. Sound(runtime)
    BY <1>0, <1>2 DEF DataInv
  <2> QED
    BY <1>1, <1>2, <2>1, WithStatus
<1>4. runtime' # NoRuntime
  BY <1>3, NoRuntimeType DEF Sound
<1>5. RuntimeTypeOK'
  BY <1>0, <1>1, <1>3 DEF RuntimeTypeOK
<1>6. OwnersInv'
  BY <1>0, <1>1, <1>2, <1>4 DEF OwnersInv
<1>7. DataInv'
  BY <1>0, <1>1, <1>3, <1>4, NoElements DEF DataInv
<1>8. CursorsOfThisRevision'
  BY <1>0, <1>1, <1>3 DEF CursorsOfThisRevision, PageTokens
<1> QED
  BY <1>5, <1>6, <1>7, <1>8 DEF RuntimeInv

\* A batch without a conflict begins exactly where the data ends.
LEMMA CommitExtends ==
    ASSUME RuntimeInv, NEW c \in chains, CommitBatch(c)
    PROVE  /\ runtime # NoRuntime /\ c \in Chain /\ c.owner = owner
           /\ Added(c) \in Nat
           /\ runtime' \in Runtimes /\ Sound(runtime')
           /\ runtime'.count = runtime.count + Added(c)
           /\ runtime.ordinals \subseteq runtime'.ordinals
<1> USE RuntimeAssumption
<1> DEFINE k == runtime.count - SmallCount
           a == Added(c)
           completed == runtime.seed.completed + a
           s == Seed(IF Done(completed, runtime.seed.target) THEN "ready" ELSE "seeding",
                     completed, runtime.seed.target, runtime.count + a)
<1>0. RuntimeTypeOK /\ DataInv
  BY DEF RuntimeInv
<1>1. /\ c.owner = owner /\ ~Conflicts(c)
      /\ runtime' = [ordinals |-> runtime.ordinals \cup Bundle(c),
                     count |-> runtime.count + a, seed |-> s]
  BY DEF CommitBatch, Fires, StillOwner
<1>2. c \in Chain
  BY <1>0 DEF RuntimeTypeOK, Chain
<1>3. a \in Nat /\ Bundle(c) = c.next..(c.next + a - 1) /\ c.next \in Nat
  BY <1>2, BundleIsInterval DEF Chain
<1>4. runtime # NoRuntime /\ Sound(runtime) /\ c.next <= k
  BY <1>0, <1>1 DEF DataInv
<1>5. runtime \in Runtimes /\ runtime.count \in Nat /\ k \in Nat
      /\ runtime.seed \in Seeds /\ runtime.ordinals = 0..(k - 1)
  BY <1>0, <1>4 DEF RuntimeTypeOK, Runtimes, Sound
<1> HIDE DEF a
<1>6. runtime.ordinals \cup Bundle(c) = 0..(k + a - 1)
  <2>1. CASE a = 0
    BY <1>3, <1>5, <2>1
  <2>2. CASE a > 0
    <3>1. c.next \in Bundle(c)
      BY <1>3, <2>2
    <3>2. c.next \notin 0..(k - 1)
      BY <1>1, <1>5, <3>1 DEF Conflicts
    <3>3. c.next = k
      BY <1>3, <1>4, <1>5, <3>2
    <3> QED
      BY <1>3, <1>5, <2>2, <3>3
  <2> QED
    BY <1>3, <2>1, <2>2
<1>7. /\ s \in Seeds /\ s.status # "none" /\ s.total = runtime.count + a
  <2>1. completed \in Nat /\ runtime.seed.target \in Nat /\ runtime.count + a \in Nat
    <3>1. runtime.seed.completed \in Nat /\ runtime.seed.target \in Nat
      BY <1>5, SMTT(30) DEF Seeds
    <3> QED
      BY <1>3, <1>5, <3>1, SMTT(30)
  <2> HIDE DEF completed
  <2>2. s = [status |-> IF Done(completed, runtime.seed.target) THEN "ready" ELSE "seeding",
             completed |-> completed, target |-> runtime.seed.target,
             total |-> runtime.count + a]
    BY DEF Seed
  <2> QED
    BY <2>1, <2>2 DEF Seeds
<1> HIDE DEF s
<1>8. /\ runtime'.ordinals = 0..(k + a - 1) /\ runtime'.count = runtime.count + a
      /\ runtime'.seed = s
  BY <1>1, <1>6
<1>9. runtime' \in Runtimes
  <2>1. 0..(k + a - 1) \subseteq Nat /\ runtime.count + a \in Nat
    BY <1>3, <1>5
  <2> QED
    BY <1>1, <1>6, <1>7, <2>1 DEF Runtimes
<1>10. Sound(runtime')
  <2>1. runtime.count + a >= SmallCount
        /\ (runtime.count + a) - SmallCount - 1 = k + a - 1
    <3>1. runtime.count >= SmallCount
      BY <1>4 DEF Sound
    <3> QED
      BY <1>3, <1>5, <3>1
  <2> QED
    BY <1>7, <1>8, <2>1 DEF Sound
<1> QED
  BY <1>1, <1>2, <1>3, <1>4, <1>8, <1>9, <1>10 DEF a

LEMMA CommitBatchKeeps ==
    ASSUME RuntimeInv, NEW c \in chains, CommitBatch(c)
    PROVE  RuntimeInv'
<1> USE RuntimeAssumption
<1> DEFINE next == [c EXCEPT !.next = c.next + Added(c)]
<1>0. RuntimeTypeOK /\ OwnersInv /\ DataInv
  BY DEF RuntimeInv
<1>1. /\ runtime # NoRuntime /\ c \in Chain /\ c.owner = owner /\ Added(c) \in Nat
      /\ runtime' \in Runtimes /\ Sound(runtime')
      /\ runtime'.count = runtime.count + Added(c)
  BY CommitExtends
<1>2. /\ microtasks = <<>> /\ pageCursors' = <<>> /\ lookupCursors' = {}
      /\ chains' \subseteq chains \cup {next}
      /\ UNCHANGED <<owner, initialization, used, builds, waiters, microtasks, requested, issued>>
  BY DEF CommitBatch, Fires, DropCursors, promises
<1>3. next \in Chain /\ next.owner = c.owner /\ next.next = c.next + Added(c)
  BY <1>1 DEF Chain
<1>4. runtime' # NoRuntime /\ runtime.count \in Nat
  BY <1>0, <1>1, NoRuntimeType DEF Sound, RuntimeTypeOK, Runtimes
<1>5. RuntimeTypeOK'
  BY <1>0, <1>1, <1>2, <1>3, EmptySeq DEF RuntimeTypeOK, Chain
<1>6. OwnersInv'
  BY <1>0, <1>1, <1>2, <1>3, <1>4 DEF OwnersInv
<1>7. DataInv'
  <2>1. \A m \in Elements(microtasks') : FALSE
    BY <1>2, NoElements
  <2>2. ASSUME NEW d \in chains', d.owner = owner'
        PROVE  d.next <= runtime'.count - SmallCount
    <3>1. c.next <= runtime.count - SmallCount /\ c.next \in Nat
      BY <1>0, <1>1 DEF DataInv, Chain
    <3>2. CASE d = next
      <4>1. next.next <= (runtime.count + Added(c)) - SmallCount
        BY <1>1, <1>3, <1>4, <3>1
      <4> QED
        BY <1>1, <3>2, <4>1
    <3>3. CASE d \in chains
      <4>1. d.next <= runtime.count - SmallCount /\ d.next \in Nat
        BY <1>0, <1>2, <2>2, <3>3 DEF DataInv, RuntimeTypeOK
      <4> QED
        BY <1>1, <1>4, <4>1
    <3> QED
      BY <1>2, <2>2, <3>2, <3>3
  <2> QED
    BY <1>1, <1>4, <2>1, <2>2 DEF DataInv
<1>8. CursorsOfThisRevision'
  BY <1>2, NoElements DEF CursorsOfThisRevision, PageTokens, Elements
<1> QED
  BY <1>5, <1>6, <1>7, <1>8 DEF RuntimeInv

LEMMA RuntimeStep == RuntimeInv /\ [RuntimeNext]_runtimeVars => RuntimeInv'
<1> SUFFICES ASSUME RuntimeInv, [RuntimeNext]_runtimeVars PROVE RuntimeInv'
  OBVIOUS
<1>1. CASE UNCHANGED runtimeVars
  <2>1. UNCHANGED <<owner, runtime, initialization, used, builds, waiters, microtasks,
                    requested, chains, pageCursors, lookupCursors, issued>>
    BY <1>1 DEF runtimeVars, lifecycle, promises, cursorVars
  <2>2. RuntimeTypeOK'
    BY <2>1 DEF RuntimeInv, RuntimeTypeOK
  <2>3. OwnersInv' /\ DataInv' /\ CursorsOfThisRevision'
    BY <2>1 DEF RuntimeInv, OwnersInv, DataInv, CursorsOfThisRevision, PageTokens
  <2> QED
    BY <2>2, <2>3 DEF RuntimeInv
<1>2. ASSUME NEW o \in Owners, Initialize(o) \/ Release(o) PROVE RuntimeInv'
  BY <1>2, SessionStepKeeps
<1>3. ASSUME NEW o \in Owners, BuildRuntime(o) PROVE RuntimeInv'
  BY <1>3, BuildRuntimeKeeps
<1>4. ASSUME NEW o \in Owners, BuildFails(o) PROVE RuntimeInv'
  BY <1>4, BuildFailsKeeps
<1>5. ASSUME NEW r \in Requests, Request(r) PROVE RuntimeInv'
  BY <1>5, RequestKeeps
<1>6. CASE Dispatch
  BY <1>6, IgnoredKeeps, StartSeedKeeps, RetrySeedKeeps, IssueKeeps DEF Dispatch
<1>7. ASSUME NEW c \in chains, Batch(c) PROVE RuntimeInv'
  BY <1>7, BatchDroppedKeeps, CommitBatchKeeps, BatchFailsKeeps DEF Batch
<1> QED
  BY <1>1, <1>2, <1>3, <1>4, <1>5, <1>6, <1>7 DEF RuntimeNext

-----------------------------------------------------------------------------
(* What the runtime promises to every caller.                              *)

\* The invariant holds in every state of every session, however requests overlap.
THEOREM RuntimeInvariant == RuntimeSpec => []RuntimeInv
<1> QED
  BY InitRuntime, RuntimeStep, PTL DEF RuntimeSpec

\* Every variable of the runtime holds values of its kind.
THEOREM RuntimeTypes == RuntimeSpec => []RuntimeTypeOK
<1>1. RuntimeInv => RuntimeTypeOK
  BY DEF RuntimeInv
<1> QED
  BY RuntimeInvariant, <1>1, PTL

\* Additions have unique identities and leave no gap: a batch that would number them
\* otherwise conflicts and commits nothing.
THEOREM AdditionsContiguous == RuntimeSpec => []OrdinalsContiguous
<1>1. RuntimeInv => OrdinalsContiguous
  <2> SUFFICES ASSUME RuntimeInv PROVE OrdinalsContiguous
    OBVIOUS
  <2> USE RuntimeAssumption
  <2>1. CASE runtime = NoRuntime
    <3>1. runtime.ordinals = {} /\ runtime.count = 0
      BY <2>1 DEF NoRuntime
    <3> QED
      BY <3>1 DEF OrdinalsContiguous
  <2>2. CASE runtime # NoRuntime
    <3>1. /\ runtime.count \in Nat /\ runtime.count >= SmallCount
          /\ runtime.ordinals = 0..(runtime.count - SmallCount - 1)
      BY <2>2 DEF RuntimeInv, RuntimeTypeOK, Runtimes, DataInv, Sound
    <3> QED
      BY <3>1 DEF OrdinalsContiguous
  <2> QED
    BY <2>1, <2>2
<1> QED
  BY RuntimeInvariant, <1>1, PTL

\* The counts a visitor sees are those of the committed data, also after failed batches,
\* retries and overlapping jobs.
THEOREM CountsExact == RuntimeSpec => []CountsMatchDataset
<1>1. RuntimeInv => CountsMatchDataset
  <2> SUFFICES ASSUME RuntimeInv, runtime # NoRuntime
               PROVE  /\ runtime.count = SmallCount + Cardinality(runtime.ordinals)
                      /\ runtime.seed.total = runtime.count
    BY DEF CountsMatchDataset
  <2> USE RuntimeAssumption
  <2>1. /\ runtime.count \in Nat /\ runtime.count >= SmallCount
        /\ runtime.ordinals = 0..(runtime.count - SmallCount - 1)
        /\ runtime.seed.total = runtime.count
    BY DEF RuntimeInv, RuntimeTypeOK, Runtimes, DataInv, Sound
  <2>2. Cardinality(runtime.ordinals) = runtime.count - SmallCount
    <3> DEFINE last == runtime.count - SmallCount - 1
    <3>1. last \in Int /\ last >= -1 /\ last + 1 = runtime.count - SmallCount
      BY <2>1
    <3>2. runtime.ordinals = 0..last
      BY <2>1
    <3> HIDE DEF last
    <3>3. Cardinality(0..last) = IF 0 > last THEN 0 ELSE last - 0 + 1
      BY <3>1, FS_Interval
    <3>4. Cardinality(0..last) = last + 1
      BY <3>1, <3>3
    <3> QED
      BY <3>1, <3>2, <3>4
  <2> QED
    BY <2>1, <2>2
<1> QED
  BY RuntimeInvariant, <1>1, PTL

\* A cursor that would be accepted belongs to this session and to the current data.
THEOREM CursorsCurrent == RuntimeSpec => []CursorsOfThisRevision
<1>1. RuntimeInv => CursorsOfThisRevision
  BY DEF RuntimeInv
<1> QED
  BY RuntimeInvariant, <1>1, PTL

\* Nothing left over from an earlier session publishes a runtime after its release.
THEOREM ReleasedEmpty == RuntimeSpec => []ReleasedStaysEmpty
<1>1. RuntimeInv => ReleasedStaysEmpty
  BY DEF RuntimeInv, OwnersInv, ReleasedStaysEmpty
<1> QED
  BY RuntimeInvariant, <1>1, PTL

\* What a step of a session may do to its data: keep it, or extend it.
LEMMA StepKeepsData ==
    ASSUME RuntimeInv, RuntimeNext, owner' = owner, runtime # NoRuntime
    PROVE  runtime' # NoRuntime /\ runtime.ordinals \subseteq runtime'.ordinals
<1> USE RuntimeAssumption
<1>0. RuntimeTypeOK /\ OwnersInv /\ DataInv /\ owner # NoOwner /\ runtime \in Runtimes
      /\ Sound(runtime)
  BY DEF RuntimeInv, OwnersInv, DataInv, RuntimeTypeOK
<1>1. ASSUME NEW o \in Owners, Initialize(o) \/ Release(o) PROVE FALSE
  BY <1>0, <1>1 DEF Initialize, Release, OwnersInv
<1>2. ASSUME NEW o \in Owners, BuildRuntime(o) PROVE FALSE
  BY <1>0, <1>2 DEF BuildRuntime, StillOwner, OwnersInv
<1>3. ASSUME NEW o \in Owners, BuildFails(o) PROVE runtime' = runtime
  BY <1>0, <1>3 DEF BuildFails, StillOwner, OwnersInv
<1>4. ASSUME NEW r \in Requests, Request(r) PROVE runtime' = runtime
  BY <1>4 DEF Request
<1>5. ASSUME NEW rt, Schedule(rt), Sound(rt), rt.count = runtime.count
      PROVE  runtime' # NoRuntime /\ runtime'.ordinals = runtime.ordinals
  BY <1>0, <1>5, NoRuntimeType DEF Schedule, Sound
<1>6. CASE StartSeed
  <2> DEFINE old == Head_.runtime
             s == Seed("seeding", 0, Head_.request.arg, old.count)
             rt == [old EXCEPT !.seed = s]
  <2>1. microtasks # <<>> /\ microtasks' = Tail(microtasks)
        /\ StillOwner(Head_.generation) /\ Schedule(rt)
    BY <1>6 DEF StartSeed, Dispatching
  <2>2. Head_ \in Task /\ Sound(old) /\ old.count = runtime.count
    BY <2>1, HeadIsCurrent
  <2>3. old \in Runtimes
    BY <2>2 DEF Task
  <2>4. s.status = "seeding" /\ s.total = old.count
    BY DEF Seed
  <2> HIDE DEF s
  <2>5. rt.seed = s /\ rt.count = old.count /\ rt.ordinals = old.ordinals
    BY <2>3 DEF Runtimes
  <2>6. Sound(rt)
    BY <2>2, <2>4, <2>5 DEF Sound
  <2> HIDE DEF rt
  <2> QED
    BY <1>5, <2>1, <2>2, <2>5, <2>6
<1>7. CASE RetrySeed
  <2> DEFINE old == Head_.runtime
             rt == [old EXCEPT !.seed.status = "seeding"]
  <2>1. microtasks # <<>> /\ microtasks' = Tail(microtasks)
        /\ StillOwner(Head_.generation) /\ Schedule(rt)
    BY <1>7 DEF RetrySeed, Dispatching
  <2>2. Head_ \in Task /\ Sound(old) /\ old.count = runtime.count
    BY <2>1, HeadIsCurrent
  <2>3. rt.count = old.count /\ Sound(rt)
    BY <2>2, WithStatus DEF Task
  <2> HIDE DEF rt
  <2> QED
    BY <1>5, <2>1, <2>2, <2>3
<1>8. ASSUME DispatchReleased \/ SeedRefused \/ Page \/ Lookup \/ PageEnds
      PROVE  runtime' = runtime
  BY <1>8 DEF DispatchReleased, SeedRefused, Page, Lookup, PageEnds, lifecycle
<1>9. ASSUME NEW c \in chains, BatchDropped(c) PROVE runtime' = runtime
  BY <1>9 DEF BatchDropped, lifecycle
<1>10. ASSUME NEW c \in chains, CommitBatch(c)
       PROVE  runtime' # NoRuntime /\ runtime.ordinals \subseteq runtime'.ordinals
  BY <1>10, CommitExtends, NoRuntimeType DEF Sound
<1>11. ASSUME NEW c \in chains, BatchFails(c)
       PROVE  runtime' # NoRuntime /\ runtime.ordinals \subseteq runtime'.ordinals
  <2>1. runtime' = [runtime EXCEPT !.seed.status = "error"]
    BY <1>11 DEF BatchFails
  <2>2. runtime'.ordinals = runtime.ordinals /\ Sound(runtime')
    BY <1>0, <2>1, WithStatus DEF Runtimes
  <2> QED
    BY <2>2, NoRuntimeType DEF Sound
<1> QED
  BY <1>1, <1>2, <1>3, <1>4, <1>6, <1>7, <1>8, <1>9, <1>10, <1>11
     DEF RuntimeNext, Dispatch, Batch

\* Within a session the restored data is never restored again and no committed addition
\* is lost, whatever fails and however requests overlap.
THEOREM SessionDataGrows == RuntimeSpec => SessionKeepsData
<1>1. RuntimeInv /\ [RuntimeNext]_runtimeVars
        => [owner' = owner /\ runtime # NoRuntime
              => runtime' # NoRuntime /\ runtime.ordinals \subseteq runtime'.ordinals]_runtimeVars
  BY StepKeepsData
<1> QED
  BY RuntimeInvariant, <1>1, PTL DEF RuntimeSpec, SessionKeepsData
=============================================================================
