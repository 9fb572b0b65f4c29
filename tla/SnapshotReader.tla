--------------------------- MODULE SnapshotReader ---------------------------
(***************************************************************************)
(* The Datomic reader and the boundary its requests pass, in one process   *)
(* of many threads.  A request waits for one of the permits of the         *)
(* boundary, leases the snapshot that the reader fixed when it opened (or, *)
(* for a historical date, selects an exact one of its own under the same   *)
(* lease), is answered, and gives back what it holds on every path.        *)
(* close! refuses new leases, waits for the lent ones and releases the     *)
(* snapshot and then its connection; a release may fail, and a later close *)
(* tries again.                                                            *)
(***************************************************************************)
EXTENDS Naturals, FiniteSets

CONSTANTS
    Requests,            \* the requests that ever arrive
    Historical,          \* those that ask for the snapshot of a date
    Closers,             \* the calls of close! that are ever made
    MaximumConcurrency,  \* permits of the boundary
    None                 \* no closer

ASSUME ReaderAssumption ==
    /\ IsFiniteSet(Requests) /\ Historical \subseteq Requests
    /\ MaximumConcurrency \in Nat \ {0} /\ None \notin Closers

VARIABLES
    opener,      \* how far open-reader! is
    requests,    \* where each request is
    late,        \* requests whose deadline has passed
    permits,     \* permits left in the semaphore
    readers,     \* requests that hold the lease lock for reading
    writer,      \* the close that holds it for writing
    exact,       \* the exact snapshot of each request
    freed,       \* successful releases of what the reader owns
    closers,     \* where each close is
    closing,     \* no lease is granted any more
    closed       \* everything is released

admission == <<late, permits>>
lock == <<readers, writer>>
reader == <<freed, closers, closing, closed>>
vars == <<opener, requests, admission, lock, exact, reader>>

Resources == {"snapshot", "connection"}

Init ==
    /\ opener = "connected"
    /\ requests = [q \in Requests |-> "new"]
    /\ late = {} /\ permits = MaximumConcurrency
    /\ readers = {} /\ writer = None
    /\ exact = [q \in Requests |-> "none"]
    /\ freed = [r \in Resources |-> 0]
    /\ closers = [c \in Closers |-> "idle"]
    /\ closing = FALSE /\ closed = FALSE

\* release-once: what was released stays so, and only a failed release is repeated.
ReleaseAgain(r, done) == freed' = IF done THEN [freed EXCEPT ![r] = @ + 1] ELSE freed
ReleaseOnce(r, done) ==
    /\ done \/ freed[r] = 0
    /\ freed' = IF freed[r] = 0 /\ done THEN [freed EXCEPT ![r] = 1] ELSE freed

-----------------------------------------------------------------------------
(* open-reader!, which no other thread sees until it returns. *)

Opens(stage) ==
    /\ opener' = stage
    /\ UNCHANGED <<requests, admission, lock, exact, closers, closing, closed>>

SelectFixed == opener = "connected" /\ Opens("selected") /\ UNCHANGED freed
Publish == opener = "selected" /\ Opens("open") /\ UNCHANGED freed

\* The schema is another one, the basis drifted, or a call threw.
OpenFails ==
    /\ \/ opener = "connected" /\ Opens("disconnecting")
       \/ opener = "selected" /\ Opens("dropping")
    /\ UNCHANGED freed

\* The connection is released even if releasing the snapshot throws.
Abandon(done) ==
    \/ opener = "dropping" /\ ReleaseOnce("snapshot", done) /\ Opens("disconnecting")
    \/ opener = "disconnecting" /\ ReleaseOnce("connection", done) /\ Opens("failed")

-----------------------------------------------------------------------------
(* invoke!, on a thread of its own for each request. *)

Goes(q, stage) == requests' = [requests EXCEPT ![q] = stage]

\* A request without a valid id, route and input is answered before admission.
Reject(q) ==
    /\ opener = "open" /\ requests[q] = "new"
    /\ Goes(q, "done")
    /\ UNCHANGED <<opener, admission, lock, exact, reader>>

Submit(q) ==
    /\ opener = "open" /\ requests[q] = "new"
    /\ Goes(q, "waiting")
    /\ UNCHANGED <<opener, admission, lock, exact, reader>>

\* The deadline passes.  From the capture on it is one of the ways to fail.
Expire(q) ==
    /\ requests[q] \in {"waiting", "admitted"} /\ q \notin late
    /\ late' = late \cup {q}
    /\ UNCHANGED <<opener, requests, permits, lock, exact, reader>>

\* The poll for a permit finds the deadline passed, or its thread is interrupted.
GiveUp(q) ==
    /\ requests[q] = "waiting" /\ q \in late
    /\ Goes(q, "done")
    /\ UNCHANGED <<opener, admission, lock, exact, reader>>
Interrupt(q) ==
    /\ requests[q] = "waiting"
    /\ Goes(q, "done")
    /\ UNCHANGED <<opener, admission, lock, exact, reader>>

Admit(q) ==
    /\ requests[q] = "waiting" /\ permits > 0
    /\ permits' = permits - 1 /\ Goes(q, "admitted")
    /\ UNCHANGED <<opener, late, lock, exact, reader>>

\* check-active!, and the first look of acquire-lease! at closing?.
CaptureLeaking(q) ==
    /\ requests[q] = "admitted"
    /\ Goes(q, IF q \in late \/ closing THEN "done" ELSE "locking")
    /\ UNCHANGED <<opener, admission, lock, exact, reader>>
Capture(q) ==
    /\ requests[q] = "admitted"
    /\ Goes(q, IF q \in late \/ closing THEN "finishing" ELSE "locking")
    /\ UNCHANGED <<opener, admission, lock, exact, reader>>

ReadLock(q) ==
    /\ requests[q] = "locking" /\ writer = None
    /\ readers' = readers \cup {q} /\ Goes(q, "locked")
    /\ UNCHANGED <<opener, admission, writer, exact, reader>>

\* The second look, under the lock, decides.
LendUnchecked(q) ==
    /\ requests[q] = "locked"
    /\ Goes(q, IF q \in Historical THEN "selecting" ELSE "handling")
    /\ UNCHANGED <<opener, admission, lock, exact, reader>>
Lend(q) ==
    /\ requests[q] = "locked" /\ ~closing
    /\ Goes(q, IF q \in Historical THEN "selecting" ELSE "handling")
    /\ UNCHANGED <<opener, admission, lock, exact, reader>>

RefuseLocked(q) ==
    /\ requests[q] = "locked" /\ closing
    /\ Goes(q, "finishing")
    /\ UNCHANGED <<opener, admission, lock, exact, reader>>
Refuse(q) ==
    /\ requests[q] = "locked" /\ closing
    /\ readers' = readers \ {q} /\ Goes(q, "finishing")
    /\ UNCHANGED <<opener, admission, writer, exact, reader>>

\* The exact snapshot of a date: the date may be in the future or resolve to no basis,
\* and the storage of the basis may be unsupported, which releases the snapshot again.
SelectFails(q) ==
    /\ requests[q] = "selecting"
    /\ Goes(q, "returning")
    /\ UNCHANGED <<opener, admission, lock, exact, reader>>
Select(q) ==
    /\ requests[q] = "selecting"
    /\ exact' = [exact EXCEPT ![q] = "open"] /\ Goes(q, "selected")
    /\ UNCHANGED <<opener, admission, lock, reader>>
Support(q) ==
    /\ requests[q] = "selected"
    /\ Goes(q, "handling")
    /\ UNCHANGED <<opener, admission, lock, exact, reader>>

\* The handler returned, threw, or found the request too late.
Handle(q) ==
    /\ requests[q] = "handling"
    /\ Goes(q, IF q \in Historical THEN "releasing" ELSE "returning")
    /\ UNCHANGED <<opener, admission, lock, exact, reader>>

ReleaseExact(q, outcome) ==
    /\ requests[q] \in {"selected", "releasing"}
    /\ exact' = [exact EXCEPT ![q] = outcome] /\ Goes(q, "returning")
    /\ UNCHANGED <<opener, admission, lock, reader>>

\* release-lease!, also when releasing the exact snapshot threw.
ReturnLease(q) ==
    /\ requests[q] = "returning"
    /\ readers' = readers \ {q} /\ Goes(q, "finishing")
    /\ UNCHANGED <<opener, admission, writer, exact, reader>>

ReturnPermit(q) ==
    /\ requests[q] = "finishing"
    /\ permits' = permits + 1 /\ Goes(q, "done")
    /\ UNCHANGED <<opener, late, lock, exact, reader>>

-----------------------------------------------------------------------------
(* close!, in a monitor that admits one call at a time. *)

Inside(c) == closers[c] \notin {"idle", "done"}
CloseGoes(c, stage) == closers' = [closers EXCEPT ![c] = stage]

BeginClose(c) ==
    /\ opener = "open" /\ closers[c] = "idle" /\ \A d \in Closers : ~Inside(d)
    /\ CloseGoes(c, IF closed THEN "done" ELSE "draining")
    /\ closing' = TRUE
    /\ UNCHANGED <<opener, requests, admission, lock, exact, freed, closed>>

WriteLock(c) ==
    /\ closers[c] = "draining" /\ writer = None /\ readers = {}
    /\ writer' = c /\ CloseGoes(c, "dropping")
    /\ UNCHANGED <<opener, requests, admission, readers, exact, freed, closing, closed>>

CloseSnapshot(c, done) ==
    /\ closers[c] = "dropping"
    /\ ReleaseOnce("snapshot", done)
    /\ CloseGoes(c, IF done THEN "disconnecting" ELSE "unlocking")
    /\ UNCHANGED <<opener, requests, admission, lock, exact, closing, closed>>

CloseConnection(c, done) ==
    /\ closers[c] = "disconnecting"
    /\ ReleaseOnce("connection", done)
    /\ closed' = done /\ CloseGoes(c, "unlocking")
    /\ UNCHANGED <<opener, requests, admission, lock, exact, closing>>

Unlock(c) ==
    /\ closers[c] = "unlocking"
    /\ writer' = None /\ CloseGoes(c, "done")
    /\ UNCHANGED <<opener, requests, admission, readers, exact, freed, closing, closed>>

-----------------------------------------------------------------------------

Outcomes == {"released", "refused"}

\* What the thread of a request does without waiting for anything but permit and lock.
Serve(q) ==
    \/ GiveUp(q) \/ Admit(q) \/ Capture(q) \/ ReadLock(q) \/ Lend(q) \/ Refuse(q)
    \/ SelectFails(q) \/ Select(q) \/ Support(q) \/ Handle(q)
    \/ (\E o \in Outcomes : ReleaseExact(q, o)) \/ ReturnLease(q) \/ ReturnPermit(q)

Close(c) ==
    \/ WriteLock(c) \/ Unlock(c)
    \/ \E done \in BOOLEAN : CloseSnapshot(c, done) \/ CloseConnection(c, done)

Next ==
    \/ SelectFixed \/ Publish \/ OpenFails \/ \E done \in BOOLEAN : Abandon(done)
    \/ \E q \in Requests :
         Reject(q) \/ Submit(q) \/ Expire(q) \/ Interrupt(q) \/ Serve(q)
    \/ \E c \in Closers : BeginClose(c) \/ Close(c)

\* Threads run, clocks advance, and a lock that is free is taken in the end: the
\* requests that can still ask for it once a close began are those already admitted.
Fairness ==
    /\ \A q \in Requests : WF_vars(Serve(q)) /\ WF_vars(Expire(q))
    /\ \A c \in Closers : WF_vars(Close(c))

Spec == Init /\ [][Next]_vars /\ Fairness
=============================================================================
