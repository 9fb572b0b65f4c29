---------------------- MODULE SnapshotReaderProperties ----------------------
(***************************************************************************)
(* What requests and closes of the Datomic reader may never do to each     *)
(* other, and that neither waits for the other for ever.                   *)
(***************************************************************************)
EXTENDS SnapshotReader

Lent == {"selecting", "selected", "handling", "releasing", "returning"}
Admitted == {"admitted", "locking", "locked", "finishing"} \cup Lent

\* "Reader leases then keep the fixed Snapshot alive until every request already inside
\* the boundary has released it": as long as a request may read, neither the snapshot
\* nor the connection is released, and the exact snapshot it owns is open.
LeasedSnapshotOpen ==
    \A q \in Requests : requests[q] \in Lent =>
        /\ \A r \in Resources : freed[r] = 0
        /\ (requests[q] = "handling" /\ q \in Historical) => exact[q] = "open"

\* Every path out of a request, also one on which a release threw, gives back what it
\* took: a permit is missing only while a request is admitted, the lock is held only
\* from acquire-lease! to the release, and no exact snapshot is forgotten.
NothingLeaks ==
    /\ permits + Cardinality({q \in Requests : requests[q] \in Admitted}) = MaximumConcurrency
    /\ readers = {q \in Requests : requests[q] \in Lent \cup {"locked"}}
    /\ \A q \in Requests : requests[q] \in {"returning", "finishing", "done"} => exact[q] # "open"

\* The reader lends and gives up its snapshot and its connection as SharedSnapshot
\* promises, whichever of their releases fail and are repeated, also when it fails to
\* open.
Phase == IF opener # "open" THEN "opening" ELSE IF closing THEN "draining" ELSE "lending"
Borrowing == {q \in Requests : requests[q] \in Lent}
Shared == INSTANCE SharedSnapshot
    WITH Borrowers <- Requests, phase <- Phase, borrowers <- Borrowing
HoldsSnapshot == Shared!Spec

\* Every admitted or waiting request is answered, and every close ends, although each
\* may have to wait for the other.
ReaderSettles ==
    /\ \A q \in Requests : requests[q] = "waiting" ~> requests[q] = "done"
    /\ \A c \in Closers : closers[c] = "draining" ~> closers[c] = "done"
=============================================================================
