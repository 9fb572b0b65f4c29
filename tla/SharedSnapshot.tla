--------------------------- MODULE SharedSnapshot ---------------------------
(***************************************************************************)
(* What the Datomic reader promises about the database connection and the  *)
(* immutable snapshot of it that every request reads: they are lent only   *)
(* until a close begins, given up only when nobody borrows them, the       *)
(* snapshot before the connection it lives on, and each only once.         *)
(***************************************************************************)
EXTENDS Naturals

CONSTANTS Borrowers, Resources

VARIABLES
    phase,      \* "opening", "lending", "draining"
    borrowers,
    freed       \* how often each resource was given up

Init ==
    /\ phase = "opening" /\ borrowers = {}
    /\ freed = [r \in Resources |-> 0]

Open ==
    /\ phase = "opening" /\ \A r \in Resources : freed[r] = 0
    /\ phase' = "lending"
    /\ UNCHANGED <<borrowers, freed>>

Borrow(q) ==
    /\ phase = "lending"
    /\ borrowers' = borrowers \cup {q}
    /\ UNCHANGED <<phase, freed>>

Return(q) ==
    /\ borrowers' = borrowers \ {q}
    /\ UNCHANGED <<phase, freed>>

Drain ==
    /\ phase = "lending" /\ phase' = "draining"
    /\ UNCHANGED <<borrowers, freed>>

\* What failed to open gives up what it has; what was open, the snapshot first.
Free(r) ==
    /\ phase # "lending" /\ borrowers = {} /\ freed[r] = 0
    /\ (phase = "draining" /\ r = "connection") => freed["snapshot"] = 1
    /\ freed' = [freed EXCEPT ![r] = 1]
    /\ UNCHANGED <<phase, borrowers>>

Next ==
    \/ Open \/ Drain
    \/ \E q \in Borrowers : Borrow(q) \/ Return(q)
    \/ \E r \in Resources : Free(r)

Spec == Init /\ [][Next]_<<phase, borrowers, freed>>
=============================================================================
