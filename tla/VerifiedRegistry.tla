-------------------------- MODULE VerifiedRegistry --------------------------
(***************************************************************************)
(* What the live deployment promises to a visitor of the registry: a       *)
(* profile document names a deployment only after every function of that   *)
(* deployment answered at its public URL, and a deployment writes the      *)
(* document at most once.                                                  *)
(***************************************************************************)
CONSTANTS Deployments, Before

VARIABLES
    verified,   \* deployments every function of which answered publicly
    written,    \* deployments that wrote the document
    named       \* the deployment the document names

Init == verified = {} /\ written = {} /\ named = Before

Verify(d) ==
    /\ verified' = verified \cup {d}
    /\ UNCHANGED <<written, named>>

Write(d) ==
    /\ d \in verified \ written
    /\ written' = written \cup {d} /\ named' = d
    /\ UNCHANGED verified

Next == \E d \in Deployments : Verify(d) \/ Write(d)

Spec == Init /\ [][Next]_<<verified, written, named>>
=============================================================================
