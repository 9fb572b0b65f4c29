---------------------- MODULE LivePromotionProperties ----------------------
(***************************************************************************)
(* What overlapping live deployments may rely on.                          *)
(***************************************************************************)
EXTENDS LivePromotion

\* The version of a function that its alias serves.
Served(f) == versions[f][alias[f].version]

\* Versions, aliases and the registry have the types of their AWS resources, and a
\* deployment that got as far as publishing a version knows its number.
PromotionTypeOK ==
    /\ latest \in [Functions -> Deployments \cup {Before}]
    /\ versions \in [Functions -> Seq([code : Deployments \cup {Before},
                                       env : Deployments \cup {Before}])]
    /\ \A f \in Functions : live[f] \subseteq 1..Len(versions[f])
    /\ alias \in [Functions -> [version : Nat, rev : Nat]]
    /\ \A f \in Functions : alias[f].version \in live[f]
    /\ registry \in [deployment : Deployments \cup {Before}, version : Nat]
    /\ step \in [Deployments -> [Functions -> Steps]]
    /\ fate \in [Deployments -> [Functions -> {"going", "restoring", "threw"}]]
    /\ built \in [Deployments -> [Functions -> Nat]]
    /\ prior \in [Deployments -> [Functions -> [version : Nat, rev : Nat]]]
    /\ job \in [Deployments -> {"running", "failed", "crashed"}]

\* However pushes interleave configuring $LATEST and publishing from it, an alias
\* serves only versions whose environment names the commit of their code.
ServedAgrees == \A f \in Functions : Served(f).code = Served(f).env

\* The alias moves only from what a deployment saw before its smoke to its version,
\* or back from its version to what it saw: no promotion is ever overwritten unseen,
\* neither by another promotion nor by a rollback.
AliasStep(f) ==
    \E d \in Deployments :
        \/ alias[f] = prior[d][f] /\ alias'[f].version = built[d][f]
        \/ /\ alias[f] = [version |-> built[d][f], rev |-> prior[d][f].rev + 1]
           /\ alias'[f].version = prior[d][f].version
NoLostPromotion == [][\A f \in Functions : alias'[f] # alias[f] => AliasStep(f)]_vars

\* While a promotion can still be rolled back, pruning has kept the version it
\* replaced, as long as no more pushes overlap than a prune keeps versions.
MayRestore(d, f) ==
    \/ fate[d][f] = "restoring"
    \/ Fails(d, f) /\ step[d][f] \in Restorable /\ ~BeforePrune(d, f)
RollbackTargetKept ==
    Cardinality(Deployments) <= Retain =>
        \A d \in Deployments : \A f \in Functions :
            (MayRestore(d, f) /\ alias[f].version = built[d][f])
                => prior[d][f].version \in live[f]

\* The registry document names only deployments every function of which answered
\* at its public URL, comparison instances included, and each writes it once.
Verified(d) ==
    /\ step[d][Primary] \in {"verified", "released", "put", "published", "done"}
    /\ ComparisonsDone(d)
Wrote(d) == step[d][Primary] \in {"put", "published", "done"}
Registry == INSTANCE VerifiedRegistry WITH
    verified <- {d \in Deployments : Verified(d)},
    written <- {d \in Deployments : Wrote(d)},
    named <- registry.deployment
RegistryIsVerified == Registry!Spec
=============================================================================
