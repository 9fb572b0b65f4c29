--------------------------- MODULE LivePromotion ---------------------------
(***************************************************************************)
(* scripts/deploy-live-demo.mjs: every push deploys the functions of a     *)
(* profile - its primary and its larger comparison instance - at once, and *)
(* pushes overlap freely, for their workflow has no concurrency group.     *)
(* For each function a deployment configures and publishes a version,      *)
(* smokes it, moves the alias by compare-and-set, smokes the public URL,   *)
(* and prunes old versions; the primary waits for the comparison and then  *)
(* writes the profile's registry document.  What fails after the alias     *)
(* moved is rolled back.  A rejection that reaches the top level ends the  *)
(* process, whatever the deployment's other function was doing.            *)
(***************************************************************************)
EXTENDS Integers, Sequences, FiniteSets

CONSTANTS
    Deployments,   \* pushes, each of another commit
    Before,        \* the deployment before them
    Functions,     \* the Lambda functions of the profile
    Primary,       \* the one that publishes to the registry
    Earlier,       \* versions published before
    Retain         \* versions a prune keeps (3 in the code)

ASSUME PromotionAssumption ==
    /\ Before \notin Deployments /\ Primary \in Functions
    /\ Earlier \in Nat \ {0} /\ Retain \in Nat \ {0}

VARIABLES
    latest,     \* the deployment whose environment $LATEST has
    versions,   \* versions ever published: whose code, whose environment
    live,       \* the versions not deleted
    alias,      \* "candidate": a version and the revision of the alias
    registry,   \* the deployment and version the profile document names
    step,       \* the last step each deployment completed, per function
    fate,       \* is it going on, restoring the alias, or did it throw?
    built,      \* the version it published
    prior,      \* the alias it read before the smoke
    job         \* is the process of a deployment running?
aws == <<latest, versions, live, alias, registry>>
vars == <<aws, step, fate, built, prior, job>>

Steps == {"begun", "configured", "built", "read", "smoked", "promoted", "verified",
          "released", "put", "published", "done"}
Others == Functions \ {Primary}

Init ==
    /\ latest = [f \in Functions |-> Before]
    /\ versions = [f \in Functions |-> [v \in 1..Earlier |-> [code |-> Before, env |-> Before]]]
    /\ live = [f \in Functions |-> 1..Earlier]
    /\ \E v \in 1..Earlier :
          /\ alias = [f \in Functions |-> [version |-> v, rev |-> 0]]
          /\ registry = [deployment |-> Before, version |-> v]
    /\ step = [d \in Deployments |-> [f \in Functions |-> "begun"]]
    /\ fate = [d \in Deployments |-> [f \in Functions |-> "going"]]
    /\ built = [d \in Deployments |-> [f \in Functions |-> 0]]
    /\ prior = [d \in Deployments |-> [f \in Functions |-> [version |-> 1, rev |-> 0]]]
    /\ job = [d \in Deployments |-> "running"]

Going(d, f, s) == job[d] = "running" /\ fate[d][f] = "going" /\ step[d][f] = s
Completes(d, f, s) == step' = [step EXCEPT ![d][f] = s] /\ UNCHANGED <<fate, job>>
Moves(f, v) == alias' = [alias EXCEPT ![f] = [version |-> v, rev |-> @.rev + 1]]

Configure(d, f) ==
    /\ Going(d, f, "begun") /\ Completes(d, f, "configured")
    /\ latest' = [latest EXCEPT ![f] = d]
    /\ UNCHANGED <<versions, live, alias, registry, built, prior>>

\* update-function-code --publish takes whatever environment $LATEST has by then.
PublishVersion(d, f) ==
    /\ Going(d, f, "configured") /\ Completes(d, f, "built")
    /\ versions' = [versions EXCEPT ![f] = Append(@, [code |-> d, env |-> latest[f]])]
    /\ built' = [built EXCEPT ![d][f] = Len(versions[f]) + 1]
    /\ live' = [live EXCEPT ![f] = @ \cup {Len(versions[f]) + 1}]
    /\ UNCHANGED <<latest, alias, registry, prior>>

GetAlias(d, f) ==
    /\ Going(d, f, "built") /\ Completes(d, f, "read")
    /\ prior' = [prior EXCEPT ![d][f] = alias[f]]
    /\ UNCHANGED <<aws, built>>

\* Any healthy answer will do.
SmokeUnidentified(d, f) ==
    /\ Going(d, f, "read") /\ Completes(d, f, "smoked")
    /\ built[d][f] \in live[f]
    /\ UNCHANGED <<aws, built, prior>>

\* health and bootstrap of the version must report this deployment's identity,
\* which they take from the environment.
SmokeVersion(d, f) ==
    /\ Going(d, f, "read") /\ Completes(d, f, "smoked")
    /\ built[d][f] \in live[f] /\ versions[f][built[d][f]].env = d
    /\ UNCHANGED <<aws, built, prior>>

Promote(d, f) ==
    /\ Going(d, f, "smoked") /\ Completes(d, f, "promoted")
    /\ built[d][f] \in live[f] /\ alias[f].rev = prior[d][f].rev
    /\ Moves(f, built[d][f])
    /\ UNCHANGED <<latest, versions, live, registry, built, prior>>

\* The public URL is polled until the alias serves this deployment.
SmokeUrl(d, f) ==
    /\ Going(d, f, "promoted") /\ Completes(d, f, "verified")
    /\ versions[f][alias[f].version].env = d
    /\ UNCHANGED <<aws, built, prior>>

\* Only the primary has a beforePublish: it awaits the comparison's deployment
\* (and then releases to the EC2 host).
ComparisonsDone(d) == \A f \in Others : step[d][f] = "done"
ReleaseUnawaited(d) ==
    /\ Going(d, Primary, "verified") /\ Completes(d, Primary, "released")
    /\ UNCHANGED <<aws, built, prior>>

BeforePublish(d) ==
    /\ Going(d, Primary, "verified") /\ Completes(d, Primary, "released")
    /\ ComparisonsDone(d)
    /\ UNCHANGED <<aws, built, prior>>

Put(d) ==
    /\ Going(d, Primary, "released") /\ Completes(d, Primary, "put")
    /\ registry' = [deployment |-> d, version |-> built[d][Primary]]
    /\ UNCHANGED <<latest, versions, live, alias, built, prior>>

Invalidate(d) ==
    /\ Going(d, Primary, "put") /\ Completes(d, Primary, "published")
    /\ UNCHANGED <<aws, built, prior>>

\* All versions but the newest Retain are deleted; one an alias refers to cannot be.
StaleToo(f) == {v \in live[f] : Cardinality({w \in live[f] : w > v}) >= Retain - 1}
Stale(f) == {v \in live[f] : Cardinality({w \in live[f] : w > v}) >= Retain}
BeforePrune(d, f) == Going(d, f, IF f = Primary THEN "published" ELSE "verified")
Prune(d, f) ==
    /\ BeforePrune(d, f) /\ Completes(d, f, "done")
    /\ alias[f].version \notin Stale(f)
    /\ live' = [live EXCEPT ![f] = @ \ Stale(f)]
    /\ UNCHANGED <<latest, versions, alias, registry, built, prior>>

\* A rejection ends the process; only a primary that awaits the comparison still
\* starts the command that restores its alias.
Throws(d, f) ==
    /\ job' = [job EXCEPT ![d] = "failed"]
    /\ fate' = [fate EXCEPT ![d] = [g \in Functions |->
          IF g = f THEN "threw"
          ELSE IF g = Primary /\ Going(d, g, "verified") THEN "restoring"
          ELSE fate[d][g]]]
    /\ UNCHANGED <<step, built, prior>>

\* A step of the deployment fails: a call to AWS, a smoke or a check.
Restorable == {"promoted", "verified", "released", "put"}
Fails(d, f) ==
    /\ job[d] = "running" /\ fate[d][f] = "going" /\ step[d][f] # "done"
    /\ f = Primary /\ step[d][f] = "verified" => ComparisonsDone(d)
FailBefore(d, f) ==
    /\ Fails(d, f) /\ step[d][f] \notin Restorable \cup {"published"}
    /\ Throws(d, f) /\ UNCHANGED aws
FailAfter(d, f) ==
    /\ Fails(d, f) /\ step[d][f] \in Restorable /\ ~BeforePrune(d, f)
    /\ fate' = [fate EXCEPT ![d][f] = "restoring"]
    /\ UNCHANGED <<aws, step, built, prior, job>>
FailPrune(d, f) ==
    /\ BeforePrune(d, f) /\ Throws(d, f)
    /\ \E S \in SUBSET (Stale(f) \ {alias[f].version}) :
          live' = [live EXCEPT ![f] = @ \ S]
    /\ UNCHANGED <<latest, versions, alias, registry>>

\* Whoever moved the alias last.
RestoreUnconditionally(d, f) ==
    /\ fate[d][f] = "restoring" /\ job[d] # "crashed"
    /\ prior[d][f].version \in live[f]
    /\ Moves(f, prior[d][f].version)
    /\ Throws(d, f)
    /\ UNCHANGED <<latest, versions, live, registry>>

\* rollbackAlias, with the revision the promotion returned.
Restore(d, f) ==
    /\ fate[d][f] = "restoring" /\ job[d] # "crashed"
    /\ alias[f].rev = prior[d][f].rev + 1 /\ prior[d][f].version \in live[f]
    /\ Moves(f, prior[d][f].version)
    /\ Throws(d, f)
    /\ UNCHANGED <<latest, versions, live, registry>>
RestoreFails(d, f) ==
    /\ fate[d][f] = "restoring" /\ job[d] # "crashed"
    /\ Throws(d, f) /\ UNCHANGED aws

\* The runner is lost, or the job's time is up.
Crash(d) ==
    /\ job[d] = "running" /\ \E f \in Functions : step[d][f] # "done"
    /\ job' = [job EXCEPT ![d] = "crashed"]
    /\ UNCHANGED <<aws, step, fate, built, prior>>

Task(d, f) ==
    \/ Configure(d, f) \/ PublishVersion(d, f) \/ GetAlias(d, f) \/ SmokeVersion(d, f)
    \/ Promote(d, f) \/ SmokeUrl(d, f) \/ Prune(d, f)
    \/ FailBefore(d, f) \/ FailAfter(d, f) \/ FailPrune(d, f)
    \/ Restore(d, f) \/ RestoreFails(d, f)
Publish(d) == BeforePublish(d) \/ Put(d) \/ Invalidate(d)

Next == \E d \in Deployments : Publish(d) \/ Crash(d) \/ \E f \in Functions : Task(d, f)
Spec == Init /\ [][Next]_vars
=============================================================================
