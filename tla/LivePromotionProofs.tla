------------------------ MODULE LivePromotionProofs ------------------------
(***************************************************************************)
(* Proofs about LivePromotion, for any number of pushes and functions and  *)
(* any retention: the alias serves what it names, no promotion is lost,    *)
(* a rollback finds its version, and the registry names verified           *)
(* deployments only.                                                       *)
(***************************************************************************)
EXTENDS LivePromotionProperties, FiniteSetTheorems, TLAPS

BuiltSteps == Steps \ {"begun", "configured"}
ReadSteps == BuiltSteps \ {"built"}
SmokedSteps == ReadSteps \ {"read"}
PromotedSteps == SmokedSteps \ {"smoked"}
Version == [code : Deployments \cup {Before}, env : Deployments \cup {Before}]
Alias == [version : Nat, rev : Nat]

\* The types the argument needs.
Types ==
    /\ latest \in [Functions -> Deployments \cup {Before}]
    /\ versions \in [Functions -> Seq(Version)]
    /\ alias \in [Functions -> Alias]
    /\ step \in [Deployments -> [Functions -> Steps]]
    /\ fate \in [Deployments -> [Functions -> {"going", "restoring", "threw"}]]
    /\ built \in [Deployments -> [Functions -> Nat]]
    /\ prior \in [Deployments -> [Functions -> Alias]]
    /\ job \in [Deployments -> {"running", "failed", "crashed"}]
    /\ registry \in [deployment : Deployments \cup {Before}, version : Nat]

Agrees(f, v) == v \in 1..Len(versions[f]) /\ versions[f][v].code = versions[f][v].env
\* A deployment knows the version it built of its code, which after the smoke also
\* has its environment.
BuiltInv == \A d \in Deployments, f \in Functions :
    /\ step[d][f] \in BuiltSteps =>
          built[d][f] \in 1..Len(versions[f]) /\ versions[f][built[d][f]].code = d
    /\ step[d][f] \in SmokedSteps => versions[f][built[d][f]].env = d
AliasInv == \A f \in Functions : Agrees(f, alias[f].version)
\* What it read of the alias was true then, and is true while the revision is the same.
PriorInv == \A d \in Deployments, f \in Functions :
    step[d][f] \in ReadSteps =>
        /\ Agrees(f, prior[d][f].version)
        /\ prior[d][f].rev <= alias[f].rev
        /\ alias[f].rev = prior[d][f].rev => alias[f] = prior[d][f]
PromotedInv == \A d \in Deployments, f \in Functions :
    /\ fate[d][f] = "restoring" => step[d][f] \in PromotedSteps
    /\ step[d][f] \in PromotedSteps =>
          /\ prior[d][f].rev + 1 <= alias[f].rev
          /\ alias[f].rev = prior[d][f].rev + 1
                => alias[f] = [version |-> built[d][f], rev |-> prior[d][f].rev + 1]
\* A primary releases only after its comparisons are done.
Released == {"released", "put", "published", "done"}
OrderInv == \A d \in Deployments :
    step[d][Primary] \in Released => ComparisonsDone(d)
PromotionInv == Types /\ BuiltInv /\ AliasInv /\ PriorInv /\ PromotedInv /\ OrderInv

-----------------------------------------------------------------------------
\* The actions that touch neither the versions, the alias nor what a deployment knows
\* of them.
Quiet(d, f) ==
    \/ Configure(d, f) \/ SmokeUrl(d, f) \/ Prune(d, f)
    \/ FailBefore(d, f) \/ FailAfter(d, f) \/ FailPrune(d, f) \/ RestoreFails(d, f)

\* Completing a step moves that deployment's function to it and no other.
LEMMA CompletesStep ==
    ASSUME Types, NEW d \in Deployments, NEW f \in Functions, NEW s \in Steps,
           Completes(d, f, s)
    PROVE  /\ step' \in [Deployments -> [Functions -> Steps]]
           /\ step'[d][f] = s
           /\ \A e \in Deployments, g \in Functions :
                 e # d \/ g # f => step'[e][g] = step[e][g]
           /\ fate' = fate /\ job' = job
    BY DEF Types, Completes

\* A rejection leaves no function restoring its alias that was neither restoring
\* before nor a primary that had promoted.
LEMMA ThrowsFate ==
    ASSUME Types, NEW d \in Deployments, NEW f \in Functions, Throws(d, f)
    PROVE  /\ fate' \in [Deployments -> [Functions -> {"going", "restoring", "threw"}]]
           /\ job' \in [Deployments -> {"running", "failed", "crashed"}]
           /\ step' = step /\ built' = built /\ prior' = prior
           /\ \A e \in Deployments, g \in Functions :
                 fate'[e][g] = "restoring" =>
                     fate[e][g] = "restoring" \/ step[e][g] = "verified"
    <1>1. fate' = [fate EXCEPT ![d] = [g \in Functions |->
              IF g = f THEN "threw"
              ELSE IF g = Primary /\ Going(d, g, "verified") THEN "restoring"
              ELSE fate[d][g]]]
        BY DEF Throws
    <1>2. fate' \in [Deployments -> [Functions -> {"going", "restoring", "threw"}]]
        BY <1>1 DEF Types
    <1>3. ASSUME NEW e \in Deployments, NEW g \in Functions, fate'[e][g] = "restoring"
          PROVE  fate[e][g] = "restoring" \/ step[e][g] = "verified"
        BY <1>1, <1>3 DEF Types, Going
    <1>4. /\ job' \in [Deployments -> {"running", "failed", "crashed"}]
          /\ step' = step /\ built' = built /\ prior' = prior
        BY DEF Throws, Types
    <1> QED BY <1>2, <1>3, <1>4

\* Publishing appends one version and changes no other.
LEMMA PublishAppends ==
    ASSUME Types, NEW d \in Deployments, NEW f \in Functions, PublishVersion(d, f)
    PROVE  /\ versions' \in [Functions -> Seq(Version)]
           /\ built' \in [Deployments -> [Functions -> Nat]]
           /\ built'[d][f] = Len(versions[f]) + 1
           /\ Len(versions'[f]) = Len(versions[f]) + 1
           /\ versions'[f][built'[d][f]] = [code |-> d, env |-> latest[f]]
           /\ \A g \in Functions : 1..Len(versions[g]) \subseteq 1..Len(versions'[g])
           /\ \A g \in Functions, v \in Nat :
                 v \in 1..Len(versions[g]) => versions'[g][v] = versions[g][v]
           /\ \A e \in Deployments, g \in Functions :
                 e # d \/ g # f => built'[e][g] = built[e][g]
    <1> DEFINE new == [code |-> d, env |-> latest[f]]
    <1>1. new \in Version /\ versions[f] \in Seq(Version)
        BY DEF Types, Version
    <1>2. /\ versions' = [versions EXCEPT ![f] = Append(versions[f], new)]
          /\ built' = [built EXCEPT ![d][f] = Len(versions[f]) + 1]
        BY DEF PublishVersion
    <1>3. /\ Append(versions[f], new) \in Seq(Version)
          /\ Len(Append(versions[f], new)) = Len(versions[f]) + 1
          /\ Append(versions[f], new)[Len(versions[f]) + 1] = new
          /\ \A v \in 1..Len(versions[f]) : Append(versions[f], new)[v] = versions[f][v]
          /\ Len(versions[f]) \in Nat
        BY <1>1
    <1>4. versions'[f] = Append(versions[f], new)
          /\ \A g \in Functions : g # f => versions'[g] = versions[g]
        BY <1>2 DEF Types
    <1>5. versions' \in [Functions -> Seq(Version)]
        BY <1>2, <1>3 DEF Types
    <1>6. /\ built' \in [Deployments -> [Functions -> Nat]]
          /\ built'[d][f] = Len(versions[f]) + 1
          /\ \A e \in Deployments, g \in Functions :
                 e # d \/ g # f => built'[e][g] = built[e][g]
        BY <1>2, <1>3 DEF Types
    <1>7. \A g \in Functions : 1..Len(versions[g]) \subseteq 1..Len(versions'[g])
        BY <1>3, <1>4
    <1>8. ASSUME NEW g \in Functions, NEW v \in Nat, v \in 1..Len(versions[g])
          PROVE  versions'[g][v] = versions[g][v]
        BY <1>3, <1>4, <1>8
    <1> QED BY <1>3, <1>4, <1>5, <1>6, <1>7, <1>8

\* What the quiet actions leave alone, and how far they move a deployment.
QuietFacts ==
    /\ versions' = versions /\ alias' = alias /\ built' = built /\ prior' = prior
    /\ \A e \in Deployments, g \in Functions :
          /\ step'[e][g] \in BuiltSteps => step[e][g] \in BuiltSteps
          /\ step'[e][g] \in ReadSteps => step[e][g] \in ReadSteps
          /\ step'[e][g] \in SmokedSteps => step[e][g] \in SmokedSteps
          /\ step'[e][g] \in PromotedSteps <=> step[e][g] \in PromotedSteps
          /\ fate'[e][g] = "restoring" =>
                fate[e][g] = "restoring" \/ step[e][g] \in PromotedSteps
\* No action takes back a finished function, and only beforePublish releases a primary.
OrderFacts ==
    \A e \in Deployments :
        /\ \A g \in Functions : step[e][g] = "done" => step'[e][g] = "done"
        /\ step'[e][Primary] \in Released =>
              step[e][Primary] \in Released \/ ComparisonsDone(e)

\* A step that is on the same side of the smoke and of the promotion as the one before.
SameSide(from, to) ==
    /\ to \in BuiltSteps => from \in BuiltSteps
    /\ to \in ReadSteps => from \in ReadSteps
    /\ to \in SmokedSteps => from \in SmokedSteps
    /\ to \in PromotedSteps <=> from \in PromotedSteps

\* Completing such a step is quiet.
LEMMA AdvanceIsQuiet ==
    ASSUME Types, NEW d \in Deployments, NEW f \in Functions, NEW s \in Steps,
           Completes(d, f, s), SameSide(step[d][f], s), step[d][f] # "done",
           f = Primary /\ s \in Released => step[d][f] \in Released \/ ComparisonsDone(d),
           versions' = versions, alias' = alias, built' = built, prior' = prior
    PROVE  QuietFacts /\ OrderFacts
    <1>1. ASSUME NEW e \in Deployments, NEW g \in Functions, ~(e = d /\ g = f)
          PROVE  step'[e][g] = step[e][g]
        BY <1>1, CompletesStep
    <1>2. step'[d][f] = s /\ fate' = fate
        BY CompletesStep
    <1>3. ASSUME NEW e \in Deployments, NEW g \in Functions
          PROVE  SameSide(step[e][g], step'[e][g])
        <2>1. CASE e = d /\ g = f BY <2>1, <1>2
        <2>2. CASE ~(e = d /\ g = f) BY <2>2, <1>1 DEF SameSide
        <2> QED BY <2>1, <2>2
    <1>4. QuietFacts BY <1>2, <1>3 DEF QuietFacts, SameSide
    <1>5. ASSUME NEW e \in Deployments, NEW g \in Functions, step[e][g] = "done"
          PROVE  step'[e][g] = "done"
        BY <1>1, <1>5
    <1>6. ASSUME NEW e \in Deployments, step'[e][Primary] \in Released
          PROVE  step[e][Primary] \in Released \/ ComparisonsDone(e)
        BY <1>1, <1>2, <1>6, PromotionAssumption
    <1>7. OrderFacts BY <1>5, <1>6 DEF OrderFacts
    <1> QED BY <1>4, <1>7

\* So is a failure, which completes no step.
LEMMA FailureIsQuiet ==
    ASSUME Types, step' = step,
           versions' = versions, alias' = alias, built' = built, prior' = prior,
           \A e \in Deployments, g \in Functions :
               fate'[e][g] = "restoring" =>
                   fate[e][g] = "restoring" \/ step[e][g] \in PromotedSteps
    PROVE  QuietFacts /\ OrderFacts
    BY DEF QuietFacts, OrderFacts

LEMMA QuietMoves ==
    ASSUME Types, NEW d \in Deployments, NEW f \in Functions, Quiet(d, f)
    PROVE  QuietFacts /\ OrderFacts /\ Types'
    <1> USE PromotionAssumption
    <1>v. "verified" \in PromotedSteps
        BY DEF PromotedSteps, SmokedSteps, ReadSteps, BuiltSteps, Steps
    <1>1. CASE Configure(d, f)
        <2>1. /\ Completes(d, f, "configured") /\ step[d][f] = "begun"
              /\ versions' = versions /\ alias' = alias /\ built' = built /\ prior' = prior
              /\ registry' = registry
            BY <1>1 DEF Configure, Going
        <2>2. "configured" \in Steps /\ SameSide("begun", "configured")
            BY DEF Steps, SameSide, PromotedSteps, SmokedSteps, ReadSteps, BuiltSteps
        <2>3. latest' \in [Functions -> Deployments \cup {Before}]
            BY <1>1 DEF Configure, Types
        <2>4. Types' BY <2>1, <2>2, <2>3, CompletesStep DEF Types
        <2> QED BY <2>1, <2>2, <2>4, AdvanceIsQuiet DEF Released
    <1>2. CASE SmokeUrl(d, f)
        <2>1. /\ Completes(d, f, "verified") /\ step[d][f] = "promoted"
              /\ UNCHANGED <<aws, built, prior>>
            BY <1>2 DEF SmokeUrl, Going
        <2>2. "verified" \in Steps /\ SameSide("promoted", "verified")
            BY DEF Steps, SameSide, PromotedSteps, SmokedSteps, ReadSteps, BuiltSteps
        <2>3. Types' BY <2>1, <2>2, CompletesStep DEF Types, aws
        <2> QED BY <2>1, <2>2, <2>3, AdvanceIsQuiet DEF Released, aws
    <1>3. CASE Prune(d, f)
        <2>1. /\ Completes(d, f, "done")
              /\ step[d][f] = IF f = Primary THEN "published" ELSE "verified"
              /\ UNCHANGED <<latest, versions, alias, registry, built, prior>>
            BY <1>3 DEF Prune, BeforePrune, Going
        <2>2. "done" \in Steps /\ SameSide("published", "done") /\ SameSide("verified", "done")
            BY DEF Steps, SameSide, PromotedSteps, SmokedSteps, ReadSteps, BuiltSteps
        <2>3. Types' BY <2>1, <2>2, CompletesStep DEF Types
        <2> QED BY <2>1, <2>2, <2>3, AdvanceIsQuiet DEF Released
    <1>4. CASE FailBefore(d, f)
        <2>1. Throws(d, f) /\ UNCHANGED aws BY <1>4 DEF FailBefore
        <2>2. Types' BY <2>1, ThrowsFate DEF Types, aws
        <2> QED BY <2>1, <2>2, <1>v, ThrowsFate, FailureIsQuiet DEF aws
    <1>5. CASE FailAfter(d, f)
        <2>1. /\ fate' = [fate EXCEPT ![d][f] = "restoring"] /\ step[d][f] \in Restorable
              /\ UNCHANGED <<aws, step, built, prior, job>>
            BY <1>5 DEF FailAfter
        <2>2. Restorable \subseteq PromotedSteps
            BY DEF Restorable, PromotedSteps, SmokedSteps, ReadSteps, BuiltSteps, Steps
        <2>3. Types' BY <2>1 DEF Types, aws
        <2>4. ASSUME NEW e \in Deployments, NEW g \in Functions, fate'[e][g] = "restoring"
              PROVE  fate[e][g] = "restoring" \/ step[e][g] \in PromotedSteps
            BY <2>1, <2>2, <2>4 DEF Types
        <2> QED BY <2>1, <2>3, <2>4, FailureIsQuiet DEF aws
    <1>6. CASE FailPrune(d, f)
        <2>1. Throws(d, f) /\ UNCHANGED <<latest, versions, alias, registry>>
            BY <1>6 DEF FailPrune
        <2>2. Types' BY <2>1, ThrowsFate DEF Types
        <2> QED BY <2>1, <2>2, <1>v, ThrowsFate, FailureIsQuiet
    <1>7. CASE RestoreFails(d, f)
        <2>1. Throws(d, f) /\ UNCHANGED aws BY <1>7 DEF RestoreFails
        <2>2. Types' BY <2>1, ThrowsFate DEF Types, aws
        <2> QED BY <2>1, <2>2, <1>v, ThrowsFate, FailureIsQuiet DEF aws
    <1> QED BY <1>1, <1>2, <1>3, <1>4, <1>5, <1>6, <1>7 DEF Quiet

LEMMA PublishMoves ==
    ASSUME Types, NEW d \in Deployments, Publish(d) \/ Crash(d)
    PROVE  QuietFacts /\ OrderFacts /\ Types'
    <1> USE PromotionAssumption
    <1>0. /\ {"released", "put", "published"} \subseteq Steps
          /\ SameSide("verified", "released") /\ SameSide("released", "put")
          /\ SameSide("put", "published")
        BY DEF Steps, SameSide, PromotedSteps, SmokedSteps, ReadSteps, BuiltSteps
    <1>1. CASE BeforePublish(d)
        <2>1. /\ Completes(d, Primary, "released") /\ step[d][Primary] = "verified"
              /\ UNCHANGED <<aws, built, prior>> /\ ComparisonsDone(d)
            BY <1>1 DEF BeforePublish, Going
        <2>2. Types' BY <2>1, <1>0, CompletesStep DEF Types, aws
        <2> QED BY <2>1, <2>2, <1>0, AdvanceIsQuiet DEF aws
    <1>2. CASE Put(d)
        <2>1. /\ Completes(d, Primary, "put") /\ step[d][Primary] = "released"
              /\ UNCHANGED <<latest, versions, live, alias, built, prior>>
            BY <1>2 DEF Put, Going
        <2>2. registry' \in [deployment : Deployments \cup {Before}, version : Nat]
            BY <1>2 DEF Put, Types
        <2>3. Types' BY <2>1, <2>2, <1>0, CompletesStep DEF Types
        <2> QED BY <2>1, <2>3, <1>0, AdvanceIsQuiet DEF Released
    <1>3. CASE Invalidate(d)
        <2>1. /\ Completes(d, Primary, "published") /\ step[d][Primary] = "put"
              /\ UNCHANGED <<aws, built, prior>>
            BY <1>3 DEF Invalidate, Going
        <2>2. Types' BY <2>1, <1>0, CompletesStep DEF Types, aws
        <2> QED BY <2>1, <2>2, <1>0, AdvanceIsQuiet DEF Released, aws
    <1>4. CASE Crash(d)
        <2>1. /\ UNCHANGED <<aws, step, fate, built, prior>>
              /\ job' \in [Deployments -> {"running", "failed", "crashed"}]
            BY <1>4 DEF Crash, Types
        <2>2. Types' BY <2>1 DEF Types, aws
        <2> QED BY <2>1, <2>2, FailureIsQuiet DEF aws
    <1> QED BY <1>1, <1>2, <1>3, <1>4 DEF Publish

LEMMA QuietKeeps ==
    ASSUME PromotionInv, QuietFacts, OrderFacts, Types'
    PROVE  PromotionInv'
    <1>1. BuiltInv' BY DEF PromotionInv, BuiltInv, QuietFacts
    <1>2. AliasInv' BY DEF PromotionInv, AliasInv, QuietFacts, Agrees
    <1>3. PriorInv' BY DEF PromotionInv, PriorInv, QuietFacts, Agrees
    <1>4. PromotedInv' BY DEF PromotionInv, PromotedInv, QuietFacts
    <1>5. OrderInv' BY DEF PromotionInv, OrderInv, OrderFacts, ComparisonsDone, Others
    <1> QED BY <1>1, <1>2, <1>3, <1>4, <1>5 DEF PromotionInv

-----------------------------------------------------------------------------
\* The five actions that do touch them complete steps no primary is released by.
LEMMA OrderKept ==
    ASSUME PromotionInv, NEW d \in Deployments, NEW f \in Functions,
           NEW s \in Steps \ Released, Completes(d, f, s), step[d][f] # "done"
    PROVE  OrderInv'
    <1>1. ASSUME NEW e \in Deployments, step'[e][Primary] \in Released,
                 NEW g \in Others
          PROVE  step'[e][g] = "done"
        <2>1. step'[e][Primary] = step[e][Primary]
            BY <1>1, CompletesStep, PromotionAssumption DEF PromotionInv
        <2>2. g \in Functions /\ step[e][g] = "done"
            BY <1>1, <2>1 DEF PromotionInv, OrderInv, ComparisonsDone, Others
        <2> QED BY <2>2, CompletesStep DEF PromotionInv
    <1> QED BY <1>1 DEF OrderInv, ComparisonsDone, Others

LEMMA PublishVersionKeeps ==
    ASSUME PromotionInv, NEW d \in Deployments, NEW f \in Functions, PublishVersion(d, f)
    PROVE  PromotionInv'
    <1> USE DEF PromotionInv
    <1>1. /\ Completes(d, f, "built") /\ step[d][f] = "configured"
          /\ "built" \in Steps \ Released
          /\ alias' = alias /\ prior' = prior /\ registry' = registry /\ latest' = latest
        BY DEF PublishVersion, Going, Steps, Released
    <1>2. /\ "built" \in BuiltSteps
          /\ "built" \notin ReadSteps \cup SmokedSteps \cup PromotedSteps
          /\ "configured" \notin ReadSteps \cup SmokedSteps \cup PromotedSteps
        BY DEF BuiltSteps, ReadSteps, SmokedSteps, PromotedSteps, Steps
    <1>p. /\ Types
          /\ built'[d][f] = Len(versions[f]) + 1 /\ Len(versions[f]) \in Nat
          /\ Len(versions'[f]) = Len(versions[f]) + 1
          /\ versions'[f][built'[d][f]] = [code |-> d, env |-> latest[f]]
          /\ \A g \in Functions : 1..Len(versions[g]) \subseteq 1..Len(versions'[g])
          /\ \A g \in Functions, v \in Nat :
                v \in 1..Len(versions[g]) => versions'[g][v] = versions[g][v]
        BY PublishAppends DEF Types
    <1>q. ASSUME NEW e \in Deployments, NEW g \in Functions, ~(e = d /\ g = f)
          PROVE  /\ step'[e][g] = step[e][g] /\ fate'[e][g] = fate[e][g]
                 /\ built'[e][g] = built[e][g]
        BY <1>p, <1>q, <1>1, CompletesStep, PublishAppends
    <1>r. step'[d][f] = "built" /\ fate'[d][f] = fate[d][f]
        BY <1>p, <1>1, CompletesStep
    <1>3. Types' BY <1>1, CompletesStep, PublishAppends DEF Types
    <1>4. ASSUME NEW g \in Functions, NEW v \in Nat, Agrees(g, v)
          PROVE  Agrees(g, v)'
        BY <1>4, <1>p DEF Agrees
    <1>5. BuiltInv'
        <2> SUFFICES ASSUME NEW e \in Deployments, NEW g \in Functions
                     PROVE  /\ step'[e][g] \in BuiltSteps =>
                                  /\ built'[e][g] \in 1..Len(versions'[g])
                                  /\ versions'[g][built'[e][g]].code = e
                            /\ step'[e][g] \in SmokedSteps =>
                                  versions'[g][built'[e][g]].env = e
            BY DEF BuiltInv
        <2>1. CASE e = d /\ g = f
            <3>1. step'[e][g] \notin SmokedSteps BY <2>1, <1>r, <1>2
            <3>2. built'[e][g] \in 1..Len(versions'[g]) BY <2>1, <1>p
            <3>3. versions'[g][built'[e][g]].code = e BY <2>1, <1>p
            <3> QED BY <3>1, <3>2, <3>3
        <2>2. CASE ~(e = d /\ g = f)
            <3>1. step'[e][g] = step[e][g] /\ built'[e][g] = built[e][g]
                BY <2>2, <1>q
            <3>2. SmokedSteps \subseteq BuiltSteps
                BY DEF SmokedSteps, ReadSteps
            <3>3. built[e][g] \in Nat BY DEF Types
            <3>4. step[e][g] \in BuiltSteps =>
                      /\ built[e][g] \in 1..Len(versions[g])
                      /\ versions[g][built[e][g]].code = e
                BY DEF BuiltInv
            <3>5. step[e][g] \in SmokedSteps => versions[g][built[e][g]].env = e
                BY DEF BuiltInv
            <3>6. built[e][g] \in 1..Len(versions[g]) =>
                      /\ built[e][g] \in 1..Len(versions'[g])
                      /\ versions'[g][built[e][g]] = versions[g][built[e][g]]
                BY <3>3, <1>p
            <3> QED BY <3>1, <3>2, <3>4, <3>5, <3>6
        <2> QED BY <2>1, <2>2
    <1>6. AliasInv' BY <1>1, <1>4 DEF AliasInv, Types, Alias
    <1>7. PriorInv'
        <2> SUFFICES ASSUME NEW e \in Deployments, NEW g \in Functions,
                            step'[e][g] \in ReadSteps
                     PROVE  (/\ Agrees(g, prior[e][g].version)
                             /\ prior[e][g].rev <= alias[g].rev
                             /\ alias[g].rev = prior[e][g].rev => alias[g] = prior[e][g])'
            BY DEF PriorInv
        <2>1. ~(e = d /\ g = f) BY <1>r, <1>2
        <2>2. step[e][g] \in ReadSteps /\ prior[e][g].version \in Nat
            BY <2>1, <1>q DEF Types, Alias
        <2>3. /\ Agrees(g, prior[e][g].version)
              /\ prior[e][g].rev <= alias[g].rev
              /\ alias[g].rev = prior[e][g].rev => alias[g] = prior[e][g]
            BY <2>2 DEF PriorInv
        <2>4. Agrees(g, prior[e][g].version)' BY <1>1, <1>4, <2>2, <2>3 DEF Agrees
        <2> QED BY <1>1, <2>3, <2>4
    <1>8. PromotedInv'
        <2> SUFFICES ASSUME NEW e \in Deployments, NEW g \in Functions
                     PROVE  (/\ fate[e][g] = "restoring" => step[e][g] \in PromotedSteps
                             /\ step[e][g] \in PromotedSteps =>
                                /\ prior[e][g].rev + 1 <= alias[g].rev
                                /\ alias[g].rev = prior[e][g].rev + 1
                                   => alias[g] = [version |-> built[e][g],
                                                  rev |-> prior[e][g].rev + 1])'
            BY DEF PromotedInv
        <2>1. CASE e = d /\ g = f
            BY <2>1, <1>r, <1>2 DEF PublishVersion, Going
        <2>2. CASE ~(e = d /\ g = f)
            BY <2>2, <1>1, <1>q DEF PromotedInv
        <2> QED BY <2>1, <2>2
    <1>9. OrderInv' BY <1>1, OrderKept
    <1> QED BY <1>3, <1>5, <1>6, <1>7, <1>8, <1>9

LEMMA GetAliasKeeps ==
    ASSUME PromotionInv, NEW d \in Deployments, NEW f \in Functions, GetAlias(d, f)
    PROVE  PromotionInv'
    <1> USE DEF PromotionInv
    <1>1. /\ Completes(d, f, "read") /\ step[d][f] = "built" /\ fate[d][f] = "going"
          /\ "read" \in Steps \ Released
          /\ prior' = [prior EXCEPT ![d][f] = alias[f]] /\ UNCHANGED <<aws, built>>
        BY DEF GetAlias, Going, Steps, Released
    <1>2. /\ "built" \in BuiltSteps
          /\ "read" \notin SmokedSteps \cup PromotedSteps
          /\ SmokedSteps \subseteq BuiltSteps
        BY DEF BuiltSteps, ReadSteps, SmokedSteps, PromotedSteps, Steps
    <1>3. /\ prior' \in [Deployments -> [Functions -> Alias]]
          /\ prior'[d][f] = alias[f]
          /\ \A e \in Deployments, g \in Functions :
                ~(e = d /\ g = f) => prior'[e][g] = prior[e][g]
        BY <1>1 DEF Types
    <1>4. Types' BY <1>1, <1>3, CompletesStep DEF Types, aws
    <1>5. BuiltInv' BY <1>1, <1>2, CompletesStep DEF BuiltInv, aws
    <1>6. AliasInv' BY <1>1 DEF AliasInv, Agrees, aws
    <1>7. ASSUME NEW e \in Deployments, NEW g \in Functions, step'[e][g] \in ReadSteps
          PROVE  (/\ Agrees(g, prior[e][g].version)
                  /\ prior[e][g].rev <= alias[g].rev
                  /\ alias[g].rev = prior[e][g].rev => alias[g] = prior[e][g])'
        <2>1. CASE e = d /\ g = f
            <3>1. Agrees(g, alias[g].version) /\ alias[g].rev \in Nat
                BY DEF AliasInv, Types, Alias
            <3> QED BY <2>1, <3>1, <1>1, <1>3 DEF Agrees, aws
        <2>2. CASE ~(e = d /\ g = f)
            <3>1. step[e][g] \in ReadSteps BY <2>2, <1>1, <1>7, CompletesStep
            <3> QED BY <2>2, <3>1, <1>1, <1>3 DEF PriorInv, Agrees, aws
        <2> QED BY <2>1, <2>2
    <1>8. PriorInv' BY <1>7 DEF PriorInv
    <1>9. ASSUME NEW e \in Deployments, NEW g \in Functions
          PROVE  (/\ fate[e][g] = "restoring" => step[e][g] \in PromotedSteps
                  /\ step[e][g] \in PromotedSteps =>
                        /\ prior[e][g].rev + 1 <= alias[g].rev
                        /\ alias[g].rev = prior[e][g].rev + 1
                              => alias[g] = [version |-> built[e][g],
                                             rev |-> prior[e][g].rev + 1])'
        <2>1. CASE e = d /\ g = f
            BY <2>1, <1>1, <1>2, CompletesStep
        <2>2. CASE ~(e = d /\ g = f)
            BY <2>2, <1>1, <1>3, CompletesStep DEF PromotedInv, aws
        <2> QED BY <2>1, <2>2
    <1>10. PromotedInv' BY <1>9 DEF PromotedInv
    <1>11. OrderInv' BY <1>1, OrderKept
    <1> QED BY <1>4, <1>5, <1>6, <1>8, <1>10, <1>11

LEMMA SmokeVersionKeeps ==
    ASSUME PromotionInv, NEW d \in Deployments, NEW f \in Functions, SmokeVersion(d, f)
    PROVE  PromotionInv'
    <1> USE DEF PromotionInv
    <1>1. /\ Completes(d, f, "smoked") /\ step[d][f] = "read" /\ fate[d][f] = "going"
          /\ "smoked" \in Steps \ Released /\ versions[f][built[d][f]].env = d
          /\ UNCHANGED <<aws, built, prior>>
        BY DEF SmokeVersion, Going, Steps, Released
    <1>2. /\ "read" \in BuiltSteps /\ "read" \in ReadSteps
          /\ "smoked" \notin PromotedSteps
        BY DEF BuiltSteps, ReadSteps, SmokedSteps, PromotedSteps, Steps
    <1>3. Types' BY <1>1, CompletesStep DEF Types, aws
    <1>4. BuiltInv' BY <1>1, <1>2, CompletesStep DEF BuiltInv, aws
    <1>5. AliasInv' BY <1>1 DEF AliasInv, Agrees, aws
    <1>6. PriorInv' BY <1>1, <1>2, CompletesStep DEF PriorInv, Agrees, aws
    <1>7. PromotedInv' BY <1>1, <1>2, CompletesStep DEF PromotedInv, aws
    <1>8. OrderInv' BY <1>1, OrderKept
    <1> QED BY <1>3, <1>4, <1>5, <1>6, <1>7, <1>8

\* The alias of one function moves on to a version that agrees.
LEMMA MovedAlias ==
    ASSUME PromotionInv, NEW f \in Functions, NEW v \in Nat, Agrees(f, v), Moves(f, v),
           versions' = versions
    PROVE  /\ alias' \in [Functions -> Alias]
           /\ alias'[f] = [version |-> v, rev |-> alias[f].rev + 1]
           /\ \A g \in Functions : g # f => alias'[g] = alias[g]
           /\ AliasInv'
    <1>1. /\ alias' = [alias EXCEPT ![f] = [version |-> v, rev |-> alias[f].rev + 1]]
          /\ alias \in [Functions -> Alias] /\ alias[f].rev \in Nat
        BY DEF Moves, PromotionInv, Types, Alias
    <1>2. /\ alias' \in [Functions -> Alias]
          /\ alias'[f] = [version |-> v, rev |-> alias[f].rev + 1]
          /\ \A g \in Functions : g # f => alias'[g] = alias[g]
        BY <1>1 DEF Alias
    <1>3. AliasInv' BY <1>2 DEF PromotionInv, AliasInv, Agrees
    <1> QED BY <1>2, <1>3

\* What deployments know of an alias that moves on stays true of what it was.
LEMMA MovedPrior ==
    ASSUME PromotionInv, NEW f \in Functions, NEW v \in Nat, Agrees(f, v), Moves(f, v),
           versions' = versions, prior' = prior, built' = built,
           NEW e \in Deployments, NEW g \in Functions
    PROVE  /\ step[e][g] \in ReadSteps =>
                 (/\ Agrees(g, prior[e][g].version)
                  /\ prior[e][g].rev <= alias[g].rev
                  /\ alias[g].rev = prior[e][g].rev => alias[g] = prior[e][g])'
           /\ step[e][g] \in PromotedSteps =>
                 (/\ prior[e][g].rev + 1 <= alias[g].rev
                  /\ alias[g].rev = prior[e][g].rev + 1
                        => alias[g] = [version |-> built[e][g],
                                       rev |-> prior[e][g].rev + 1])'
    <1>1. prior[e][g].rev \in Nat /\ alias[g].rev \in Nat
        BY DEF PromotionInv, Types, Alias
    <1>0. /\ alias'[f] = [version |-> v, rev |-> alias[f].rev + 1]
          /\ \A h \in Functions : h # f => alias'[h] = alias[h]
        BY MovedAlias
    <1>2. alias'[g] = alias[g] \/ alias'[g].rev = alias[g].rev + 1
        BY <1>0
    <1>3. step[e][g] \in ReadSteps =>
              /\ Agrees(g, prior[e][g].version)
              /\ prior[e][g].rev <= alias[g].rev
              /\ alias[g].rev = prior[e][g].rev => alias[g] = prior[e][g]
        BY DEF PromotionInv, PriorInv
    <1>4. step[e][g] \in PromotedSteps =>
              /\ prior[e][g].rev + 1 <= alias[g].rev
              /\ alias[g].rev = prior[e][g].rev + 1
                    => alias[g] = [version |-> built[e][g], rev |-> prior[e][g].rev + 1]
        BY DEF PromotionInv, PromotedInv
    <1>a. Agrees(g, prior[e][g].version) => Agrees(g, prior[e][g].version)'
        BY DEF Agrees
    <1>5. CASE alias'[g] = alias[g] BY <1>3, <1>4, <1>5, <1>a
    <1>6. CASE alias'[g].rev = alias[g].rev + 1
        <2>1. step[e][g] \in ReadSteps =>
                  prior[e][g].rev <= alias'[g].rev /\ alias'[g].rev # prior[e][g].rev
            BY <1>1, <1>3, <1>6
        <2>2. step[e][g] \in PromotedSteps =>
                  prior[e][g].rev + 1 <= alias'[g].rev /\ alias'[g].rev # prior[e][g].rev + 1
            BY <1>1, <1>4, <1>6
        <2> QED BY <2>1, <2>2, <1>3, <1>a
    <1> QED BY <1>2, <1>5, <1>6

LEMMA PromoteKeeps ==
    ASSUME PromotionInv, NEW d \in Deployments, NEW f \in Functions, Promote(d, f)
    PROVE  PromotionInv'
    <1> USE DEF PromotionInv
    <1>1. /\ Completes(d, f, "promoted") /\ step[d][f] = "smoked" /\ fate[d][f] = "going"
          /\ "promoted" \in Steps \ Released /\ alias[f].rev = prior[d][f].rev
          /\ Moves(f, built[d][f])
          /\ UNCHANGED <<latest, versions, registry, built, prior>>
        BY DEF Promote, Going, Steps, Released
    <1>2. /\ "smoked" \in BuiltSteps /\ "smoked" \in ReadSteps /\ "smoked" \in SmokedSteps
          /\ "promoted" \in PromotedSteps
        BY DEF BuiltSteps, ReadSteps, SmokedSteps, PromotedSteps, Steps
    <1>3. built[d][f] \in Nat /\ Agrees(f, built[d][f])
        BY <1>1, <1>2 DEF BuiltInv, Agrees, Types
    <1>4. /\ alias' \in [Functions -> Alias]
          /\ alias'[f] = [version |-> built[d][f], rev |-> prior[d][f].rev + 1]
          /\ AliasInv'
        BY <1>1, <1>3, MovedAlias
    <1>5. Types' BY <1>1, <1>4, CompletesStep DEF Types
    <1>6. BuiltInv' BY <1>1, <1>2, CompletesStep DEF BuiltInv
    <1>7. PriorInv'
        <2> SUFFICES ASSUME NEW e \in Deployments, NEW g \in Functions,
                            step'[e][g] \in ReadSteps
                     PROVE  (/\ Agrees(g, prior[e][g].version)
                             /\ prior[e][g].rev <= alias[g].rev
                             /\ alias[g].rev = prior[e][g].rev => alias[g] = prior[e][g])'
            BY DEF PriorInv
        <2>1. step[e][g] \in ReadSteps BY <1>1, <1>2, CompletesStep
        <2> QED BY <2>1, <1>1, <1>3, MovedPrior
    <1>8. PromotedInv'
        <2> SUFFICES ASSUME NEW e \in Deployments, NEW g \in Functions
                     PROVE  (/\ fate[e][g] = "restoring" => step[e][g] \in PromotedSteps
                             /\ step[e][g] \in PromotedSteps =>
                                   /\ prior[e][g].rev + 1 <= alias[g].rev
                                   /\ alias[g].rev = prior[e][g].rev + 1
                                         => alias[g] = [version |-> built[e][g],
                                                        rev |-> prior[e][g].rev + 1])'
            BY DEF PromotedInv
        <2>1. CASE e = d /\ g = f
            <3>1. prior[d][f].rev \in Nat BY DEF Types, Alias
            <3> QED BY <2>1, <3>1, <1>1, <1>2, <1>4, CompletesStep
        <2>2. CASE ~(e = d /\ g = f)
            <3>1. step'[e][g] = step[e][g] /\ fate'[e][g] = fate[e][g]
                BY <2>2, <1>1, CompletesStep
            <3>2. fate[e][g] = "restoring" => step[e][g] \in PromotedSteps
                BY DEF PromotedInv
            <3> QED BY <3>1, <3>2, <1>1, <1>3, MovedPrior
        <2> QED BY <2>1, <2>2
    <1>9. OrderInv' BY <1>1, OrderKept
    <1> QED BY <1>4, <1>5, <1>6, <1>7, <1>8, <1>9

LEMMA RestoreKeeps ==
    ASSUME PromotionInv, NEW d \in Deployments, NEW f \in Functions, Restore(d, f)
    PROVE  PromotionInv'
    <1> USE DEF PromotionInv
    <1>1. /\ Throws(d, f) /\ fate[d][f] = "restoring"
          /\ Moves(f, prior[d][f].version)
          /\ UNCHANGED <<latest, versions, registry>>
        BY DEF Restore
    <1>2. /\ PromotedSteps \subseteq ReadSteps /\ "verified" \in PromotedSteps
        BY DEF PromotedSteps, SmokedSteps, ReadSteps, BuiltSteps, Steps
    <1>3. prior[d][f].version \in Nat /\ Agrees(f, prior[d][f].version)
        BY <1>1, <1>2 DEF PriorInv, PromotedInv, Types, Alias
    <1>4. alias' \in [Functions -> Alias] /\ AliasInv'
        BY <1>1, <1>3, MovedAlias
    <1>5. step' = step /\ built' = built /\ prior' = prior
        BY <1>1, ThrowsFate
    <1>6. Types' BY <1>1, <1>4, <1>5, ThrowsFate DEF Types
    <1>7. BuiltInv' BY <1>1, <1>5 DEF BuiltInv
    <1>8. PriorInv' BY <1>1, <1>3, <1>5, MovedPrior DEF PriorInv
    <1>9. PromotedInv'
        <2>1. ASSUME NEW e \in Deployments, NEW g \in Functions, fate'[e][g] = "restoring"
              PROVE  step'[e][g] \in PromotedSteps
            BY <2>1, <1>1, <1>2, <1>5, ThrowsFate DEF PromotedInv
        <2> QED BY <2>1, <1>1, <1>3, <1>5, MovedPrior DEF PromotedInv
    <1>10. OrderInv' BY <1>5 DEF OrderInv, ComparisonsDone
    <1> QED BY <1>4, <1>6, <1>7, <1>8, <1>9, <1>10

-----------------------------------------------------------------------------
LEMMA PromotionInit == Init => PromotionInv
    <1> SUFFICES ASSUME Init PROVE PromotionInv
        OBVIOUS
    <1> USE PromotionAssumption
    <1> DEFINE old == [v \in 1..Earlier |-> [code |-> Before, env |-> Before]]
    <1>1. old \in Seq(Version) /\ Len(old) = Earlier /\ \A v \in 1..Earlier : old[v].code = old[v].env
        BY DEF Version
    <1>2. \A f \in Functions : versions[f] = old
        BY DEF Init
    <1>3. PICK v \in 1..Earlier :
            /\ alias = [f \in Functions |-> [version |-> v, rev |-> 0]]
            /\ registry = [deployment |-> Before, version |-> v]
        BY DEF Init
    <1>4. /\ step = [d \in Deployments |-> [f \in Functions |-> "begun"]]
          /\ fate = [d \in Deployments |-> [f \in Functions |-> "going"]]
          /\ "begun" \in Steps /\ "begun" \notin BuiltSteps \cup Released
          /\ ReadSteps \subseteq BuiltSteps /\ SmokedSteps \subseteq BuiltSteps
          /\ PromotedSteps \subseteq BuiltSteps
        BY DEF Init, Steps, BuiltSteps, Released, ReadSteps, SmokedSteps, PromotedSteps
    <1>5. Types
        <2>1. versions \in [Functions -> Seq(Version)]
            BY <1>1 DEF Init
        <2>2. alias \in [Functions -> Alias] BY <1>3 DEF Alias
        <2>3. registry \in [deployment : Deployments \cup {Before}, version : Nat] BY <1>3
        <2>4. prior \in [Deployments -> [Functions -> Alias]] BY DEF Init, Alias
        <2>5. /\ latest \in [Functions -> Deployments \cup {Before}]
              /\ built \in [Deployments -> [Functions -> Nat]]
              /\ job \in [Deployments -> {"running", "failed", "crashed"}]
            BY DEF Init
        <2>6. /\ step \in [Deployments -> [Functions -> Steps]]
              /\ fate \in [Deployments -> [Functions -> {"going", "restoring", "threw"}]]
            BY <1>4
        <2> QED BY <2>1, <2>2, <2>3, <2>4, <2>5, <2>6 DEF Types
    <1>6. AliasInv BY <1>1, <1>2, <1>3 DEF AliasInv, Agrees
    <1>7. BuiltInv /\ PriorInv BY <1>4 DEF BuiltInv, PriorInv
    <1>8. PromotedInv BY <1>4 DEF PromotedInv
    <1>9. OrderInv BY <1>4 DEF OrderInv
    <1> QED BY <1>5, <1>6, <1>7, <1>8, <1>9 DEF PromotionInv

LEMMA PromotionStep == PromotionInv /\ [Next]_vars => PromotionInv'
    <1> SUFFICES ASSUME PromotionInv, [Next]_vars PROVE PromotionInv'
        OBVIOUS
    <1>0. Types BY DEF PromotionInv
    <1>1. CASE UNCHANGED vars
        BY <1>1 DEF vars, aws, PromotionInv, Types, BuiltInv, AliasInv, PriorInv, PromotedInv,
                    OrderInv, Agrees, ComparisonsDone
    <1>2. ASSUME NEW d \in Deployments, Publish(d) \/ Crash(d) PROVE PromotionInv'
        BY <1>0, <1>2, PublishMoves, QuietKeeps
    <1>3. ASSUME NEW d \in Deployments, NEW f \in Functions, Task(d, f) PROVE PromotionInv'
        <2>1. CASE Quiet(d, f) BY <1>0, <2>1, QuietMoves, QuietKeeps
        <2>2. CASE PublishVersion(d, f) BY <2>2, PublishVersionKeeps
        <2>3. CASE GetAlias(d, f) BY <2>3, GetAliasKeeps
        <2>4. CASE SmokeVersion(d, f) BY <2>4, SmokeVersionKeeps
        <2>5. CASE Promote(d, f) BY <2>5, PromoteKeeps
        <2>6. CASE Restore(d, f) BY <2>6, RestoreKeeps
        <2> QED BY <1>3, <2>1, <2>2, <2>3, <2>4, <2>5, <2>6 DEF Task, Quiet
    <1> QED BY <1>1, <1>2, <1>3 DEF Next

\* The inductive invariant of LivePromotion: see its conjuncts above.
THEOREM PromotionInvariant == Spec => []PromotionInv
    BY PromotionInit, PromotionStep, PTL DEF Spec

\* ServedAgrees (SmokeVersion's identity check): an alias serves only versions whose
\* environment names the commit of their code.
THEOREM ServedVersionAgrees == Spec => []ServedAgrees
    <1>1. PromotionInv => ServedAgrees
        BY DEF PromotionInv, AliasInv, Agrees, ServedAgrees, Served
    <1> QED BY <1>1, PromotionInvariant, PTL

-----------------------------------------------------------------------------
\* What moves the alias of a function: a promotion from exactly what was read, or the
\* rollback of exactly one's own promotion.
LEMMA AliasMoves ==
    ASSUME PromotionInv, [Next]_vars, NEW f \in Functions, alias'[f] # alias[f]
    PROVE  AliasStep(f)
    <1>0. Types BY DEF PromotionInv
    <1>1. CASE UNCHANGED vars BY <1>1 DEF vars, aws
    <1>2. ASSUME NEW d \in Deployments, Publish(d) \/ Crash(d) PROVE FALSE
        BY <1>0, <1>2, PublishMoves DEF QuietFacts
    <1>3. ASSUME NEW d \in Deployments, NEW g \in Functions, Task(d, g) PROVE AliasStep(f)
        <2>1. CASE Quiet(d, g) BY <1>0, <2>1, QuietMoves DEF QuietFacts
        <2>2. CASE PublishVersion(d, g) \/ GetAlias(d, g) \/ SmokeVersion(d, g)
            BY <2>2 DEF PublishVersion, GetAlias, SmokeVersion, aws
        <2>3. CASE Promote(d, g)
            <3>1. /\ alias' = [alias EXCEPT ![g] =
                        [version |-> built[d][g], rev |-> alias[g].rev + 1]]
                  /\ alias[g].rev = prior[d][g].rev /\ step[d][g] = "smoked"
                BY <2>3 DEF Promote, Moves, Going
            <3>2. f = g BY <1>0, <3>1 DEF Types
            <3>3. "smoked" \in ReadSteps BY DEF ReadSteps, BuiltSteps, Steps
            <3>4. alias[f] = prior[d][f]
                BY <3>1, <3>2, <3>3 DEF PromotionInv, PriorInv
            <3>5. alias'[f].version = built[d][f]
                BY <1>0, <3>1, <3>2 DEF Types
            <3> QED BY <3>4, <3>5 DEF AliasStep
        <2>4. CASE Restore(d, g)
            <3>1. /\ alias' = [alias EXCEPT ![g] =
                        [version |-> prior[d][g].version, rev |-> alias[g].rev + 1]]
                  /\ alias[g].rev = prior[d][g].rev + 1 /\ fate[d][g] = "restoring"
                BY <2>4 DEF Restore, Moves
            <3>2. f = g BY <1>0, <3>1 DEF Types
            <3>3. alias[f] = [version |-> built[d][f], rev |-> prior[d][f].rev + 1]
                BY <3>1, <3>2 DEF PromotionInv, PromotedInv
            <3>4. alias'[f].version = prior[d][f].version
                BY <1>0, <3>1, <3>2 DEF Types
            <3> QED BY <3>3, <3>4 DEF AliasStep
        <2> QED BY <1>3, <2>1, <2>2, <2>3, <2>4 DEF Task, Quiet
    <1> QED BY <1>1, <1>2, <1>3 DEF Next

\* NoLostPromotion (update-alias with --revision-id, in the promotion and in
\* rollbackAlias): no promotion is overwritten by a deployment that did not see it.
THEOREM NoPromotionLost == Spec => NoLostPromotion
    <1>1. PromotionInv /\ [Next]_vars =>
              [\A f \in Functions : alias'[f] # alias[f] => AliasStep(f)]_vars
        BY AliasMoves
    <1> QED BY <1>1, PromotionInvariant, PTL DEF Spec, NoLostPromotion

-----------------------------------------------------------------------------
\* The rollback target.  A prune by a deployment x can delete what d may still roll
\* back to only if d promoted before x did, and then the alias is past d's version:
\* otherwise d replaced a version promoted no earlier than x was, and fewer than
\* Retain later ones exist.
PruneStep(f) == IF f = Primary THEN "published" ELSE "verified"
Promoted(d, f) == step[d][f] \in PromotedSteps
\* It reached its prune, or finished it: it will not roll back any more.
Settled(d, f) == step[d][f] \in {PruneStep(f), "done"}
\* It promoted and did not end before its prune.
Kept(d, f) == Promoted(d, f) /\ (Settled(d, f) \/ fate[d][f] # "threw")
\* It promoted and may still roll back.
AtRisk(d, f) == step[d][f] \in Restorable \ {PruneStep(f)} /\ fate[d][f] # "threw"

LiveInv == \A f \in Functions :
    live[f] \subseteq 1..Len(versions[f]) /\ alias[f].version \in live[f]
\* Every version after the earlier ones was built by a deployment.
BuildersInv == \A f \in Functions :
    /\ \A v \in 1..Len(versions[f]) : v > Earlier =>
          \E d \in Deployments : step[d][f] \in BuiltSteps /\ built[d][f] = v
    /\ Earlier <= Len(versions[f])
    /\ \A d \in Deployments : step[d][f] \in BuiltSteps => built[d][f] > Earlier
RestoringInv == \A d \in Deployments, f \in Functions :
    fate[d][f] = "restoring" => AtRisk(d, f)
\* Promotions replaced different revisions.
RevisionsInv == \A d, e \in Deployments, f \in Functions :
    Promoted(d, f) /\ Promoted(e, f) /\ d # e => prior[d][f].rev # prior[e][f].rev
\* Version v of f was promoted no earlier than e's.
NoOlder(f, v, e) == \E g \in Deployments :
    Promoted(g, f) /\ built[g][f] = v /\ prior[e][f].rev <= prior[g][f].rev
AliasNewInv == \A e \in Deployments, f \in Functions :
    Kept(e, f) => NoOlder(f, alias[f].version, e)
PriorNewInv == \A d, e \in Deployments, f \in Functions :
    Promoted(d, f) /\ Kept(e, f) /\ prior[e][f].rev < prior[d][f].rev =>
        NoOlder(f, prior[d][f].version, e)
OrderedInv == RestoringInv /\ RevisionsInv /\ AliasNewInv /\ PriorNewInv
TargetInv == \A d \in Deployments, f \in Functions :
    AtRisk(d, f) =>
        \/ prior[d][f].version \in live[f]
        \/ \E e \in Deployments : Settled(e, f) /\ prior[d][f].rev < prior[e][f].rev
\* Finitely many pushes, no more than the versions a prune keeps.
Few == IsFiniteSet(Deployments) /\ Cardinality(Deployments) <= Retain
RollbackInv ==
    /\ live \in [Functions -> SUBSET Nat] /\ LiveInv /\ BuildersInv /\ OrderedInv
    /\ Few => TargetInv

\* What every step but a promotion and a rollback leaves of all this.
Calm ==
    /\ alias' = alias
    /\ \A e \in Deployments, g \in Functions :
          /\ Promoted(e, g)' <=> Promoted(e, g)
          /\ Promoted(e, g) => prior'[e][g] = prior[e][g] /\ built'[e][g] = built[e][g]
          /\ Kept(e, g)' => Kept(e, g)
          /\ AtRisk(e, g)' => AtRisk(e, g)
          /\ Settled(e, g) => Settled(e, g)'
          /\ fate'[e][g] = "restoring" => AtRisk(e, g)'

LEMMA StepSets ==
    /\ Restorable \subseteq PromotedSteps /\ PromotedSteps \subseteq SmokedSteps
    /\ SmokedSteps \subseteq ReadSteps /\ ReadSteps \subseteq BuiltSteps
    /\ \A f \in Functions : PruneStep(f) \in PromotedSteps
    /\ "done" \in PromotedSteps /\ "done" \notin Restorable
    BY DEF Restorable, PromotedSteps, SmokedSteps, ReadSteps, BuiltSteps, Steps, PruneStep

LEMMA RevisionTypes ==
    ASSUME Types
    PROVE  \A d \in Deployments, f \in Functions :
               prior[d][f].rev \in Nat /\ alias[f].rev \in Nat
    BY DEF Types, Alias

\* Two deployments never built the same version.
LEMMA BuiltOnce ==
    ASSUME PromotionInv, NEW f \in Functions,
           NEW d \in Deployments, step[d][f] \in BuiltSteps,
           NEW e \in Deployments, step[e][f] \in BuiltSteps, built[d][f] = built[e][f]
    PROVE  d = e
    BY DEF PromotionInv, BuiltInv

\* Completing such a step is calm.
LEMMA AdvanceIsCalm ==
    ASSUME PromotionInv, RollbackInv,
           NEW d \in Deployments, NEW f \in Functions, NEW s \in Steps,
           Completes(d, f, s), fate[d][f] = "going", step[d][f] # "done",
           s \in PromotedSteps <=> step[d][f] \in PromotedSteps,
           s \in Restorable => step[d][f] \in Restorable,
           s = PruneStep(f) => step[d][f] \in Restorable,
           step[d][f] = PruneStep(f) => s = "done", alias' = alias,
           \A e \in Deployments, g \in Functions :
               Promoted(e, g) => prior'[e][g] = prior[e][g] /\ built'[e][g] = built[e][g]
    PROVE  Calm
    <1>0. Types BY DEF PromotionInv
    <1>1. /\ step'[d][f] = s /\ fate' = fate
          /\ \A e \in Deployments, g \in Functions :
                ~(e = d /\ g = f) => step'[e][g] = step[e][g]
        BY <1>0, CompletesStep
    <1>2. ASSUME NEW e \in Deployments, NEW g \in Functions
          PROVE  /\ Promoted(e, g)' <=> Promoted(e, g)
                 /\ Kept(e, g)' => Kept(e, g)
                 /\ AtRisk(e, g)' => AtRisk(e, g)
                 /\ Settled(e, g) => Settled(e, g)'
                 /\ fate'[e][g] = "restoring" => AtRisk(e, g)'
        <2>1. CASE ~(e = d /\ g = f)
            <3>1. step'[e][g] = step[e][g] /\ fate'[e][g] = fate[e][g]
                BY <2>1, <1>1
            <3>2. fate[e][g] = "restoring" => AtRisk(e, g)
                BY DEF RollbackInv, OrderedInv, RestoringInv
            <3> QED BY <3>1, <3>2 DEF Promoted, Kept, AtRisk, Settled
        <2>2. CASE e = d /\ g = f
            <3>1. /\ step'[e][g] = s /\ fate'[e][g] = "going" /\ fate[e][g] = "going"
                BY <2>2, <1>1
            <3>2. "done" \notin Restorable BY StepSets
            <3> QED BY <2>2, <3>1, <3>2 DEF Promoted, Kept, AtRisk, Settled
        <2> QED BY <2>1, <2>2
    <1> QED BY <1>2 DEF Calm

\* So is a failure: none revives a deployment, and what starts to restore promoted.
LEMMA FailureIsCalm ==
    ASSUME PromotionInv, RollbackInv,
           step' = step, alias' = alias, prior' = prior, built' = built,
           \A e \in Deployments, g \in Functions :
               /\ fate'[e][g] # "threw" => fate[e][g] # "threw"
               /\ fate'[e][g] = "restoring" =>
                     fate[e][g] = "restoring" \/ step[e][g] \in Restorable \ {PruneStep(g)}
    PROVE  Calm
    BY DEF Calm, Promoted, Kept, AtRisk, Settled, RollbackInv, OrderedInv, RestoringInv

LEMMA ThrowsIsCalm ==
    ASSUME PromotionInv, RollbackInv, NEW d \in Deployments, NEW f \in Functions,
           Throws(d, f), alias' = alias
    PROVE  Calm
    <1>1. fate' = [fate EXCEPT ![d] = [g \in Functions |->
              IF g = f THEN "threw"
              ELSE IF g = Primary /\ Going(d, g, "verified") THEN "restoring"
              ELSE fate[d][g]]]
        BY DEF Throws
    <1>2. ASSUME NEW e \in Deployments, NEW g \in Functions
          PROVE  /\ fate'[e][g] # "threw" => fate[e][g] # "threw"
                 /\ fate'[e][g] = "restoring" =>
                       \/ fate[e][g] = "restoring"
                       \/ g = Primary /\ step[e][g] = "verified"
        BY <1>1 DEF PromotionInv, Types, Going
    <1>3. "verified" \in Restorable \ {PruneStep(Primary)}
        BY DEF Restorable, PruneStep
    <1>4. step' = step /\ prior' = prior /\ built' = built BY DEF Throws
    <1> QED BY <1>2, <1>3, <1>4, FailureIsCalm

LEMMA CalmKeeps ==
    ASSUME PromotionInv, OrderedInv, Calm
    PROVE  OrderedInv'
    <1> USE DEF OrderedInv
    <1>1. RestoringInv' BY DEF Calm, RestoringInv
    <1>2. RevisionsInv' BY DEF Calm, RevisionsInv
    <1>3. ASSUME NEW f \in Functions, NEW e \in Deployments, NEW v, NoOlder(f, v, e),
                 Promoted(e, f)
          PROVE  NoOlder(f, v, e)'
        BY <1>3 DEF Calm, NoOlder
    <1>4. AliasNewInv'
        <2> SUFFICES ASSUME NEW e \in Deployments, NEW f \in Functions, Kept(e, f)'
                     PROVE  NoOlder(f, alias[f].version, e)'
            BY DEF AliasNewInv
        <2>1. Kept(e, f) /\ Promoted(e, f) /\ alias' = alias BY DEF Calm, Kept
        <2>2. NoOlder(f, alias[f].version, e) BY <2>1 DEF AliasNewInv
        <2>3. \A v : NoOlder(f, v, e) => NoOlder(f, v, e)' BY <2>1, <1>3
        <2> QED BY <2>1, <2>2, <2>3 DEF NoOlder
    <1>5. PriorNewInv'
        <2> SUFFICES ASSUME NEW d \in Deployments, NEW e \in Deployments,
                            NEW f \in Functions, Promoted(d, f)', Kept(e, f)',
                            prior'[e][f].rev < prior'[d][f].rev
                     PROVE  NoOlder(f, prior[d][f].version, e)'
            BY DEF PriorNewInv
        <2>1. /\ Promoted(d, f) /\ Kept(e, f) /\ Promoted(e, f)
              /\ prior'[d][f] = prior[d][f] /\ prior'[e][f] = prior[e][f]
            BY DEF Calm, Kept
        <2>2. NoOlder(f, prior[d][f].version, e) BY <2>1 DEF PriorNewInv
        <2>3. \A v : NoOlder(f, v, e) => NoOlder(f, v, e)' BY <2>1, <1>3
        <2> QED BY <2>1, <2>2, <2>3 DEF NoOlder
    <1> QED BY <1>1, <1>2, <1>4, <1>5

\* Versions that are not deleted remain targets.
LEMMA TargetsStay ==
    ASSUME PromotionInv, TargetInv, Calm, \A f \in Functions : live[f] \subseteq live'[f]
    PROVE  TargetInv'
    <1> SUFFICES ASSUME NEW d \in Deployments, NEW f \in Functions, AtRisk(d, f)'
                 PROVE  (\/ prior[d][f].version \in live[f]
                         \/ \E e \in Deployments :
                               Settled(e, f) /\ prior[d][f].rev < prior[e][f].rev)'
        BY DEF TargetInv
    <1>1. AtRisk(d, f) /\ prior'[d][f] = prior[d][f]
        BY StepSets DEF Calm, AtRisk, Promoted
    <1>2. CASE prior[d][f].version \in live[f] BY <1>1, <1>2
    <1>3. ASSUME NEW e \in Deployments, Settled(e, f), prior[d][f].rev < prior[e][f].rev
          PROVE  Settled(e, f)' /\ prior'[d][f].rev < prior'[e][f].rev
        BY <1>1, <1>3, StepSets DEF Calm, Settled, Promoted
    <1> QED BY <1>1, <1>2, <1>3 DEF TargetInv

\* A version that was promoted is not stale: every later one was built by another
\* deployment, and these are fewer than Retain.
LEMMA PruneSpares ==
    ASSUME PromotionInv, LiveInv, BuildersInv, live \in [Functions -> SUBSET Nat],
           IsFiniteSet(Deployments), Cardinality(Deployments) <= Retain,
           NEW f \in Functions, NEW g \in Deployments, Promoted(g, f)
    PROVE  built[g][f] \notin Stale(f)
    <1> DEFINE newer == {w \in live[f] : w > built[g][f]}
               others == Deployments \ {g}
    <1>1. step[g][f] \in BuiltSteps BY StepSets DEF Promoted
    <1>2. built[g][f] > Earlier /\ built[g][f] \in Nat /\ Earlier \in Nat
        BY <1>1, PromotionAssumption DEF BuildersInv, PromotionInv, Types
    <1>3. ASSUME NEW w \in newer PROVE \E d \in others : built[d][f] = w
        <2>1. w \in 1..Len(versions[f]) /\ w \in Nat /\ w > built[g][f]
            BY <1>3 DEF LiveInv
        <2>2. w > Earlier BY <2>1, <1>2
        <2>3. PICK d \in Deployments : built[d][f] = w
            BY <2>1, <2>2 DEF BuildersInv
        <2>4. d # g BY <2>1, <2>3, <1>2
        <2> QED BY <2>3, <2>4
    <1> DEFINE who == [w \in newer |-> CHOOSE d \in others : built[d][f] = w]
    <1>4. \A w \in newer : who[w] \in others /\ built[who[w]][f] = w
        BY <1>3
    <1>5. who \in Injection(newer, others)
        <2>1. who \in [newer -> others] BY <1>4
        <2>2. \A v, w \in newer : who[v] = who[w] => v = w BY <1>4
        <2> HIDE DEF who
        <2> QED BY <2>1, <2>2 DEF Injection, IsInjective
    <1>6. /\ IsFiniteSet(others) /\ Cardinality(others) = Cardinality(Deployments) - 1
          /\ Cardinality(Deployments) \in Nat
        BY FS_RemoveElement, FS_CardinalityType
    <1>7. IsFiniteSet(newer) /\ Cardinality(newer) <= Cardinality(others)
        <2> HIDE DEF who, newer, others
        <2> QED BY <1>5, <1>6, FS_Injection
    <1>8. Cardinality(newer) \in Nat BY <1>7, FS_CardinalityType
    <1>9. ~(Cardinality(newer) >= Retain)
        <2> HIDE DEF newer, others
        <2> QED BY <1>6, <1>7, <1>8, PromotionAssumption
    <1> QED BY <1>9 DEF Stale

\* A prune that deletes stale versions leaves every target, or d is overtaken.
LEMMA PruneKeepsTargets ==
    ASSUME PromotionInv, RollbackInv, Calm, Few,
           NEW x \in Deployments, NEW f \in Functions, NEW S \in SUBSET Stale(f),
           step[x][f] = PruneStep(f), live' = [live EXCEPT ![f] = @ \ S]
    PROVE  TargetInv'
    <1> SUFFICES ASSUME NEW d \in Deployments, NEW h \in Functions, AtRisk(d, h)'
                 PROVE  (\/ prior[d][h].version \in live[h]
                         \/ \E e \in Deployments :
                               Settled(e, h) /\ prior[d][h].rev < prior[e][h].rev)'
        BY DEF TargetInv
    <1>1. AtRisk(d, h) /\ Promoted(d, h) /\ prior'[d][h] = prior[d][h]
        BY StepSets DEF Calm, AtRisk, Promoted
    <1>2. ASSUME NEW e \in Deployments, Settled(e, h), prior[d][h].rev < prior[e][h].rev
          PROVE  Settled(e, h)' /\ prior'[d][h].rev < prior'[e][h].rev
        BY <1>1, <1>2, StepSets DEF Calm, Settled, Promoted
    <1>3. TargetInv /\ live \in [Functions -> SUBSET Nat] BY DEF RollbackInv
    <1>4. CASE prior[d][h].version \in live[h] /\ h = f
        <2>1. Settled(x, f) /\ Promoted(x, f) /\ Kept(x, f)
            BY StepSets DEF Settled, Promoted, Kept
        <2>2. x # d BY <1>1, <1>4 DEF AtRisk
        <2>3. prior[d][f].rev \in Nat /\ prior[x][f].rev \in Nat
            BY RevisionTypes DEF PromotionInv
        <2>4. prior[d][f].rev # prior[x][f].rev
            BY <1>1, <1>4, <2>1, <2>2 DEF RollbackInv, OrderedInv, RevisionsInv
        <2>5. CASE prior[d][f].rev < prior[x][f].rev BY <2>1, <2>5, <1>2, <1>4
        <2>6. CASE prior[x][f].rev < prior[d][f].rev
            <3>1. NoOlder(f, prior[d][f].version, x)
                BY <1>1, <1>4, <2>1, <2>6 DEF RollbackInv, OrderedInv, PriorNewInv
            <3>2. PICK g \in Deployments : Promoted(g, f) /\ built[g][f] = prior[d][f].version
                BY <3>1 DEF NoOlder
            <3>3. prior[d][f].version \notin S
                BY <3>2, PruneSpares DEF RollbackInv, Few
            <3>4. live'[f] = live[f] \ S BY <1>3
            <3> QED BY <1>1, <1>4, <3>3, <3>4
        <2> QED BY <2>3, <2>4, <2>5, <2>6
    <1>5. CASE prior[d][h].version \in live[h] /\ h # f
        <2>1. live'[h] = live[h] BY <1>3, <1>5
        <2> QED BY <2>1, <1>1, <1>5
    <1> QED BY <1>1, <1>2, <1>3, <1>4, <1>5 DEF TargetInv

\* The steps that publish, prune, promote and restore nothing.
LEMMA CalmSteps ==
    ASSUME PromotionInv, RollbackInv, NEW d \in Deployments, NEW f \in Functions,
           \/ Publish(d) \/ Crash(d) \/ Configure(d, f) \/ GetAlias(d, f)
           \/ SmokeVersion(d, f) \/ SmokeUrl(d, f)
           \/ FailBefore(d, f) \/ FailAfter(d, f) \/ RestoreFails(d, f)
    PROVE  /\ Calm /\ built' = built /\ versions' = versions /\ live' = live
           /\ \A e \in Deployments, g \in Functions :
                 step'[e][g] \in BuiltSteps <=> step[e][g] \in BuiltSteps
    <1> USE PromotionAssumption
    <1>0. Types BY DEF PromotionInv
    <1>s. {"configured", "read", "smoked", "verified", "released", "put", "published"}
              \subseteq Steps
        BY DEF Steps
    <1>a. ASSUME NEW g \in Functions, NEW s \in Steps, Completes(d, g, s),
                 s \in BuiltSteps <=> step[d][g] \in BuiltSteps
          PROVE  \A e \in Deployments, h \in Functions :
                     step'[e][h] \in BuiltSteps <=> step[e][h] \in BuiltSteps
        BY <1>a, <1>0, CompletesStep
    <1> DEFINE Goal == /\ Calm /\ built' = built /\ versions' = versions /\ live' = live
                       /\ \A e \in Deployments, g \in Functions :
                             step'[e][g] \in BuiltSteps <=> step[e][g] \in BuiltSteps
    <1>1. CASE Configure(d, f)
        <2>1. /\ Completes(d, f, "configured") /\ fate[d][f] = "going"
              /\ step[d][f] = "begun"
              /\ UNCHANGED <<versions, live, alias, built, prior>>
            BY <1>1 DEF Configure, Going
        <2>2. {"begun", "configured"} \cap (PromotedSteps \cup BuiltSteps \cup Restorable) = {}
              /\ PruneStep(f) \notin {"begun", "configured"}
            BY DEF PromotedSteps, SmokedSteps, ReadSteps, BuiltSteps, Steps, Restorable, PruneStep
        <2>3. Calm BY <1>s, <2>1, <2>2, AdvanceIsCalm
        <2> QED BY <1>s, <2>1, <2>2, <2>3, <1>a
    <1>2. CASE GetAlias(d, f)
        <2>1. /\ Completes(d, f, "read") /\ fate[d][f] = "going" /\ step[d][f] = "built"
              /\ prior' = [prior EXCEPT ![d][f] = alias[f]]
              /\ UNCHANGED <<aws, built>>
            BY <1>2 DEF GetAlias, Going
        <2>2. /\ {"built", "read"} \cap (PromotedSteps \cup Restorable) = {}
              /\ {"built", "read"} \subseteq BuiltSteps
              /\ PruneStep(f) \notin {"built", "read"}
            BY DEF PromotedSteps, SmokedSteps, ReadSteps, BuiltSteps, Steps, Restorable, PruneStep
        <2>3. \A e \in Deployments, g \in Functions :
                  Promoted(e, g) => prior'[e][g] = prior[e][g]
            BY <1>0, <2>1, <2>2 DEF Promoted, Types
        <2>4. Calm BY <1>s, <2>1, <2>2, <2>3, AdvanceIsCalm DEF aws
        <2> QED BY <1>s, <2>1, <2>2, <2>4, <1>a DEF aws
    <1>3. CASE SmokeVersion(d, f)
        <2>1. /\ Completes(d, f, "smoked") /\ fate[d][f] = "going" /\ step[d][f] = "read"
              /\ UNCHANGED <<aws, built, prior>>
            BY <1>3 DEF SmokeVersion, Going
        <2>2. /\ {"read", "smoked"} \cap (PromotedSteps \cup Restorable) = {}
              /\ {"read", "smoked"} \subseteq BuiltSteps
              /\ PruneStep(f) \notin {"read", "smoked"}
            BY DEF PromotedSteps, SmokedSteps, ReadSteps, BuiltSteps, Steps, Restorable, PruneStep
        <2>3. Calm BY <1>s, <2>1, <2>2, AdvanceIsCalm DEF aws
        <2> QED BY <1>s, <2>1, <2>2, <2>3, <1>a DEF aws
    <1>4. CASE SmokeUrl(d, f)
        <2>1. /\ Completes(d, f, "verified") /\ fate[d][f] = "going"
              /\ step[d][f] = "promoted" /\ UNCHANGED <<aws, built, prior>>
            BY <1>4 DEF SmokeUrl, Going
        <2>2. /\ {"promoted", "verified"} \subseteq PromotedSteps \cap Restorable \cap BuiltSteps
              /\ PruneStep(f) # "promoted"
            BY DEF PromotedSteps, SmokedSteps, ReadSteps, BuiltSteps, Steps, Restorable, PruneStep
        <2>3. Calm BY <1>s, <2>1, <2>2, AdvanceIsCalm DEF aws
        <2> QED BY <1>s, <2>1, <2>2, <2>3, <1>a DEF aws
    <1>5. CASE Publish(d)
        <2>1. PICK s \in {"released", "put", "published"} :
                  /\ Completes(d, Primary, s) /\ fate[d][Primary] = "going"
                  /\ step[d][Primary] \in {"verified", "released", "put"}
                  /\ UNCHANGED <<versions, live, alias, built, prior>>
            BY <1>5 DEF Publish, BeforePublish, Put, Invalidate, Going, aws
        <2>2. /\ {"verified", "released", "put", "published"} \subseteq PromotedSteps \cap BuiltSteps
              /\ {"verified", "released", "put"} \subseteq Restorable
              /\ PruneStep(Primary) = "published"
            BY DEF PromotedSteps, SmokedSteps, ReadSteps, BuiltSteps, Steps, Restorable, PruneStep
        <2>3. Calm BY <1>s, <2>1, <2>2, AdvanceIsCalm
        <2> QED BY <1>s, <2>1, <2>2, <2>3, <1>a
    <1>6. CASE Crash(d)
        <2>1. UNCHANGED <<aws, step, fate, built, prior>> BY <1>6 DEF Crash
        <2> QED BY <2>1, FailureIsCalm DEF aws
    <1>7. CASE FailBefore(d, f) \/ RestoreFails(d, f)
        <2>1. Throws(d, f) /\ UNCHANGED aws BY <1>7 DEF FailBefore, RestoreFails
        <2> QED BY <2>1, ThrowsIsCalm DEF aws, Throws
    <1>8. CASE FailAfter(d, f)
        <2>1. /\ fate' = [fate EXCEPT ![d][f] = "restoring"]
              /\ step[d][f] \in Restorable /\ fate[d][f] = "going" /\ job[d] = "running"
              /\ ~BeforePrune(d, f)
              /\ UNCHANGED <<aws, step, built, prior>>
            BY <1>8 DEF FailAfter, Fails
        <2>2. step[d][f] # PruneStep(f) BY <2>1 DEF BeforePrune, Going, PruneStep
        <2>3. \A e \in Deployments, g \in Functions :
                  /\ fate'[e][g] # "threw" => fate[e][g] # "threw"
                  /\ fate'[e][g] = "restoring" =>
                        fate[e][g] = "restoring" \/ step[e][g] \in Restorable \ {PruneStep(g)}
            BY <1>0, <2>1, <2>2 DEF Types
        <2> QED BY <2>1, <2>3, FailureIsCalm DEF aws
    <1> QED BY <1>1, <1>2, <1>3, <1>4, <1>5, <1>6, <1>7, <1>8

LEMMA CalmStepKeeps ==
    ASSUME PromotionInv, RollbackInv, PromotionInv',
           Calm, built' = built, versions' = versions, live' = live,
           \A e \in Deployments, g \in Functions :
               step'[e][g] \in BuiltSteps <=> step[e][g] \in BuiltSteps
    PROVE  RollbackInv'
    <1> USE DEF RollbackInv
    <1>1. LiveInv' BY DEF LiveInv, Calm
    <1>2. BuildersInv' BY DEF BuildersInv
    <1>3. OrderedInv' BY CalmKeeps
    <1>4. Few => TargetInv' BY TargetsStay
    <1> QED BY <1>1, <1>2, <1>3, <1>4

LEMMA PublishVersionTargets ==
    ASSUME PromotionInv, RollbackInv,
           NEW d \in Deployments, NEW f \in Functions, PublishVersion(d, f)
    PROVE  RollbackInv'
    <1> USE DEF RollbackInv
    <1> DEFINE new == Len(versions[f]) + 1
    <1>0. Types BY DEF PromotionInv
    <1>1. /\ Completes(d, f, "built") /\ step[d][f] = "configured" /\ fate[d][f] = "going"
          /\ "built" \in Steps
          /\ live' = [live EXCEPT ![f] = live[f] \cup {new}]
          /\ UNCHANGED <<alias, prior>>
        BY DEF PublishVersion, Going, Steps
    <1>2. /\ {"configured", "built"} \cap (PromotedSteps \cup Restorable) = {}
          /\ "configured" \notin BuiltSteps /\ "built" \in BuiltSteps
          /\ PruneStep(f) \notin {"configured", "built"}
        BY DEF PromotedSteps, SmokedSteps, ReadSteps, BuiltSteps, Steps, Restorable, PruneStep
    <1>3. /\ built'[d][f] = new /\ new \in Nat
          /\ Len(versions'[f]) = new
          /\ \A e \in Deployments, g \in Functions :
                ~(e = d /\ g = f) => built'[e][g] = built[e][g]
          /\ \A g \in Functions : g # f => versions'[g] = versions[g]
        BY <1>0, PublishAppends DEF PublishVersion, Types
    <1>4. /\ step'[d][f] = "built"
          /\ \A e \in Deployments, g \in Functions :
                ~(e = d /\ g = f) => step'[e][g] = step[e][g]
        BY <1>0, <1>1, CompletesStep
    <1>5. Calm BY <1>1, <1>2, <1>3, AdvanceIsCalm DEF Promoted
    <1>6. /\ live' \in [Functions -> SUBSET Nat]
          /\ live'[f] = live[f] \cup {new}
          /\ \A g \in Functions : g # f => live'[g] = live[g]
        BY <1>1, <1>3
    <1>7. ASSUME NEW g \in Functions
          PROVE  live'[g] \subseteq 1..Len(versions'[g]) /\ alias'[g].version \in live'[g]
        <2>1. live[g] \subseteq 1..Len(versions[g]) /\ alias[g].version \in live[g]
            BY DEF LiveInv
        <2>2. CASE g # f BY <2>1, <2>2, <1>1, <1>3, <1>6
        <2>3. CASE g = f
            <3>1. \A v \in 1..Len(versions[f]) : v \in 1..new
                BY <1>3
            <3>2. new \in 1..new BY <1>3
            <3> HIDE DEF new
            <3> QED BY <2>1, <2>3, <3>1, <3>2, <1>1, <1>3, <1>6
        <2> QED BY <2>2, <2>3
    <1>8. LiveInv' BY <1>7 DEF LiveInv
    <1>9. BuildersInv'
        <2>1. Earlier \in Nat /\ Earlier <= Len(versions[f]) /\ Len(versions[f]) \in Nat
            BY <1>0, PromotionAssumption DEF BuildersInv, Types
        <2>2. ASSUME NEW g \in Functions, NEW v \in 1..Len(versions'[g]), v > Earlier
              PROVE  \E e \in Deployments : step'[e][g] \in BuiltSteps /\ built'[e][g] = v
            <3>1. CASE g = f /\ v = new BY <3>1, <1>2, <1>3, <1>4
            <3>2. CASE ~(g = f /\ v = new)
                <4>1. v \in 1..Len(versions[g]) BY <2>1, <2>2, <3>2, <1>3
                <4>2. PICK e \in Deployments : step[e][g] \in BuiltSteps /\ built[e][g] = v
                    BY <2>2, <4>1 DEF BuildersInv
                <4>3. ~(e = d /\ g = f) BY <4>2, <1>1, <1>2
                <4> QED BY <4>2, <4>3, <1>3, <1>4
            <3> QED BY <3>1, <3>2
        <2>3. ASSUME NEW g \in Functions PROVE Earlier <= Len(versions'[g])
            <3>1. Earlier <= Len(versions[g]) BY DEF BuildersInv
            <3>2. CASE g = f BY <3>2, <2>1, <1>3
            <3>3. CASE g # f BY <3>1, <3>3, <1>3
            <3> QED BY <3>2, <3>3
        <2>4. ASSUME NEW g \in Functions, NEW e \in Deployments, step'[e][g] \in BuiltSteps
              PROVE  built'[e][g] > Earlier
            <3>1. CASE e = d /\ g = f BY <3>1, <2>1, <1>3
            <3>2. CASE ~(e = d /\ g = f) BY <3>2, <2>4, <1>3, <1>4 DEF BuildersInv
            <3> QED BY <3>1, <3>2
        <2> QED BY <2>2, <2>3, <2>4 DEF BuildersInv
    <1>10. OrderedInv' BY <1>5, CalmKeeps
    <1>11. ASSUME NEW g \in Functions PROVE live[g] \subseteq live'[g]
        BY <1>6
    <1>12. Few => TargetInv' BY <1>5, <1>11, TargetsStay
    <1> QED BY <1>6, <1>8, <1>9, <1>10, <1>12

LEMMA PruneTargets ==
    ASSUME PromotionInv, RollbackInv,
           NEW d \in Deployments, NEW f \in Functions, Prune(d, f) \/ FailPrune(d, f)
    PROVE  RollbackInv'
    <1> USE DEF RollbackInv
    <1>0. Types BY DEF PromotionInv
    <1>1. /\ step[d][f] = PruneStep(f) /\ fate[d][f] = "going"
          /\ UNCHANGED <<versions, alias, built, prior>>
        BY DEF Prune, FailPrune, BeforePrune, Going, PruneStep, Throws
    <1>2. PICK S \in SUBSET Stale(f) :
              alias[f].version \notin S /\ live' = [live EXCEPT ![f] = @ \ S]
        <2>1. CASE Prune(d, f) BY <2>1 DEF Prune
        <2>2. CASE FailPrune(d, f)
            <3>1. PICK S \in SUBSET (Stale(f) \ {alias[f].version}) :
                      live' = [live EXCEPT ![f] = @ \ S]
                BY <2>2 DEF FailPrune
            <3> QED BY <3>1
        <2> QED BY <2>1, <2>2
    <1>3. Calm /\ \A e \in Deployments, g \in Functions :
                      step'[e][g] \in BuiltSteps <=> step[e][g] \in BuiltSteps
        <2>1. CASE Prune(d, f)
            <3>1. Completes(d, f, "done") /\ "done" \in Steps BY <2>1 DEF Prune, Steps
            <3>2. /\ "done" \in PromotedSteps /\ "done" \notin Restorable
                  /\ PruneStep(f) \in PromotedSteps /\ PruneStep(f) # "done"
                  /\ PromotedSteps \subseteq BuiltSteps
                BY StepSets DEF PruneStep
            <3>3. Calm BY <3>1, <3>2, <1>1, AdvanceIsCalm
            <3> QED BY <3>1, <3>2, <3>3, <1>0, <1>1, CompletesStep
        <2>2. CASE FailPrune(d, f)
            <3>1. Throws(d, f) /\ step' = step BY <2>2 DEF FailPrune, Throws
            <3> QED BY <3>1, <1>1, ThrowsIsCalm
        <2> QED BY <2>1, <2>2
    <1>4. /\ live' \in [Functions -> SUBSET Nat]
          /\ live'[f] = live[f] \ S
          /\ \A g \in Functions : g # f => live'[g] = live[g]
        BY <1>2
    <1>5. ASSUME NEW g \in Functions
          PROVE  live'[g] \subseteq 1..Len(versions'[g]) /\ alias'[g].version \in live'[g]
        <2>1. live[g] \subseteq 1..Len(versions[g]) /\ alias[g].version \in live[g]
            BY DEF LiveInv
        <2> QED BY <2>1, <1>1, <1>2, <1>4
    <1>6. LiveInv' BY <1>5 DEF LiveInv
    <1>7. BuildersInv' BY <1>1, <1>3 DEF BuildersInv
    <1>8. OrderedInv' BY <1>3, CalmKeeps
    <1>9. Few => TargetInv'
        BY <1>1, <1>2, <1>3, PruneKeepsTargets
    <1> QED BY <1>4, <1>6, <1>7, <1>8, <1>9

\* A promotion replaces a revision later than any other promotion did.
LEMMA PromoteTargets ==
    ASSUME PromotionInv, RollbackInv,
           NEW d \in Deployments, NEW f \in Functions, Promote(d, f)
    PROVE  RollbackInv'
    <1> USE DEF RollbackInv
    <1>0. Types BY DEF PromotionInv
    <1>1. /\ Completes(d, f, "promoted") /\ step[d][f] = "smoked" /\ fate[d][f] = "going"
          /\ "promoted" \in Steps /\ built[d][f] \in live[f]
          /\ alias' = [alias EXCEPT ![f] = [version |-> built[d][f], rev |-> alias[f].rev + 1]]
          /\ UNCHANGED <<versions, live, built, prior>>
        BY DEF Promote, Going, Moves, Steps
    <1>2. /\ "smoked" \in ReadSteps /\ {"smoked", "promoted"} \subseteq BuiltSteps
          /\ "smoked" \notin PromotedSteps /\ "promoted" \in PromotedSteps
          /\ {PruneStep(f), "done"} \cap {"smoked", "promoted"} = {}
        BY DEF PromotedSteps, SmokedSteps, ReadSteps, BuiltSteps, Steps, PruneStep
    <1>3. alias[f] = prior[d][f]
        BY <1>1, <1>2 DEF Promote, PromotionInv, PriorInv
    <1>4. /\ step'[d][f] = "promoted" /\ fate' = fate
          /\ \A e \in Deployments, g \in Functions :
                ~(e = d /\ g = f) => step'[e][g] = step[e][g]
        BY <1>0, <1>1, CompletesStep
    <1>5. alias'[f].version = built[d][f] /\ \A g \in Functions : g # f => alias'[g] = alias[g]
        BY <1>0, <1>1 DEF Types
    <1>6. ASSUME NEW e \in Deployments, Promoted(e, f)
          PROVE  e # d /\ prior[e][f].rev < prior[d][f].rev
        <2>1. prior[e][f].rev + 1 <= alias[f].rev
            BY <1>6 DEF PromotionInv, PromotedInv, Promoted
        <2>2. prior[e][f].rev \in Nat /\ alias[f].rev \in Nat
            BY <1>0, RevisionTypes
        <2> QED BY <2>1, <2>2, <1>1, <1>2, <1>3, <1>6 DEF Promoted
    <1>7. ASSUME NEW e \in Deployments, NEW g \in Functions
          PROVE  /\ Promoted(e, g)' <=> Promoted(e, g) \/ (e = d /\ g = f)
                 /\ Kept(e, g)' => Kept(e, g) \/ (e = d /\ g = f)
                 /\ AtRisk(e, g)' => AtRisk(e, g) \/ (e = d /\ g = f)
                 /\ Settled(e, g) => Settled(e, g)'
        BY <1>1, <1>2, <1>4 DEF Promoted, Kept, AtRisk, Settled
    <1>8. LiveInv' BY <1>1, <1>5 DEF LiveInv
    <1>9. BuildersInv' BY <1>1, <1>2, <1>4 DEF BuildersInv
    <1>10. RestoringInv'
        <2>1. ASSUME NEW e \in Deployments, NEW g \in Functions, fate'[e][g] = "restoring"
              PROVE  AtRisk(e, g)'
            <3>1. ~(e = d /\ g = f) BY <2>1, <1>1, <1>4
            <3>2. AtRisk(e, g) BY <2>1, <1>4 DEF OrderedInv, RestoringInv
            <3> QED BY <3>1, <3>2, <1>4 DEF AtRisk
        <2> QED BY <2>1 DEF RestoringInv
    <1>11. RevisionsInv'
        <2> SUFFICES ASSUME NEW a \in Deployments, NEW b \in Deployments, NEW g \in Functions,
                            Promoted(a, g)', Promoted(b, g)', a # b
                     PROVE  prior[a][g].rev # prior[b][g].rev
            BY <1>1 DEF RevisionsInv
        <2>1. CASE Promoted(a, g) /\ Promoted(b, g)
            BY <2>1 DEF OrderedInv, RevisionsInv
        <2>2. \A e \in Deployments : prior[e][g].rev \in Nat
            BY <1>0, RevisionTypes
        <2>3. CASE g = f /\ a = d BY <2>2, <2>3, <1>6, <1>7
        <2>4. CASE g = f /\ b = d BY <2>2, <2>4, <1>6, <1>7
        <2> QED BY <2>1, <2>3, <2>4, <1>7
    <1>12. ASSUME NEW g \in Functions, NEW e \in Deployments, NEW v, NoOlder(g, v, e)
           PROVE  NoOlder(g, v, e)'
        BY <1>12, <1>1, <1>7 DEF NoOlder
    <1>13. ASSUME NEW e \in Deployments, Kept(e, f)'
           PROVE  prior[e][f].rev <= prior[d][f].rev
        <2>1. Promoted(e, f) \/ e = d BY <1>13, <1>7 DEF Kept
        <2>2. prior[e][f].rev \in Nat /\ prior[d][f].rev \in Nat
            BY <1>0, RevisionTypes
        <2> QED BY <2>1, <2>2, <1>6
    <1>14. AliasNewInv'
        <2> SUFFICES ASSUME NEW e \in Deployments, NEW g \in Functions, Kept(e, g)'
                     PROVE  NoOlder(g, alias[g].version, e)'
            BY DEF AliasNewInv
        <2>1. CASE g = f
            <3>1. Promoted(d, f)' BY <1>7
            <3> QED BY <2>1, <3>1, <1>1, <1>5, <1>13 DEF NoOlder
        <2>2. CASE g # f
            <3>1. NoOlder(g, alias[g].version, e)
                BY <2>2, <1>7 DEF OrderedInv, AliasNewInv
            <3>2. alias'[g] = alias[g] BY <2>2, <1>5
            <3> HIDE DEF RollbackInv
            <3> QED BY <3>1, <3>2, <1>1, <1>7 DEF NoOlder
        <2> QED BY <2>1, <2>2
    <1>15. PriorNewInv'
        <2> SUFFICES ASSUME NEW a \in Deployments, NEW e \in Deployments, NEW g \in Functions,
                            Promoted(a, g)', Kept(e, g)', prior[e][g].rev < prior[a][g].rev
                     PROVE  NoOlder(g, prior[a][g].version, e)'
            BY <1>1 DEF PriorNewInv
        <2>0. prior[a][g].rev \in Nat /\ prior[e][g].rev \in Nat
            BY <1>0, RevisionTypes
        <2>1. CASE a = d /\ g = f
            <3>1. e # d BY <2>0, <2>1
            <3>2. Kept(e, f) BY <2>1, <3>1, <1>7
            <3>3. NoOlder(f, prior[d][f].version, e)
                BY <3>2, <1>3 DEF OrderedInv, AliasNewInv
            <3> QED BY <2>1, <3>3, <1>1, <1>7 DEF NoOlder
        <2>2. CASE ~(a = d /\ g = f)
            <3>1. Promoted(a, g) BY <2>2, <1>7
            <3>2. ~(e = d /\ g = f)
                <4> SUFFICES ASSUME e = d, g = f PROVE FALSE
                    OBVIOUS
                <4>1. prior[a][f].rev < prior[d][f].rev BY <3>1, <1>6
                <4> QED BY <4>1, <2>0
            <3>3. NoOlder(g, prior[a][g].version, e)
                BY <3>1, <3>2, <1>7 DEF OrderedInv, PriorNewInv
            <3> QED BY <3>3, <1>1, <1>7 DEF NoOlder
        <2> QED BY <2>1, <2>2
    <1>16. ASSUME TargetInv PROVE TargetInv'
        <2> SUFFICES ASSUME NEW a \in Deployments, NEW g \in Functions, AtRisk(a, g)'
                     PROVE  \/ prior[a][g].version \in live[g]
                            \/ \E e \in Deployments :
                                  Settled(e, g)' /\ prior[a][g].rev < prior[e][g].rev
            BY <1>1 DEF TargetInv
        <2>1. CASE a = d /\ g = f BY <2>1, <1>3 DEF LiveInv
        <2>2. CASE ~(a = d /\ g = f)
            <3>1. AtRisk(a, g) BY <2>2, <1>7
            <3> QED BY <3>1, <1>7, <1>16 DEF TargetInv
        <2> QED BY <2>1, <2>2
    <1>17. OrderedInv' BY <1>10, <1>11, <1>14, <1>15 DEF OrderedInv
    <1>18. live' \in [Functions -> SUBSET Nat] BY <1>1
    <1>19. Few => TargetInv' BY <1>16
    <1> QED BY <1>8, <1>9, <1>17, <1>18, <1>19

\* A rollback brings back a version promoted no earlier than any other that is kept.
LEMMA RestoreTargets ==
    ASSUME PromotionInv, RollbackInv,
           NEW d \in Deployments, NEW f \in Functions, Restore(d, f)
    PROVE  RollbackInv'
    <1> USE DEF RollbackInv
    <1>0. Types BY DEF PromotionInv
    <1>1. /\ Throws(d, f) /\ fate[d][f] = "restoring" /\ alias[f].rev = prior[d][f].rev + 1
          /\ prior[d][f].version \in live[f]
          /\ alias' = [alias EXCEPT ![f] =
                [version |-> prior[d][f].version, rev |-> alias[f].rev + 1]]
          /\ UNCHANGED <<versions, live>>
        BY DEF Restore, Moves
    <1>2. step' = step /\ built' = built /\ prior' = prior
        BY <1>1 DEF Throws
    <1>3. AtRisk(d, f) /\ Promoted(d, f) /\ ~Settled(d, f)
        BY <1>1, StepSets DEF OrderedInv, RestoringInv, AtRisk, Promoted, Settled
    <1>4. fate' = [fate EXCEPT ![d] = [g \in Functions |->
              IF g = f THEN "threw"
              ELSE IF g = Primary /\ Going(d, g, "verified") THEN "restoring"
              ELSE fate[d][g]]]
        BY <1>1 DEF Throws
    <1>5. fate'[d][f] = "threw" BY <1>0, <1>4 DEF Types
    <1>6. ASSUME NEW e \in Deployments, NEW g \in Functions
          PROVE  /\ fate'[e][g] # "threw" => fate[e][g] # "threw"
                 /\ fate'[e][g] = "restoring" =>
                       \/ fate[e][g] = "restoring"
                       \/ g = Primary /\ step[e][g] = "verified"
        BY <1>0, <1>4 DEF Types, Going
    <1>7. ASSUME NEW e \in Deployments, NEW g \in Functions
          PROVE  /\ Promoted(e, g)' <=> Promoted(e, g)
                 /\ Kept(e, g)' => Kept(e, g)
                 /\ AtRisk(e, g)' => AtRisk(e, g)
                 /\ Settled(e, g)' <=> Settled(e, g)
        BY <1>2, <1>6 DEF Promoted, Kept, AtRisk, Settled
    <1>8. ~Kept(d, f)' BY <1>2, <1>3, <1>5 DEF Kept, Settled
    <1>9. /\ alias'[f].version = prior[d][f].version
          /\ \A g \in Functions : g # f => alias'[g] = alias[g]
        BY <1>0, <1>1 DEF Types
    <1>10. LiveInv' BY <1>1, <1>9 DEF LiveInv
    <1>11. BuildersInv' BY <1>1, <1>2 DEF BuildersInv
    <1>12. RestoringInv'
        <2>1. "verified" \in Restorable \ {PruneStep(Primary)}
            BY DEF Restorable, PruneStep
        <2>2. ASSUME NEW e \in Deployments, NEW g \in Functions, fate'[e][g] = "restoring"
              PROVE  AtRisk(e, g)'
            <3>1. step[e][g] \in Restorable \ {PruneStep(g)}
                BY <2>1, <2>2, <1>6 DEF OrderedInv, RestoringInv, AtRisk
            <3> QED BY <2>2, <3>1, <1>2 DEF AtRisk
        <2> QED BY <2>2 DEF RestoringInv
    <1>13. RevisionsInv' BY <1>2, <1>7 DEF OrderedInv, RevisionsInv
    <1>14. ASSUME NEW g \in Functions, NEW e \in Deployments, NEW v
           PROVE  NoOlder(g, v, e)' <=> NoOlder(g, v, e)
        BY <1>2, <1>7 DEF NoOlder
    <1>15. AliasNewInv'
        <2> SUFFICES ASSUME NEW e \in Deployments, NEW g \in Functions, Kept(e, g)'
                     PROVE  NoOlder(g, alias[g].version, e)'
            BY DEF AliasNewInv
        <2>1. Kept(e, g) /\ Promoted(e, g) BY <1>7 DEF Kept
        <2>2. CASE g = f
            <3>1. e # d BY <2>2, <1>8
            <3>2. prior[e][f].rev + 1 <= alias[f].rev
                BY <2>1, <2>2 DEF PromotionInv, PromotedInv, Promoted
            <3>3. prior[e][f].rev # prior[d][f].rev
                BY <2>1, <2>2, <3>1, <1>3 DEF OrderedInv, RevisionsInv
            <3>4. prior[e][f].rev \in Nat /\ prior[d][f].rev \in Nat
                BY <1>0, RevisionTypes
            <3>5. prior[e][f].rev < prior[d][f].rev
                BY <3>2, <3>3, <3>4, <1>1
            <3>6. NoOlder(f, prior[d][f].version, e)
                BY <2>1, <2>2, <3>5, <1>3 DEF OrderedInv, PriorNewInv
            <3> QED BY <2>2, <3>6, <1>2, <1>7, <1>9 DEF NoOlder
        <2>3. CASE g # f
            <3>1. NoOlder(g, alias[g].version, e)
                BY <2>1 DEF OrderedInv, AliasNewInv
            <3> QED BY <2>3, <3>1, <1>2, <1>7, <1>9 DEF NoOlder
        <2> QED BY <2>2, <2>3
    <1>16. PriorNewInv'
        <2> SUFFICES ASSUME NEW a \in Deployments, NEW e \in Deployments, NEW g \in Functions,
                            Promoted(a, g)', Kept(e, g)', prior[e][g].rev < prior[a][g].rev
                     PROVE  NoOlder(g, prior[a][g].version, e)'
            BY <1>2 DEF PriorNewInv
        <2>1. NoOlder(g, prior[a][g].version, e)
            BY <1>7 DEF OrderedInv, PriorNewInv
        <2> QED BY <2>1, <1>2, <1>7 DEF NoOlder
    <1>17. ASSUME TargetInv PROVE TargetInv'
        BY <1>1, <1>2, <1>7, <1>17 DEF TargetInv
    <1>18. OrderedInv' BY <1>12, <1>13, <1>15, <1>16 DEF OrderedInv
    <1>19. live' \in [Functions -> SUBSET Nat] BY <1>1
    <1>20. Few => TargetInv' BY <1>17
    <1> QED BY <1>10, <1>11, <1>18, <1>19, <1>20

LEMMA RollbackInit == Init => RollbackInv
    <1> SUFFICES ASSUME Init PROVE RollbackInv
        OBVIOUS
    <1> USE PromotionAssumption
    <1>1. PICK v \in 1..Earlier : alias = [f \in Functions |-> [version |-> v, rev |-> 0]]
        BY DEF Init
    <1>2. /\ live = [f \in Functions |-> 1..Earlier]
          /\ \A f \in Functions :
                versions[f] = [w \in 1..Earlier |-> [code |-> Before, env |-> Before]]
          /\ \A d \in Deployments, f \in Functions :
                step[d][f] = "begun" /\ fate[d][f] = "going"
        BY DEF Init
    <1>3. \A f \in Functions : Len(versions[f]) = Earlier BY <1>2
    <1>4. /\ "begun" \notin BuiltSteps \cup PromotedSteps \cup Restorable
        BY DEF BuiltSteps, ReadSteps, SmokedSteps, PromotedSteps, Steps, Restorable
    <1>5. live \in [Functions -> SUBSET Nat] /\ LiveInv
        BY <1>1, <1>2, <1>3 DEF LiveInv
    <1>6. BuildersInv BY <1>2, <1>3, <1>4 DEF BuildersInv
    <1>7. OrderedInv
        BY <1>2, <1>4 DEF OrderedInv, RestoringInv, RevisionsInv, AliasNewInv, PriorNewInv,
                          Promoted, Kept
    <1>8. TargetInv BY <1>2, <1>4 DEF TargetInv, AtRisk
    <1> QED BY <1>5, <1>6, <1>7, <1>8 DEF RollbackInv

LEMMA RollbackStep ==
    ASSUME PromotionInv, RollbackInv, [Next]_vars
    PROVE  RollbackInv'
    <1>0. PromotionInv' BY PromotionStep
    <1>1. CASE UNCHANGED vars
        <2>1. UNCHANGED <<alias, versions, live, step, fate, built, prior>>
            BY <1>1 DEF vars, aws
        <2>2. Calm BY <2>1, FailureIsCalm
        <2> QED BY <2>1, <2>2, <1>0, CalmStepKeeps
    <1>2. ASSUME NEW d \in Deployments, Publish(d) \/ Crash(d) PROVE RollbackInv'
        BY <1>0, <1>2, CalmSteps, CalmStepKeeps, PromotionAssumption
    <1>3. ASSUME NEW d \in Deployments, NEW f \in Functions, Task(d, f) PROVE RollbackInv'
        <2>1. CASE \/ Configure(d, f) \/ GetAlias(d, f) \/ SmokeVersion(d, f)
                   \/ SmokeUrl(d, f) \/ FailBefore(d, f) \/ FailAfter(d, f)
                   \/ RestoreFails(d, f)
            BY <1>0, <2>1, CalmSteps, CalmStepKeeps
        <2>2. CASE PublishVersion(d, f) BY <2>2, PublishVersionTargets
        <2>3. CASE Prune(d, f) \/ FailPrune(d, f) BY <2>3, PruneTargets
        <2>4. CASE Promote(d, f) BY <2>4, PromoteTargets
        <2>5. CASE Restore(d, f) BY <2>5, RestoreTargets
        <2> QED BY <1>3, <2>1, <2>2, <2>3, <2>4, <2>5 DEF Task
    <1> QED BY <1>1, <1>2, <1>3 DEF Next

\* What is overtaken is not what the alias serves.
LEMMA TargetKept ==
    ASSUME IsFiniteSet(Deployments), PromotionInv, RollbackInv
    PROVE  RollbackTargetKept
    <1> SUFFICES ASSUME Cardinality(Deployments) <= Retain,
                        NEW d \in Deployments, NEW f \in Functions,
                        MayRestore(d, f), alias[f].version = built[d][f]
                 PROVE  prior[d][f].version \in live[f]
        BY DEF RollbackTargetKept
    <1> USE DEF RollbackInv, Few
    <1>1. AtRisk(d, f)
        <2>1. CASE fate[d][f] = "restoring" BY <2>1 DEF OrderedInv, RestoringInv
        <2>2. CASE Fails(d, f) /\ step[d][f] \in Restorable /\ ~BeforePrune(d, f)
            BY <2>2 DEF Fails, BeforePrune, Going, AtRisk, PruneStep
        <2> QED BY <2>1, <2>2 DEF MayRestore
    <1>2. ASSUME NEW e \in Deployments, Settled(e, f), prior[d][f].rev < prior[e][f].rev
          PROVE  FALSE
        <2>1. Kept(e, f) BY <1>2, StepSets DEF Settled, Kept, Promoted
        <2>2. PICK g \in Deployments :
                  /\ Promoted(g, f) /\ built[g][f] = alias[f].version
                  /\ prior[e][f].rev <= prior[g][f].rev
            BY <2>1 DEF OrderedInv, AliasNewInv, NoOlder
        <2>3. g = d BY <2>2, <1>1, BuiltOnce, StepSets DEF AtRisk, Promoted
        <2>4. prior[d][f].rev \in Nat /\ prior[e][f].rev \in Nat
            BY RevisionTypes DEF PromotionInv
        <2> QED BY <2>2, <2>3, <2>4, <1>2
    <1> QED BY <1>1, <1>2 DEF TargetInv

\* The inductive invariant of the rollback targets: see its conjuncts above.
THEOREM RollbackInvariant == Spec => [](PromotionInv /\ RollbackInv)
    <1>1. Init => PromotionInv /\ RollbackInv BY PromotionInit, RollbackInit
    <1>2. PromotionInv /\ RollbackInv /\ [Next]_vars => (PromotionInv /\ RollbackInv)'
        BY PromotionStep, RollbackStep
    <1> QED BY <1>1, <1>2, PTL DEF Spec

\* PromotionTypeOK (the AWS resources): an alias refers to a version that exists:
\* pruning never deletes it.
THEOREM PromotionTypes == Spec => []PromotionTypeOK
    <1>1. PromotionInv /\ RollbackInv => PromotionTypeOK
        BY DEF PromotionInv, RollbackInv, LiveInv, Types, Version, Alias, PromotionTypeOK
    <1> QED BY <1>1, RollbackInvariant, PTL

\* RollbackTargetKept (pruneVersions beside rollbackAlias): as long as no more pushes
\* overlap than a prune keeps versions, none deletes the version that the deployment
\* whose version is served may still roll back to.
THEOREM RollbackFindsVersion ==
    ASSUME IsFiniteSet(Deployments) PROVE Spec => []RollbackTargetKept
    <1>1. PromotionInv /\ RollbackInv => RollbackTargetKept
        BY TargetKept
    <1> QED BY <1>1, RollbackInvariant, PTL

-----------------------------------------------------------------------------
VerifiedNow == {d \in Deployments : Verified(d)}
WrittenNow == {d \in Deployments : Wrote(d)}

\* Verification is never taken back, and the document is written only by Put.
LEMMA VerifiedGrows ==
    ASSUME PromotionInv, NEW d \in Deployments, NEW f \in Functions, NEW s \in Steps,
           Completes(d, f, s), step[d][f] # "done", ~(f = Primary /\ s = "put"),
           f = Primary /\ step[d][f] \in Released => s \in Released,
           f = Primary /\ s \in Released =>
               (s \in {"put", "published", "done"}
                   <=> step[d][f] \in {"put", "published", "done"}),
           f = Primary /\ step[d][f] = "verified" => s \in Released,
           registry' = registry
    PROVE  Registry!Verify(d) \/ UNCHANGED <<VerifiedNow, WrittenNow, registry>>
    <1>0. Types BY DEF PromotionInv
    <1>1. step'[d][f] = s
          /\ \A e \in Deployments, g \in Functions :
                ~(e = d /\ g = f) => step'[e][g] = step[e][g]
        BY <1>0, CompletesStep
    <1>2. \A e \in Deployments : e # d => (Verified(e)' <=> Verified(e))
        BY <1>1, PromotionAssumption DEF Verified, ComparisonsDone, Others
    <1>3. Verified(d) => Verified(d)'
        BY <1>1, PromotionAssumption DEF Verified, ComparisonsDone, Others, Released
    <1>4. \A e \in Deployments : Wrote(e)' <=> Wrote(e)
        BY <1>1, PromotionAssumption DEF Wrote, Released
    <1> QED BY <1>2, <1>3, <1>4 DEF Registry!Verify, VerifiedNow, WrittenNow

\* Put is the abstract Write: it is reached only after everything was verified.
LEMMA PutWrites ==
    ASSUME PromotionInv, NEW d \in Deployments, Put(d)
    PROVE  Registry!Write(d)
    <1>0. Types BY DEF PromotionInv
    <1>1. /\ Completes(d, Primary, "put") /\ step[d][Primary] = "released"
          /\ registry'.deployment = d /\ "put" \in Steps
        BY DEF Put, Going, Steps
    <1>2. step'[d][Primary] = "put"
          /\ \A e \in Deployments, g \in Functions :
                ~(e = d /\ g = Primary) => step'[e][g] = step[e][g]
        BY <1>0, <1>1, CompletesStep, PromotionAssumption
    <1>3. ComparisonsDone(d)
        BY <1>1 DEF PromotionInv, OrderInv, Released
    <1>4. \A e \in Deployments : Verified(e)' <=> Verified(e)
        BY <1>1, <1>2, <1>3, PromotionAssumption DEF Verified, ComparisonsDone, Others
    <1>5. Verified(d) /\ ~Wrote(d)
        BY <1>1, <1>3 DEF Verified, Wrote
    <1>6. \A e \in Deployments : Wrote(e)' <=> (Wrote(e) \/ e = d)
        BY <1>2, PromotionAssumption DEF Wrote
    <1> QED BY <1>1, <1>4, <1>5, <1>6 DEF Registry!Write

LEMMA RegistryStep ==
    ASSUME PromotionInv, [Next]_vars
    PROVE  Registry!Next \/ UNCHANGED <<VerifiedNow, WrittenNow, registry>>
    <1>0. Types BY DEF PromotionInv
    <1> DEFINE Same == UNCHANGED <<VerifiedNow, WrittenNow, registry>>
    <1>s. {"configured", "built", "read", "smoked", "promoted", "verified", "released",
           "published", "done"} \subseteq Steps
        BY DEF Steps
    <1>u. step' = step /\ registry' = registry => Same
        BY DEF VerifiedNow, WrittenNow, Verified, Wrote, ComparisonsDone
    <1>1. CASE UNCHANGED vars BY <1>1, <1>u DEF vars, aws
    <1>2. ASSUME NEW d \in Deployments, Publish(d) \/ Crash(d)
          PROVE  (\E e \in Deployments : Registry!Verify(e) \/ Registry!Write(e)) \/ Same
        <2>1. CASE BeforePublish(d)
            <3>1. /\ Completes(d, Primary, "released") /\ step[d][Primary] = "verified"
                  /\ registry' = registry
                BY <2>1 DEF BeforePublish, Going, aws
            <3> QED BY <3>1, <1>s, VerifiedGrows, PromotionAssumption DEF Released
        <2>2. CASE Put(d) BY <2>2, PutWrites
        <2>3. CASE Invalidate(d)
            <3>1. /\ Completes(d, Primary, "published") /\ step[d][Primary] = "put"
                  /\ registry' = registry
                BY <2>3 DEF Invalidate, Going, aws
            <3> QED BY <3>1, <1>s, VerifiedGrows, PromotionAssumption DEF Released
        <2>4. CASE Crash(d) BY <2>4, <1>u DEF Crash, aws
        <2> QED BY <1>2, <2>1, <2>2, <2>3, <2>4 DEF Publish
    <1>3. ASSUME NEW d \in Deployments, NEW f \in Functions, Task(d, f)
          PROVE  (\E e \in Deployments : Registry!Verify(e)) \/ Same
        <2>1. CASE Configure(d, f) \/ PublishVersion(d, f) \/ GetAlias(d, f)
                   \/ SmokeVersion(d, f) \/ Promote(d, f) \/ SmokeUrl(d, f)
            <3>1. PICK s \in {"configured", "built", "read", "smoked", "promoted", "verified"} :
                      /\ Completes(d, f, s)
                      /\ step[d][f] \in {"begun", "configured", "built", "read", "smoked",
                                         "promoted"}
                      /\ registry' = registry
                BY <2>1 DEF Configure, PublishVersion, GetAlias, SmokeVersion, Promote,
                            SmokeUrl, Going, aws
            <3> QED BY <3>1, <1>s, VerifiedGrows DEF Released
        <2>2. CASE Prune(d, f)
            <3>1. /\ Completes(d, f, "done") /\ registry' = registry
                  /\ step[d][f] = IF f = Primary THEN "published" ELSE "verified"
                BY <2>2 DEF Prune, BeforePrune, Going
            <3> QED BY <3>1, <1>s, VerifiedGrows DEF Released
        <2>3. CASE FailBefore(d, f) \/ FailPrune(d, f) \/ RestoreFails(d, f) \/ Restore(d, f)
            <3>1. Throws(d, f) /\ registry' = registry
                BY <2>3 DEF FailBefore, FailPrune, RestoreFails, Restore, aws
            <3> QED BY <3>1, <1>0, <1>u, ThrowsFate
        <2>4. CASE FailAfter(d, f) BY <2>4, <1>u DEF FailAfter, aws
        <2> QED BY <1>3, <2>1, <2>2, <2>3, <2>4 DEF Task
    <1> QED BY <1>1, <1>2, <1>3 DEF Next, Registry!Next

\* RegistryIsVerified (publishProfile after smokeFunctionUrl and beforePublish): the
\* deployments implement the abstract registry, for any number of pushes.
THEOREM ImplementsRegistry == Spec => RegistryIsVerified
    <1>1. Init => Registry!Init
        BY PromotionAssumption DEF Init, Registry!Init, Verified, Wrote
    <1>2. PromotionInv /\ [Next]_vars =>
              [Registry!Next]_<<{d \in Deployments : Verified(d)},
                                {d \in Deployments : Wrote(d)}, registry.deployment>>
        BY RegistryStep DEF VerifiedNow, WrittenNow
    <1> QED BY <1>1, <1>2, PromotionInvariant, PTL DEF Spec, RegistryIsVerified, Registry!Spec
=============================================================================
