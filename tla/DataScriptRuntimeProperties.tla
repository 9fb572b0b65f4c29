--------------------- MODULE DataScriptRuntimeProperties ---------------------
(***************************************************************************)
(* What the DataScript runtime must guarantee.  The first group holds for  *)
(* every caller; the second needs requests to be made one at a time, as    *)
(* the page of SeedingPage makes them.                                     *)
(***************************************************************************)
EXTENDS DataScriptRuntime

Seeds == [status : {"none", "ready", "seeding", "error"},
          completed : Nat, target : Nat, total : Nat]
Runtimes == [ordinals : SUBSET Nat, count : Nat, seed : Seeds]
Tokens == [id : 1..MaxCursors, generation : Owners, count : Nat]
Waiting == [id : 1..MaxRequests, request : Requests]

\* Every variable holds values of its kind.
RuntimeTypeOK ==
    /\ owner \in Owners \cup {NoOwner} /\ used \subseteq Owners
    /\ runtime \in Runtimes /\ initialization \in BOOLEAN
    /\ builds \in [Owners -> Nat] /\ waiters \in [Owners -> Seq(Waiting)]
    /\ microtasks \in Seq([id : 1..MaxRequests, request : Requests,
                           generation : Owners, runtime : Runtimes])
    /\ requested \in 0..MaxRequests
    /\ chains \subseteq [job : 1..MaxRequests, owner : Owners, next : Nat, end : Int]
    /\ pageCursors \in Seq(Tokens) /\ lookupCursors \subseteq Tokens
    /\ issued \in 0..MaxCursors

-----------------------------------------------------------------------------
(* For every caller, also when requests overlap.                           *)

\* The counts a visitor sees are those of the committed data, also after failed
\* batches, retries and overlapping jobs: resource-count and the total of the seed
\* progress are the canonical dataset plus the committed additions.
CountsMatchDataset ==
    runtime # NoRuntime =>
        /\ runtime.count = SmallCount + Cardinality(runtime.ordinals)
        /\ runtime.seed.total = runtime.count

\* Additions have unique identities and leave no gap, so that the next job, which
\* numbers its resources from the count, never collides with committed ones.
OrdinalsContiguous ==
    runtime.ordinals = {n \in 0..runtime.count : n < runtime.count - SmallCount}

\* A page cursor or lookup cursor that would be accepted was issued by this session
\* against exactly the data that is current: paging never crosses revisions.
CursorsOfThisRevision ==
    \A t \in PageTokens \cup lookupCursors :
        t.generation = owner /\ t.count = runtime.count

\* After release, or before the next session's first request has been answered,
\* no timer, promise or dispatch left over from an earlier session publishes a
\* runtime, and no batch of it is committed.
ReleasedStaysEmpty == owner = NoOwner => runtime = NoRuntime /\ ~initialization

\* Within a session the restored data is never restored again and committed
\* additions are never lost, whatever fails and however requests overlap.
SessionKeepsData ==
    [][owner' = owner /\ runtime # NoRuntime
          => runtime' # NoRuntime /\ runtime.ordinals \subseteq runtime'.ordinals]_runtimeVars

-----------------------------------------------------------------------------
(* For callers that make one request at a time.                            *)

\* "a second submission SHALL NOT start another job": one session never has two
\* jobs with batches to commit.
NoOverlappingJobs ==
    \A c, d \in chains : c.owner = owner /\ d.owner = owner => c = d

\* The running job has exactly the missing resources left to commit, numbered from
\* the current count, also when it is the retry of a job that failed halfway.
JobHasTheRest ==
    runtime.seed.status = "seeding" =>
        \A c \in chains : c.owner = owner =>
            /\ c.next = runtime.count - SmallCount
            /\ c.end - c.next = runtime.seed.target - runtime.seed.completed

\* A seed job ends: it becomes ready or reports an error, or its session ends.
SeedingSettles ==
    \A o \in Owners :
        owner = o /\ runtime.seed.status = "seeding"
            ~> owner # o \/ runtime.seed.status # "seeding"
=============================================================================
