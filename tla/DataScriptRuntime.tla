-------------------------- MODULE DataScriptRuntime --------------------------
(***************************************************************************)
(* The browser-local DataScript runtime (runtime.cljs): one page-wide      *)
(* lifecycle atom that holds the owner of the session, its runtime and the *)
(* initialization promise, local seed jobs that commit a batch per timer,  *)
(* and the pagination cursors issued against one revision of the data.     *)
(*                                                                         *)
(* JavaScript's event loop is explicit.  A request captures the runtime of *)
(* the moment it is made and is dispatched from the microtask queue, so    *)
(* that requests made in one turn, or waiting for one initialization       *)
(* promise, are dispatched with the same captured runtime.  Timers run     *)
(* only when the microtask queue is empty; browsers delay nested timers,   *)
(* so pending timers fire in any order.                                    *)
(*                                                                         *)
(* Additional resources are their ordinals 0, 1, ... (local-resource-      *)
(* bundle); the database and the auxiliary indexes of a revision, which    *)
(* are published together, are the set of ordinals committed to it.        *)
(***************************************************************************)
EXTENDS Integers, Sequences, FiniteSets

CONSTANTS Owners,       \* owner tokens of the sessions ever initialized
          NoOwner,      \* nil
          SmallCount,   \* small-resource-count, the canonical dataset
          Amounts,      \* resource counts a visitor may submit
          BatchSize,    \* seed-batch-size
          CursorLimit,  \* maximum-cursors
          MaxInFlight,  \* bound on requests not yet dispatched
          MaxRequests,  \* bound on requests ever made
          MaxCursors    \* bound on cursors ever issued

ASSUME RuntimeAssumption ==
    /\ NoOwner \notin Owners
    /\ SmallCount \in Nat /\ Amounts \subseteq Nat \ {0}
    /\ BatchSize \in Nat \ {0} /\ CursorLimit \in Nat \ {0}
    /\ MaxInFlight \in Nat /\ MaxRequests \in Nat /\ MaxCursors \in Nat

VARIABLES
    owner,          \* :owner of the lifecycle atom
    runtime,        \* :runtime, NoRuntime for nil
    initialization, \* whether :initialization holds a promise
    used,           \* owners initialized so far
    builds,         \* owner -> pending timers that build its runtime
    waiters,        \* owner -> requests waiting for its initialization promise
    microtasks,     \* requests to dispatch, with the runtime they captured
    chains,         \* pending batch timers, one per running seed job
    requested,      \* number of requests made
    pageCursors,    \* tokens of the current runtime's :cursors atom, oldest first
    lookupCursors,  \* tokens of its :eacl-cursors atom
    issued          \* number of cursors issued

lifecycle == <<owner, runtime, initialization>>
promises == <<builds, waiters>>
cursorVars == <<pageCursors, lookupCursors, issued>>
runtimeVars == <<lifecycle, used, promises, microtasks, requested, chains, cursorVars>>

Seed(status, completed, target, total) ==
    [status |-> status, completed |-> completed, target |-> target, total |-> total]
NoRuntime == [ordinals |-> {}, count |-> 0, seed |-> Seed("none", 0, 0, 0)]
Restored == [ordinals |-> {}, count |-> SmallCount, seed |-> Seed("ready", 0, 0, SmallCount)]

\* What a visitor may ask for; a cursor is 0 for a first page.
Requests ==
    [op : {"seed-start"}, arg : Amounts] \cup [op : {"seed-retry"}, arg : {0}]
        \cup [op : {"page", "lookup"}, arg : 0..MaxCursors]

RuntimeInit ==
    /\ owner = NoOwner /\ runtime = NoRuntime /\ initialization = FALSE
    /\ used = {}
    /\ builds = [o \in Owners |-> 0]
    /\ waiters = [o \in Owners |-> <<>>]
    /\ microtasks = <<>>
    /\ chains = {} /\ requested = 0
    /\ pageCursors = <<>> /\ lookupCursors = {} /\ issued = 0

-----------------------------------------------------------------------------
(* Sessions.                                                               *)

\* A new revision of the data brings new, empty cursor atoms.
KeepCursors == UNCHANGED <<pageCursors, lookupCursors>>
DropCursors == pageCursors' = <<>> /\ lookupCursors' = {}

\* initialize! resets the whole lifecycle, whoever owned it.
Initialize(o) ==
    /\ o \notin used
    /\ used' = used \cup {o}
    /\ owner' = o /\ runtime' = NoRuntime /\ initialization' = FALSE
    /\ DropCursors
    /\ UNCHANGED <<promises, microtasks, requested, chains, issued>>

\* release! by the owner; any other caller gets false.
Release(o) ==
    /\ owner = o /\ o # NoOwner
    /\ owner' = NoOwner /\ runtime' = NoRuntime /\ initialization' = FALSE
    /\ DropCursors
    /\ UNCHANGED <<used, promises, microtasks, requested, chains, issued>>

-----------------------------------------------------------------------------
(* Requests and the initialization promise.                                *)

InFlight == Len(microtasks) + Len(waiters[owner])

\* request! captures the generation and, through ensure-runtime!, the runtime;
\* the first request of a session schedules its build and memoises the promise.
EnsureForgets ==
    /\ builds' = [builds EXCEPT ![owner] = @ + 1]
    /\ UNCHANGED initialization
EnsureRuntime ==
    IF initialization THEN UNCHANGED <<builds, initialization>>
    ELSE /\ builds' = [builds EXCEPT ![owner] = @ + 1]
         /\ initialization' = TRUE

Request(r) ==
    /\ owner # NoOwner
    /\ InFlight < MaxInFlight /\ requested < MaxRequests
    /\ requested' = requested + 1
    /\ IF runtime # NoRuntime
       THEN /\ microtasks' =
                   Append(microtasks, [id |-> requested + 1, request |-> r,
                                       generation |-> owner, runtime |-> runtime])
            /\ UNCHANGED <<initialization, promises>>
       ELSE /\ EnsureRuntime
            /\ waiters' = [waiters EXCEPT ![owner] =
                               Append(@, [id |-> requested + 1, request |-> r])]
            /\ UNCHANGED microtasks
    /\ UNCHANGED <<owner, runtime, used, chains, cursorVars>>

\* The owner comparison of a timer callback and of a dispatched request.
AnyOwner(o) == TRUE
StillOwner(o) == o = owner

\* The build timer restores the snapshot, publishes it and resolves the promise,
\* whose waiters are then dispatched one after the other with this runtime.
BuildRuntime(o) ==
    /\ builds[o] > 0 /\ microtasks = <<>>
    /\ StillOwner(o)
    /\ runtime' = Restored /\ initialization' = FALSE
    /\ DropCursors
    /\ microtasks' = [i \in DOMAIN waiters[o] |->
           [id |-> waiters[o][i].id, request |-> waiters[o][i].request,
            generation |-> o, runtime |-> Restored]]
    /\ builds' = [builds EXCEPT ![o] = @ - 1]
    /\ waiters' = [waiters EXCEPT ![o] = <<>>]
    /\ UNCHANGED <<owner, used, requested, chains, issued>>

\* build-runtime throws, or the session has passed: the waiters get a failure.
BuildFails(o) ==
    /\ builds[o] > 0 /\ microtasks = <<>>
    /\ IF StillOwner(o)
       THEN runtime' = NoRuntime /\ initialization' = FALSE /\ DropCursors
       ELSE UNCHANGED <<runtime, initialization, pageCursors, lookupCursors>>
    /\ builds' = [builds EXCEPT ![o] = @ - 1]
    /\ waiters' = [waiters EXCEPT ![o] = <<>>]
    /\ UNCHANGED <<owner, used, microtasks, requested, chains, issued>>

-----------------------------------------------------------------------------
(* Dispatch.  Every disjunct handles the head of the microtask queue.      *)

Head_ == Head(microtasks)
Dispatching(op) ==
    /\ microtasks # <<>>
    /\ microtasks' = Tail(microtasks)
    /\ StillOwner(Head_.generation)
    /\ Head_.request.op = op

\* The session of the request has passed: an internal-error envelope.
DispatchReleased ==
    /\ microtasks # <<>>
    /\ microtasks' = Tail(microtasks)
    /\ ~StillOwner(Head_.generation)
    /\ UNCHANGED <<lifecycle, used, promises, requested, chains, cursorVars>>

\* schedule-seed!: the ordinals that follow those of the captured runtime, as many
\* as its job is short of (a negative number of them is none).
WholeTarget(rt) == rt.seed.target
Remaining(rt) == rt.seed.target - rt.seed.completed
Schedule(rt) ==
    LET first == rt.count - SmallCount IN
    /\ chains' = chains \cup
           {[job |-> Head_.id, owner |-> owner, next |-> first,
             end |-> first + Remaining(rt)]}
    /\ runtime' = rt
    /\ UNCHANGED <<owner, initialization, used, promises, requested, cursorVars>>

\* start-seed! looks at the status of the runtime the request captured.
MayStart(rt) == rt.seed.status # "seeding"
StartSeed ==
    LET rt == Head_.runtime IN
    /\ Dispatching("seed-start")
    /\ MayStart(rt)
    /\ Schedule([rt EXCEPT !.seed = Seed("seeding", 0, Head_.request.arg, rt.count)])

RetrySeed ==
    LET rt == Head_.runtime IN
    /\ Dispatching("seed-retry")
    /\ rt.seed.status = "error"
    /\ Schedule([rt EXCEPT !.seed.status = "seeding"])

SeedRefused ==
    /\ \/ Dispatching("seed-start") /\ ~MayStart(Head_.runtime)
       \/ Dispatching("seed-retry") /\ Head_.runtime.seed.status # "error"
    /\ UNCHANGED <<lifecycle, used, promises, requested, chains, cursorVars>>

\* Tokens record the revision they were issued against, which the code does not.
Token == [id |-> issued + 1, generation |-> owner, count |-> Head_.runtime.count]
Known(cursor, tokens) == cursor = 0 \/ \E t \in tokens : t.id = cursor
PageTokens == {pageCursors[i] : i \in DOMAIN pageCursors}

\* issue-cursor!: a full pool gives up its oldest token.
Retained(pool) == IF Len(pool) >= CursorLimit THEN Tail(pool) ELSE pool

\* page-data: an unknown cursor is an error, a page that has a successor issues one.
Page ==
    /\ Dispatching("page")
    /\ Known(Head_.request.arg, PageTokens)
    /\ issued < MaxCursors
    /\ issued' = issued + 1
    /\ pageCursors' = Append(Retained(pageCursors), Token)
    /\ UNCHANGED <<lifecycle, used, promises, requested, chains, lookupCursors>>

\* wire-page for the lookups and reverse-relationships, checked by dispatch.
Lookup ==
    /\ Dispatching("lookup")
    /\ Known(Head_.request.arg, lookupCursors)
    /\ issued < MaxCursors
    /\ issued' = issued + 1
    /\ lookupCursors' = lookupCursors \cup {Token}
    /\ UNCHANGED <<lifecycle, used, promises, requested, chains, pageCursors>>

\* The last page, or a cursor-invalid failure: nothing changes.
PageEnds ==
    /\ Dispatching("page") \/ Dispatching("lookup")
    /\ UNCHANGED <<lifecycle, used, promises, requested, chains, cursorVars>>

-----------------------------------------------------------------------------
(* The batch timer of run-seed-batches!.                                   *)

Bundle(c) == {n \in c.next..(c.end - 1) : n < c.next + BatchSize}

BatchSizeAlways(c) == BatchSize
Added(c) == Cardinality(Bundle(c))
Done(completed, target) == completed = target

\* create-relationships! refuses a relationship that exists.
Conflicts(c) == Bundle(c) \cap runtime.ordinals # {}

Fires(c) == microtasks = <<>> /\ StillOwner(c.owner) /\ runtime.seed.status = "seeding"

\* The job's session was released, or another job ended in this status.
BatchDropped(c) ==
    /\ microtasks = <<>>
    /\ ~(StillOwner(c.owner) /\ runtime.seed.status = "seeding")
    /\ chains' = chains \ {c}
    /\ UNCHANGED <<lifecycle, used, promises, microtasks, requested, cursorVars>>

\* commit-seed-batch publishes the database, the indexes and the counts at once;
\* the last batch of the target ends the job, any other schedules the next one.
CommitBatch(c) ==
    LET completed == runtime.seed.completed + Added(c)
        count == runtime.count + Added(c)
        done == Done(completed, runtime.seed.target)
    IN
    /\ Fires(c)
    /\ ~Conflicts(c)
    /\ runtime' = [ordinals |-> runtime.ordinals \cup Bundle(c), count |-> count,
                   seed |-> Seed(IF done THEN "ready" ELSE "seeding", completed,
                                 runtime.seed.target, count)]
    /\ chains' = (chains \ {c}) \cup
           IF done THEN {} ELSE {[c EXCEPT !.next = @ + Added(c)]}
    /\ DropCursors
    /\ UNCHANGED <<owner, initialization, used, promises, microtasks, requested, issued>>

\* The commit throws, as it must on a conflict; nothing of the private connection
\* is published.
BatchFails(c) ==
    /\ Fires(c)
    /\ runtime' = [runtime EXCEPT !.seed.status = "error"]
    /\ chains' = chains \ {c}
    /\ UNCHANGED <<owner, initialization, used, promises, microtasks, requested, cursorVars>>

Batch(c) == BatchDropped(c) \/ CommitBatch(c) \/ BatchFails(c)

-----------------------------------------------------------------------------

Dispatch ==
    DispatchReleased \/ StartSeed \/ RetrySeed \/ SeedRefused \/ Page \/ Lookup \/ PageEnds

RuntimeNext ==
    \/ \E o \in Owners : Initialize(o) \/ Release(o) \/ BuildRuntime(o) \/ BuildFails(o)
    \/ \E r \in Requests : Request(r)
    \/ Dispatch
    \/ \E c \in chains : Batch(c)

RuntimeSpec == RuntimeInit /\ [][RuntimeNext]_runtimeVars

\* The event loop runs what is queued: microtasks, and timers of any owner.  That
\* a commit fails without a conflict is possible, but nothing to rely on.
RuntimeFairSpec ==
    /\ RuntimeSpec
    /\ WF_runtimeVars(Dispatch)
    /\ \A o \in Owners : WF_runtimeVars(BuildRuntime(o) \/ BuildFails(o))
    /\ \A j \in 1..MaxRequests :
           WF_runtimeVars(\E c \in chains :
               /\ c.job = j
               /\ BatchDropped(c) \/ CommitBatch(c) \/ (Conflicts(c) /\ BatchFails(c)))
=============================================================================
