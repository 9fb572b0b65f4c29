----------------------------- MODULE SeedingPage -----------------------------
(***************************************************************************)
(* apps/explorer-main: the page of the DataScript profile while a visitor  *)
(* seeds it (the seed form of Header.tsx; the seed poll, the retry and the *)
(* installation of a snapshot of state.tsx; the seed route of              *)
(* profile-api.ts), composed with the runtime it seeds.                    *)
(*                                                                         *)
(* The page disables its seed form while it shows a job, learns how the    *)
(* job goes from a poll of its own timer, beside the batch timers of the   *)
(* runtime, and refreshes its snapshot when the job has ended.  What it    *)
(* asks a session that has been built is answered within one task of the   *)
(* event loop; the request that seeds and its answer are two steps of that *)
(* task, and no timer or click comes between while a microtask is queued.  *)
(***************************************************************************)
EXTENDS DataScriptRuntimeProperties

VARIABLES
    at,         \* where the page is: its profile is closed, opening or open
    shown,      \* seedProgress
    installed,  \* the resource total of bootstrapData, the installed snapshot
    polling     \* whether the poll's timer is set
pageVars == <<at, shown, installed, polling>>
allVars == <<runtimeVars, pageVars>>

Nothing == Seed("none", 0, 0, 0)
Page_ == [op |-> "page", arg |-> 0]
Turn == microtasks = <<>>

PageInit ==
    /\ RuntimeInit
    /\ at = "closed" /\ shown = Nothing /\ installed = 0 /\ polling = FALSE

\* The effect on seeding() sets the poll's timer when the page begins to show a job,
\* leaves it to the poll while it does, and clears it when it shows the end of one.
ShowOnce(progress) == shown' = progress /\ polling' = (progress.status = "seeding" /\ ~polling)
Show(progress) == shown' = progress /\ polling' = (progress.status = "seeding")

\* installBootstrap: the snapshot and its progress, at once.
Install == installed' = runtime.count /\ Show(runtime.seed)

-----------------------------------------------------------------------------
(* Opening and leaving the profile.                                        *)

Open(o) ==
    /\ at = "closed" /\ Turn
    /\ Initialize(o)
    /\ at' = "opening" /\ UNCHANGED <<shown, installed, polling>>

\* The bootstrap request, also of a retry of a startup that failed.  It changes
\* nothing of the runtime but that its session is built: as a last page does.
Boot ==
    /\ at \in {"opening", "failed"} /\ Turn
    /\ Request(Page_)
    /\ at' = "waiting" /\ UNCHANGED <<shown, installed, polling>>

Booted ==
    /\ at = "waiting"
    /\ PageEnds
    /\ Install
    /\ at' = "open"

\* The profile selector is never disabled.
Leave(o) ==
    /\ at # "closed" /\ Turn
    /\ Release(o)
    /\ at' = "closed" /\ shown' = Nothing /\ installed' = 0 /\ polling' = FALSE

-----------------------------------------------------------------------------
(* Seeding.                                                                *)

MaySubmitAlways == TRUE
MaySubmit == shown.status # "seeding"

\* The form shows the job before the runtime is asked for it.
Submit(n) ==
    /\ at = "open" /\ Turn /\ MaySubmit
    /\ Request([op |-> "seed-start", arg |-> n])
    /\ Show(Seed("seeding", 0, n, shown.total))
    /\ UNCHANGED <<at, installed>>

\* The button of a failed job.
Retry ==
    /\ at = "open" /\ Turn /\ shown.status = "error"
    /\ Request([op |-> "seed-retry", arg |-> 0])
    /\ UNCHANGED pageVars

\* The runtime answers with the progress of the job, or refuses: a submission then
\* shows an error with the total of the snapshot, a retry the error it had.
Answered ==
    /\ at = "open"
    /\ StartSeed \/ RetrySeed \/ SeedRefused
    /\ Show(IF runtime' # runtime THEN runtime'.seed
            ELSE IF Head_.request.op = "seed-retry" THEN shown
            ELSE Seed("error", 0, Head_.request.arg, installed))
    /\ UNCHANGED <<at, installed>>

\* The poll asks for the status, and refreshes the snapshot when the job has ended.
PollUnrefreshed ==
    /\ at = "open" /\ Turn /\ polling
    /\ Show(runtime.seed)
    /\ UNCHANGED <<at, installed, runtimeVars>>
Poll ==
    /\ at = "open" /\ Turn /\ polling
    /\ IF runtime.seed.status = "seeding"
       THEN Show(runtime.seed) /\ UNCHANGED installed
       ELSE Install
    /\ UNCHANGED <<at, runtimeVars>>

-----------------------------------------------------------------------------

Built(o) == BuildRuntime(o) /\ UNCHANGED pageVars

\* A failed build fails the startup that waits for it; that of a session the visitor
\* left fails nobody.
Unbuilt(o) ==
    /\ BuildFails(o)
    /\ at' = IF StillOwner(o) THEN "failed" ELSE at
    /\ UNCHANGED <<shown, installed, polling>>

Timer(c) == Batch(c) /\ UNCHANGED pageVars

PageNext ==
    \/ \E o \in Owners : Open(o) \/ Leave(o) \/ Built(o) \/ Unbuilt(o)
    \/ Boot \/ Booted
    \/ \E n \in Amounts : Submit(n)
    \/ Retry \/ Answered \/ Poll
    \/ \E c \in chains : Timer(c)

PageSpec == PageInit /\ [][PageNext]_allVars

\* The event loop runs what is queued: microtasks, and the timers of the page and of
\* the runtime.
PageFairSpec ==
    /\ PageSpec
    /\ WF_allVars(Booted \/ Answered)
    /\ WF_allVars(Poll)
    /\ \A o \in Owners : WF_allVars(Built(o) \/ Unbuilt(o))
    /\ \A j \in 1..MaxRequests : WF_allVars(\E c \in chains : c.job = j /\ Timer(c))

-----------------------------------------------------------------------------
(* What the visitor sees.                                                  *)

\* "Displayed counts SHALL match the committed dataset": unless it shows a job, the
\* page shows exactly the progress and the total of the runtime, and its snapshot is
\* of the current data - after jobs that ended, that failed halfway, and retries.
SettledPageIsCurrent ==
    at = "open" /\ shown.status # "seeding" =>
        shown = runtime.seed /\ installed = runtime.count

\* "A second submission SHALL NOT start another job": the page never asks for a job
\* while one runs or is asked for, so that the runtime of a page is used as
\* NoOverlappingJobs and JobHasTheRest require.
OneJobAtATime ==
    Len(microtasks) + Cardinality({c \in chains : c.owner = owner}) <= 1

\* The page stops showing a job: it ends, it fails, or the visitor leaves.
PageSettles == (at = "open" /\ shown.status = "seeding") ~> shown.status # "seeding"
=============================================================================
