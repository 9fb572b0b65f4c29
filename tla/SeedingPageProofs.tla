-------------------------- MODULE SeedingPageProofs --------------------------
(***************************************************************************)
(* The page uses its runtime one request and one job at a time, for any    *)
(* number of sessions, submissions, failures and retries: what the runtime *)
(* leaves to its callers - that jobs do not overlap, and that a retry has  *)
(* exactly the missing resources to commit - holds for the page, and what  *)
(* the page shows of a job that ended is what was committed.               *)
(***************************************************************************)
EXTENDS SeedingPage, DataScriptRuntimeProofs

Places == {"closed", "opening", "waiting", "failed", "open"}

\* The session of the page, from its startup to the request that waits for its build.
StartupInv ==
    /\ at \in Places
    /\ owner = NoOwner <=> at = "closed"
    /\ \A o \in Owners : o \notin used => waiters[o] = <<>>
    /\ at \in {"closed", "opening", "failed"} => microtasks = <<>>
    /\ at \in {"opening", "failed"} =>
           runtime = NoRuntime /\ waiters[owner] = <<>> /\ builds[owner] = 0
    /\ at = "waiting" /\ runtime = NoRuntime =>
           microtasks = <<>> /\ Len(waiters[owner]) = 1
    /\ at = "waiting" /\ runtime # NoRuntime => Len(microtasks) = 1

\* The request an open page has made will be granted.
Granted ==
    /\ Head_.runtime = runtime /\ runtime.seed.status # "seeding"
    /\ \/ Head_.request.op = "seed-start"
       \/ Head_.request.op = "seed-retry" /\ runtime.seed.status = "error"

OpenInv ==
    at = "open" =>
        /\ runtime # NoRuntime
        /\ microtasks # <<>> => Len(microtasks) = 1 /\ Granted

\* A job runs only while no request is queued, and has exactly the rest to commit.
JobsInv ==
    /\ \A c \in chains : c.owner = owner =>
           /\ at = "open" /\ microtasks = <<>> /\ runtime.seed.status = "seeding"
           /\ c.next = runtime.count - SmallCount
           /\ c.end - c.next = runtime.seed.target - runtime.seed.completed
    /\ \A c, d \in chains : c.owner = owner /\ d.owner = owner => c = d

PageInv == StartupInv /\ OpenInv /\ JobsInv /\ SettledPageIsCurrent

-----------------------------------------------------------------------------
(* Every step of the page is a step of its runtime, or none.               *)

LEMMA PageStepIsRuntimeStep == [PageNext]_allVars => [RuntimeNext]_runtimeVars
<1> SUFFICES ASSUME [PageNext]_allVars PROVE [RuntimeNext]_runtimeVars
  OBVIOUS
<1>0. CASE UNCHANGED allVars
  BY <1>0 DEF allVars
<1>1. ASSUME NEW o \in Owners, Open(o) \/ Leave(o) \/ Built(o) \/ Unbuilt(o)
      PROVE  RuntimeNext
  BY <1>1 DEF Open, Leave, Built, Unbuilt, RuntimeNext
<1>2. CASE Boot
  <2>1. Page_ \in Requests
    BY RuntimeAssumption DEF Page_, Requests
  <2> QED
    BY <1>2, <2>1 DEF Boot, RuntimeNext
<1>3. CASE Booted \/ Answered
  BY <1>3 DEF Booted, Answered, RuntimeNext, Dispatch
<1>4. ASSUME NEW n \in Amounts, Submit(n) PROVE RuntimeNext
  <2>1. [op |-> "seed-start", arg |-> n] \in Requests
    BY DEF Requests
  <2> QED
    BY <1>4, <2>1 DEF Submit, RuntimeNext
<1>5. CASE Retry
  <2>1. [op |-> "seed-retry", arg |-> 0] \in Requests
    BY DEF Requests
  <2> QED
    BY <1>5, <2>1 DEF Retry, RuntimeNext
<1>6. CASE Poll
  BY <1>6 DEF Poll
<1>7. ASSUME NEW c \in chains, Timer(c) PROVE RuntimeNext
  BY <1>7 DEF Timer, RuntimeNext
<1> QED
  BY <1>0, <1>1, <1>2, <1>3, <1>4, <1>5, <1>6, <1>7 DEF PageNext

\* The composition implements the runtime: every theorem of the runtime holds for it.
THEOREM PageImplementsRuntime == PageSpec => RuntimeSpec
<1>1. PageInit => RuntimeInit
  BY DEF PageInit
<1> QED
  BY <1>1, PageStepIsRuntimeStep, PTL DEF PageSpec, RuntimeSpec

LEMMA PageRuntimeInvariant == PageSpec => []RuntimeInv
<1> QED
  BY PageImplementsRuntime, RuntimeInvariant, PTL

-----------------------------------------------------------------------------
(* The steps.                                                              *)

\* A queue of one is empty once its head is taken, and has one when it was empty.
LEMMA LastOne ==
    ASSUME NEW S, NEW s \in Seq(S), Len(s) = 1
    PROVE  s # <<>> /\ Tail(s) = <<>>
<1>1. s # <<>>
  BY EmptySeq
<1>2. Tail(s) \in Seq(S) /\ Len(Tail(s)) = 0
  BY <1>1, HeadTailProperties
<1> QED
  BY <1>1, <1>2, EmptySeq

LEMMA FirstOne ==
    ASSUME NEW S, NEW e \in S
    PROVE  /\ Append(<<>>, e) # <<>> /\ Len(Append(<<>>, e)) = 1
           /\ Head(Append(<<>>, e)) = e
<1>1. <<>> \in Seq(S) /\ Len(<<>>) = 0
  BY EmptySeq
<1>2. /\ Append(<<>>, e) \in Seq(S) /\ Len(Append(<<>>, e)) = 1
      /\ Append(<<>>, e)[1] = e /\ Append(<<>>, e) # <<>>
  BY <1>1, AppendProperties
<1> QED
  BY <1>2, HeadTailProperties

LEMMA InitPage == PageInit => PageInv
<1> SUFFICES ASSUME PageInit PROVE PageInv
  OBVIOUS
<1>1. StartupInv /\ OpenInv /\ JobsInv /\ SettledPageIsCurrent
  BY RuntimeAssumption
     DEF PageInit, RuntimeInit, StartupInv, OpenInv, JobsInv, SettledPageIsCurrent, Places
<1> QED
  BY <1>1 DEF PageInv

\* A page opens or is left: nothing of an earlier session is its.
LEMMA SessionKeepsPage ==
    ASSUME RuntimeInv, PageInv, NEW o \in Owners, Open(o) \/ Leave(o)
    PROVE  PageInv'
<1> USE RuntimeAssumption
<1>0. RuntimeTypeOK /\ OwnersInv /\ StartupInv /\ JobsInv
  BY DEF RuntimeInv, PageInv
<1>1. /\ microtasks = <<>> /\ runtime' = NoRuntime
      /\ \/ at' = "opening" /\ owner' = o /\ o \notin used /\ used' = used \cup {o}
         \/ at' = "closed" /\ owner' = NoOwner /\ used' = used
      /\ UNCHANGED <<builds, waiters, microtasks, chains>>
  <2>1. CASE Open(o)
    BY <2>1 DEF Open, Turn, Initialize, promises
  <2>2. CASE Leave(o)
    BY <2>2 DEF Leave, Turn, Release, promises
  <2> QED
    BY <2>1, <2>2
<1>2. o \notin used => builds[o] = 0
  BY <1>0 DEF OwnersInv, RuntimeTypeOK
<1>3. StartupInv'
  BY <1>0, <1>1, <1>2 DEF StartupInv, Places
<1>4. JobsInv'
  BY <1>0, <1>1 DEF JobsInv, OwnersInv, RuntimeTypeOK
<1>5. OpenInv' /\ SettledPageIsCurrent'
  BY <1>1 DEF OpenInv, SettledPageIsCurrent
<1> QED
  BY <1>3, <1>4, <1>5 DEF PageInv

\* A startup asks once, and waits for the build.
LEMMA BootKeepsPage ==
    ASSUME RuntimeInv, PageInv, Boot
    PROVE  PageInv'
<1> USE RuntimeAssumption
<1>0. RuntimeTypeOK /\ OwnersInv /\ DataInv /\ StartupInv /\ JobsInv
  BY DEF RuntimeInv, PageInv
<1>1. /\ at \in {"opening", "failed"} /\ at' = "waiting"
      /\ microtasks = <<>> /\ runtime = NoRuntime /\ waiters[owner] = <<>>
      /\ owner \in Owners /\ owner \in used
  BY <1>0 DEF Boot, StartupInv, OwnersInv, RuntimeTypeOK
<1>2. /\ UNCHANGED <<owner, runtime, used, microtasks, chains>>
      /\ waiters' = [waiters EXCEPT ![owner] =
                         Append(waiters[owner], [id |-> requested + 1, request |-> Page_])]
  BY <1>1 DEF Boot, Request
<1>3. /\ waiters'[owner] = Append(<<>>, [id |-> requested + 1, request |-> Page_])
      /\ \A o \in Owners : o # owner => waiters'[o] = waiters[o]
  BY <1>0, <1>1, <1>2 DEF RuntimeTypeOK
<1>4. Len(waiters'[owner]) = 1
  BY <1>3, FirstOne
<1>5. StartupInv'
  BY <1>0, <1>1, <1>2, <1>3, <1>4 DEF StartupInv, Places
<1>6. JobsInv'
  BY <1>0, <1>1, <1>2 DEF JobsInv
<1>7. OpenInv' /\ SettledPageIsCurrent'
  BY <1>1 DEF OpenInv, SettledPageIsCurrent
<1> QED
  BY <1>5, <1>6, <1>7 DEF PageInv

\* The answer of the startup installs the data it was answered from.
LEMMA BootedKeepsPage ==
    ASSUME RuntimeInv, PageInv, Booted
    PROVE  PageInv'
<1>0. RuntimeTypeOK /\ StartupInv /\ JobsInv
  BY DEF RuntimeInv, PageInv
<1>1. /\ at = "waiting" /\ at' = "open"
      /\ microtasks # <<>> /\ microtasks' = Tail(microtasks)
      /\ StillOwner(Head_.generation)
      /\ UNCHANGED <<owner, runtime, used, builds, waiters, chains>>
      /\ shown' = runtime.seed /\ installed' = runtime.count
  BY DEF Booted, PageEnds, Dispatching, Install, Show, lifecycle, promises
<1>2. runtime # NoRuntime
  BY <1>1, HeadIsCurrent
<1>3. microtasks' = <<>>
  BY <1>0, <1>1, <1>2, LastOne DEF StartupInv, RuntimeTypeOK
<1>4. StartupInv'
  BY <1>0, <1>1 DEF StartupInv, Places
<1>5. JobsInv'
  BY <1>0, <1>1 DEF JobsInv
<1>6. OpenInv' /\ SettledPageIsCurrent'
  BY <1>1, <1>2, <1>3 DEF OpenInv, SettledPageIsCurrent
<1> QED
  BY <1>4, <1>5, <1>6 DEF PageInv

\* A request of an open page is queued with the data it will be granted for.
LEMMA AskKeepsPage ==
    ASSUME RuntimeInv, PageInv, NEW r \in Requests, Request(r),
           at = "open", microtasks = <<>>, UNCHANGED <<at, installed>>,
           runtime.seed.status # "seeding",
           r.op = "seed-start" \/ (r.op = "seed-retry" /\ runtime.seed.status = "error"),
           shown'.status = "seeding" \/ UNCHANGED shown
    PROVE  PageInv'
<1> USE RuntimeAssumption
<1> DEFINE task == [id |-> requested + 1, request |-> r,
                    generation |-> owner, runtime |-> runtime]
<1>0. RuntimeTypeOK /\ StartupInv /\ OpenInv /\ JobsInv /\ SettledPageIsCurrent
  BY DEF RuntimeInv, PageInv
<1>1. runtime # NoRuntime
  BY <1>0 DEF OpenInv
<1>2. /\ microtasks' = Append(<<>>, task)
      /\ UNCHANGED <<owner, runtime, used, builds, waiters, chains>>
  BY <1>1 DEF Request, promises
<1>3. microtasks' # <<>> /\ Len(microtasks') = 1 /\ Head(microtasks') = task
  BY <1>2, FirstOne
<1>4. StartupInv'
  BY <1>0, <1>1, <1>2, <1>3 DEF StartupInv, Places
<1>5. OpenInv'
  <2>1. task.runtime = runtime /\ task.request = r
    OBVIOUS
  <2>2. Granted'
    BY <1>2, <1>3, <2>1 DEF Granted, Head_
  <2> QED
    BY <1>1, <1>2, <1>3, <2>2 DEF OpenInv
<1>6. JobsInv'
  BY <1>0, <1>2 DEF JobsInv
<1>7. SettledPageIsCurrent'
  BY <1>0, <1>2 DEF SettledPageIsCurrent
<1> QED
  BY <1>4, <1>5, <1>6, <1>7 DEF PageInv

LEMMA SubmitKeepsPage ==
    ASSUME RuntimeInv, PageInv, NEW n \in Amounts, Submit(n)
    PROVE  PageInv'
<1> DEFINE r == [op |-> "seed-start", arg |-> n]
<1>1. /\ at = "open" /\ microtasks = <<>> /\ shown.status # "seeding"
      /\ Request(r) /\ UNCHANGED <<at, installed>>
      /\ shown' = Seed("seeding", 0, n, shown.total)
  BY DEF Submit, Turn, MaySubmit, Show
<1>2. r \in Requests /\ r.op = "seed-start"
  BY DEF Requests
<1>3. runtime.seed.status # "seeding"
  BY <1>1 DEF PageInv, SettledPageIsCurrent
<1>4. shown'.status = "seeding"
  BY <1>1 DEF Seed
<1> HIDE DEF r
<1> QED
  BY <1>1, <1>2, <1>3, <1>4, AskKeepsPage

LEMMA RetryKeepsPage ==
    ASSUME RuntimeInv, PageInv, Retry
    PROVE  PageInv'
<1> DEFINE r == [op |-> "seed-retry", arg |-> 0]
<1>1. /\ at = "open" /\ microtasks = <<>> /\ shown.status = "error"
      /\ Request(r) /\ UNCHANGED <<at, installed, shown>>
  BY DEF Retry, Turn, pageVars
<1>2. r \in Requests /\ r.op = "seed-retry"
  BY DEF Requests
<1>3. runtime.seed.status = "error"
  BY <1>1 DEF PageInv, SettledPageIsCurrent
<1> HIDE DEF r
<1> QED
  BY <1>1, <1>2, <1>3, AskKeepsPage

\* The runtime grants what the page asks: the page shows the job, which is its only one.
LEMMA ScheduledKeepsPage ==
    ASSUME RuntimeInv, PageInv, at = "open", UNCHANGED <<at, installed>>,
           microtasks # <<>>, microtasks' = Tail(microtasks),
           NEW rt \in Runtimes, Sound(rt), rt.count = runtime.count,
           rt.seed.status = "seeding", Schedule(rt), shown' = runtime'.seed
    PROVE  PageInv'
<1> USE RuntimeAssumption
<1> DEFINE first == rt.count - SmallCount
           job == [job |-> Head_.id, owner |-> owner, next |-> first,
                   end |-> first + Remaining(rt)]
<1>0. RuntimeTypeOK /\ StartupInv /\ OpenInv /\ JobsInv
  BY DEF RuntimeInv, PageInv
<1>1. /\ chains' = chains \cup {job} /\ runtime' = rt
      /\ UNCHANGED <<owner, used, builds, waiters>>
  BY DEF Schedule, promises
<1>2. microtasks' = <<>>
  BY <1>0, LastOne DEF OpenInv, RuntimeTypeOK
<1>3. rt # NoRuntime
  BY NoRuntimeType DEF Sound
<1>4. \A c \in chains : c.owner # owner
  BY <1>0 DEF JobsInv
<1>5. StartupInv'
  BY <1>0, <1>1, <1>2, <1>3 DEF StartupInv, Places
<1>6. OpenInv'
  BY <1>1, <1>2, <1>3 DEF OpenInv
<1>7. JobsInv'
  <2>1. rt.count \in Nat /\ rt.seed.target \in Nat /\ rt.seed.completed \in Nat
    BY DEF Runtimes, Seeds
  <2>2. Remaining(rt) = rt.seed.target - rt.seed.completed
    BY DEF Remaining
  <2>3. job.next = rt.count - SmallCount /\ job.owner = owner
        /\ job.end - job.next = rt.seed.target - rt.seed.completed
    BY <2>1, <2>2
  <2>4. \A c \in chains' : c.owner = owner' => c = job
    BY <1>1, <1>4
  <2> QED
    BY <1>1, <1>2, <2>3, <2>4 DEF JobsInv
<1>8. SettledPageIsCurrent'
  BY <1>1 DEF SettledPageIsCurrent
<1> QED
  BY <1>5, <1>6, <1>7, <1>8 DEF PageInv

LEMMA AnsweredKeepsPage ==
    ASSUME RuntimeInv, PageInv, Answered
    PROVE  PageInv'
<1> DEFINE old == Head_.runtime
<1>1. /\ at = "open" /\ UNCHANGED <<at, installed>>
      /\ StartSeed \/ RetrySeed \/ SeedRefused
  BY DEF Answered
<1>2. /\ microtasks # <<>> /\ microtasks' = Tail(microtasks)
      /\ StillOwner(Head_.generation)
  BY <1>1 DEF StartSeed, RetrySeed, SeedRefused, Dispatching
<1>3. /\ Head_ \in Task /\ Sound(old) /\ old.count = runtime.count
      /\ old = runtime /\ runtime.seed.status # "seeding"
      /\ \/ Head_.request.op = "seed-start"
         \/ Head_.request.op = "seed-retry" /\ runtime.seed.status = "error"
  BY <1>1, <1>2, HeadIsCurrent DEF PageInv, OpenInv, Granted
<1>4. old \in Runtimes
  BY <1>3 DEF Task
<1>5. CASE StartSeed
  <2> DEFINE s == Seed("seeding", 0, Head_.request.arg, old.count)
             rt == [old EXCEPT !.seed = s]
  <2>1. Schedule(rt)
    BY <1>5 DEF StartSeed
  <2>2. Head_.request \in Requests
    BY <1>3 DEF Task
  <2>3. Head_.request.arg \in Nat
    <3>1. Amounts \subseteq Nat /\ {0} \subseteq Nat /\ 0..MaxCursors \subseteq Nat
      BY RuntimeAssumption
    <3>2. ASSUME NEW r \in Requests PROVE r.arg \in Nat
      BY <3>1 DEF Requests
    <3> QED
      BY <2>2, <3>2
  <2>4. s = [status |-> "seeding", completed |-> 0, target |-> Head_.request.arg,
             total |-> old.count]
    BY DEF Seed
  <2>5. s \in Seeds
    BY <1>4, <2>3, <2>4 DEF Seeds, Runtimes
  <2>6. rt \in Runtimes /\ rt.seed = s /\ rt.count = old.count /\ rt.ordinals = old.ordinals
    BY <1>4, <2>5, WithSeed
  <2>7. Sound(rt) /\ rt.seed.status = "seeding"
    BY <1>3, <2>4, <2>6 DEF Sound
  <2> HIDE DEF rt, s
  <2>8. runtime' = rt /\ runtime' # runtime
    BY <1>3, <2>1, <2>7 DEF Schedule
  <2>9. shown' = runtime'.seed
    BY <2>8 DEF Answered, Show
  <2> QED
    BY <1>1, <1>2, <1>3, <2>1, <2>6, <2>7, <2>9, ScheduledKeepsPage
<1>6. CASE RetrySeed
  <2> DEFINE rt == [old EXCEPT !.seed.status = "seeding"]
  <2>1. Schedule(rt)
    BY <1>6 DEF RetrySeed
  <2>2. rt \in Runtimes /\ rt.count = old.count /\ Sound(rt) /\ rt.seed.status = "seeding"
    <3>1. rt \in Runtimes /\ rt.count = old.count /\ Sound(rt)
      BY <1>3, <1>4, WithStatus
    <3>2. rt.seed.status = "seeding"
      BY <1>4 DEF Runtimes, Seeds
    <3> QED
      BY <3>1, <3>2
  <2> HIDE DEF rt
  <2>3. runtime' = rt /\ runtime' # runtime
    BY <1>3, <2>1, <2>2 DEF Schedule
  <2>4. shown' = runtime'.seed
    BY <2>3 DEF Answered, Show
  <2> QED
    BY <1>1, <1>2, <1>3, <2>1, <2>2, <2>4, ScheduledKeepsPage
<1>7. ~SeedRefused
  <2>1. CASE Head_.request.op = "seed-start"
    BY <1>3, <2>1 DEF SeedRefused, Dispatching, MayStart
  <2>2. CASE Head_.request.op = "seed-retry" /\ runtime.seed.status = "error"
    BY <1>3, <2>2 DEF SeedRefused, Dispatching
  <2> QED
    BY <1>3, <2>1, <2>2
<1> QED
  BY <1>1, <1>5, <1>6, <1>7

\* The poll shows the runtime as it is.
LEMMA PollKeepsPage ==
    ASSUME RuntimeInv, PageInv, Poll
    PROVE  PageInv'
<1>1. /\ at = "open" /\ shown' = runtime.seed
      /\ runtime.seed.status # "seeding" => installed' = runtime.count
      /\ UNCHANGED <<at, owner, runtime, used, builds, waiters, microtasks, chains>>
  <2>1. UNCHANGED <<at, owner, runtime, used, builds, waiters, microtasks, chains>>
    BY DEF Poll, runtimeVars, lifecycle, promises
  <2> QED
    BY <2>1 DEF Poll, Show, Install
<1>2. StartupInv'
  BY <1>1 DEF PageInv, StartupInv, Places
<1>3. OpenInv'
  <2>1. Granted => Granted'
    BY <1>1 DEF Granted, Head_
  <2> QED
    BY <1>1, <2>1 DEF PageInv, OpenInv
<1>4. JobsInv'
  BY <1>1 DEF PageInv, JobsInv
<1>5. SettledPageIsCurrent'
  BY <1>1 DEF SettledPageIsCurrent
<1> QED
  BY <1>2, <1>3, <1>4, <1>5 DEF PageInv

\* The build answers the startup that waits for it.
LEMMA BuiltKeepsPage ==
    ASSUME RuntimeInv, PageInv, NEW o \in Owners, Built(o)
    PROVE  PageInv'
<1> USE RuntimeAssumption
<1>0. RuntimeTypeOK /\ OwnersInv /\ DataInv /\ StartupInv /\ OpenInv /\ JobsInv
  BY DEF RuntimeInv, PageInv
<1>1. /\ o = owner /\ builds[o] > 0 /\ runtime' = Restored
      /\ microtasks' = [i \in DOMAIN waiters[o] |->
             [id |-> waiters[o][i].id, request |-> waiters[o][i].request,
              generation |-> o, runtime |-> Restored]]
      /\ waiters' = [waiters EXCEPT ![o] = <<>>]
      /\ UNCHANGED <<owner, used, chains, at, shown, installed>>
  BY DEF Built, BuildRuntime, StillOwner, pageVars
<1>2. owner # NoOwner /\ runtime = NoRuntime
  BY <1>0, <1>1 DEF OwnersInv
<1>3. at = "waiting" /\ Len(waiters[o]) = 1
  BY <1>0, <1>1, <1>2 DEF StartupInv, OpenInv, Places
<1>4. Len(microtasks') = 1
  <2>1. waiters[o] \in Seq(Waiting)
    BY <1>0 DEF RuntimeTypeOK
  <2>2. DOMAIN waiters[o] = 1..1
    BY <1>3, <2>1, LenProperties
  <2> QED
    BY <1>1, <2>2
<1>5. \A c \in chains : c.owner # owner
  BY <1>0, <1>2 DEF DataInv
<1>6. StartupInv'
  <2>1. \A p \in Owners : p # o => waiters'[p] = waiters[p]
    BY <1>0, <1>1 DEF RuntimeTypeOK
  <2>2. o \in used
    BY <1>0, <1>1 DEF OwnersInv
  <2> QED
    BY <1>0, <1>1, <1>3, <1>4, <2>1, <2>2, RestoredSound DEF StartupInv, Places
<1>7. OpenInv' /\ JobsInv' /\ SettledPageIsCurrent'
  BY <1>1, <1>3, <1>5 DEF OpenInv, JobsInv, SettledPageIsCurrent
<1> QED
  BY <1>6, <1>7 DEF PageInv

\* A build that fails fails the startup that waits for it; that of another session
\* is nothing to the page.
LEMMA UnbuiltKeepsPage ==
    ASSUME RuntimeInv, PageInv, NEW o \in Owners, Unbuilt(o)
    PROVE  PageInv'
<1> USE RuntimeAssumption
<1>0. /\ RuntimeTypeOK /\ OwnersInv /\ DataInv
      /\ StartupInv /\ OpenInv /\ JobsInv /\ SettledPageIsCurrent
  BY DEF RuntimeInv, PageInv
<1>1. /\ builds[o] > 0 /\ microtasks = <<>>
      /\ builds' = [builds EXCEPT ![o] = builds[o] - 1]
      /\ waiters' = [waiters EXCEPT ![o] = <<>>]
      /\ UNCHANGED <<owner, used, microtasks, chains, shown, installed>>
  BY DEF Unbuilt, BuildFails
<1>2. /\ waiters'[o] = <<>> /\ builds'[o] = builds[o] - 1
      /\ \A p \in Owners : p # o => waiters'[p] = waiters[p] /\ builds'[p] = builds[p]
  BY <1>0, <1>1 DEF RuntimeTypeOK
<1>3. CASE o = owner
  <2>1. runtime' = NoRuntime /\ at' = "failed"
    BY <1>3 DEF Unbuilt, BuildFails, StillOwner
  <2>2. owner # NoOwner /\ runtime = NoRuntime /\ builds[o] = 1
    BY <1>0, <1>1, <1>3 DEF OwnersInv
  <2>3. \A c \in chains : c.owner # owner
    BY <1>0, <2>2 DEF DataInv
  <2>4. at # "closed"
    BY <1>0, <2>2 DEF StartupInv
  <2>5. builds'[o] = 0
    BY <1>2, <2>2
  <2>6. StartupInv'
    BY <1>0, <1>1, <1>2, <1>3, <2>1, <2>4, <2>5 DEF StartupInv, Places
  <2>7. OpenInv' /\ JobsInv' /\ SettledPageIsCurrent'
    BY <1>1, <2>1, <2>3 DEF OpenInv, JobsInv, SettledPageIsCurrent
  <2> QED
    BY <2>6, <2>7 DEF PageInv
<1>4. CASE o # owner
  <2>1. UNCHANGED <<runtime, at>>
    BY <1>4 DEF Unbuilt, BuildFails, StillOwner
  <2>2. owner # NoOwner => /\ owner \in Owners
                           /\ waiters'[owner] = waiters[owner]
                           /\ builds'[owner] = builds[owner]
    BY <1>0, <1>2, <1>4 DEF RuntimeTypeOK
  <2>3. \A p \in Owners : p \notin used => waiters'[p] = <<>>
    BY <1>0, <1>2 DEF StartupInv
  <2>4. StartupInv'
    BY <1>0, <1>1, <2>1, <2>2, <2>3 DEF StartupInv, Places
  <2>5. OpenInv'
    BY <1>0, <1>1, <2>1 DEF OpenInv
  <2>6. JobsInv' /\ SettledPageIsCurrent'
    BY <1>0, <1>1, <2>1 DEF JobsInv, SettledPageIsCurrent
  <2> QED
    BY <2>4, <2>5, <2>6 DEF PageInv
<1> QED
  BY <1>3, <1>4

\* While a batch of the current session is due its page shows the job.
LEMMA TimerIsShown ==
    ASSUME RuntimeInv, PageInv, NEW c \in chains, Fires(c)
    PROVE  /\ c.owner = owner /\ at = "open" /\ microtasks = <<>>
           /\ shown.status = "seeding" /\ runtime # NoRuntime
           /\ c.next = runtime.count - SmallCount
           /\ c.end - c.next = runtime.seed.target - runtime.seed.completed
           /\ \A d \in chains : d.owner = owner => d = c
<1>1. c.owner = owner /\ runtime.seed.status = "seeding"
  BY DEF Fires, StillOwner
<1>2. at = "open" /\ runtime # NoRuntime
  BY <1>1 DEF RuntimeInv, DataInv, PageInv, JobsInv
<1>3. shown.status = "seeding"
  BY <1>1, <1>2 DEF PageInv, SettledPageIsCurrent
<1> QED
  BY <1>1, <1>2, <1>3 DEF PageInv, JobsInv

LEMMA DroppedKeepsPage ==
    ASSUME RuntimeInv, PageInv, NEW c \in chains, BatchDropped(c), UNCHANGED pageVars
    PROVE  PageInv'
<1>1. /\ chains' \subseteq chains
      /\ UNCHANGED <<owner, runtime, used, builds, waiters, microtasks, at, shown, installed>>
  BY DEF BatchDropped, lifecycle, promises, pageVars
<1>2. StartupInv'
  BY <1>1 DEF PageInv, StartupInv, Places
<1>3. OpenInv'
  <2>1. Granted => Granted'
    BY <1>1 DEF Granted, Head_
  <2> QED
    BY <1>1, <2>1 DEF PageInv, OpenInv
<1>4. JobsInv'
  BY <1>1 DEF PageInv, JobsInv
<1>5. SettledPageIsCurrent'
  BY <1>1 DEF PageInv, SettledPageIsCurrent
<1> QED
  BY <1>2, <1>3, <1>4, <1>5 DEF PageInv

LEMMA FailedKeepsPage ==
    ASSUME RuntimeInv, PageInv, NEW c \in chains, BatchFails(c), UNCHANGED pageVars
    PROVE  PageInv'
<1>0. Fires(c)
  BY DEF BatchFails
<1>1. /\ runtime' = [runtime EXCEPT !.seed.status = "error"]
      /\ chains' = chains \ {c}
      /\ UNCHANGED <<owner, used, builds, waiters, microtasks, at, shown, installed>>
  BY DEF BatchFails, promises, pageVars
<1>2. /\ at = "open" /\ microtasks = <<>> /\ shown.status = "seeding"
      /\ runtime # NoRuntime /\ \A d \in chains' : d.owner # owner
  BY <1>0, <1>1, TimerIsShown
<1>3. runtime' # NoRuntime
  <2>1. runtime \in Runtimes /\ Sound(runtime)
    BY <1>2 DEF RuntimeInv, RuntimeTypeOK, DataInv
  <2>2. Sound(runtime')
    BY <1>1, <2>1, WithStatus
  <2> QED
    BY <2>2, NoRuntimeType DEF Sound
<1>4. StartupInv'
  BY <1>1, <1>2, <1>3 DEF PageInv, StartupInv, Places
<1>5. OpenInv' /\ JobsInv' /\ SettledPageIsCurrent'
  BY <1>1, <1>2, <1>3 DEF OpenInv, JobsInv, SettledPageIsCurrent
<1> QED
  BY <1>4, <1>5 DEF PageInv

\* A batch that commits leaves its job the rest of what it had.
LEMMA CommittedKeepsPage ==
    ASSUME RuntimeInv, PageInv, NEW c \in chains, CommitBatch(c), UNCHANGED pageVars
    PROVE  PageInv'
<1> USE RuntimeAssumption
<1> DEFINE a == Added(c)
           completed == runtime.seed.completed + a
           done == Done(completed, runtime.seed.target)
           next == [c EXCEPT !.next = c.next + a]
<1>0. Fires(c)
  BY DEF CommitBatch
<1>1. /\ runtime' = [ordinals |-> runtime.ordinals \cup Bundle(c),
                     count |-> runtime.count + a,
                     seed |-> Seed(IF done THEN "ready" ELSE "seeding", completed,
                                   runtime.seed.target, runtime.count + a)]
      /\ chains' = (chains \ {c}) \cup (IF done THEN {} ELSE {next})
      /\ UNCHANGED <<owner, used, builds, waiters, microtasks, at, shown, installed>>
  BY DEF CommitBatch, promises, pageVars
<1>2. /\ c.owner = owner /\ at = "open" /\ microtasks = <<>>
      /\ shown.status = "seeding" /\ runtime # NoRuntime
      /\ c.next = runtime.count - SmallCount
      /\ c.end - c.next = runtime.seed.target - runtime.seed.completed
      /\ \A d \in chains : d.owner = owner => d = c
  BY <1>0, TimerIsShown
<1>3. /\ c \in Chain /\ a \in Nat /\ runtime' \in Runtimes /\ runtime' # NoRuntime
  BY CommitExtends, NoRuntimeType DEF Sound
<1>4. /\ runtime.count \in Nat /\ runtime.seed.target \in Nat
      /\ runtime.seed.completed \in Nat /\ c.next \in Nat /\ c.end \in Int
  BY <1>2, <1>3 DEF RuntimeInv, RuntimeTypeOK, Runtimes, Seeds, Chain
<1> HIDE DEF a
<1>5. StartupInv'
  BY <1>1, <1>2, <1>3 DEF PageInv, StartupInv, Places
<1>6. JobsInv'
  <2>1. CASE done
    BY <1>1, <1>2, <2>1 DEF JobsInv
  <2>2. CASE ~done
    <3>1. /\ runtime'.count = runtime.count + a
          /\ runtime'.seed.status = "seeding" /\ runtime'.seed.completed = completed
          /\ runtime'.seed.target = runtime.seed.target
      BY <1>1, <2>2 DEF Seed
    <3>2. next.owner = owner /\ next.next = c.next + a /\ next.end = c.end
      BY <1>2, <1>3 DEF Chain
    <3> HIDE DEF next
    <3>3. /\ next.next = runtime'.count - SmallCount
          /\ next.end - next.next = runtime'.seed.target - runtime'.seed.completed
      <4>1. a \in Int /\ SmallCount \in Int
        BY <1>3
      <4>2. c.next + a = (runtime.count + a) - SmallCount
        BY <1>2, <1>4, <4>1
      <4>3. c.end - (c.next + a) = runtime.seed.target - (runtime.seed.completed + a)
        <5> DEFINE end == c.end
                   first == c.next
                   target == runtime.seed.target
                   before == runtime.seed.completed
        <5>1. end \in Int /\ first \in Int /\ target \in Int /\ before \in Int
          BY <1>4
        <5>2. end - first = target - before
          BY <1>2
        <5> HIDE DEF end, first, target, before
        <5>3. end - (first + a) = target - (before + a)
          BY <4>1, <5>1, <5>2
        <5> QED
          BY <5>3 DEF end, first, target, before
      <4> QED
        BY <3>1, <3>2, <4>2, <4>3
    <3>4. \A d \in chains' : d.owner = owner' => d = next
      BY <1>1, <1>2, <2>2
    <3> QED
      BY <1>1, <1>2, <3>1, <3>3, <3>4 DEF JobsInv
  <2> QED
    BY <2>1, <2>2
<1>7. OpenInv' /\ SettledPageIsCurrent'
  BY <1>1, <1>2, <1>3 DEF OpenInv, SettledPageIsCurrent
<1> QED
  BY <1>5, <1>6, <1>7 DEF PageInv

LEMMA PageStep == RuntimeInv /\ PageInv /\ [PageNext]_allVars => PageInv'
<1> SUFFICES ASSUME RuntimeInv, PageInv, [PageNext]_allVars PROVE PageInv'
  OBVIOUS
<1>0. CASE UNCHANGED allVars
  <2>1. UNCHANGED <<at, shown, installed, owner, runtime, used, builds, waiters,
                    microtasks, chains>>
    BY <1>0 DEF allVars, runtimeVars, lifecycle, promises, pageVars
  <2>2. Granted => Granted'
    BY <2>1 DEF Granted, Head_
  <2>3. StartupInv'
    BY <2>1 DEF PageInv, StartupInv, Places
  <2>4. OpenInv'
    BY <2>1, <2>2 DEF PageInv, OpenInv
  <2>5. JobsInv' /\ SettledPageIsCurrent'
    BY <2>1 DEF PageInv, JobsInv, SettledPageIsCurrent
  <2> QED
    BY <2>3, <2>4, <2>5 DEF PageInv
<1>1. ASSUME NEW o \in Owners, Open(o) \/ Leave(o) \/ Built(o) \/ Unbuilt(o)
      PROVE  PageInv'
  BY <1>1, SessionKeepsPage, BuiltKeepsPage, UnbuiltKeepsPage
<1>2. CASE Boot
  BY <1>2, BootKeepsPage
<1>3. CASE Booted
  BY <1>3, BootedKeepsPage
<1>4. ASSUME NEW n \in Amounts, Submit(n) PROVE PageInv'
  BY <1>4, SubmitKeepsPage
<1>5. CASE Retry
  BY <1>5, RetryKeepsPage
<1>6. CASE Answered
  BY <1>6, AnsweredKeepsPage
<1>7. CASE Poll
  BY <1>7, PollKeepsPage
<1>8. ASSUME NEW c \in chains, Timer(c) PROVE PageInv'
  BY <1>8, DroppedKeepsPage, CommittedKeepsPage, FailedKeepsPage DEF Timer, Batch
<1> QED
  BY <1>0, <1>1, <1>2, <1>3, <1>4, <1>5, <1>6, <1>7, <1>8 DEF PageNext

\* In every reachable state of the page.
THEOREM PageInvariant == PageSpec => []PageInv
<1>1. PageSpec => []RuntimeInv
  BY PageRuntimeInvariant
<1> QED
  BY <1>1, InitPage, PageStep, PTL DEF PageSpec

-----------------------------------------------------------------------------
(* What the page is promised.                                              *)

\* The page that shows no job shows the committed data, for any number of resources,
\* batches, failures, retries and sessions.
THEOREM PageCurrent == PageSpec => []SettledPageIsCurrent
<1>1. PageInv => SettledPageIsCurrent
  BY DEF PageInv
<1> QED
  BY <1>1, PageInvariant, PTL

\* A page never has two requests queued or two jobs running, nor one of each.
THEOREM PageOneJob == PageSpec => []OneJobAtATime
<1>1. RuntimeInv /\ PageInv => OneJobAtATime
  <2> SUFFICES ASSUME RuntimeInv, PageInv PROVE OneJobAtATime
    OBVIOUS
  <2> DEFINE jobs == {c \in chains : c.owner = owner}
  <2>0. /\ RuntimeTypeOK /\ StartupInv /\ OpenInv /\ JobsInv
    BY DEF RuntimeInv, PageInv
  <2>1. Len(microtasks) \in Nat /\ (microtasks = <<>> => Len(microtasks) = 0)
    BY <2>0, LenProperties DEF RuntimeTypeOK
  <2>2. CASE jobs = {}
    <3>1. Len(microtasks) <= 1
      <4>1. microtasks # <<>> => Len(microtasks) = 1
        BY <2>0 DEF StartupInv, OpenInv, Places
      <4>2. \A n \in Nat : n = 0 \/ n = 1 => n <= 1
        OBVIOUS
      <4> QED
        BY <2>1, <4>1, <4>2, Zenon
    <3>2. Cardinality(jobs) = 0
      BY <2>2, FS_EmptySet
    <3> QED
      BY <2>1, <3>1, <3>2 DEF OneJobAtATime
  <2>3. CASE jobs # {}
    <3>1. PICK c \in chains : c.owner = owner
      BY <2>3
    <3>2. jobs = {c} /\ microtasks = <<>>
      BY <2>0, <3>1 DEF JobsInv
    <3>3. Cardinality(jobs) = 1
      BY <3>2, FS_Singleton
    <3> QED
      BY <2>1, <3>2, <3>3 DEF OneJobAtATime
  <2> QED
    BY <2>2, <2>3
<1> QED
  BY <1>1, PageInvariant, PageRuntimeInvariant, PTL

\* The page meets what the runtime leaves to its callers: jobs never overlap, ...
THEOREM PageNoOverlap == PageSpec => []NoOverlappingJobs
<1>1. PageInv => NoOverlappingJobs
  BY DEF PageInv, JobsInv, NoOverlappingJobs
<1> QED
  BY <1>1, PageInvariant, PTL

\* ... and a job, also a retried one, has exactly the missing resources to commit.
THEOREM PageHasTheRest == PageSpec => []JobHasTheRest
<1>1. PageInv => JobHasTheRest
  BY DEF PageInv, JobsInv, JobHasTheRest
<1> QED
  BY <1>1, PageInvariant, PTL
-----------------------------------------------------------------------------
(* Why a page stops showing a job: the job it shows is watched, and runs.   *)

\* A job that runs or failed is short of something, a running one has its timer, and
\* the poll's timer is set while the page shows a job.
RunningInv ==
    /\ runtime.seed.status \in {"seeding", "error"} =>
           runtime.seed.completed < runtime.seed.target
    /\ runtime.seed.status = "seeding" => \E c \in chains : c.owner = owner
    /\ shown.status = "seeding" => polling

\* While the page shows a job its poll is due, and while the job runs a batch is due that
\* has resources to commit.
JobPending ==
    /\ shown.status = "seeding" => polling
    /\ runtime.seed.status = "seeding" =>
           \E c \in chains : c.owner = owner /\ c.next < c.end

\* No batch of the page's job commits nothing, and none commits more than the rest.
BatchesAdvance ==
    [][\A c \in chains : CommitBatch(c) =>
          /\ runtime'.seed.completed > runtime.seed.completed
          /\ runtime'.seed.completed <= runtime'.seed.target]_allVars

\* A batch of a job that is short of something adds something, and no more than that.
LEMMA AddsSome ==
    ASSUME NEW c \in Chain, c.next < c.end
    PROVE  Added(c) \in Nat /\ Added(c) >= 1 /\ Added(c) <= c.end - c.next
<1> DEFINE a == Added(c)
<1>1. /\ c.next \in Nat /\ c.end \in Int /\ BatchSize \in Nat \ {0}
      /\ a \in Nat /\ Bundle(c) = c.next..(c.next + a - 1)
  BY BundleIsInterval, RuntimeAssumption DEF Chain
<1> HIDE DEF a
<1>2. c.next \in Bundle(c)
  BY <1>1 DEF Bundle
<1>3. a >= 1
  BY <1>1, <1>2
<1>4. c.next + a - 1 \in Bundle(c)
  BY <1>1, <1>3
<1>5. c.next + a - 1 <= c.end - 1
  BY <1>1, <1>4 DEF Bundle
<1> QED
  BY <1>1, <1>3, <1>5 DEF a

\* What a commit leaves of the job it belongs to.
LEMMA CommitOfPage ==
    ASSUME RuntimeInv, PageInv, RunningInv, NEW c \in chains, CommitBatch(c)
    PROVE  /\ runtime'.seed.completed > runtime.seed.completed
           /\ runtime'.seed.completed <= runtime'.seed.target
           /\ runtime'.seed.status \in {"ready", "seeding"}
           /\ runtime'.seed.status = "seeding" =>
                  /\ runtime'.seed.completed < runtime'.seed.target
                  /\ \E d \in chains' : d.owner = owner'
<1> DEFINE a == Added(c)
           completed == runtime.seed.completed + a
           done == Done(completed, runtime.seed.target)
           next == [c EXCEPT !.next = @ + a]
<1>1. Fires(c)
  BY DEF CommitBatch
<1>2. /\ runtime' = [ordinals |-> runtime.ordinals \cup Bundle(c),
                     count |-> runtime.count + a,
                     seed |-> Seed(IF done THEN "ready" ELSE "seeding", completed,
                                   runtime.seed.target, runtime.count + a)]
      /\ chains' = (chains \ {c}) \cup (IF done THEN {} ELSE {next})
      /\ owner' = owner
  BY DEF CommitBatch
<1>3. /\ c.owner = owner /\ c \in Chain /\ runtime \in Runtimes
      /\ c.end - c.next = runtime.seed.target - runtime.seed.completed
  BY <1>1, TimerIsShown, CommitExtends DEF RuntimeInv, RuntimeTypeOK
<1>4. /\ runtime.seed.target \in Nat /\ runtime.seed.completed \in Nat
      /\ c.next \in Nat /\ c.end \in Int
  BY <1>3 DEF Runtimes, Seeds, Chain
<1>5. runtime.seed.completed < runtime.seed.target
  BY <1>1 DEF RunningInv, Fires
<1>6. c.next < c.end
  BY <1>3, <1>4, <1>5
<1>7. a \in Nat /\ a >= 1 /\ a <= c.end - c.next
  BY <1>3, <1>6, AddsSome
<1>8. /\ runtime'.seed.completed = completed /\ runtime'.seed.target = runtime.seed.target
      /\ runtime'.seed.status = IF done THEN "ready" ELSE "seeding"
  BY <1>2 DEF Seed
<1>9. done <=> completed = runtime.seed.target
  BY DEF Done
<1>10. next.owner = owner
  BY <1>3 DEF Chain
<1> HIDE DEF a, next
<1>11. /\ completed > runtime.seed.completed /\ completed <= runtime.seed.target
       /\ ~done => completed < runtime.seed.target
  BY <1>3, <1>4, <1>7, <1>9
<1> HIDE DEF completed, done
<1>12. ~done => next \in chains'
  BY <1>2
<1> QED
  BY <1>2, <1>8, <1>10, <1>11, <1>12

\* What leaves the runtime, its owner and its timers alone.
LEMMA QuietKeepsRunning ==
    ASSUME RunningInv, UNCHANGED <<owner, runtime, chains>>,
           UNCHANGED <<shown, polling>> \/ polling' = (shown'.status = "seeding")
    PROVE  RunningInv'
  BY DEF RunningInv

\* A job that is granted begins short of what it was asked for.
LEMMA GrantedRuns ==
    ASSUME RuntimeInv, PageInv, RunningInv, Answered
    PROVE  RunningInv'
<1> DEFINE old == Head_.runtime
<1>0. polling' = (shown'.status = "seeding")
  BY DEF Answered, Show
<1>1. microtasks # <<>> /\ microtasks' = Tail(microtasks) /\ at = "open"
  BY DEF Answered, StartSeed, RetrySeed, SeedRefused, Dispatching
<1>2. Head_ \in Task /\ old = runtime
  BY <1>1, HeadIsCurrent DEF PageInv, OpenInv, Granted
<1>3. old \in Runtimes /\ Head_.request \in Requests
  BY <1>2 DEF Task
<1>4. ASSUME NEW rt, Schedule(rt), rt.seed.completed < rt.seed.target PROVE RunningInv'
  <2> DEFINE job == [job |-> Head_.id, owner |-> owner, next |-> rt.count - SmallCount,
                     end |-> (rt.count - SmallCount) + Remaining(rt)]
  <2>1. runtime' = rt /\ owner' = owner /\ job \in chains' /\ job.owner = owner
    BY <1>4 DEF Schedule
  <2> HIDE DEF job
  <2> QED
    BY <1>0, <1>4, <2>1 DEF RunningInv
<1>5. CASE StartSeed
  <2> DEFINE s == Seed("seeding", 0, Head_.request.arg, old.count)
             rt == [old EXCEPT !.seed = s]
  <2>1. Schedule(rt)
    BY <1>5 DEF StartSeed
  <2>2. Head_.request.op = "seed-start"
    BY <1>5 DEF StartSeed, Dispatching
  <2>3. Head_.request.arg \in Nat \ {0}
    BY <1>3, <2>2, RuntimeAssumption DEF Requests
  <2>4. rt.seed = s
    BY <1>3 DEF Runtimes
  <2>5. s.completed = 0 /\ s.target = Head_.request.arg
    BY DEF Seed
  <2> HIDE DEF rt, s
  <2> QED
    BY <1>4, <2>1, <2>3, <2>4, <2>5
<1>6. CASE RetrySeed
  <2> DEFINE rt == [old EXCEPT !.seed.status = "seeding"]
  <2>1. Schedule(rt) /\ old.seed.status = "error"
    BY <1>6 DEF RetrySeed
  <2>2. rt.seed.completed = old.seed.completed /\ rt.seed.target = old.seed.target
    BY <1>3 DEF Runtimes, Seeds
  <2>3. old.seed.completed < old.seed.target
    BY <1>2, <2>1 DEF RunningInv
  <2> HIDE DEF rt
  <2> QED
    BY <1>4, <2>1, <2>2, <2>3
<1>7. CASE SeedRefused
  <2>1. UNCHANGED <<owner, runtime, chains>>
    BY <1>7 DEF SeedRefused, lifecycle
  <2> QED
    BY <1>0, <2>1, QuietKeepsRunning
<1> QED
  BY <1>5, <1>6, <1>7 DEF Answered

\* A timer of a running job commits something, fails, or belongs to another session.
LEMMA TimerKeepsRunning ==
    ASSUME RuntimeInv, PageInv, RunningInv, NEW c \in chains, Timer(c)
    PROVE  RunningInv'
<1>0. UNCHANGED <<shown, polling>>
  BY DEF Timer, pageVars
<1>1. CASE BatchDropped(c)
  <2>1. /\ UNCHANGED <<owner, runtime>> /\ chains' = chains \ {c}
        /\ ~(c.owner = owner /\ runtime.seed.status = "seeding")
    BY <1>1 DEF BatchDropped, StillOwner, lifecycle
  <2> QED
    BY <1>0, <2>1 DEF RunningInv
<1>2. CASE CommitBatch(c)
  BY <1>0, <1>2, CommitOfPage DEF RunningInv
<1>3. CASE BatchFails(c)
  <2>1. /\ runtime' = [runtime EXCEPT !.seed.status = "error"]
        /\ runtime.seed.status = "seeding" /\ runtime \in Runtimes
    BY <1>3 DEF BatchFails, Fires, RuntimeInv, RuntimeTypeOK
  <2>2. /\ runtime'.seed.status = "error"
        /\ runtime'.seed.completed = runtime.seed.completed
        /\ runtime'.seed.target = runtime.seed.target
    BY <2>1 DEF Runtimes, Seeds
  <2> QED
    BY <1>0, <2>1, <2>2 DEF RunningInv
<1> QED
  BY <1>1, <1>2, <1>3 DEF Timer, Batch

LEMMA RunningStep ==
    ASSUME RuntimeInv, PageInv, RunningInv, [PageNext]_allVars
    PROVE  RunningInv'
<1>0. CASE UNCHANGED allVars
  BY <1>0, QuietKeepsRunning DEF allVars, runtimeVars, lifecycle, pageVars
<1>1. ASSUME NEW o \in Owners, Open(o) \/ Leave(o) PROVE RunningInv'
  <2>1. /\ runtime' = NoRuntime
        /\ UNCHANGED <<shown, polling>> \/ shown' = Nothing
    BY <1>1 DEF Open, Leave, Initialize, Release
  <2> QED
    BY <2>1, NoRuntimeType DEF RunningInv, Nothing, Seed
<1>2. ASSUME NEW o \in Owners, Built(o) PROVE RunningInv'
  <2>1. runtime' = Restored /\ UNCHANGED <<shown, polling>>
    BY <1>2 DEF Built, BuildRuntime, pageVars
  <2> QED
    BY <2>1 DEF RunningInv, Restored, Seed
<1>3. ASSUME NEW o \in Owners, Unbuilt(o) PROVE RunningInv'
  <2>1. /\ runtime' = NoRuntime \/ runtime' = runtime
        /\ UNCHANGED <<owner, chains, shown, polling>>
    BY <1>3 DEF Unbuilt, BuildFails
  <2> QED
    BY <2>1, NoRuntimeType DEF RunningInv
<1>4. CASE Boot
  BY <1>4, QuietKeepsRunning DEF Boot, Request
<1>5. CASE Booted
  BY <1>5, QuietKeepsRunning DEF Booted, PageEnds, Install, Show, lifecycle
<1>6. ASSUME NEW n \in Amounts, Submit(n) PROVE RunningInv'
  BY <1>6, QuietKeepsRunning DEF Submit, Request, Show
<1>7. CASE Retry
  BY <1>7, QuietKeepsRunning DEF Retry, Request, pageVars
<1>8. CASE Poll
  BY <1>8, QuietKeepsRunning DEF Poll, Install, Show, runtimeVars, lifecycle
<1> QED
  BY <1>0, <1>1, <1>2, <1>3, <1>4, <1>5, <1>6, <1>7, <1>8, GrantedRuns, TimerKeepsRunning
     DEF PageNext

LEMMA PageRuns == PageSpec => []RunningInv
<1>1. PageInit => RunningInv
  BY NoRuntimeType DEF PageInit, RuntimeInit, RunningInv, Nothing, Seed
<1> QED
  BY <1>1, RunningStep, PageInvariant, PageRuntimeInvariant, PTL DEF PageSpec

\* The safety core of PageSettles: a page that shows a job polls, and a running job of
\* its session has a timer and something left to commit.
THEOREM PageJobPending == PageSpec => []JobPending
<1>1. ASSUME RuntimeInv, PageInv, RunningInv PROVE JobPending
  <2>1. ASSUME runtime.seed.status = "seeding"
        PROVE  \E c \in chains : c.owner = owner /\ c.next < c.end
    <3>1. PICK c \in chains : c.owner = owner
      BY <1>1, <2>1 DEF RunningInv
    <3>2. c.end - c.next = runtime.seed.target - runtime.seed.completed
      BY <1>1, <3>1 DEF PageInv, JobsInv
    <3>3. runtime \in Runtimes /\ c \in Chain
      BY <1>1 DEF RuntimeInv, RuntimeTypeOK, Chain
    <3>4. /\ runtime.seed.target \in Nat /\ runtime.seed.completed \in Nat
          /\ c.next \in Nat /\ c.end \in Int
      BY <3>3 DEF Runtimes, Seeds, Chain
    <3>5. runtime.seed.completed < runtime.seed.target
      BY <1>1, <2>1 DEF RunningInv
    <3>6. c.next < c.end
      BY <3>2, <3>4, <3>5
    <3> QED
      BY <3>1, <3>6
  <2> QED
    BY <1>1, <2>1 DEF RunningInv, JobPending
<1> QED
  BY <1>1, PageRuns, PageInvariant, PageRuntimeInvariant, PTL

\* ... of which each of its batches commits some, and the last one no more than the rest.
THEOREM PageBatchesAdvance == PageSpec => BatchesAdvance
<1>1. ASSUME RuntimeInv, PageInv, RunningInv
      PROVE  \A c \in chains : CommitBatch(c) =>
                 /\ runtime'.seed.completed > runtime.seed.completed
                 /\ runtime'.seed.completed <= runtime'.seed.target
  BY <1>1, CommitOfPage
<1> QED
  BY <1>1, PageRuns, PageInvariant, PageRuntimeInvariant, PTL DEF PageSpec, BatchesAdvance
=============================================================================
