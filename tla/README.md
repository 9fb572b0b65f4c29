# A verification project for the EACL demo

TLA+ models of the parts of this repository that own state while several things
happen at once, checked with TLC and proved with TLAPS.  Source paths below are
relative to `src/`.

The EACL demo lets a visitor explore one authorization fixture through several
backends.  A browser application selects a *profile* (a backend: DataScript in the
page, or Datahike, Datomic, Datalevin, Jank services over HTTP), holds a transport to
it, and asks it for pages of resources and permissions.  The durable backends serve a
frozen store that a maintenance program seeded before; a deployment script publishes
versions of their services, and a registry tells the application which to offer.

## 1. Inventory

Status: **M** modelled, **P** partly, **N** not modelled (with the reason).

| | Component | State it keeps | Operations | Interacts with |
|---|---|---|---|---|
| **M** | Explorer controller, `packages/explorer-state/src/explorer-controller.mjs` | epoch, session, released transports, startup interval, published view, panel requests and retry inputs, last selection | `switchProfile`, `retryProfile`, `cancelStartup`, `close`, `runPanel`, `retryPanel`, `cancelPanel`, `setPortableIntent`, `setPreferences` | transports through a factory; subscribers through `publish` |
| **M** | DataScript transport and loader, `packages/explorer-state/src/datascript-*.mjs` | owner token, runtime, initialization promise, memoised download | `bootstrap`, `request`, `release`; the script element and its timeout | the DataScript runtime; the profile selector |
| **P** | DataScript runtime, `apps/explorer-datascript/.../runtime.cljs` | one page-wide lifecycle atom (owner, runtime, initialization promise), seed jobs, two cursor pools | `initialize!`, `request!`, `release!`, `seed-start`, `seed-retry`, batch timer, paging | its transport; EACL's DataScript client |
| **P** | Application state, `apps/explorer-main/src/{state,App,api}.ts*` | seed progress, installed snapshot, poll timer; mounted transport; latest requests | seed form, poll, retry, installation of a snapshot; mounting and releasing of transports | the DataScript runtime through its transport |
| **P** | Resource tree, `apps/explorer-main/src/components/ResourceTree.tsx` | controls, page and count resources, displayed labels, farthest row | toggle, page size, pages, retries, count limit, refresh | lookups and counts through `LatestRequest` |
| **P** | Maintenance seed, `maintenance/datahike-dynamodb/.../seed.clj` and `maintenance/datomic-dynamodb/.../seed.clj` | seed state and batch entities in the store, the content itself | `initialize-seed!`, `apply-batch-group!`, `finalize-seed!` | the durable store; its drivers stream batches to it |
| **P** | Datomic service, `services/datomic-dynamodb/.../{reader,boundary}.clj` | one connection and snapshot, lease lock, permits, closing flags | `open-reader!`, `invoke!`, leases, exact snapshots, `close!` | one thread per request, the shutdown hook |
| **P** | Live deployment, `scripts/deploy-live-demo.mjs` | Lambda `$LATEST`, versions, alias and its revision; registry document | configure, publish, smoke, promote, publish the registry, prune, roll back | overlapping pushes; the registry's readers |
| **N** | HTTP transport, `http-transport.mjs` | validated descriptor, open requests with their deadlines | health and bootstrap handshake, `request`, `release` | what it decides is about one message of a service whose snapshots are outside this code |
| **N** | First profile controller, `profile-controller.mjs` | epoch, transport | switch, request, close | predecessor of the explorer controller with the same epoch discipline and fewer operations |
| **N** | Explorer operations, `explorer-operations.mjs` | page stacks | pages | the application no longer uses it: it pages through `ResourceTree.tsx` |
| **N** | Profile API, `apps/explorer-main/src/profile-api.ts` | descriptor, schema, cursor map | routes to operations | section 6 |
| **N** | Profile publication and registry, `profile-publication.mjs`, `profile-registry*.mjs` | none | compose and verify documents by their digests | what a deployment writes, and when, is in `LivePromotion` |
| **N** | Datalevin lifecycle, `services/datalevin-memory`, `packages/data-lifecycle` | none | compare one record with the record before it | nothing in the repository runs the steps between two records |
| **N** | Datahike and Jank services | caches over a frozen store | read operations | a request reads one snapshot; nothing it changes is visible to another |
| **N** | URL state, selection, preferences, presentation, views | none beyond one value | pure functions, rendering | unit tests reach every branch |
| **N** | Contracts, fixture generator, qualification, build and audit scripts | none | validate one message; generate and compare files | stateless or batch |
| **N** | Watchdog, notifier, probes, `infra/` | none | one handler per event | stateless |
| **N** | Vendored EACL sources | - | - | third party |

The behaviours that are hard, and what makes each modelled component correct:

* **Explorer controller.** Every method suspends at awaits while newer calls begin; a
  transport may be released by the call that replaces it, by the stale branch of the
  call that made it, or by a failure.  Correct: each transport is released exactly
  once, a ready view is served by the newest one, no answer crosses an epoch, every
  startup and panel settles.
* **DataScript transport.** Bootstraps of several transports overlap one download that
  may time out, run after all, or be given up by a release.  Correct: no session is
  taken for a released owner, none is taken away from the mounted one, one runtime
  instance serves the page, every call settles.
* **DataScript runtime.** Requests capture the runtime of the moment they are made;
  timers of a released session fire into the next one; a batch may fail between
  batches.  Correct: what a visitor is shown agrees with what is committed, cursors
  never cross a revision, nothing of a released session is published.
* **Application state.** The page learns of a job from a poll beside the job's own
  timers; the job may fail, be retried or end between two polls, and the page may be
  left.  Correct: a page that shows no job shows the current data, never asks for a
  second job, and stops showing the one it has.
* **Resource tree.** Each control change reloads two resources that depend on one
  another, and answers come in any order.  Correct: what is displayed is what the
  controls name, and a count shown as exact is exact.
* **Maintenance seed.** Three transactions per group with a possible crash between any
  two, replays, and competing processes.  Correct: a checkpoint never claims content
  that is not there, counts a batch once, and a ready store is exact and frozen.
* **Datomic reader.** Leases are taken and returned by the threads of requests while a
  close waits for them; releases, handlers and `open-reader!` itself fail halfway.
  Correct: nobody reads a released snapshot, nothing is released twice or forgotten,
  neither side waits for the other for ever.
* **Live deployment.** Pushes overlap freely on shared `$LATEST` and alias, and each
  step of a push may fail or its runner vanish.  Correct: an alias serves code under
  its own environment, no promotion is overwritten unseen, the registry names only
  deployments that answered.

`PROJECT.json` lists the hazards of the code at their lines, with the properties that
would catch each one, and why the few without a property have none.

## 2. Modules

| Module | What it is |
|---|---|
| `ExplorerController` | the controller; `ExplorerControllerProperties`, `MCExplorerController`, `ExplorerControllerProofs` |
| `DataScriptRuntime` | the browser-local backend, for any caller; `DataScriptRuntimeProperties`, `MCDataScriptRuntime`, `DataScriptRuntimeProofs` |
| `SeedingPage` | the page that seeds, composed with `DataScriptRuntime`, and its properties; `MCSeedingPage`, `SeedingPageProofs` |
| `LocalTransport` | the DataScript transports of a page and their loader; `LocalTransportProperties`, `MCLocalTransport`, `LocalTransportProofs` |
| `ResourcePager` | a branch of the resource tree; `ResourcePagerProperties`, `MCResourcePager`, `ResourcePagerProofs` |
| `FixtureSeed` | the seed protocol; `FixtureSeedProperties`, `MCFixtureSeed`, `FixtureSeedProofs` |
| `SnapshotReader` | the Datomic reader and its boundary; `SnapshotReaderProperties`, `MCSnapshotReader`, `SnapshotReaderProofs` |
| `LivePromotion` | overlapping live deployments; `LivePromotionProperties`, `MCLivePromotion`, `LivePromotionProofs` |
| `TransportLease` | abstract: at most one transport is held, retired once, never held again.  `ExplorerController` implements it for the transports it owns, `LocalTransport` for the session of the runtime |
| `SharedSnapshot` | abstract: a snapshot and its connection are lent until a close begins and given up once, in order, when nobody borrows.  `SnapshotReader` implements it |
| `VerifiedRegistry` | abstract: a document names only verified deployments, and each writes it at most once.  `LivePromotion` implements it |

A model module holds the definitions translated from the code.  Beside some of them
stands a faulty variant (`NeverStale` beside `Current`, `CaptureLeaking` beside
`Capture`, `ReleaseUnawaited` beside `BeforePublish`, ...) that no action uses.
`PROJECT.json` pairs each property of a passing run with one: with the variant in
place of the definition TLC finds that property violated.  The map in `PROJECT.json`
gives the source lines of every definition.

### ExplorerController

`switchProfile`, `cancelStartup` and `close` each increment the epoch synchronously
before they first await, so an epoch *names a call*: `calls[e]` is the call of epoch
`e` and where it is suspended, and a transport is named by the epoch of the switch
that created it.  The actions are the stretches between awaits:

| Action | Code |
|---|---|
| `SwitchProfile` | `switchProfile` to `await release(previous)` |
| `PreviousReleaseRejects`, `PreviousReleasedStale`, `CreateTransport`, `FactoryFails` | its continuation after that await |
| `BootstrapReady`, `BootstrapSettlesLate`, `BootstrapFails` | after `await transport.bootstrap()` |
| `DiscardSettles`, `FailedReleaseResolves`, `ReleaseFailsUnseen` | after the release in the stale branch and in the catch block |
| `CancelStartup`, `Close` / `CancelSettles`, `CloseSettles` | the two methods before and after their await |
| `Tick`, `SetPortableIntent`, `SetPreferences`, `RetryProfile` | the interval and the synchronous methods |
| `RunPanel`, `RunUnsupported`, `RetryPanel`, `CancelPanel` | panel methods up to their await |
| `PanelStale`, `PanelCanceled`, `PanelFails`, `PanelUpdates` | `runPanel` after its await, with the `finally` block |

A call that awaits `release(t)` without having been the first to release `t` resumes
at once; the model may delay it further, past other events of the page.  This admits
more interleavings than the microtask queue does; the violation of section 4 does not
depend on it, its call waits for a real release (`waits # NoTransport`).  Values,
descriptors and errors are reduced to the epoch or the request they came from; of the
preferences only the consistency mode is kept, since it alone is normalised against a
descriptor.

### DataScriptRuntime and SeedingPage

The event loop is explicit: a request captures owner and runtime when it is made and
is dispatched from the queue `microtasks`; a session's first request schedules the
build and later ones wait for the same promise; timers run only when the queue is
empty, in any order.  The data set of a revision is the set of ordinals committed to
it.  Tokens carry the revision they were issued against, a history variable by which
`CursorsOfThisRevision` is stated; the code only keeps the pools.

`DataScriptRuntime` lets any caller ask anything.  `SeedingPage` composes it with the
one caller it has, the page: `Open`, `Boot`, `Booted`, `Leave` are the startup of its
profile, `Submit` and `Retry` the seed form and the button of a failed job, `Answered`
the answer to either, `Poll` the page's own timer, and `Built`, `Unbuilt`, `Timer` the
timers of the runtime beside it.  Every step of the page is a step of the runtime or
leaves it alone (proved: `PageImplementsRuntime`), and what the runtime leaves to its
callers (`JobHasTheRest`, no overlapping jobs) is checked and proved of the page.

### LocalTransport

The transports that the profile selector mounts and releases one after the other
(`Select`), and the loader they share.  A call is suspended at one of the awaits of
`bootstrap` or `request`: the download (`BootstrapLoads`, `RuntimeArrives`,
`LoadRejects`), the initialization (`BootstrapAgain`, `Initialized`), the runtime's
answer (`Request`, `Answers`, `AnswerFails`); `Abort` is its caller's signal.  A
download is a script element: it runs (`ScriptRuns`), fails (`ScriptFails`) or is
given up by the timer (`TimesOut`), and one that was given up may still run.  Of the
runtime only the owner of its session is kept.

### ResourcePager

One branch of the tree.  An action is an event - a control, an error's button, an
answer - together with the signals it sets and the effects they set off, in Solid's
order: the resources refetch before the effect that resets the cursors runs, which is
why a superseded request may ask with the old cursors (`StaleLookup`).
`createResource` is external: a resource has at most one request that counts
(`asked`), keeps its value while it reloads, and ignores what is not its newest
promise.  Superseded lookups that still answer are in `late`.

### FixtureSeed

One process is one record of `writers`: `at` is the transaction it does next, `pos`
the first batch of its group, `records` the record count it read.  `Plan`, `Replay`
and `Reject` are the decision `apply-batch-group!` takes on the database it read;
`WriteObjects`, `WriteLinks` and `Checkpoint` (or `Yield`, `Lose`, when one of the
two compare-and-sets fails) its three transactions; `Verify`, `Refuse`, `Publish`,
`LosePublication` are `finalize-seed!`; `Create` is the transaction of
`initialize-seed!`, which upserts by a unique identity.  A transaction is atomic, so
a crash has an effect only between two of them (`Crash`).  The Datahike seed commits
groups of up to four batches, the Datomic seed has groups of one: `GroupSize`.
`Streams` are batch streams under one manifest digest; each batch digest
identifies its stream.  What a batch of a stream holds is a constant, finite set of
objects and relationships; the number of records of a group is the sum of their
cardinalities (`RecordsIn`).  Processes that overlap in time read the same stream, since
they are competing replays of one verified input; a later one may read another.

Two processes that find no seed state may both create it, and the slower one then
resets what the faster committed.  The history variable `raced` records that a
process began while another was about to create the state; nothing else reads it, and
the properties that such a race does break say so by `~raced` (section 4).

### SnapshotReader

A request is a thread: `Submit`, the poll for a permit (`Admit`, `GiveUp`,
`Interrupt`), the two looks at `closing?` around the lease lock (`Capture`,
`ReadLock`, `Lend`, `Refuse`), the exact snapshot of a date (`Select`, `SelectFails`,
`Support`, `ReleaseExact`), the handler (`Handle`), and the two `finally` blocks
(`ReturnLease`, `ReturnPermit`).  `SelectFixed`, `Publish`, `OpenFails` and `Abandon`
are `open-reader!`; `BeginClose`, `WriteLock`, `CloseSnapshot`, `CloseConnection` and
`Unlock` are `close!`, whose monitor admits one call at a time.  A deadline that passes
before the capture has steps of its own (`Expire`); afterwards it is one of the ways
a handler fails.  The count of active requests moves with the permits and is not a
variable; permits are not queued in order, because the 25 ms polls leave the queue of
the semaphore and enter it again.  The shutdown hook and the HTTP server only decide
when a close or a request begins, which is left open.

### LivePromotion

Each push deploys the functions of a profile at once; `step[d][f]` is the last step
push `d` completed for function `f`, between two calls to AWS: `Configure`,
`PublishVersion`, `GetAlias`, `SmokeVersion`, `Promote` (conditional on the revision
read by `GetAlias`), `SmokeUrl`, and `Prune`; the primary also awaits the others
(`BeforePublish`) and writes the registry (`Put`, `Invalidate`).  `FailBefore`,
`FailAfter` and `FailPrune` are a rejection before the alias moved, after it, and
while pruning; `Restore` and `RestoreFails` the rollback, conditional on the revision
of the promotion; a rejection at the top level ends the process (`Throws`), and
`Crash` is a lost runner.  Lambda is external: versions are numbered in order, a
version an alias names cannot be deleted, an alias has a revision.  A command that is
in flight when its process ends is taken to have happened before or not at all.

## 3. Passing runs

| Run | Instance | Shows |
|---|---|---|
| `controller_lifecycle` | two profiles with different modes, releases may reject, four calls; 2,000,375 states | no transport is orphaned, ready is served, the interval ends with its startup, modes are advertised, and the controller implements `TransportLease` |
| `controller_panels` | one profile, two panels, three calls, two requests, releases resolve, fairness; 259,013 states | no answer crosses an epoch or overtakes a newer one; startups and panels settle |
| `seeding_concurrent` | two sessions, batches of two, jobs of one and three, two requests in flight, five in all, two cursors in a pool of one; 4,611,312 states | for every caller: counts and ordinals agree with the committed data, cursors belong to the revision, a released session stays empty, committed data is not lost |
| `seeding_page` | two sessions, batches of two, jobs of one, three and four, seven requests, fairness; 95,685 states | a page that shows no job shows the current data, asks for one job at a time, a retry has exactly the rest, the page stops showing a job |
| `local_transport` | three transports of which one is refused, three calls, two downloads, fairness; 524,949 states | the transports implement `TransportLease` for the session, a ready transport has it, one runtime serves the page, calls settle |
| `pager_controls` | three scopes (three resources, none, unsupported), two page sizes, count limits two and three, three pages, one superseded lookup; about 2.2 million states | page and count are those the controls name, exact counts are exact, settled rows stay |
| `seed_resume` | three processes, five starts, three batches in groups of two, two streams; 460,383 states | the checkpoint is a prefix and is counted once, resuming never fails, ready is frozen; and whatever a race resets, a committed batch is in the store and a ready store holds exactly its batches |
| `snapshot_reader` | three requests, one for a date, two permits, three closes, fairness; 155,119 states | nobody reads what is released, nothing leaks, the reader implements `SharedSnapshot`, requests and closes end |
| `promotion_overlap` | two pushes of two functions, one earlier version, two retained | an alias serves code under its own environment, no promotion is overwritten unseen, a rollback finds its version, the registry implements `VerifiedRegistry` |

**Why the bounds are enough.**  A call of the controller interacts with the session
it replaces and with the one that replaces it: three epochs give the chain
old/current/newer, the fourth a close or cancellation on top of it.  Two panel
requests are needed for an overtaking, the third epoch for an answer that crosses
one.  Two sessions suffice for anything "left over"; the amounts make jobs of one
batch, of one and a half and of two, so that jobs end on and off a batch boundary and
can fail between batches, and seven requests leave room for two jobs with retries; a
pool of one cursor evicts at the second.  Two downloads are one that is given up and
its successor; three transports let the refused one come between two others.  Three
resources make two pages of two and three of one, with a last page that is full and
one that is not; the count is truncated at the first limit and exact at the second.
In the seed the last group is short, two competitors can overlap with a third that
starts afresh, and five starts leave room for crashes of both; the changed stream has
one more user in the middle batch, so the counts differ by one object and one
relationship.  In the reader there are more requests than permits, and as many closes
as it takes for either release to fail once.  Two pushes of two functions give every
overlap of two processes; a third would only add another that is overtaken.

`CHECK_DEADLOCK FALSE` is used where the bounded system stops: after the last
session or transport is released, and when the processes, requests, closes or pushes
that may be started are used up.

**Fairness.**  `FairSpec` (controller): each suspended call and each open request
eventually settles.  The HTTP transport aborts at a client deadline and the
DataScript loader times out after thirty seconds, so the awaited promises settle; no
fairness is assumed of the user's actions or of the interval.  `FairSpec` of
`LocalTransport`: the event loop resumes what can resume, and the timer of a download
fires; no script need run or fail.  `PageFairSpec`: the event loop runs its queue, the
poll's timer and the runtime's.  `RuntimeFairSpec`: likewise, and a batch is only
assumed to fail when its relationships conflict, which the code must then report;
that a commit fails without a conflict is possible and never relied on.  `Spec` of
`SnapshotReader`: threads run and deadlines pass, and a lock that is free is taken in
the end; no request or close need begin.  The seed and the deployments have no
liveness property: nothing restarts a process that died.

**Conditions on properties.**  `ReadyIsServed` excepts a close whose release is
pending or failed (`close` drops the session first).  `PanelSettles` excepts a panel
whose request the user canceled: when the transport answers all the same, the code
drops the answer and leaves the panel loading.  `StartupSettles` is checked with
releases that do not reject (section 4).  `CheckpointIsPrefix`, `RecordsCountedOnce`,
`ReplaysSucceed` and `ReadyIsFrozen` hold until processes race to create the seed
state; `CheckpointCoversContent` and `ReadyIsExact` hold regardless.
`RollbackTargetKept` needs no more overlapping pushes than a prune keeps versions.
The type invariants are part of the inductive invariants of section 5 and proved, so
no run repeats them.

## 4. Disagreements found

Each is a run that TLC must find violated, with the line of the repository that
says otherwise quoted in `PROJECT.json`.

| Run | Property | What happens |
|---|---|---|
| `controller_late_call` | `OvertakenCallIsSilent` | a failed startup, a cancellation or a close publishes after awaiting a release without looking at the epoch again, and replaces the view of a newer profile that is ready |
| `seeding_livelock` | `SeedingSettles` | two jobs of one session commit more than the later target; a retry then seeds empty batches for ever |
| `pager_collapse` | `LowerBoundHolds` | rows are labelled with the cursors and size of the moment they are displayed; after a load that failed or was given up by collapsing, a branch numbers its rows past the end and claims a lower bound above the total |

The explorer controller is a library with tests: `App.tsx` drives the transports
through the profile API instead.  Its transports are generic, and slow or failing
releases are within their contract.  `seeding_livelock` is about the runtime's own
interface: the page, its only caller, never asks for two jobs at once, which
`SeedingPageProofs` proves.  `pager_collapse` is what a visitor of the page can do.

Seen on the way, and not turned into runs, since no line of the repository promises
otherwise or an environment excludes them:

* the aborted bootstrap of a replaced profile clears the interval of the newer
  startup, whose elapsed time then stands still (`explorer-controller.mjs:109`);
* when the release of a failed startup's transport fails too, the view stays
  "switching" (`explorer-controller.mjs:114`);
* two processes that find no seed state both create it, and the slower resets a store
  the faster has made ready (`seed.clj:47` of Datomic).  A file lock
  (`run-seed-on-ec2.sh:33`) keeps a second Datahike process out on one host;
* the registry document is put unconditionally (`deploy-live-demo.mjs:691`): of two
  pushes the one that writes last is named, which may be the one whose alias has been
  replaced since;
* a failed invalidation rolls the alias back and leaves the document it published in
  place (`deploy-live-demo.mjs:280`).

## 5. Proofs

All theorems hold for every value of the constants that satisfies the named
assumptions of the model module (`ConstantsAssumption`, `SeedAssumption`,
`BatchesAssumption`, `RuntimeAssumption`, `LocalAssumption`, `PagerAssumption`, `ReaderAssumption`,
`PromotionAssumption`).  Each module strengthens its properties to one inductive
invariant, has a lemma per action or group of actions that keeps it, and derives the
properties from it.

**ExplorerControllerProofs.**  That a transport is released at most once depends on
which call may still release it.  `LifecycleInv` adds to the type invariant

* `CallInv` - exactly the epochs up to `epoch` have a call, and where it can be;
* `LeaseInv` - a transport that was returned is the session or had its release
  invoked once, and nothing else was released;
* `SessionInv` - the session belongs to the newest call, a switch that is starting,
  ready or failing;
* `ViewInv` - what the view shows, and which interval runs, follow from the newest
  call.

Panels and preferences do not disturb it: `LifecycleStep` is the next-state relation
reduced to what the lifecycle sees (`NextIsLifecycleStep`).  From the invariant follow
`AtMostOneRelease`, `NothingOrphaned`, `ReadyServed`, `AdvertisedMode`,
`TimerOfCurrentStartup`, the action property `MonotoneViewEpoch`, and
`ImplementsLease`, by which every step of the controller is a step of
`TransportLease` or a stutter.

The panels have an invariant of their own on top of it, `PanelInv`: only transports of
switches are asked (`AskedInv`); what a panel shows was asked before what it waits for,
and in the epoch of the view (`ShownInv`); an input kept for a retry belongs to the
newest switch, and none is kept while a startup can be canceled (`RetryInv`).  It gives
`PanelsAreOfThisEpoch` and the action property `AnswersMoveForward`.

Three more theorems are the safety part of the liveness that TLC checks: what shows that
something is awaited is awaited.  `StartupIsPending`: while the view is switching the
newest call is at a stage from which it publishes something else, except when the release
of a failed startup rejected (the exception `StartupSettles` is checked without).
`LoadingIsPending`: a loading panel shows its newest request, open and of this epoch,
unless that request was aborted.  `StaleNeverWaits`: a stale startup never waits for
another release, which the guard of `DiscardSettles` relies on.

**DataScriptRuntimeProofs.**  `RuntimeInv`: the types; everything queued belongs to a
session that has begun (`OwnersInv`), the current one of which is built once; and the
published runtime, as well as each one captured by a queued request, is a `Sound` data
set whose ordinals are an initial segment as long as its count (`DataInv`).  A commit
extends the segment because its bundle begins where the segment ends: jobs that
overlap conflict, or have nothing in common.  It gives `AdditionsContiguous`,
`CountsExact`, `CursorsCurrent`, `ReleasedEmpty` and the action property
`SessionDataGrows`, for every caller.

**SeedingPageProofs.**  `PageImplementsRuntime` brings all of that to the page.  On
top, `PageInv` says where the page's one request is (`StartupInv`, `OpenInv`), and
that the one job a session may have is short of exactly what it has to commit
(`JobsInv`).  From it `PageOneJob`, `PageNoOverlap` and `PageHasTheRest` - what the
runtime alone does not guarantee - and `PageCurrent`.  `RunningInv` adds that a job
that runs or failed is short of something and that a running one has its timer, so that
a page that shows a job always has one under way (`PageJobPending`) and each batch
commits some of the rest (`PageBatchesAdvance`).

**LocalTransportProofs.**  `LocalInv`: the remembered download is the only one pending
or fulfilled and every transport holds its runtime (`LoaderInv`); sessions belong to
the mounted transport, and to it exactly while it is initialized (`SessionInv`); calls
that wait can only be those of transports that were mounted (`CallsInv`).  It gives
`ReadyTransportHasSession`, `PageHasOneRuntime` and the refinement `HoldsTheLease`; and
that a call only waits for a download that was begun (`NoCallWaitsForNothing`) and never
goes back (`EveryCallAdvances`).

**ResourcePagerProofs.**  `PageAsAsked` and `CountAsAsked` are inductive once a branch
that is closed or unsupported asks nothing and has no error (`IdleInv`) and a count
that is kept is the answer to some limit (`CountsAreAnswers`).  For any resources,
sizes, limits and number of pages: `ShowsPageAsked`, `ShowsCountAsked`,
`ExactIsTotal`, `SettledDataStays`.

**FixtureSeedProofs.**  `ContentInv` says what a process wrote before the stage it is
in, and needs no assumption on how processes overlap because the store only grows:
`CommittedIsStored` proves that a batch recorded as committed is in the store, also
after an initialization race.  `OrderInv` says that the committed batches are those
before the boundary, that the creator of the seed state acts alone, that a planned
group has no batch of another stream and that a verified boundary does not move.  It
is kept until a race (`OrderedStep`), and gives `CommittedIsPrefix` and, with
`ContentInv`, `ReadyStoreFrozen`: what a process planned before still writes is there
already.

What the seed counts are sums of cardinalities over a set of batches.  The installed
provers cannot instantiate an induction scheme, so the module turns a sum into the
cardinality of a set of units, one per record, and proves what it needs of sums
(`SumIsUnits`, `SumOfParts`, `SumOfEquals`, `CountStep`) by taking a smallest set of
batches for which it fails (`SmallestSubset`, from the well-foundedness of strict
inclusion of finite sets).  With them:

* `RecordsAreCountedOnce`: the count in the seed state is the sum over the committed
  batches.  A group that is checkpointed has no committed batch in it, because the
  boundary has not moved since it was planned, or its compare-and-set fails.
* `ReplaysAlwaysSucceed`: boundaries are ends of groups (`Boundary`), so a planned group
  is whole and no batch of it is recorded by another stream (`GroupsAreWhole`,
  `NoneIsRefused`); a process that has passed every group therefore finds every batch
  committed, and the counts of the manifest (`PassesCommitted`, `FinishedIsVerified`).
* `ReadyStoreExact`: a process that is about to publish found cardinalities equal to
  the manifest's, and a committed batch is in the store, so nothing else is.  This holds
  after races too, where the committed batches may come from several streams, and needs
  the hypothesis `NoShortStream`: no choice of one stream per batch amounts to fewer
  records than the manifest.  Without it a mixture of two streams that is short could be
  filled up by leftovers of a third; TLC checks the hypothesis of the checked instance
  (`MCNoShortStream`), whose second stream only adds to the first.  It is a hypothesis
  of that theorem alone, not an assumption of the model.
* `ReadyStoreIsFixture` needs no such hypothesis: as long as every process reads the
  fixture, which is what the repository's drivers do, a ready store holds its digests,
  objects and relationships exactly, after races too.

**SnapshotReaderProofs.**  `ReaderInv`: nobody uses a reader that has not opened
(`OpeningInv`); who holds the lease lock follows from where requests and closes are,
and a close that holds it holds it alone (`LockInv`); what is released bounds how far
each close can be (`ReleaseInv`); exact snapshots are owned by one request each
(`ExactInv`).  A request that looked at `closing?` before the close began may get the
lock after it, which is why only those that looked again count as borrowers.
`LeasedIsOpen`, `EverythingReturned` (with the permits counted by a cardinality) and
the refinement `ImplementsShared`.  `NobodyStuck` says that as long as a request or a
close is under way one of them can go on - permits and the lock are never waited for in
a circle - and `EveryStepAdvances` that each step moves exactly one thread towards its
end, by a rank that never grows.  Together they are the safety part of `ReaderSettles`.
(`CanServe` and `CanClose`, which say when a thread can go on, are written out, since
`ENABLED` is outside the prover's reach.)

**LivePromotionProofs.**  `PromotionInv`: versions that are past their smoke test agree
with their environment, so do those an alias names or may be rolled back to
(`BuiltInv`, `AliasInv`, `PriorInv`); an alias at the revision after the one a push
read was moved by that push (`PromotedInv`); the primary is past `BeforePublish` only
when the others are done (`OrderInv`).  `ServedVersionAgrees`, `NoPromotionLost`, and
the refinement `ImplementsRegistry`.

That a rollback finds its version is a race between the prune of one push and the
failure of another.  `RollbackInv` orders promotions by the alias revisions they
replaced, which are all different (`RevisionsInv`): the alias, and whatever a promotion
replaced, was promoted no earlier than any promotion that was kept before it
(`AliasNewInv`, `PriorNewInv`).  So a prune by a push that promoted before `d` finds
the version `d` replaced among those built by pushes, and every later one was built by
another push (`BuildersInv`): with at most `Retain` pushes it is not stale
(`PruneSpares`, by an injection of the later versions into the other pushes).  A push
that promoted after `d` may delete that version, but then the alias is past `d`'s
(`TargetInv`).  `RollbackFindsVersion` assumes finitely many pushes; `PromotionTypes`
follows from the same invariant.

## 6. Only model-checked, and not modelled

Only model-checked: liveness, since fairness and `ENABLED` are outside the prover's
reach.  Those are `StartupSettles`, `PanelSettles`, `PageSettles`, `CallsSettle` and
`ReaderSettles`; the theorems `StartupIsPending`, `LoadingIsPending`, `PageJobPending`,
`PageBatchesAdvance`, `NoCallWaitsForNothing`, `EveryCallAdvances`, `NobodyStuck` and
`EveryStepAdvances` are what is proved of them.  Every invariant and every other property
that a passing run checks is proved.

Left out of the modelled components: input validation and message wording; operation
metrics and the DataScript read operations that issue no cursor; preferences other
than the mode; the polling of the registry and the health probe of a server profile;
relationship groups of the tree, which page as resources do, and superseded counts,
which are dropped as superseded lookups are; of the seed the content bases, the
source-lifecycle identity, the index wait of Datomic's `finalize-seed!`,
`history-evidence` and `compact-store!`; of the Datomic service its queries,
descriptor, configuration and warm-up; of the deployment the release to the EC2 host,
a part of `BeforePublish` that other deployments do not see.  EACL's clients, the
databases, Lambda and Solid are external.

**Not modelled**, because no further behaviour of theirs depends on an order of
events that a model could vary:

* `http-transport.mjs` validates one handshake and carries one deadline per request.
  Whether a bootstrap agrees with a health answer is decided by the service, whose
  snapshots are not part of this code; the waiting of its callers is that of the
  controller and of `LocalTransport`.
* `profile-api.ts` shares a descriptor between requests.  A seed status that clears it
  needs a seeding session, whose polls and refreshes each run in one chain of
  microtasks; a refresh beside a request is disabled by the page for the profiles of
  a server.
* `explorer-operations.mjs` and `profile-controller.mjs` are libraries the
  application does not use any more.
* `profile-publication.mjs`, `profile-registry*.mjs`, `packages/contracts` and
  `packages/data-lifecycle` are functions of the documents they are given; nearly half of
  the implementation lines are validators generated from JSON schemas.
* The Datalevin lifecycle compares a record with the one before it, and no program of
  the repository performs the steps in between.
* The Datahike and Jank services answer from one frozen store, the former with a
  concurrency of one.
* Views, URL state, generators, audits, probes and the vendored sources keep no state
  that several actors share.

## 7. What is left

* The Datomic `finalize-seed!` with its index wait, and `compact-store!`, if the seed
  is ever run beside a service that reads it.
* A registry that follows the alias: the model would then also cover which of two
  pushes the registry names in the end.
