------------------------- MODULE ExplorerController -------------------------
(***************************************************************************)
(* createExplorerController of packages/explorer-state: the framework-     *)
(* neutral owner of the selected profile's transport.  The controller is   *)
(* single threaded; its asynchronous methods interleave at every await.    *)
(*                                                                         *)
(* switchProfile, cancelStartup and close each increment the epoch before  *)
(* their first await, so an epoch names one method call, calls[e] says     *)
(* where that call is suspended, and the transport a switch creates is     *)
(* named by the epoch of that switch.  A call that awaits release(t) waits *)
(* for t only when it is the one that invoked t.release(); an already      *)
(* released transport makes it resume at once (waits = NoTransport).       *)
(***************************************************************************)
EXTENDS Naturals, Sequences

CONSTANTS Profiles,         \* enabled profiles of the registry
          PanelIds,         \* stable panel identifiers
          Modes,            \* consistency modes a user may prefer
          ModesOf,          \* profile -> the sequence of modes it advertises
          Fields,           \* fields an intent may carry
          PortableFields,   \* PORTABLE_FIELDS
          ReleaseMayReject, \* whether transport.release() can reject
          MaxEpoch,         \* bound on epochs (calls of the three methods)
          MaxRequests       \* bound on panel requests

NoTransport == 0
NoRequest == 0
NoProfile == "none"

ASSUME ConstantsAssumption ==
    /\ MaxEpoch \in Nat /\ MaxRequests \in Nat
    /\ ReleaseMayReject \in BOOLEAN
    /\ NoProfile \notin Profiles
    /\ ModesOf \in [Profiles -> Seq(Modes)]
    /\ \A p \in Profiles : ModesOf[p] # <<>>
    /\ PortableFields \subseteq Fields

VARIABLES
    epoch,          \* epoch
    session,        \* session.transport, NoTransport for null
    calls,          \* the asynchronous call each epoch belongs to
    transports,     \* transports that transportFactory has returned
    released,       \* the WeakSet of transports handed to release
    releaseCalls,   \* how often each transport.release() was invoked
    timer,          \* the epoch whose startup interval is scheduled, 0 if none
    view,           \* the published state, without its panels
    panels,         \* state.panels
    requests,       \* every panel request ever issued, in order
    panelRequests,  \* panelRequests: panel -> its current request
    retryInputs,    \* retryInputs: panel -> epoch that stored the input
    lastSelection   \* lastProfile and lastPortableIntent

leases == <<transports, released, releaseCalls>>
lifecycleVars == <<epoch, session, calls, leases, timer>>
requestVars == <<requests, panelRequests, retryInputs>>
panelVars == <<panels, requestVars>>
vars == <<lifecycleVars, view, panelVars, lastSelection>>

Epochs == 1..MaxEpoch
Idle == [kind |-> "none", at |-> "idle", profile |-> NoProfile, waits |-> NoTransport]
Call(kind, at, profile, t) == [kind |-> kind, at |-> at, profile |-> profile, waits |-> t]
EmptyPanel == [phase |-> "idle", request |-> NoRequest, value |-> NoRequest]
NoPanels == [p \in PanelIds |-> EmptyPanel]
NoRequests == [p \in PanelIds |-> NoRequest]
InitialView(mode) ==
    [epoch |-> 0, status |-> "idle", profile |-> NoProfile, descriptor |-> NoTransport,
     startup |-> "none", ticked |-> FALSE, intent |-> {}, mode |-> mode]

Init ==
    /\ epoch = 0 /\ session = NoTransport /\ timer = 0
    /\ calls = [e \in Epochs |-> Idle]
    /\ transports = {} /\ released = {}
    /\ releaseCalls = [t \in Epochs |-> 0]
    /\ view \in {InitialView(m) : m \in Modes}
    /\ panels = NoPanels /\ requests = <<>>
    /\ panelRequests = NoRequests
    /\ retryInputs = [p \in PanelIds |-> 0]
    /\ lastSelection = [profile |-> NoProfile, intent |-> {}]

-----------------------------------------------------------------------------
(* Helpers shared by the methods.                                          *)

\* The comparison nextEpoch === epoch of a resumed switch.  A session controller
\* is aborted only by a call that also increments the epoch.
NeverStale(e) == TRUE
Current(e) == e = epoch

KeepStartupTimer == UNCHANGED timer
StopStartupTimer == timer' = 0

\* sanitizePortableIntent: fields outside PORTABLE_FIELDS are dropped.
Sanitize(intent) == intent \cap PortableFields

\* release(t): the WeakSet is updated and t.release() invoked before the await.
Invokes(t) == t # NoTransport /\ t \notin released
Release(t) ==
    /\ released' = IF t = NoTransport THEN released ELSE released \cup {t}
    /\ releaseCalls' = [s \in Epochs |->
           IF s = t /\ Invokes(t) THEN releaseCalls[s] + 1 ELSE releaseCalls[s]]
Awaited(t) == IF Invokes(t) THEN t ELSE NoTransport
ReleaseRejects(e) == ReleaseMayReject /\ calls[e].waits # NoTransport

\* abortPanels; the session controller's abort reaches the same requests,
\* because a request outside the map was aborted when it left it or has ended.
AbortPanels ==
    /\ requests' = [n \in DOMAIN requests |->
           [requests[n] EXCEPT !.aborted = @ \/ \E p \in PanelIds : panelRequests[p] = n]]
    /\ panelRequests' = NoRequests

\* normalizePreferencesForDescriptor: an unadvertised mode becomes modes[0].
KeptMode(mode, profile) == mode
NormalizedMode(mode, profile) ==
    IF \E i \in DOMAIN ModesOf[profile] : ModesOf[profile][i] = mode
    THEN mode ELSE ModesOf[profile][1]

Advance(e, at, t) == calls' = [calls EXCEPT ![e].at = at, ![e].waits = t]

\* publish of the failure branches: descriptor null, startup finished.
PublishNothing(status) == UNCHANGED view
PublishEnd(status) ==
    view' = [view EXCEPT !.status = status, !.descriptor = NoTransport, !.startup = status]

-----------------------------------------------------------------------------
(* switchProfile.                                                          *)

SwitchProfile(profile, intent) ==
    LET e == epoch + 1 IN
    /\ epoch < MaxEpoch
    /\ epoch' = e
    /\ session' = NoTransport
    /\ calls' = [calls EXCEPT ![e] = Call("switch", "previous", profile, Awaited(session))]
    /\ Release(session)
    /\ AbortPanels
    /\ retryInputs' = [p \in PanelIds |-> 0]
    /\ panels' = NoPanels
    /\ lastSelection' = [profile |-> profile, intent |-> Sanitize(intent)]
    /\ view' = [view EXCEPT !.epoch = e, !.status = "switching", !.profile = profile,
                            !.descriptor = NoTransport, !.startup = "initializing",
                            !.ticked = FALSE, !.intent = Sanitize(intent)]
    /\ timer' = e
    /\ UNCHANGED transports

\* The await of release(previous) rejects: the error is published only by the
\* current epoch, and rethrown in any case.
PreviousReleaseRejects(e) ==
    /\ calls[e].at = "previous" /\ ReleaseRejects(e)
    /\ Advance(e, "rejected", NoTransport)
    /\ IF Current(e) THEN StopStartupTimer /\ PublishEnd("error") ELSE UNCHANGED <<timer, view>>
    /\ UNCHANGED <<epoch, session, leases, panelVars, lastSelection>>

\* ... or it resolves and a newer epoch has begun meanwhile.
PreviousReleasedStale(e) ==
    /\ calls[e].at = "previous" /\ ~Current(e)
    /\ Advance(e, "stale", NoTransport)
    /\ UNCHANGED <<epoch, session, leases, timer, view, panelVars, lastSelection>>

\* ... or it resolves, and the factory returns a transport whose bootstrap starts.
CreateTransport(e) ==
    /\ calls[e].at = "previous" /\ Current(e)
    /\ transports' = transports \cup {e}
    /\ session' = e
    /\ Advance(e, "bootstrap", NoTransport)
    /\ UNCHANGED <<epoch, released, releaseCalls, timer, view, panelVars, lastSelection>>

\* ... or the factory throws, or returns something without bootstrap or request,
\* which the catch block releases although it never became the session.
FactoryFailsUnreleased(e, returned) ==
    /\ calls[e].at = "previous" /\ Current(e)
    /\ transports' = IF returned THEN transports \cup {e} ELSE transports
    /\ StopStartupTimer
    /\ Release(session)
    /\ Advance(e, "failed", Awaited(session))
    /\ UNCHANGED <<epoch, session, view, panelVars, lastSelection>>
FactoryFails(e, returned) ==
    LET t == IF returned THEN e ELSE NoTransport IN
    /\ calls[e].at = "previous" /\ Current(e)
    /\ transports' = IF returned THEN transports \cup {e} ELSE transports
    /\ StopStartupTimer
    /\ Release(t)
    /\ Advance(e, "failed", Awaited(t))
    /\ UNCHANGED <<epoch, session, view, panelVars, lastSelection>>

\* The bootstrap resolves with a descriptor of the selected profile in time.
BootstrapReady(e) ==
    /\ calls[e].at = "bootstrap" /\ Current(e)
    /\ StopStartupTimer
    /\ view' = [view EXCEPT !.status = "ready", !.descriptor = e, !.startup = "ready",
                            !.mode = NormalizedMode(@, calls[e].profile)]
    /\ Advance(e, "ready", NoTransport)
    /\ UNCHANGED <<epoch, session, leases, panelVars, lastSelection>>

\* It settles after the epoch moved on.  When it rejects, which an aborted
\* bootstrap does, the catch block stops whatever startup interval is scheduled.
BootstrapSettlesLate(e, rejects) ==
    /\ calls[e].at = "bootstrap" /\ ~Current(e)
    /\ IF rejects THEN StopStartupTimer ELSE UNCHANGED timer
    /\ Release(e)
    /\ Advance(e, "discard", Awaited(e))
    /\ UNCHANGED <<epoch, session, transports, view, panelVars, lastSelection>>

\* It rejects in time, or its descriptor fails the identity or capability check.
BootstrapFails(e) ==
    /\ calls[e].at = "bootstrap" /\ Current(e)
    /\ StopStartupTimer
    /\ Release(e)
    /\ Advance(e, "failed", Awaited(e))
    /\ UNCHANGED <<epoch, session, transports, view, panelVars, lastSelection>>

\* A discarded transport was released by whoever replaced it (NoOrphanTransport),
\* so the release of a stale call never waits and never rejects.
DiscardSettles(e) ==
    /\ calls[e].at = "discard" /\ calls[e].waits = NoTransport
    /\ Advance(e, "stale", NoTransport)
    /\ UNCHANGED <<epoch, session, leases, timer, view, panelVars, lastSelection>>

\* The failed transport's release resolves: the error is published without a
\* second look at the epoch.
FailedReleaseResolves(e) ==
    /\ calls[e].at = "failed"
    /\ session' = IF session = e THEN NoTransport ELSE session
    /\ PublishEnd("error")
    /\ Advance(e, "rejected", NoTransport)
    /\ UNCHANGED <<epoch, transports, released, releaseCalls, timer, panelVars, lastSelection>>

\* The release of a failed transport rejects in the catch block, or that of close,
\* which has none: the call ends with session and view as they are.
ReleaseFailsUnseen(e) ==
    /\ calls[e].at = "failed" \/ (calls[e].kind = "close" /\ calls[e].at = "cleanup")
    /\ ReleaseRejects(e)
    /\ Advance(e, "rejected", NoTransport)
    /\ UNCHANGED <<epoch, session, leases, timer, view, panelVars, lastSelection>>

\* retryProfile repeats the last selection, not the intent set since.
RetryProfile ==
    /\ lastSelection.profile # NoProfile
    /\ SwitchProfile(lastSelection.profile, lastSelection.intent)

-----------------------------------------------------------------------------
(* cancelStartup and close.                                                *)

\* The part both share before their first await.
Leave(kind) ==
    LET e == epoch + 1 IN
    /\ epoch < MaxEpoch
    /\ epoch' = e
    /\ session' = NoTransport
    /\ StopStartupTimer
    /\ AbortPanels
    /\ Release(session)
    /\ calls' = [calls EXCEPT ![e] = Call(kind, "cleanup", NoProfile, Awaited(session))]
    /\ UNCHANGED <<transports, view, panels, lastSelection>>

CancelStartup ==
    /\ view.status = "switching"
    /\ Leave("cancel")
    /\ UNCHANGED retryInputs

Close ==
    /\ Leave("close")
    /\ retryInputs' = [p \in PanelIds |-> 0]

\* cancelStartup after its await: whichever epoch is current is published.
CancelSettles(e, rejects) ==
    LET status == IF rejects THEN "error" ELSE "canceled" IN
    /\ calls[e].kind = "cancel" /\ calls[e].at = "cleanup"
    /\ rejects => ReleaseRejects(e)
    /\ view' = [view EXCEPT !.epoch = epoch, !.status = status,
                            !.descriptor = NoTransport, !.startup = status]
    /\ panels' = NoPanels
    /\ Advance(e, IF rejects THEN "rejected" ELSE "done", NoTransport)
    /\ UNCHANGED <<epoch, session, leases, timer, requestVars, lastSelection>>

CloseSettles(e) ==
    /\ calls[e].kind = "close" /\ calls[e].at = "cleanup"
    /\ view' = [InitialView(view.mode) EXCEPT !.epoch = epoch, !.status = "closed"]
    /\ panels' = NoPanels
    /\ Advance(e, "done", NoTransport)
    /\ UNCHANGED <<epoch, session, leases, timer, requestVars, lastSelection>>

-----------------------------------------------------------------------------
(* The startup interval and the synchronous setters.                       *)

Tick ==
    /\ timer # 0 /\ timer = epoch
    /\ view.status = "switching"
    /\ view' = [view EXCEPT !.ticked = TRUE]
    /\ UNCHANGED <<lifecycleVars, panelVars, lastSelection>>

SetPortableIntent(intent) ==
    /\ view' = [view EXCEPT !.intent = Sanitize(intent)]
    /\ UNCHANGED <<lifecycleVars, panelVars, lastSelection>>

SetPreferences(mode) ==
    /\ view' = [view EXCEPT !.mode =
           IF view.descriptor = NoTransport THEN mode
           ELSE NormalizedMode(mode, calls[view.descriptor].profile)]
    /\ UNCHANGED <<lifecycleVars, panelVars, lastSelection>>

-----------------------------------------------------------------------------
(* Panel requests.                                                         *)

TransportReady ==
    session # NoTransport /\ view.status = "ready" /\ view.descriptor # NoTransport

\* runPanel with an advertised operation, up to its await.
RunPanel(p) ==
    LET n == Len(requests) + 1 IN
    /\ TransportReady
    /\ Len(requests) < MaxRequests
    /\ requests' = Append([m \in DOMAIN requests |->
                               [requests[m] EXCEPT !.aborted = @ \/ panelRequests[p] = m]],
                          [panel |-> p, epoch |-> session, aborted |-> FALSE, open |-> TRUE])
    /\ panelRequests' = [panelRequests EXCEPT ![p] = n]
    /\ retryInputs' = [retryInputs EXCEPT ![p] = session]
    /\ panels' = [panels EXCEPT ![p].phase = "loading", ![p].request = n]
    /\ UNCHANGED <<lifecycleVars, view, lastSelection>>

\* runPanel with an operation the descriptor does not advertise: the panel shows
\* the error, a request in flight for it is neither superseded nor aborted.
RunUnsupported(p) ==
    /\ TransportReady
    /\ panels' = [panels EXCEPT ![p].phase = "error"]
    /\ UNCHANGED <<lifecycleVars, view, requestVars, lastSelection>>

RetryPanel(p) == retryInputs[p] # 0 /\ RunPanel(p)

CancelPanel(p) ==
    /\ panelRequests[p] # NoRequest
    /\ requests' = [requests EXCEPT ![panelRequests[p]].aborted = TRUE]
    /\ UNCHANGED <<lifecycleVars, view, panels, panelRequests, retryInputs, lastSelection>>

\* isCurrentPanelRequest and the epoch comparison beside it.
NeverSuperseded(n) == FALSE
Superseded(n) == panelRequests[requests[n].panel] # n \/ requests[n].epoch # epoch

\* The finally block of runPanel.
EndRequest(n) ==
    /\ requests' = [requests EXCEPT ![n].open = FALSE]
    /\ panelRequests' = [p \in PanelIds |->
           IF panelRequests[p] = n THEN NoRequest ELSE panelRequests[p]]
    /\ UNCHANGED <<lifecycleVars, view, retryInputs, lastSelection>>

\* The answer of request n is dropped: it was superseded, or it resolved after
\* the user canceled it.
PanelStale(n) ==
    /\ requests[n].open
    /\ Superseded(n) \/ requests[n].aborted
    /\ EndRequest(n)
    /\ UNCHANGED panels

\* The request rejects after the user canceled it.
PanelCanceled(n) ==
    /\ requests[n].open
    /\ ~Superseded(n) /\ requests[n].aborted
    /\ EndRequest(n)
    /\ panels' = [panels EXCEPT ![requests[n].panel].phase = "canceled",
                                ![requests[n].panel].request = n]

\* An error envelope, an invalid or refused value, or a rejected request.
PanelFailsSilently(n) ==
    /\ requests[n].open
    /\ ~Superseded(n) /\ ~requests[n].aborted
    /\ EndRequest(n)
    /\ UNCHANGED panels
PanelFails(n) ==
    /\ requests[n].open
    /\ ~Superseded(n) /\ ~requests[n].aborted
    /\ EndRequest(n)
    /\ panels' = [panels EXCEPT ![requests[n].panel].phase = "error",
                                ![requests[n].panel].request = n]

PanelUpdatesUnchecked(n) ==
    /\ requests[n].open
    /\ EndRequest(n)
    /\ panels' = [panels EXCEPT ![requests[n].panel] =
                      [phase |-> "ready", request |-> n, value |-> n]]
PanelUpdates(n) ==
    /\ requests[n].open
    /\ ~Superseded(n) /\ ~requests[n].aborted
    /\ EndRequest(n)
    /\ panels' = [panels EXCEPT ![requests[n].panel] =
                      [phase |-> "ready", request |-> n, value |-> n]]

-----------------------------------------------------------------------------

CallSettles(e) ==
    \/ PreviousReleaseRejects(e)
    \/ PreviousReleasedStale(e)
    \/ CreateTransport(e)
    \/ \E returned \in BOOLEAN : FactoryFails(e, returned)
    \/ BootstrapReady(e)
    \/ \E rejects \in BOOLEAN : BootstrapSettlesLate(e, rejects)
    \/ BootstrapFails(e)
    \/ DiscardSettles(e)
    \/ FailedReleaseResolves(e)
    \/ ReleaseFailsUnseen(e)
    \/ \E rejects \in BOOLEAN : CancelSettles(e, rejects)
    \/ CloseSettles(e)

RequestSettles(n) ==
    PanelStale(n) \/ PanelCanceled(n) \/ PanelFails(n) \/ PanelUpdates(n)

Next ==
    \/ \E profile \in Profiles, intent \in {view.intent} \cup SUBSET Fields :
           SwitchProfile(profile, intent)
    \/ RetryProfile
    \/ CancelStartup
    \/ Close
    \/ Tick
    \/ \E intent \in SUBSET Fields : SetPortableIntent(intent)
    \/ \E mode \in Modes : SetPreferences(mode)
    \/ \E p \in PanelIds :
           RunPanel(p) \/ RunUnsupported(p) \/ RetryPanel(p) \/ CancelPanel(p)
    \/ \E e \in Epochs : CallSettles(e)
    \/ \E n \in DOMAIN requests : RequestSettles(n)

Spec == Init /\ [][Next]_vars

\* Transports settle their promises: the HTTP transport bounds each request by a
\* deadline and the DataScript loader by thirty seconds.
FairSpec ==
    /\ Spec
    /\ \A e \in Epochs : WF_vars(CallSettles(e))
    /\ \A n \in 1..MaxRequests : WF_vars(n \in DOMAIN requests /\ RequestSettles(n))
=============================================================================
