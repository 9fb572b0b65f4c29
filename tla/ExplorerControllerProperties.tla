--------------------- MODULE ExplorerControllerProperties --------------------
(***************************************************************************)
(* What the explorer controller must guarantee, and a demand of the        *)
(* shell's specification that its code does not meet.                      *)
(***************************************************************************)
EXTENDS ExplorerController

CallType ==
    [kind : {"none", "switch", "cancel", "close"},
     at : {"idle", "previous", "bootstrap", "discard", "failed", "cleanup",
           "ready", "stale", "rejected", "done"},
     profile : Profiles \cup {NoProfile}, waits : 0..MaxEpoch]
ViewType ==
    [epoch : 0..MaxEpoch,
     status : {"idle", "switching", "ready", "error", "canceled", "closed"},
     profile : Profiles \cup {NoProfile}, descriptor : 0..MaxEpoch,
     startup : {"none", "initializing", "ready", "error", "canceled"},
     ticked : BOOLEAN, intent : SUBSET PortableFields, mode : Modes]

\* The variables of the lifecycle hold values of their kind; intents are always sanitized ones.
LifecycleTypeOK ==
    /\ epoch \in 0..MaxEpoch /\ session \in 0..MaxEpoch /\ timer \in 0..MaxEpoch
    /\ calls \in [Epochs -> CallType]
    /\ transports \subseteq Epochs /\ released \subseteq Epochs
    /\ releaseCalls \in [Epochs -> Nat]
    /\ view \in ViewType
    /\ lastSelection \in [profile : Profiles \cup {NoProfile}, intent : SUBSET PortableFields]

\* "releases each replaced transport exactly once", the at-most half: however
\* switches, cancellations, failures and close overlap, transport.release() is
\* never invoked twice on one transport.
ReleasedAtMostOnce == \A t \in Epochs : releaseCalls[t] <= 1

\* ... and the at-least half: every transport the factory returned is the session
\* or has had its release invoked; no interleaving leaves one behind.
NoOrphanTransport ==
    \A t \in transports : t = session \/ (t \in released /\ releaseCalls[t] = 1)

\* A ready view is backed by the live transport of the newest call: its epoch,
\* and its descriptor are those of a session that is not released, and it never
\* names another profile (a close that settles late may have blanked the name).
\* Only a close that still waits for, or failed, its release may leave "ready".
ReadyIsServed ==
    view.status = "ready" =>
        \/ calls[epoch].kind = "close"
        \/ /\ session = epoch /\ session \notin released
           /\ view.epoch = epoch /\ view.descriptor = epoch
           /\ view.profile \in {calls[epoch].profile, NoProfile}

\* Every value, and every input kept for a retry, that a panel holds came from a
\* request of the epoch the view shows: no answer of a replaced transport is
\* displayed or replayed against the next one.
PanelsOfThisEpoch ==
    \A p \in PanelIds :
        /\ panels[p].value # NoRequest => requests[panels[p].value].epoch = view.epoch
        /\ panels[p].phase = "loading" => requests[panels[p].request].epoch = view.epoch
        /\ retryInputs[p] # 0 => retryInputs[p] = view.epoch

\* No startup interval outlives the startup it reports: whatever ends a startup
\* (readiness, failure, a newer switch, cancellation, close) clears it.
TimerOfStartup ==
    timer # 0 => /\ timer = epoch
                 /\ calls[epoch].kind = "switch"
                 /\ calls[epoch].at \in {"previous", "bootstrap"}

\* A consistency mode preferred while a descriptor is shown is one that this
\* descriptor advertises, also when preferences change during startup.
ModeAdvertised ==
    view.descriptor # NoTransport =>
        \E i \in DOMAIN ModesOf[calls[view.descriptor].profile] :
            ModesOf[calls[view.descriptor].profile][i] = view.mode

\* The epoch a view shows never decreases, although cancelStartup and close
\* publish after an await that newer calls may have overtaken.
ViewEpochMonotone == [][view'.epoch >= view.epoch]_vars

\* The answer a panel displays is never replaced by the answer of an older
\* request: within one epoch the displayed requests only move forward.
AnswersInOrder ==
    [][\A p \in PanelIds :
          panels'[p].request < panels[p].request => panels' = NoPanels]_vars

\* The transports are held and released as TransportLease promises.
Lease == INSTANCE TransportLease
    WITH Transports <- Epochs,
         holder <- IF session \in released THEN NoTransport ELSE session,
         retired <- released
HoldsLease == Lease!LeaseSpec

\* Every startup leaves "switching": the view reaches readiness, an error, a
\* cancellation or is closed, or shows a newer startup.
StartupSettles ==
    \A e \in Epochs :
        view.status = "switching" /\ view.epoch = e
            ~> (view.status # "switching" \/ view.epoch # e)

\* Every loading panel settles, unless the user cancels its request.
PanelSettles ==
    \A p \in PanelIds :
        panels[p].phase = "loading"
            ~> (panels[p].phase # "loading" \/ requests[panels[p].request].aborted)

\* The shell's specification: "A response from an earlier profile or client epoch
\* MUST NOT update the new view".  Once the newest call is a switch that became
\* ready, an earlier call that was waiting for its transport's release all the
\* while ends without touching the view.
OvertakenCallIsSilent ==
    [][\A e \in Epochs :
          e < epoch /\ calls[epoch].at = "ready"
              /\ calls[e].waits # NoTransport /\ calls'[e] # calls[e]
          => view' = view]_vars
=============================================================================
