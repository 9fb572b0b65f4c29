----------------------- MODULE ExplorerControllerProofs -----------------------
(***************************************************************************)
(* Theorems about the explorer controller, for any profiles, panels,       *)
(* consistency modes and bounds.  LifecycleInv is the inductive invariant, *)
(* panel actions leave what it speaks of alone; PanelInv is inductive      *)
(* beside it.                                                              *)
(***************************************************************************)
EXTENDS ExplorerControllerProperties, SequenceTheorems, TLAPS

\* A call is recorded for every epoch begun and for no other; only a switch gets
\* past the release of its predecessor, and only it returns a transport.
CallInv ==
    \A e \in Epochs :
        /\ calls[e].at = "idle" <=> e > epoch
        /\ calls[e].kind = "none" <=> e > epoch
        /\ calls[e].kind = "switch" => calls[e].profile \in Profiles
        /\ calls[e].at \in {"previous", "bootstrap", "discard", "failed", "ready"}
               => calls[e].kind = "switch"
        /\ calls[e].at = "previous" => e \notin transports
        /\ calls[e].at \in {"bootstrap", "discard", "ready"} => e \in transports
        /\ e \in transports => calls[e].kind = "switch"

\* Why nothing is orphaned: a transport leaves the session only into released, and
\* its release was invoked when it entered released.
LeaseInv ==
    /\ released \subseteq transports
    /\ \A t \in transports : t = session \/ t \in released
    /\ \A t \in Epochs : releaseCalls[t] = IF t \in released THEN 1 ELSE 0

\* The session is the transport of the newest call, which is a switch that got
\* through its factory; it is released early only by that switch's own failure.
SessionInv ==
    /\ session # NoTransport =>
           /\ session = epoch /\ session \in transports
           /\ calls[session].at \in {"bootstrap", "ready", "failed", "rejected"}
           /\ session \in released => calls[session].at \in {"failed", "rejected"}
           /\ session \notin released => calls[session].at \in {"bootstrap", "ready"}
    /\ epoch # 0 /\ calls[epoch].at \in {"bootstrap", "ready"} => session = epoch

\* Which call the view belongs to.  The fifth conjunct is what ReadyIsServed needs
\* when a bootstrap fails: no view is ready while one is pending.
ViewInv ==
    /\ epoch = 0 => view.status = "idle"
    /\ view.epoch <= epoch
    /\ epoch # 0 /\ calls[epoch].kind = "switch" =>
           view.epoch = epoch /\ view.profile \in {calls[epoch].profile, NoProfile}
    /\ view.descriptor # NoTransport => calls[view.descriptor].kind = "switch"
    /\ view.status = "ready" /\ calls[epoch].kind # "close" => calls[epoch].at = "ready"
    /\ ReadyIsServed
    /\ ModeAdvertised
    /\ TimerOfStartup

\* The inductive invariant.
LifecycleInv == LifecycleTypeOK /\ CallInv /\ LeaseInv /\ SessionInv /\ ViewInv

\* The steps that can touch what LifecycleInv speaks of: every call of the
\* asynchronous methods, every settling await, the interval and the setters.
SetterStep ==
    /\ UNCHANGED <<lifecycleVars, lastSelection>>
    /\ \/ Tick
       \/ \E intent : SetPortableIntent(intent)
       \/ \E mode \in Modes : SetPreferences(mode)
LifecycleStep ==
    \/ \E profile \in Profiles : \E intent : SwitchProfile(profile, intent)
    \/ \E kind \in {"cancel", "close"} :
           (kind = "cancel" => view.status = "switching") /\ Leave(kind)
    \/ \E e \in Epochs : CallSettles(e)
    \/ SetterStep

\* The suspension points and outcomes of a call.
Stages == {"idle", "previous", "bootstrap", "discard", "failed", "cleanup",
           "ready", "stale", "rejected", "done"}

-----------------------------------------------------------------------------

(* Moving a call to its next suspension point keeps the calls well typed.  *)
LEMMA AdvanceTyped ==
    ASSUME calls \in [Epochs -> CallType], NEW e \in Epochs, NEW at \in Stages,
           NEW t \in 0..MaxEpoch, Advance(e, at, t)
    PROVE  calls' \in [Epochs -> CallType]
<1>1. calls' = [f \in Epochs |->
                   IF f = e THEN [calls[f] EXCEPT !.at = at, !.waits = t] ELSE calls[f]]
    BY DEF Advance
<1>2. \A f \in Epochs : [calls[f] EXCEPT !.at = at, !.waits = t] \in CallType
    BY DEF CallType, Stages
<1>. QED BY <1>1, <1>2

(* Moving a call changes only where that call is, and what it waits for.      *)
LEMMA AdvanceMoves ==
    ASSUME calls \in [Epochs -> CallType], NEW e \in Epochs, NEW at, NEW t, Advance(e, at, t)
    PROVE  \A f \in Epochs :
               /\ calls'[f].kind = calls[f].kind /\ calls'[f].profile = calls[f].profile
               /\ calls'[f].at = IF f = e THEN at ELSE calls[f].at
  BY DEF Advance, CallType

(* Every settling call moves to a suspension point or an outcome, waiting    *)
(* for at most one transport.                                                *)
LEMMA SettlingAdvances ==
    ASSUME LifecycleInv, NEW e \in Epochs, CallSettles(e)
    PROVE  \E at \in Stages, t \in 0..MaxEpoch : Advance(e, at, t)
<1>1. NoTransport \in 0..MaxEpoch /\ Awaited(e) \in 0..MaxEpoch
          /\ \A returned \in BOOLEAN :
                 Awaited(IF returned THEN e ELSE NoTransport) \in 0..MaxEpoch
    BY ConstantsAssumption DEF Awaited, NoTransport, Epochs
<1>. QED
    BY <1>1 DEF Stages, CallSettles, PreviousReleaseRejects, PreviousReleasedStale,
       CreateTransport, FactoryFails, BootstrapReady, BootstrapSettlesLate,
       BootstrapFails, DiscardSettles, FailedReleaseResolves, ReleaseFailsUnseen,
       CancelSettles, CloseSettles

(* The mode a descriptor is shown with is one of the modes it advertises.     *)
LEMMA NormalizedAdvertised ==
    ASSUME NEW mode \in Modes, NEW profile \in Profiles
    PROVE  /\ NormalizedMode(mode, profile) \in Modes
           /\ \E i \in DOMAIN ModesOf[profile] :
                  ModesOf[profile][i] = NormalizedMode(mode, profile)
<1>1. ModesOf[profile] \in Seq(Modes) /\ Len(ModesOf[profile]) > 0
    BY ConstantsAssumption, EmptySeq
<1>2. 1 \in DOMAIN ModesOf[profile] /\ ModesOf[profile][1] \in Modes
    BY <1>1
<1>. QED BY <1>2 DEF NormalizedMode

(* Replacing fields of a view by values of their kinds keeps it well typed.   *)
LEMMA ViewFieldsTyped ==
    ASSUME NEW v \in ViewType
    PROVE  /\ \A x \in 0..MaxEpoch : [v EXCEPT !.epoch = x] \in ViewType
           /\ \A x \in {"idle", "switching", "ready", "error", "canceled", "closed"} :
                  [v EXCEPT !.status = x] \in ViewType
           /\ \A x \in Profiles \cup {NoProfile} : [v EXCEPT !.profile = x] \in ViewType
           /\ \A x \in 0..MaxEpoch : [v EXCEPT !.descriptor = x] \in ViewType
           /\ \A x \in {"none", "initializing", "ready", "error", "canceled"} :
                  [v EXCEPT !.startup = x] \in ViewType
           /\ \A x \in BOOLEAN : [v EXCEPT !.ticked = x] \in ViewType
           /\ \A x \in SUBSET PortableFields : [v EXCEPT !.intent = x] \in ViewType
           /\ \A x \in Modes : [v EXCEPT !.mode = x] \in ViewType
BY DEF ViewType

(* The published states are well typed.                                       *)
LEMMA PublishEndTyped ==
    ASSUME view \in ViewType, NEW status \in {"error", "canceled"}, PublishEnd(status)
    PROVE  view' \in ViewType
<1>. DEFINE v1 == [view EXCEPT !.status = status]
            v2 == [v1 EXCEPT !.descriptor = NoTransport]
            v3 == [v2 EXCEPT !.startup = status]
<1>0. NoTransport \in 0..MaxEpoch
    BY ConstantsAssumption DEF NoTransport
<1>1. view' = v3
    BY Zenon DEF PublishEnd
<1>. HIDE DEF v1, v2, v3
<1>2. v1 \in ViewType
    BY ViewFieldsTyped DEF v1
<1>3. v2 \in ViewType
    BY <1>0, <1>2, ViewFieldsTyped DEF v2
<1>4. v3 \in ViewType
    BY <1>3, ViewFieldsTyped DEF v3
<1>. QED BY <1>1, <1>4

(* Every step of the lifecycle keeps its variables well typed.               *)
LEMMA TypeStep ==
    ASSUME LifecycleInv, LifecycleStep
    PROVE  LifecycleTypeOK'
<1>. USE ConstantsAssumption DEF LifecycleInv, LifecycleTypeOK
<1>0. epoch \in 0..MaxEpoch /\ NoTransport \in 0..MaxEpoch /\ Epochs \subseteq 0..MaxEpoch
    BY DEF NoTransport, Epochs
<1>1. calls' \in [Epochs -> CallType]
  <2>1. ASSUME NEW e \in Epochs, NEW c \in CallType, calls' = [calls EXCEPT ![e] = c]
        PROVE  calls' \in [Epochs -> CallType]
      BY <2>1
  <2>2. ASSUME NEW kind \in {"switch", "cancel", "close"}, NEW at \in {"previous", "cleanup"},
               NEW profile \in Profiles \cup {NoProfile}
        PROVE  Call(kind, at, profile, Awaited(session)) \in CallType
      BY DEF Call, CallType, Awaited, NoTransport
  <2>3. ASSUME NEW profile \in Profiles, NEW intent, SwitchProfile(profile, intent)
        PROVE  calls' \in [Epochs -> CallType]
    <3>1. epoch + 1 \in Epochs
        BY <2>3 DEF SwitchProfile, Epochs
    <3>2. calls' = [calls EXCEPT ![epoch + 1] =
                        Call("switch", "previous", profile, Awaited(session))]
        BY <2>3 DEF SwitchProfile
    <3>. QED BY <2>1, <2>2, <3>1, <3>2
  <2>4. ASSUME NEW kind \in {"cancel", "close"}, Leave(kind)
        PROVE  calls' \in [Epochs -> CallType]
    <3>1. epoch + 1 \in Epochs
        BY <2>4 DEF Leave, Epochs
    <3>2. calls' = [calls EXCEPT ![epoch + 1] =
                        Call(kind, "cleanup", NoProfile, Awaited(session))]
        BY <2>4 DEF Leave
    <3>. QED BY <2>1, <2>2, <3>1, <3>2
  <2>5. ASSUME NEW e \in Epochs, CallSettles(e)
        PROVE  calls' \in [Epochs -> CallType]
      BY <2>5, SettlingAdvances, AdvanceTyped
  <2>6. CASE SetterStep
      BY <2>6 DEF SetterStep, lifecycleVars
  <2>. QED BY <2>3, <2>4, <2>5, <2>6 DEF LifecycleStep
<1>2. view' \in ViewType
  <2>1. ASSUME NEW profile \in Profiles, NEW intent, SwitchProfile(profile, intent)
        PROVE  view' \in ViewType
    <3>1. epoch + 1 \in 0..MaxEpoch /\ Sanitize(intent) \in SUBSET PortableFields
        BY <2>1 DEF SwitchProfile, Sanitize
    <3>. DEFINE v1 == [view EXCEPT !.epoch = epoch + 1]
                v2 == [v1 EXCEPT !.status = "switching"]
                v3 == [v2 EXCEPT !.profile = profile]
                v4 == [v3 EXCEPT !.descriptor = NoTransport]
                v5 == [v4 EXCEPT !.startup = "initializing"]
                v6 == [v5 EXCEPT !.ticked = FALSE]
                v7 == [v6 EXCEPT !.intent = Sanitize(intent)]
    <3>11. view' = v7
        BY <2>1, Zenon DEF SwitchProfile
    <3>. HIDE DEF v1, v2, v3, v4, v5, v6, v7
    <3>12. v1 \in ViewType
        BY <1>0, <3>1, ViewFieldsTyped DEF v1
    <3>13. v2 \in ViewType
        BY <3>12, <1>0, <3>1, ViewFieldsTyped DEF v2
    <3>14. v3 \in ViewType
        BY <3>13, <1>0, <3>1, ViewFieldsTyped DEF v3
    <3>15. v4 \in ViewType
        BY <3>14, <1>0, <3>1, ViewFieldsTyped DEF v4
    <3>16. v5 \in ViewType
        BY <3>15, <1>0, <3>1, ViewFieldsTyped DEF v5
    <3>17. v6 \in ViewType
        BY <3>16, <1>0, <3>1, ViewFieldsTyped DEF v6
    <3>18. v7 \in ViewType
        BY <3>17, <1>0, <3>1, ViewFieldsTyped DEF v7
    <3>. QED BY <3>11, <3>18
  <2>2. ASSUME NEW kind, Leave(kind) PROVE view' \in ViewType
      BY <2>2 DEF Leave
  <2>3. ASSUME NEW e \in Epochs, CallSettles(e) PROVE view' \in ViewType
    <3>1. ASSUME BootstrapReady(e) PROVE view' \in ViewType
      <4>1. calls[e].profile \in Profiles
          BY <3>1 DEF CallInv, BootstrapReady
      <4>2. NormalizedMode(view.mode, calls[e].profile) \in Modes
          BY <4>1, NormalizedAdvertised DEF ViewType
      <4>. DEFINE v1 == [view EXCEPT !.status = "ready"]
                  v2 == [v1 EXCEPT !.descriptor = e]
                  v3 == [v2 EXCEPT !.startup = "ready"]
                  v4 == [v3 EXCEPT !.mode = NormalizedMode(view.mode, calls[e].profile)]
      <4>11. view' = v4
          BY <3>1, Zenon DEF BootstrapReady
      <4>. HIDE DEF v1, v2, v3, v4
      <4>12. v1 \in ViewType
          BY <1>0, <4>2, ViewFieldsTyped DEF v1
      <4>13. v2 \in ViewType
          BY <4>12, <1>0, <4>2, ViewFieldsTyped DEF v2
      <4>14. v3 \in ViewType
          BY <4>13, <1>0, <4>2, ViewFieldsTyped DEF v3
      <4>15. v4 \in ViewType
          BY <4>14, <1>0, <4>2, ViewFieldsTyped DEF v4
      <4>. QED BY <4>11, <4>15
    <3>2. ASSUME PreviousReleaseRejects(e) \/ FailedReleaseResolves(e)
          PROVE  view' \in ViewType
        BY <3>2, PublishEndTyped DEF PreviousReleaseRejects, FailedReleaseResolves
    <3>3. ASSUME NEW rejects \in BOOLEAN, CancelSettles(e, rejects) PROVE view' \in ViewType
      <4>. DEFINE status == IF rejects THEN "error" ELSE "canceled"
      <4>. DEFINE v1 == [view EXCEPT !.epoch = epoch]
                  v2 == [v1 EXCEPT !.status = status]
                  v3 == [v2 EXCEPT !.descriptor = NoTransport]
                  v4 == [v3 EXCEPT !.startup = status]
      <4>1. status \in {"error", "canceled"}
          OBVIOUS
      <4>11. view' = v4
          BY <3>3, Zenon DEF CancelSettles
      <4>. HIDE DEF status, v1, v2, v3, v4
      <4>12. v1 \in ViewType
          BY <1>0, <4>1, ViewFieldsTyped DEF v1
      <4>13. v2 \in ViewType
          BY <4>12, <1>0, <4>1, ViewFieldsTyped DEF v2
      <4>14. v3 \in ViewType
          BY <4>13, <1>0, <4>1, ViewFieldsTyped DEF v3
      <4>15. v4 \in ViewType
          BY <4>14, <1>0, <4>1, ViewFieldsTyped DEF v4
      <4>. QED BY <4>11, <4>15
    <3>4. ASSUME CloseSettles(e) PROVE view' \in ViewType
      <4>1. InitialView(view.mode) \in ViewType
          BY <1>0 DEF InitialView, ViewType
      <4>. DEFINE v1 == [InitialView(view.mode) EXCEPT !.epoch = epoch]
                  v2 == [v1 EXCEPT !.status = "closed"]
      <4>11. view' = v2
          BY <3>4, Zenon DEF CloseSettles
      <4>. HIDE DEF v1, v2
      <4>12. v1 \in ViewType
          BY <1>0, <4>1, ViewFieldsTyped DEF v1
      <4>13. v2 \in ViewType
          BY <4>12, <1>0, <4>1, ViewFieldsTyped DEF v2
      <4>. QED BY <4>11, <4>13
    <3>. QED
        BY <2>3, <3>1, <3>2, <3>3, <3>4 DEF CallSettles, PreviousReleasedStale,
           CreateTransport, FactoryFails, BootstrapSettlesLate, BootstrapFails,
           DiscardSettles, ReleaseFailsUnseen
  <2>4. ASSUME SetterStep PROVE view' \in ViewType
    <3>1. ASSUME Tick PROVE view' \in ViewType
        BY <3>1 DEF Tick, ViewType
    <3>2. ASSUME NEW intent, SetPortableIntent(intent) PROVE view' \in ViewType
      <4>1. Sanitize(intent) \in SUBSET PortableFields
          BY DEF Sanitize
      <4>. QED BY <3>2, <4>1 DEF SetPortableIntent, ViewType
    <3>3. ASSUME NEW mode \in Modes, SetPreferences(mode) PROVE view' \in ViewType
      <4>1. PICK chosen \in Modes : view' = [view EXCEPT !.mode = chosen]
        <5>1. CASE view.descriptor = NoTransport
            BY <3>3, <5>1 DEF SetPreferences
        <5>2. CASE view.descriptor # NoTransport
          <6>1. calls[view.descriptor].profile \in Profiles
              BY <5>2 DEF ViewInv, CallInv, ViewType, Epochs, NoTransport
          <6>. QED BY <3>3, <5>2, <6>1, NormalizedAdvertised DEF SetPreferences
        <5>. QED BY <5>1, <5>2
      <4>. QED BY <4>1 DEF ViewType
    <3>. QED BY <2>4, <3>1, <3>2, <3>3 DEF SetterStep
  <2>. QED BY <2>1, <2>2, <2>3, <2>4 DEF LifecycleStep
<1>3. /\ epoch' \in 0..MaxEpoch /\ session' \in 0..MaxEpoch /\ timer' \in 0..MaxEpoch
      /\ transports' \subseteq Epochs /\ released' \subseteq Epochs
      /\ releaseCalls' \in [Epochs -> Nat]
      /\ lastSelection' \in [profile : Profiles \cup {NoProfile},
                             intent : SUBSET PortableFields]
  <2>. USE DEF Epochs, NoTransport, Release, StopStartupTimer, leases, lifecycleVars
  <2>1. ASSUME NEW profile \in Profiles, NEW intent, SwitchProfile(profile, intent)
        PROVE  <1>3!:
      BY <2>1 DEF SwitchProfile, Sanitize
  <2>2. ASSUME NEW kind, Leave(kind) PROVE <1>3!:
      BY <2>2 DEF Leave
  <2>3. ASSUME NEW e \in Epochs, CallSettles(e) PROVE <1>3!:
    <3>1. UNCHANGED <<epoch, lastSelection>> /\ session' \in {session, NoTransport, e}
              /\ timer' \in {timer, 0} /\ transports' \subseteq transports \cup {e}
        BY <2>3, ZenonT(60) DEF CallSettles, PreviousReleaseRejects, PreviousReleasedStale,
           CreateTransport, FactoryFails, BootstrapReady, BootstrapSettlesLate,
           BootstrapFails, DiscardSettles, FailedReleaseResolves,
           ReleaseFailsUnseen, CancelSettles, CloseSettles
    <3>2. UNCHANGED <<released, releaseCalls>> \/ \E t \in {e, NoTransport} : Release(t)
        BY <2>3, ZenonT(60) DEF CallSettles, PreviousReleaseRejects, PreviousReleasedStale,
           CreateTransport, FactoryFails, BootstrapReady, BootstrapSettlesLate,
           BootstrapFails, DiscardSettles, FailedReleaseResolves,
           ReleaseFailsUnseen, CancelSettles, CloseSettles
    <3>3. released' \subseteq Epochs /\ releaseCalls' \in [Epochs -> Nat]
      <4>1. CASE UNCHANGED <<released, releaseCalls>>
          BY <4>1
      <4>2. ASSUME NEW t \in {e, NoTransport}, Release(t) PROVE <3>3!:
        <5>1. \A u \in Epochs : releaseCalls[u] + 1 \in Nat /\ releaseCalls[u] \in Nat
            OBVIOUS
        <5>. QED BY <4>2, <5>1
      <4>. QED BY <3>2, <4>1, <4>2
    <3>. QED BY <3>1, <3>3
  <2>4. ASSUME SetterStep PROVE <1>3!:
      BY <2>4 DEF SetterStep
  <2>. QED BY <2>1, <2>2, <2>3, <2>4 DEF LifecycleStep
<1>. QED BY <1>1, <1>2, <1>3


(* A call that settles keeps the numbering, as long as only a switch goes on  *)
(* and the only transport that may appear is its own.                         *)
LEMMA SettledCall ==
    ASSUME LifecycleInv, NEW e \in Epochs, NEW at, NEW t, Advance(e, at, t),
           epoch' = epoch, calls[e].at # "idle", at \notin {"idle", "previous"},
           transports' \in {transports, transports \cup {e}},
           e \in transports' => calls[e].kind = "switch",
           at \in {"bootstrap", "discard", "failed", "ready"} => calls[e].kind = "switch",
           at \in {"bootstrap", "discard", "ready"} => e \in transports'
    PROVE  CallInv'
<1>1. \A f \in Epochs :
          /\ calls'[f].kind = calls[f].kind /\ calls'[f].profile = calls[f].profile
          /\ calls'[f].at = IF f = e THEN at ELSE calls[f].at
    BY AdvanceMoves DEF LifecycleInv, LifecycleTypeOK
<1>. QED BY <1>1 DEF LifecycleInv, CallInv

(* Calls are numbered by the epochs begun, and only switches create transports. *)
LEMMA CallInvStep ==
    ASSUME LifecycleInv, LifecycleStep
    PROVE  CallInv'
<1>. USE ConstantsAssumption
     DEF LifecycleInv, LifecycleTypeOK, CallType, ViewType, Epochs,
        NoTransport, leases, lifecycleVars, CallInv
<1>1. ASSUME NEW profile \in Profiles, NEW intent, SwitchProfile(profile, intent)
      PROVE  CallInv'
    BY <1>1 DEF SwitchProfile, Call
<1>2. ASSUME NEW kind \in {"cancel", "close"}, Leave(kind),
             kind = "cancel" => view.status = "switching"
      PROVE  CallInv'
    BY <1>2, SMTT(60) DEF Leave, Call
<1>3. ASSUME NEW e \in Epochs, PreviousReleaseRejects(e) PROVE CallInv'
    BY <1>3, SettledCall DEF PreviousReleaseRejects
<1>4. ASSUME NEW e \in Epochs, PreviousReleasedStale(e) PROVE CallInv'
    BY <1>4, SettledCall DEF PreviousReleasedStale
<1>5. ASSUME NEW e \in Epochs, CreateTransport(e) PROVE CallInv'
    BY <1>5, SettledCall DEF CreateTransport
<1>6. ASSUME NEW e \in Epochs, NEW returned \in BOOLEAN, FactoryFails(e, returned)
      PROVE  CallInv'
    BY <1>6, SettledCall DEF FactoryFails
<1>7. ASSUME NEW e \in Epochs, BootstrapReady(e) PROVE CallInv'
    BY <1>7, SettledCall DEF BootstrapReady
<1>8. ASSUME NEW e \in Epochs, NEW rejects \in BOOLEAN, BootstrapSettlesLate(e, rejects)
      PROVE  CallInv'
    BY <1>8, SettledCall DEF BootstrapSettlesLate
<1>9. ASSUME NEW e \in Epochs, BootstrapFails(e) PROVE CallInv'
    BY <1>9, SettledCall DEF BootstrapFails
<1>10. ASSUME NEW e \in Epochs, DiscardSettles(e) PROVE CallInv'
  <2>1. /\ Advance(e, "stale", NoTransport) /\ UNCHANGED <<epoch, transports>>
        /\ calls[e].at = "discard" /\ (e \in transports => calls[e].kind = "switch")
      BY <1>10 DEF DiscardSettles
  <2>. HIDE DEF CallInv, LifecycleInv
  <2>. QED BY <2>1, SettledCall
<1>11. ASSUME NEW e \in Epochs, FailedReleaseResolves(e) PROVE CallInv'
    BY <1>11, SettledCall DEF FailedReleaseResolves
<1>12. ASSUME NEW e \in Epochs, ReleaseFailsUnseen(e) PROVE CallInv'
    BY <1>12, SettledCall DEF ReleaseFailsUnseen
<1>13. ASSUME NEW e \in Epochs, NEW rejects \in BOOLEAN, CancelSettles(e, rejects)
      PROVE  CallInv'
  <2>1. PICK at \in {"rejected", "done"} : Advance(e, at, NoTransport)
      BY <1>13 DEF CancelSettles
  <2>. QED BY <1>13, <2>1, SettledCall DEF CancelSettles
<1>14. ASSUME NEW e \in Epochs, CloseSettles(e) PROVE CallInv'
    BY <1>14, SettledCall DEF CloseSettles
<1>15. ASSUME SetterStep PROVE CallInv'
    BY <1>15 DEF SetterStep
<1>. QED
    BY <1>1, <1>2, <1>3, <1>4, <1>5, <1>6, <1>7, <1>8, <1>9, <1>10, <1>11,
       <1>12, <1>13, <1>14, <1>15 DEF LifecycleStep, CallSettles

(* Every returned transport is the session or released, and released once. *)
LEMMA LeaseInvStep ==
    ASSUME LifecycleInv, LifecycleStep
    PROVE  LeaseInv'
<1>. USE ConstantsAssumption
     DEF LifecycleInv, LifecycleTypeOK, CallType, ViewType, Epochs,
        NoTransport, leases, lifecycleVars, Advance, Current, LeaseInv,
        SessionInv, CallInv
<1>1. ASSUME NEW profile \in Profiles, NEW intent, SwitchProfile(profile, intent)
      PROVE  LeaseInv'
    BY <1>1, SMTT(60) DEF SwitchProfile, Release, Invokes
<1>2. ASSUME NEW kind \in {"cancel", "close"}, Leave(kind),
             kind = "cancel" => view.status = "switching"
      PROVE  LeaseInv'
    BY <1>2, SMTT(60) DEF Leave, Release, Invokes
<1>3. ASSUME NEW e \in Epochs, PreviousReleaseRejects(e)
      PROVE  LeaseInv'
    BY <1>3 DEF PreviousReleaseRejects
<1>4. ASSUME NEW e \in Epochs, PreviousReleasedStale(e)
      PROVE  LeaseInv'
    BY <1>4 DEF PreviousReleasedStale
<1>5. ASSUME NEW e \in Epochs, CreateTransport(e)
      PROVE  LeaseInv'
    BY <1>5 DEF CreateTransport
<1>6. ASSUME NEW e \in Epochs, NEW returned \in BOOLEAN, FactoryFails(e, returned)
      PROVE  LeaseInv'
    BY <1>6 DEF FactoryFails, Release, Invokes
<1>7. ASSUME NEW e \in Epochs, BootstrapReady(e)
      PROVE  LeaseInv'
    BY <1>7 DEF BootstrapReady
<1>8. ASSUME NEW e \in Epochs, NEW rejects \in BOOLEAN,
             BootstrapSettlesLate(e, rejects)
      PROVE  LeaseInv'
    BY <1>8 DEF BootstrapSettlesLate, Release, Invokes
<1>9. ASSUME NEW e \in Epochs, BootstrapFails(e)
      PROVE  LeaseInv'
    BY <1>9 DEF BootstrapFails, Release, Invokes
<1>10. ASSUME NEW e \in Epochs, DiscardSettles(e)
      PROVE  LeaseInv'
    BY <1>10 DEF DiscardSettles
<1>11. ASSUME NEW e \in Epochs, FailedReleaseResolves(e)
      PROVE  LeaseInv'
    BY <1>11 DEF FailedReleaseResolves
<1>12. ASSUME NEW e \in Epochs, ReleaseFailsUnseen(e)
      PROVE  LeaseInv'
    BY <1>12 DEF ReleaseFailsUnseen
<1>13. ASSUME NEW e \in Epochs, NEW rejects \in BOOLEAN, CancelSettles(e, rejects)
      PROVE  LeaseInv'
    BY <1>13 DEF CancelSettles
<1>14. ASSUME NEW e \in Epochs, CloseSettles(e)
      PROVE  LeaseInv'
    BY <1>14 DEF CloseSettles
<1>15. ASSUME SetterStep
      PROVE  LeaseInv'
    BY <1>15 DEF SetterStep, Tick, SetPortableIntent, SetPreferences
<1>. QED
    BY <1>1, <1>2, <1>3, <1>4, <1>5, <1>6, <1>7, <1>8, <1>9, <1>10, <1>11,
       <1>12, <1>13, <1>14, <1>15 DEF LifecycleStep, CallSettles

(* The session is the transport of the current switch. *)
LEMMA SessionInvStep ==
    ASSUME LifecycleInv, LifecycleStep
    PROVE  SessionInv'
<1>. USE ConstantsAssumption
     DEF LifecycleInv, LifecycleTypeOK, CallType, ViewType, Epochs,
        NoTransport, leases, lifecycleVars, Advance, Current, SessionInv,
        CallInv, LeaseInv
<1>1. ASSUME NEW profile \in Profiles, NEW intent, SwitchProfile(profile, intent)
      PROVE  SessionInv'
    BY <1>1 DEF SwitchProfile, Release, Invokes, Call
<1>2. ASSUME NEW kind \in {"cancel", "close"}, Leave(kind),
             kind = "cancel" => view.status = "switching"
      PROVE  SessionInv'
    BY <1>2 DEF Leave, Release, Invokes, Call
<1>3. ASSUME NEW e \in Epochs, PreviousReleaseRejects(e)
      PROVE  SessionInv'
    BY <1>3 DEF PreviousReleaseRejects
<1>4. ASSUME NEW e \in Epochs, PreviousReleasedStale(e)
      PROVE  SessionInv'
    BY <1>4 DEF PreviousReleasedStale
<1>5. ASSUME NEW e \in Epochs, CreateTransport(e)
      PROVE  SessionInv'
    BY <1>5 DEF CreateTransport
<1>6. ASSUME NEW e \in Epochs, NEW returned \in BOOLEAN, FactoryFails(e, returned)
      PROVE  SessionInv'
    BY <1>6 DEF FactoryFails, Release, Invokes, Awaited
<1>7. ASSUME NEW e \in Epochs, BootstrapReady(e)
      PROVE  SessionInv'
    BY <1>7 DEF BootstrapReady
<1>8. ASSUME NEW e \in Epochs, NEW rejects \in BOOLEAN,
             BootstrapSettlesLate(e, rejects)
      PROVE  SessionInv'
    BY <1>8 DEF BootstrapSettlesLate, Release, Invokes, Awaited
<1>9. ASSUME NEW e \in Epochs, BootstrapFails(e)
      PROVE  SessionInv'
    BY <1>9 DEF BootstrapFails, Release, Invokes, Awaited
<1>10. ASSUME NEW e \in Epochs, DiscardSettles(e)
      PROVE  SessionInv'
  <2>1. ASSUME session # NoTransport PROVE session # e
      BY <1>10, <2>1 DEF DiscardSettles
  <2>2. ASSUME epoch # 0, calls'[epoch].at \in {"bootstrap", "ready"} PROVE epoch # e
      BY <1>10, <2>2 DEF DiscardSettles
  <2>3. /\ \A f \in Epochs \ {e} : calls'[f] = calls[f]
        /\ UNCHANGED <<epoch, session, transports, released>>
      BY <1>10 DEF DiscardSettles
  <2>. QED BY <2>1, <2>2, <2>3
<1>11. ASSUME NEW e \in Epochs, FailedReleaseResolves(e)
      PROVE  SessionInv'
    BY <1>11 DEF FailedReleaseResolves
<1>12. ASSUME NEW e \in Epochs, ReleaseFailsUnseen(e)
      PROVE  SessionInv'
    BY <1>12 DEF ReleaseFailsUnseen
<1>13. ASSUME NEW e \in Epochs, NEW rejects \in BOOLEAN, CancelSettles(e, rejects)
      PROVE  SessionInv'
    BY <1>13 DEF CancelSettles
<1>14. ASSUME NEW e \in Epochs, CloseSettles(e)
      PROVE  SessionInv'
    BY <1>14 DEF CloseSettles
<1>15. ASSUME SetterStep
      PROVE  SessionInv'
    BY <1>15 DEF SetterStep, Tick, SetPortableIntent, SetPreferences
<1>. QED
    BY <1>1, <1>2, <1>3, <1>4, <1>5, <1>6, <1>7, <1>8, <1>9, <1>10, <1>11,
       <1>12, <1>13, <1>14, <1>15 DEF LifecycleStep, CallSettles

(* A call that settles leaves the view that of the newest call: it neither    *)
(* touches the session behind a ready view nor keeps the interval of its own  *)
(* startup, and if it publishes then the end of its startup.                  *)
LEMMA SettledView ==
    ASSUME LifecycleInv, NEW e \in Epochs, NEW at, NEW t, Advance(e, at, t),
           epoch' = epoch, calls[e].at # "idle",
           timer' # 0 => timer' = timer /\ (e = epoch => at = "bootstrap"),
           view'.epoch = view.epoch, view'.profile = view.profile, view'.mode = view.mode,
           \/ /\ view'.status = view.status /\ view'.descriptor = view.descriptor
              /\ view.status = "ready" /\ calls[epoch].kind # "close" =>
                     e # epoch /\ session' = session /\ session \notin released'
           \/ view'.status # "ready" /\ view'.descriptor = NoTransport
    PROVE  ViewInv'
<1>1. \A f \in Epochs :
          /\ calls'[f].kind = calls[f].kind /\ calls'[f].profile = calls[f].profile
          /\ calls'[f].at = IF f = e THEN at ELSE calls[f].at
    BY AdvanceMoves DEF LifecycleInv, LifecycleTypeOK
<1>2. /\ epoch \in Epochs /\ epoch # 0
      /\ view.descriptor \in Epochs \cup {NoTransport}
      /\ timer \in Epochs \cup {0}
  <2>1. e <= epoch /\ e > 0 /\ epoch \in 0..MaxEpoch
      BY ConstantsAssumption DEF LifecycleInv, CallInv, LifecycleTypeOK, Epochs
  <2>. QED BY <2>1, ConstantsAssumption DEF LifecycleInv, LifecycleTypeOK, ViewType, Epochs, NoTransport
<1>. USE DEF LifecycleInv, ViewInv
<1>3. (epoch = 0 => view.status = "idle")' /\ (view.epoch <= epoch)'
    BY <1>2
<1>4. (epoch # 0 /\ calls[epoch].kind = "switch" =>
             view.epoch = epoch /\ view.profile \in {calls[epoch].profile, NoProfile})'
    BY <1>1, <1>2
<1>5. (view.descriptor # NoTransport => calls[view.descriptor].kind = "switch")'
    BY <1>1, <1>2
<1>6. (view.status = "ready" /\ calls[epoch].kind # "close" => calls[epoch].at = "ready")'
    BY <1>1, <1>2
<1>7. ReadyIsServed'
    BY <1>1, <1>2 DEF ReadyIsServed
<1>8. ModeAdvertised'
    BY <1>1, <1>2 DEF ModeAdvertised
<1>9. TimerOfStartup'
    BY <1>1, <1>2 DEF TimerOfStartup
<1>. QED BY <1>3, <1>4, <1>5, <1>6, <1>7, <1>8, <1>9

(* The failure branches publish the end of the startup, and nothing else.     *)
LEMMA PublishEndShows ==
    ASSUME view \in ViewType, NEW status \in {"error", "canceled"}, PublishEnd(status)
    PROVE  /\ view'.epoch = view.epoch /\ view'.profile = view.profile
           /\ view'.mode = view.mode
           /\ view'.status # "ready" /\ view'.descriptor = NoTransport
  BY DEF PublishEnd, ViewType

(* The view is that of the newest call. *)
LEMMA ViewInvStep ==
    ASSUME LifecycleInv, LifecycleStep
    PROVE  ViewInv'
<1>. USE ConstantsAssumption
     DEF LifecycleInv, LifecycleTypeOK, CallType, ViewType, Epochs,
        NoTransport, leases, lifecycleVars, Current, CallInv,
        SessionInv, LeaseInv, ViewInv, ReadyIsServed, ModeAdvertised,
        TimerOfStartup
<1>1. ASSUME NEW profile \in Profiles, NEW intent, SwitchProfile(profile, intent)
      PROVE  ViewInv'
  <2>1. /\ epoch' = epoch + 1 /\ epoch \in 0..MaxEpoch /\ epoch' \in Epochs
        /\ timer' = epoch + 1
        /\ view'.epoch = epoch + 1 /\ view'.status = "switching"
        /\ view'.profile = profile /\ view'.descriptor = NoTransport
      BY <1>1 DEF SwitchProfile
  <2>2. /\ calls'[epoch'].kind = "switch" /\ calls'[epoch'].at = "previous"
        /\ calls'[epoch'].profile = profile
      BY <1>1, <2>1 DEF SwitchProfile, Call
  <2>. HIDE DEF LifecycleInv, LifecycleTypeOK, CallType, ViewType, CallInv, SessionInv, LeaseInv
  <2>. QED BY <2>1, <2>2
<1>2. ASSUME NEW kind \in {"cancel", "close"}, Leave(kind),
             kind = "cancel" => view.status = "switching"
      PROVE  ViewInv'
  <2>1. /\ epoch' = epoch + 1 /\ epoch \in 0..MaxEpoch /\ epoch' \in Epochs
        /\ view' = view /\ timer' = 0
      BY <1>2 DEF Leave, StopStartupTimer
  <2>2. /\ calls'[epoch'].kind = kind
        /\ \A f \in Epochs : f # epoch' => calls'[f] = calls[f]
      BY <1>2, <2>1 DEF Leave, Call
  <2>3. view.descriptor \in 0..MaxEpoch /\ view.epoch \in 0..MaxEpoch
      OBVIOUS
  <2>4. view.descriptor # NoTransport => view.descriptor # epoch'
      BY <2>1, <2>3
  <2>5. (view.descriptor # NoTransport => calls[view.descriptor].kind = "switch")'
      BY <2>1, <2>2, <2>3, <2>4, SMTT(30)
  <2>6. ModeAdvertised'
      BY <2>1, <2>2, <2>3, <2>4, SMTT(30)
  <2>. QED BY <1>2, <2>1, <2>2, <2>3, <2>5, <2>6
<1>3. ASSUME NEW e \in Epochs, PreviousReleaseRejects(e) PROVE ViewInv'
  <2>1. Advance(e, "rejected", NoTransport) /\ epoch' = epoch /\ calls[e].at = "previous"
        /\ UNCHANGED <<session, released>>
      BY <1>3 DEF PreviousReleaseRejects
  <2>2. CASE Current(e)
      BY <1>3, <2>1, <2>2, SettledView, PublishEndShows
      DEF PreviousReleaseRejects, StopStartupTimer
  <2>3. CASE ~Current(e)
      BY <1>3, <2>1, <2>3, SettledView DEF PreviousReleaseRejects
  <2>. QED BY <2>2, <2>3
<1>4. ASSUME NEW e \in Epochs, PreviousReleasedStale(e) PROVE ViewInv'
  <2>1. /\ Advance(e, "stale", NoTransport) /\ UNCHANGED <<epoch, session, released, timer, view>>
        /\ calls[e].at = "previous" /\ e # epoch
      BY <1>4 DEF PreviousReleasedStale
  <2>2. view.status = "ready" /\ calls[epoch].kind # "close" => session \notin released
      BY <2>1
  <2>. HIDE DEF LifecycleInv, ViewInv
  <2>. QED BY <2>1, <2>2, SettledView
<1>5. ASSUME NEW e \in Epochs, CreateTransport(e) PROVE ViewInv'
  <2>1. /\ Advance(e, "bootstrap", NoTransport) /\ UNCHANGED <<epoch, timer, view>>
        /\ e = epoch /\ calls[e].at = "previous" /\ calls[e].kind = "switch"
      BY <1>5 DEF CreateTransport
  <2>2. view.status # "ready"
      BY <2>1
  <2>. HIDE DEF ViewInv, CallInv, LeaseInv, SessionInv
  <2>. QED BY <2>1, <2>2, SettledView
<1>6. ASSUME NEW e \in Epochs, NEW returned \in BOOLEAN, FactoryFails(e, returned)
      PROVE  ViewInv'
  <2>1. /\ Advance(e, "failed", Awaited(IF returned THEN e ELSE NoTransport))
        /\ UNCHANGED <<epoch, session, view>> /\ timer' = 0
        /\ e = epoch /\ calls[e].at = "previous" /\ calls[e].kind = "switch"
      BY <1>6 DEF FactoryFails, StopStartupTimer
  <2>2. view.status # "ready"
      BY <2>1
  <2>. QED BY <2>1, <2>2, SettledView
<1>7. ASSUME NEW e \in Epochs, BootstrapReady(e) PROVE ViewInv'
  <2>1. \A f \in Epochs :
            /\ calls'[f].kind = calls[f].kind /\ calls'[f].profile = calls[f].profile
            /\ calls'[f].at = IF f = e THEN "ready" ELSE calls[f].at
      BY <1>7, AdvanceMoves DEF BootstrapReady
  <2>2. /\ e = epoch /\ UNCHANGED <<epoch, session, released>> /\ timer' = 0
        /\ calls[e].at = "bootstrap" /\ calls[e].kind = "switch"
        /\ calls[e].profile \in Profiles
      BY <1>7 DEF BootstrapReady, StopStartupTimer
  <2>3. session = e /\ session \notin released
      BY <2>2
  <2>4. /\ view'.epoch = view.epoch /\ view'.profile = view.profile
        /\ view'.status = "ready" /\ view'.descriptor = e
        /\ view'.mode = NormalizedMode(view.mode, calls[e].profile)
      BY <1>7 DEF BootstrapReady
  <2>5. ModeAdvertised'
    <3>1. view.mode \in Modes /\ view'.descriptor = e /\ e # NoTransport
        BY <2>4
    <3>2. \E i \in DOMAIN ModesOf[calls[e].profile] :
              ModesOf[calls[e].profile][i] = view'.mode
        BY <2>2, <2>4, <3>1, NormalizedAdvertised
    <3>3. calls'[view'.descriptor].profile = calls[e].profile
        BY <2>1, <3>1
    <3>. HIDE DEF LifecycleInv, LifecycleTypeOK, CallInv, SessionInv, LeaseInv, ViewInv
    <3>. QED BY <3>1, <3>2, <3>3
  <2>6. ReadyIsServed'
      BY <2>1, <2>2, <2>3, <2>4
  <2>7. TimerOfStartup'
      BY <2>2
  <2>. HIDE DEF ModeAdvertised, ReadyIsServed, TimerOfStartup
  <2>. QED BY <2>1, <2>2, <2>4, <2>5, <2>6, <2>7
<1>8. ASSUME NEW e \in Epochs, NEW rejects \in BOOLEAN,
             BootstrapSettlesLate(e, rejects)
      PROVE  ViewInv'
  <2>1. /\ Advance(e, "discard", Awaited(e)) /\ UNCHANGED <<epoch, session, view>>
        /\ timer' \in {0, timer} /\ e # epoch /\ calls[e].at = "bootstrap"
        /\ released' = released \cup {e}
      BY <1>8 DEF BootstrapSettlesLate, Release, StopStartupTimer
  <2>. QED BY <2>1, SettledView
<1>9. ASSUME NEW e \in Epochs, BootstrapFails(e) PROVE ViewInv'
  <2>1. /\ Advance(e, "failed", Awaited(e)) /\ UNCHANGED <<epoch, session, view>>
        /\ timer' = 0 /\ e = epoch /\ calls[e].at = "bootstrap" /\ calls[e].kind = "switch"
      BY <1>9 DEF BootstrapFails, StopStartupTimer
  <2>2. view.status # "ready"
      BY <2>1
  <2>. QED BY <2>1, <2>2, SettledView
<1>10. ASSUME NEW e \in Epochs, DiscardSettles(e) PROVE ViewInv'
  <2>1. /\ Advance(e, "stale", NoTransport) /\ UNCHANGED <<epoch, session, released, timer, view>>
        /\ calls[e].at = "discard" /\ (timer # 0 => e # epoch)
      BY <1>10 DEF DiscardSettles
  <2>2. view.status = "ready" /\ calls[epoch].kind # "close" =>
            e # epoch /\ session \notin released
      BY <2>1
  <2>. HIDE DEF LifecycleInv, ViewInv
  <2>. QED BY <2>1, <2>2, SettledView
<1>11. ASSUME NEW e \in Epochs, FailedReleaseResolves(e) PROVE ViewInv'
  <2>1. /\ Advance(e, "rejected", NoTransport) /\ UNCHANGED <<epoch, timer>>
        /\ calls[e].at = "failed" /\ PublishEnd("error")
      BY <1>11 DEF FailedReleaseResolves
  <2>2. view \in ViewType /\ (timer # 0 => e # epoch)
      BY <2>1
  <2>. QED BY <2>1, <2>2, PublishEndShows, SettledView
<1>12. ASSUME NEW e \in Epochs, ReleaseFailsUnseen(e) PROVE ViewInv'
  <2>1. /\ Advance(e, "rejected", NoTransport) /\ UNCHANGED <<epoch, session, released, timer, view>>
        /\ calls[e].at \in {"failed", "cleanup"}
      BY <1>12 DEF ReleaseFailsUnseen
  <2>2. (timer # 0 => e # epoch)
      BY <2>1
  <2>3. view.status = "ready" /\ calls[epoch].kind # "close" =>
            e # epoch /\ session \notin released
      BY <2>1
  <2>. HIDE DEF LifecycleInv, ViewInv
  <2>. QED BY <2>1, <2>2, <2>3, SettledView
<1>13. ASSUME NEW e \in Epochs, NEW rejects \in BOOLEAN, CancelSettles(e, rejects)
      PROVE  ViewInv'
  <2>1. (epoch = 0 => view.status = "idle")'
      BY <1>13 DEF CancelSettles, Advance
  <2>2. (view.epoch <= epoch)'
      BY <1>13 DEF CancelSettles, Advance
  <2>3. (epoch # 0 /\ calls[epoch].kind = "switch" =>
             view.epoch = epoch /\ view.profile \in {calls[epoch].profile, NoProfile})'
      BY <1>13 DEF CancelSettles, Advance
  <2>4. (view.descriptor # NoTransport => calls[view.descriptor].kind = "switch")'
      BY <1>13 DEF CancelSettles, Advance
  <2>5. (view.status = "ready" /\ calls[epoch].kind # "close" =>
             calls[epoch].at = "ready")'
      BY <1>13 DEF CancelSettles, Advance
  <2>6. (ReadyIsServed)'
      BY <1>13 DEF CancelSettles, Advance
  <2>7. (ModeAdvertised)'
      BY <1>13 DEF CancelSettles, Advance
  <2>8. (TimerOfStartup)'
      BY <1>13 DEF CancelSettles, Advance
  <2>. QED BY <2>1, <2>2, <2>3, <2>4, <2>5, <2>6, <2>7, <2>8
<1>14. ASSUME NEW e \in Epochs, CloseSettles(e)
      PROVE  ViewInv'
    BY <1>14 DEF CloseSettles, InitialView, Advance
<1>15. ASSUME SetterStep
      PROVE  ViewInv'
  <2>1. UNCHANGED <<epoch, session, calls, transports, released, timer>>
      BY <1>15 DEF SetterStep
  <2>2. CASE Tick
      BY <2>1, <2>2 DEF Tick
  <2>3. ASSUME NEW intent, SetPortableIntent(intent) PROVE ViewInv'
      BY <2>1, <2>3 DEF SetPortableIntent
  <2>4. ASSUME NEW mode \in Modes, SetPreferences(mode) PROVE ViewInv'
    <3>1. /\ view'.epoch = view.epoch /\ view'.status = view.status
          /\ view'.profile = view.profile /\ view'.descriptor = view.descriptor
        BY <2>4 DEF SetPreferences
    <3>2. ModeAdvertised'
      <4>1. CASE view.descriptor = NoTransport
          BY <3>1, <4>1
      <4>2. CASE view.descriptor # NoTransport
        <5>1. calls[view.descriptor].profile \in Profiles
            BY <4>2
        <5>2. view'.mode = NormalizedMode(mode, calls[view.descriptor].profile)
            BY <2>4, <4>2 DEF SetPreferences
        <5>. QED BY <2>1, <3>1, <5>1, <5>2, NormalizedAdvertised
      <4>. QED BY <4>1, <4>2
    <3>. QED BY <2>1, <3>1, <3>2
  <2>. QED BY <1>15, <2>2, <2>3, <2>4 DEF SetterStep
<1>. HIDE DEF LifecycleInv, ViewInv
<1>. QED
    BY <1>1, <1>2, <1>3, <1>4, <1>5, <1>6, <1>7, <1>8, <1>9, <1>10, <1>11,
       <1>12, <1>13, <1>14, <1>15 DEF LifecycleStep, CallSettles

(* Initially no call was made and no transport exists.                        *)
LEMMA InitLifecycle == Init => LifecycleInv
<1>. SUFFICES ASSUME Init PROVE LifecycleInv
    OBVIOUS
<1>. USE ConstantsAssumption DEF Init, Epochs, NoTransport
<1>1. LifecycleTypeOK
  <2>1. Idle \in CallType
      BY DEF Idle, CallType
  <2>2. \A mode \in Modes : InitialView(mode) \in ViewType
      BY DEF InitialView, ViewType
  <2>. QED BY <2>1, <2>2 DEF LifecycleTypeOK
<1>2. CallInv
    BY DEF CallInv, Idle
<1>3. LeaseInv /\ SessionInv
    BY DEF LeaseInv, SessionInv
<1>4. ViewInv
    BY DEF ViewInv, InitialView, ReadyIsServed, ModeAdvertised, TimerOfStartup
<1>. QED BY <1>1, <1>2, <1>3, <1>4 DEF LifecycleInv

(* Every step is one of LifecycleStep, or a panel request's, which leaves the *)
(* lifecycle and the view alone.                                              *)
LEMMA NextIsLifecycleStep ==
    ASSUME LifecycleInv, [Next]_vars
    PROVE  LifecycleStep \/ UNCHANGED <<lifecycleVars, view, lastSelection>>
<1>1. ASSUME NEW profile \in Profiles, NEW intent, SwitchProfile(profile, intent)
      PROVE  LifecycleStep
    BY <1>1 DEF LifecycleStep
<1>2. CASE RetryProfile
    BY <1>2 DEF RetryProfile, LifecycleInv, LifecycleTypeOK, LifecycleStep
<1>3. CASE CancelStartup \/ Close
    BY <1>3 DEF CancelStartup, Close, LifecycleStep
<1>4. CASE \/ Tick
           \/ \E intent \in SUBSET Fields : SetPortableIntent(intent)
           \/ \E mode \in Modes : SetPreferences(mode)
    BY <1>4 DEF LifecycleStep, SetterStep, Tick, SetPortableIntent, SetPreferences
<1>5. ASSUME NEW p \in PanelIds,
             RunPanel(p) \/ RunUnsupported(p) \/ RetryPanel(p) \/ CancelPanel(p)
      PROVE  UNCHANGED <<lifecycleVars, view, lastSelection>>
    BY <1>5 DEF RunPanel, RunUnsupported, RetryPanel, CancelPanel
<1>6. ASSUME NEW n \in DOMAIN requests, RequestSettles(n)
      PROVE  UNCHANGED <<lifecycleVars, view, lastSelection>>
    BY <1>6 DEF RequestSettles, PanelStale, PanelCanceled, PanelFails, PanelUpdates, EndRequest
<1>7. CASE UNCHANGED vars
    BY <1>7 DEF vars
<1>8. ASSUME NEW e \in Epochs, CallSettles(e) PROVE LifecycleStep
    BY <1>8 DEF LifecycleStep
<1>. QED BY <1>1, <1>2, <1>3, <1>4, <1>5, <1>6, <1>7, <1>8 DEF Next

(* LifecycleInv is inductive.                                                 *)
LEMMA NextLifecycle ==
    ASSUME LifecycleInv, [Next]_vars
    PROVE  LifecycleInv'
<1>1. CASE LifecycleStep
    BY <1>1, TypeStep, CallInvStep, LeaseInvStep, SessionInvStep, ViewInvStep
       DEF LifecycleInv
<1>2. CASE UNCHANGED <<lifecycleVars, view, lastSelection>>
    BY <1>2 DEF LifecycleInv, LifecycleTypeOK, CallInv, LeaseInv, SessionInv, ViewInv,
       ReadyIsServed, ModeAdvertised, TimerOfStartup, lifecycleVars, leases
<1>. QED BY <1>1, <1>2, NextIsLifecycleStep

(* The inductive invariant holds of every reachable state of the controller.  *)
THEOREM LifecycleInvariant == Spec => []LifecycleInv
<1>. QED BY InitLifecycle, NextLifecycle, PTL DEF Spec

(* The epoch, session, calls, transports, interval and view have their types. *)
THEOREM LifecycleTypes == Spec => []LifecycleTypeOK
<1>1. LifecycleInv => LifecycleTypeOK
    BY DEF LifecycleInv
<1>. QED BY <1>1, LifecycleInvariant, PTL

(* However calls overlap, transport.release() runs at most once per transport. *)
THEOREM AtMostOneRelease == Spec => []ReleasedAtMostOnce
<1>1. LifecycleInv => ReleasedAtMostOnce
    BY DEF LifecycleInv, LeaseInv, ReleasedAtMostOnce
<1>. QED BY <1>1, LifecycleInvariant, PTL

(* Every transport a factory returned is the session or was released, however *)
(* many switches, failures, cancellations and closes overlap.                 *)
THEOREM NothingOrphaned == Spec => []NoOrphanTransport
<1>1. LifecycleInv => NoOrphanTransport
    BY DEF LifecycleInv, LifecycleTypeOK, LeaseInv, NoOrphanTransport
<1>. QED BY <1>1, LifecycleInvariant, PTL

(* A ready view is served by the live transport of the newest call.           *)
THEOREM ReadyServed == Spec => []ReadyIsServed
<1>1. LifecycleInv => ReadyIsServed
    BY DEF LifecycleInv, ViewInv
<1>. QED BY <1>1, LifecycleInvariant, PTL

(* A shown descriptor advertises the preferred consistency mode.              *)
THEOREM AdvertisedMode == Spec => []ModeAdvertised
<1>1. LifecycleInv => ModeAdvertised
    BY DEF LifecycleInv, ViewInv
<1>. QED BY <1>1, LifecycleInvariant, PTL

(* No startup interval outlives its startup.                                  *)
THEOREM TimerOfCurrentStartup == Spec => []TimerOfStartup
<1>1. LifecycleInv => TimerOfStartup
    BY DEF LifecycleInv, ViewInv
<1>. QED BY <1>1, LifecycleInvariant, PTL

(* cancelStartup and close publish the epoch they find after their await, so  *)
(* the epoch a view shows never decreases.                                    *)
THEOREM MonotoneViewEpoch == Spec => ViewEpochMonotone
<1>1. ASSUME LifecycleInv, [Next]_vars PROVE view'.epoch >= view.epoch
  <2>. USE <1>1, ConstantsAssumption DEF LifecycleInv, LifecycleTypeOK, ViewType, ViewInv
  <2>1. ASSUME NEW profile \in Profiles, NEW intent, SwitchProfile(profile, intent)
        PROVE  view'.epoch >= view.epoch
      BY <2>1 DEF SwitchProfile
  <2>2. ASSUME NEW kind, Leave(kind) PROVE view'.epoch >= view.epoch
      BY <2>2 DEF Leave
  <2>3. ASSUME NEW e \in Epochs, CallSettles(e) PROVE view'.epoch >= view.epoch
    <3>1. view'.epoch \in {view.epoch, epoch}
        BY <2>3, ZenonT(60) DEF CallSettles, PreviousReleaseRejects, PreviousReleasedStale,
           CreateTransport, FactoryFails, BootstrapReady, BootstrapSettlesLate,
           BootstrapFails, DiscardSettles, FailedReleaseResolves, PublishEnd,
           ReleaseFailsUnseen, CancelSettles, CloseSettles, InitialView
    <3>. QED BY <3>1
  <2>4. ASSUME SetterStep PROVE view'.epoch >= view.epoch
    <3>1. CASE Tick
        BY <3>1 DEF Tick
    <3>2. ASSUME NEW intent, SetPortableIntent(intent) PROVE view'.epoch >= view.epoch
        BY <3>2 DEF SetPortableIntent
    <3>3. ASSUME NEW mode, SetPreferences(mode) PROVE view'.epoch >= view.epoch
        BY <3>3 DEF SetPreferences
    <3>. QED BY <2>4, <3>1, <3>2, <3>3 DEF SetterStep
  <2>5. CASE UNCHANGED <<lifecycleVars, view, lastSelection>>
      BY <2>5
  <2>. QED BY <2>1, <2>2, <2>3, <2>4, <2>5, NextIsLifecycleStep DEF LifecycleStep
<1>. QED BY <1>1, LifecycleInvariant, PTL DEF Spec, ViewEpochMonotone

(* What a step does to the held and the released transports is nothing, or    *)
(* one of the three steps of TransportLease.                                  *)
LEMMA StepKeepsLease ==
    ASSUME LifecycleInv, [Next]_vars
    PROVE  [Lease!LeaseNext]_Lease!leaseVars
<1>. USE ConstantsAssumption
     DEF LifecycleInv, LifecycleTypeOK, LeaseInv, Epochs, NoTransport, leases, lifecycleVars,
         Lease!LeaseNext, Lease!leaseVars
<1>1. ASSUME Release(session), session' = NoTransport
      PROVE  [Lease!LeaseNext]_Lease!leaseVars
    BY <1>1 DEF Release, Lease!Retire
<1>2. ASSUME NEW profile, NEW intent, SwitchProfile(profile, intent)
      PROVE  [Lease!LeaseNext]_Lease!leaseVars
    BY <1>1, <1>2 DEF SwitchProfile
<1>3. ASSUME NEW kind, Leave(kind) PROVE [Lease!LeaseNext]_Lease!leaseVars
    BY <1>1, <1>3 DEF Leave
<1>4. ASSUME NEW e \in Epochs, CallSettles(e) PROVE [Lease!LeaseNext]_Lease!leaseVars
  <2>1. ASSUME calls[e].at = "previous", Current(e)
        PROVE  session = NoTransport /\ e \notin released
      BY <2>1 DEF SessionInv, CallInv, Current
  <2>2. CASE CreateTransport(e)
      BY <2>1, <2>2 DEF CreateTransport, Lease!Acquire
  <2>3. ASSUME NEW returned \in BOOLEAN, FactoryFails(e, returned)
        PROVE  [Lease!LeaseNext]_Lease!leaseVars
      BY <2>1, <2>3 DEF FactoryFails, Release, Lease!Reject
  <2>4. ASSUME NEW rejects \in BOOLEAN, BootstrapSettlesLate(e, rejects)
        PROVE  [Lease!LeaseNext]_Lease!leaseVars
    <3>1. e \in released
        BY <2>4 DEF BootstrapSettlesLate, SessionInv, CallInv, Current
    <3>. QED BY <2>4, <3>1 DEF BootstrapSettlesLate, Release
  <2>5. CASE BootstrapFails(e)
    <3>1. session = e /\ e \notin released
        BY <2>5 DEF BootstrapFails, SessionInv, Current
    <3>. QED BY <2>5, <3>1 DEF BootstrapFails, Release, Lease!Retire
  <2>6. CASE FailedReleaseResolves(e)
    <3>1. session = e => e \in released
        BY <2>6 DEF FailedReleaseResolves, SessionInv
    <3>. QED BY <2>6, <3>1 DEF FailedReleaseResolves
  <2>7. ASSUME UNCHANGED <<session, released>>
        PROVE  [Lease!LeaseNext]_Lease!leaseVars
      BY <2>7
  <2>. QED
      BY <1>4, <2>2, <2>3, <2>4, <2>5, <2>6, <2>7 DEF CallSettles,
         PreviousReleaseRejects, PreviousReleasedStale, BootstrapReady,
         DiscardSettles, ReleaseFailsUnseen, CancelSettles, CloseSettles
<1>5. ASSUME UNCHANGED <<session, released>> PROVE [Lease!LeaseNext]_Lease!leaseVars
    BY <1>5
<1>. QED
    BY <1>2, <1>3, <1>4, <1>5, NextIsLifecycleStep DEF LifecycleStep, SetterStep

(* The controller implements TransportLease: it holds one transport at a time *)
(* and gives it up and releases it in one step, once and for good.            *)
THEOREM ImplementsLease == Spec => HoldsLease
<1>1. Init => Lease!LeaseInit
    BY DEF Init, Lease!LeaseInit, NoTransport
<1>. QED BY <1>1, StepKeepsLease, LifecycleInvariant, PTL DEF Spec, HoldsLease, Lease!LeaseSpec

-----------------------------------------------------------------------------
(* The panels.                                                                *)

RequestType == [panel : PanelIds, epoch : Epochs, aborted : BOOLEAN, open : BOOLEAN]
PanelType ==
    [phase : {"idle", "loading", "error", "canceled", "ready"}, request : Nat, value : Nat]

\* The variables of the panels hold values of their kind.
PanelTypeOK ==
    /\ requests \in Seq(RequestType)
    /\ panels \in [PanelIds -> PanelType]
    /\ panelRequests \in [PanelIds -> 0..Len(requests)]
    /\ retryInputs \in [PanelIds -> 0..MaxEpoch]

\* Only the transport of a switch is asked.
AskedInv == \A n \in DOMAIN requests : calls[requests[n].epoch].kind = "switch"

\* What a panel shows was asked before what it waits for, and in the epoch of the view.
ShownInv ==
    \A p \in PanelIds :
        /\ panels[p].request <= Len(requests) /\ panels[p].value <= Len(requests)
        /\ panels[p].phase = "loading" => panels[p].request # NoRequest
        /\ panelRequests[p] # NoRequest => panels[p].request <= panelRequests[p]
        /\ panels[p].value # NoRequest => requests[panels[p].value].epoch = view.epoch
        /\ panels[p].phase = "loading" => requests[panels[p].request].epoch = view.epoch

\* An input is kept for a retry only while its switch is the newest call, and none is
\* while a startup can be canceled.
RetryInv ==
    \A p \in PanelIds : retryInputs[p] # 0 =>
        retryInputs[p] = epoch /\ calls[epoch].kind = "switch" /\ view.status # "switching"

PanelInv == PanelTypeOK /\ AskedInv /\ ShownInv /\ RetryInv

(* Initially nothing was asked.                                               *)
LEMMA InitPanels == Init => PanelInv
  BY ConstantsAssumption, EmptySeq
     DEF Init, PanelInv, PanelTypeOK, AskedInv, ShownInv, RetryInv, NoPanels, NoRequests,
         EmptyPanel, NoRequest, PanelType

(* A request keeps what it is for, however it is marked.                      *)
LEMMA MarkedRequest ==
    ASSUME NEW r \in RequestType, NEW b \in BOOLEAN
    PROVE  /\ [r EXCEPT !.aborted = b] \in RequestType
           /\ [r EXCEPT !.open = b] \in RequestType
           /\ [r EXCEPT !.aborted = b].epoch = r.epoch
           /\ [r EXCEPT !.open = b].epoch = r.epoch
  BY DEF RequestType

(* Aborting ends what panels wait for and loses no request.                   *)
LEMMA AbortKeeps ==
    ASSUME PanelInv, AbortPanels
    PROVE  /\ requests' \in Seq(RequestType) /\ Len(requests') = Len(requests)
           /\ \A n \in DOMAIN requests : requests'[n].epoch = requests[n].epoch
           /\ panelRequests' = NoRequests
<1>. DEFINE f(n) == [requests[n] EXCEPT !.aborted =
                         @ \/ \E p \in PanelIds : panelRequests[p] = n]
<1>1. ASSUME NEW n \in 1..Len(requests)
      PROVE  f(n) \in RequestType /\ f(n).epoch = requests[n].epoch
  <2>. DEFINE b == requests[n].aborted \/ \E p \in PanelIds : panelRequests[p] = n
  <2>1. requests[n] \in RequestType
      BY DEF PanelInv, PanelTypeOK
  <2>2. b \in BOOLEAN
      OBVIOUS
  <2>3. f(n) = [requests[n] EXCEPT !.aborted = b]
      OBVIOUS
  <2>. HIDE DEF b, f
  <2>. QED BY <2>1, <2>2, <2>3, MarkedRequest
<1>2. requests' = [n \in DOMAIN requests |-> f(n)]
    BY DEF AbortPanels
<1>3. requests \in Seq(RequestType) /\ DOMAIN requests = 1..Len(requests)
    BY DEF PanelInv, PanelTypeOK
<1>. HIDE DEF f
<1>4. /\ requests' \in Seq(RequestType) /\ Len(requests') = Len(requests)
      /\ \A n \in DOMAIN requests : requests'[n].epoch = requests[n].epoch
    BY <1>1, <1>2, <1>3
<1>. QED BY <1>4 DEF AbortPanels

(* A new call ends the requests, and what was kept for a retry; the panels    *)
(* are emptied, or stay under the view they had.                              *)
LEMMA NewCallKeepsPanels ==
    ASSUME LifecycleInv, PanelInv, AbortPanels,
           \A e \in Epochs : e <= epoch => calls'[e].kind = calls[e].kind,
           panels' = NoPanels \/ (panels' = panels /\ view'.epoch = view.epoch),
           retryInputs' = [p \in PanelIds |-> 0]
    PROVE  PanelInv'
<1>1. /\ requests' \in Seq(RequestType) /\ Len(requests') = Len(requests)
      /\ \A n \in DOMAIN requests : requests'[n].epoch = requests[n].epoch
      /\ panelRequests' = NoRequests
    BY AbortKeeps
<1>2. /\ requests \in Seq(RequestType) /\ Len(requests) \in Nat
      /\ DOMAIN requests = 1..Len(requests) /\ DOMAIN requests' = 1..Len(requests)
    BY <1>1 DEF PanelInv, PanelTypeOK
<1>3. PanelTypeOK'
  <2>1. NoPanels \in [PanelIds -> PanelType]
      BY DEF NoPanels, EmptyPanel, PanelType, NoRequest
  <2>2. panels' \in [PanelIds -> PanelType]
      BY <2>1 DEF PanelInv, PanelTypeOK
  <2>. QED BY <1>1, <1>2, <2>2, ConstantsAssumption DEF PanelTypeOK, NoRequests, NoRequest
<1>4. AskedInv'
  <2>1. ASSUME NEW n \in DOMAIN requests PROVE requests[n].epoch \in Epochs
    <3>1. requests[n] \in RequestType
        BY <1>2, <2>1
    <3>. QED BY <3>1 DEF RequestType
  <2>2. ASSUME NEW n \in DOMAIN requests PROVE requests[n].epoch <= epoch
      BY <2>1, <2>2 DEF PanelInv, AskedInv, LifecycleInv, CallInv, LifecycleTypeOK, Epochs
  <2>. QED BY <1>1, <1>2, <2>1, <2>2 DEF PanelInv, AskedInv
<1>5. ShownInv'
  <2>1. CASE panels' = NoPanels
      BY <1>1, <1>2, <2>1 DEF ShownInv, NoPanels, EmptyPanel, NoRequest, NoRequests
  <2>2. CASE panels' = panels /\ view'.epoch = view.epoch
    <3>1. \A p \in PanelIds : panels[p] \in PanelType
        BY DEF PanelInv, PanelTypeOK
    <3>. QED BY <1>1, <1>2, <2>2, <3>1 DEF PanelInv, ShownInv, NoRequest, NoRequests, PanelType
  <2>. QED BY <2>1, <2>2
<1>6. RetryInv'
    BY DEF RetryInv
<1>. QED BY <1>3, <1>4, <1>5, <1>6 DEF PanelInv

(* What leaves the requests alone leaves the panels as they are under the     *)
(* epoch they had, or empties them.                                           *)
LEMMA QuietKeepsPanels ==
    ASSUME LifecycleInv, PanelInv, UNCHANGED <<requestVars, epoch>>,
           \A e \in Epochs : calls'[e].kind = calls[e].kind,
           view'.status = "switching" => view.status = "switching",
           panels' = NoPanels \/ (panels' = panels /\ view'.epoch = view.epoch)
    PROVE  PanelInv'
<1>1. /\ requests \in Seq(RequestType) /\ Len(requests) \in Nat
      /\ DOMAIN requests = 1..Len(requests)
      /\ UNCHANGED <<requests, panelRequests, retryInputs, epoch>>
    BY DEF PanelInv, PanelTypeOK, requestVars
<1>2. PanelTypeOK'
  <2>1. NoPanels \in [PanelIds -> PanelType]
      BY DEF NoPanels, EmptyPanel, PanelType, NoRequest
  <2>2. panels' \in [PanelIds -> PanelType]
      BY <2>1 DEF PanelInv, PanelTypeOK
  <2>. QED BY <1>1, <2>2 DEF PanelInv, PanelTypeOK
<1>3. AskedInv'
  <2>1. ASSUME NEW n \in DOMAIN requests PROVE requests[n].epoch \in Epochs
    <3>1. requests[n] \in RequestType
        BY <1>1, <2>1
    <3>. QED BY <3>1 DEF RequestType
  <2>. QED BY <1>1, <2>1 DEF PanelInv, AskedInv
<1>4. ShownInv'
  <2>1. CASE panels' = NoPanels
    <3>1. panelRequests \in [PanelIds -> 0..Len(requests)]
        BY DEF PanelInv, PanelTypeOK
    <3>. QED BY <1>1, <2>1, <3>1 DEF ShownInv, NoPanels, EmptyPanel, NoRequest
  <2>2. CASE panels' = panels /\ view'.epoch = view.epoch
      BY <1>1, <2>2 DEF PanelInv, ShownInv
  <2>. QED BY <2>1, <2>2
<1>5. RetryInv'
  <2>1. SUFFICES ASSUME NEW p \in PanelIds, retryInputs[p] # 0
                 PROVE  /\ retryInputs[p] = epoch /\ calls'[epoch].kind = "switch"
                        /\ view'.status # "switching"
      BY <1>1 DEF RetryInv
  <2>2. retryInputs[p] \in Epochs
      BY <2>1, ConstantsAssumption DEF PanelInv, PanelTypeOK, Epochs
  <2>. QED BY <2>1, <2>2 DEF PanelInv, RetryInv
<1>. QED BY <1>2, <1>3, <1>4, <1>5 DEF PanelInv

(* A switch ends all requests of the panels and empties them.                 *)
LEMMA SwitchKeepsPanels ==
    ASSUME LifecycleInv, PanelInv, NEW profile \in Profiles, NEW intent,
           SwitchProfile(profile, intent)
    PROVE  PanelInv'
<1>1. \E c : calls' = [calls EXCEPT ![epoch + 1] = c]
    BY Zenon DEF SwitchProfile
<1>2. \A e \in Epochs : e <= epoch => calls'[e].kind = calls[e].kind
    BY <1>1 DEF LifecycleInv, LifecycleTypeOK, Epochs
<1>. QED BY <1>2, NewCallKeepsPanels, Zenon DEF SwitchProfile

(* cancelStartup is called only while nothing is kept for a retry.            *)
LEMMA LeaveKeepsPanels ==
    ASSUME LifecycleInv, PanelInv, CancelStartup \/ Close
    PROVE  PanelInv'
<1>0. \E c : calls' = [calls EXCEPT ![epoch + 1] = c]
    BY Zenon DEF CancelStartup, Close, Leave
<1>1. \A e \in Epochs : e <= epoch => calls'[e].kind = calls[e].kind
    BY <1>0 DEF LifecycleInv, LifecycleTypeOK, Epochs
<1>2. retryInputs' = [p \in PanelIds |-> 0]
    BY DEF CancelStartup, Close, PanelInv, RetryInv, PanelTypeOK
<1>3. AbortPanels /\ UNCHANGED <<view, panels>>
    BY DEF CancelStartup, Close, Leave
<1>. QED BY <1>1, <1>2, <1>3, NewCallKeepsPanels

(* A call that resumes after its await leaves the requests alone.             *)
LEMMA SettlingKeepsPanels ==
    ASSUME LifecycleInv, PanelInv, NEW e \in Epochs, CallSettles(e)
    PROVE  PanelInv'
<1>1. \A f \in Epochs : calls'[f].kind = calls[f].kind
    BY SettlingAdvances, AdvanceMoves DEF LifecycleInv, LifecycleTypeOK
<1>2. UNCHANGED <<requestVars, epoch>>
    BY DEF CallSettles, PreviousReleaseRejects, PreviousReleasedStale,
           CreateTransport, FactoryFails, BootstrapReady, BootstrapSettlesLate,
           BootstrapFails, DiscardSettles, FailedReleaseResolves, panelVars,
           ReleaseFailsUnseen, CancelSettles, CloseSettles
<1>3. view'.status = "switching" => view.status = "switching"
  <2>. USE DEF LifecycleInv, LifecycleTypeOK, ViewType
  <2>1. ASSUME NEW status \in {"error", "canceled"}, PublishEnd(status)
        PROVE  view'.status # "switching"
      BY <2>1 DEF PublishEnd
  <2>2. CASE PreviousReleaseRejects(e) \/ FailedReleaseResolves(e)
      BY <2>1, <2>2 DEF PreviousReleaseRejects, FailedReleaseResolves
  <2>3. CASE BootstrapReady(e)
      BY <2>3 DEF BootstrapReady
  <2>4. ASSUME NEW rejects \in BOOLEAN, CancelSettles(e, rejects)
        PROVE  view'.status # "switching"
      BY <2>4 DEF CancelSettles
  <2>5. CASE CloseSettles(e)
      BY <2>5 DEF CloseSettles, InitialView
  <2>. QED
      BY <2>2, <2>3, <2>4, <2>5 DEF CallSettles, PreviousReleasedStale,
           CreateTransport, FactoryFails, BootstrapSettlesLate,
           BootstrapFails, DiscardSettles, ReleaseFailsUnseen
<1>4. panels' = NoPanels \/ (panels' = panels /\ view'.epoch = view.epoch)
  <2>. USE DEF LifecycleInv, LifecycleTypeOK, ViewType
  <2>1. ASSUME NEW status, PublishEnd(status) PROVE view'.epoch = view.epoch
      BY <2>1 DEF PublishEnd
  <2>2. BootstrapReady(e) => view'.epoch = view.epoch
      BY DEF BootstrapReady
  <2>. QED
      BY <2>1, <2>2 DEF CallSettles, PreviousReleaseRejects, PreviousReleasedStale,
           CreateTransport, FactoryFails, BootstrapReady, BootstrapSettlesLate,
           BootstrapFails, DiscardSettles, FailedReleaseResolves, panelVars,
           ReleaseFailsUnseen, CancelSettles, CloseSettles
<1>. QED BY <1>1, <1>2, <1>3, <1>4, QuietKeepsPanels

(* The interval and the setters change neither status nor epoch of the view.  *)
LEMMA SetterKeepsPanels ==
    ASSUME LifecycleInv, PanelInv,
           \/ Tick
           \/ \E intent \in SUBSET Fields : SetPortableIntent(intent)
           \/ \E mode \in Modes : SetPreferences(mode)
    PROVE  PanelInv'
<1>1. UNCHANGED <<requestVars, epoch, calls, panels>>
    BY DEF Tick, SetPortableIntent, SetPreferences, panelVars, lifecycleVars
<1>2. view'.status = view.status /\ view'.epoch = view.epoch
    BY DEF Tick, SetPortableIntent, SetPreferences, LifecycleInv, LifecycleTypeOK, ViewType
<1>. QED BY <1>1, <1>2, QuietKeepsPanels

(* A panel is run while the transport of the newest switch is ready, and the  *)
(* view is that switch's.                                                     *)
LEMMA ReadySession ==
    ASSUME LifecycleInv, TransportReady
    PROVE  /\ session \in Epochs /\ session = epoch /\ view.epoch = session
           /\ calls[session].kind = "switch"
<1>1. session # NoTransport /\ view.status = "ready"
    BY DEF TransportReady
<1>2. session \in Epochs /\ session = epoch
    BY <1>1, ConstantsAssumption
       DEF LifecycleInv, LifecycleTypeOK, SessionInv, Epochs, NoTransport
<1>3. calls[session].kind = "switch"
    BY <1>1, <1>2 DEF LifecycleInv, SessionInv, CallInv
<1>4. epoch # 0
    BY <1>2, ConstantsAssumption DEF Epochs
<1>. QED BY <1>2, <1>3, <1>4 DEF LifecycleInv, ViewInv

(* A panel that is run shows that it waits for its newest request.            *)
LEMMA RunKeepsPanels ==
    ASSUME LifecycleInv, PanelInv, NEW p \in PanelIds, RunPanel(p)
    PROVE  PanelInv'
<1>. DEFINE n == Len(requests) + 1
            f(m) == [requests[m] EXCEPT !.aborted = @ \/ panelRequests[p] = m]
            r == [panel |-> p, epoch |-> session, aborted |-> FALSE, open |-> TRUE]
            s == [m \in DOMAIN requests |-> f(m)]
<1>1. /\ session \in Epochs /\ session = epoch /\ view.epoch = session
      /\ calls[session].kind = "switch" /\ view.status = "ready"
    BY ReadySession DEF RunPanel, TransportReady
<1>2. /\ requests \in Seq(RequestType) /\ Len(requests) \in Nat
      /\ DOMAIN requests = 1..Len(requests) /\ n \in Nat \ {0}
    BY DEF PanelInv, PanelTypeOK
<1>3. ASSUME NEW m \in 1..Len(requests)
      PROVE  f(m) \in RequestType /\ f(m).epoch = requests[m].epoch
  <2>. DEFINE b == requests[m].aborted \/ panelRequests[p] = m
  <2>1. requests[m] \in RequestType
      BY <1>2
  <2>2. b \in BOOLEAN
      OBVIOUS
  <2>3. f(m) = [requests[m] EXCEPT !.aborted = b]
      OBVIOUS
  <2>. HIDE DEF b, f
  <2>. QED BY <2>1, <2>2, <2>3, MarkedRequest
<1>4. r \in RequestType /\ r.epoch = epoch
    BY <1>1 DEF RequestType
<1>5. /\ requests' = Append(s, r)
      /\ panelRequests' = [panelRequests EXCEPT ![p] = n]
      /\ retryInputs' = [retryInputs EXCEPT ![p] = session]
      /\ panels' = [panels EXCEPT ![p].phase = "loading", ![p].request = n]
      /\ UNCHANGED <<epoch, calls, view>>
    BY DEF RunPanel, lifecycleVars
<1>. HIDE DEF f, r
<1>6. s \in Seq(RequestType) /\ Len(s) = Len(requests)
    BY <1>2, <1>3
<1>7. /\ requests' \in Seq(RequestType) /\ Len(requests') = n /\ requests'[n].epoch = epoch
      /\ \A m \in DOMAIN requests : requests'[m].epoch = requests[m].epoch
      /\ DOMAIN requests' = 1..n
    BY <1>2, <1>3, <1>4, <1>5, <1>6
<1>. HIDE DEF s
<1>8. /\ \A q \in PanelIds : panels[q] \in PanelType /\ panels'[q] \in PanelType
      /\ panels'[p].phase = "loading" /\ panels'[p].request = n
      /\ panels'[p].value = panels[p].value
      /\ \A q \in PanelIds \ {p} : panels'[q] = panels[q]
      /\ panels' \in [PanelIds -> PanelType]
    BY <1>2, <1>5 DEF PanelInv, PanelTypeOK, PanelType
<1>9. PanelTypeOK'
    BY <1>1, <1>2, <1>5, <1>7, <1>8, ConstantsAssumption DEF PanelInv, PanelTypeOK, Epochs
<1>10. AskedInv'
    BY <1>1, <1>2, <1>5, <1>7 DEF PanelInv, AskedInv
<1>11. ShownInv'
    BY <1>1, <1>2, <1>5, <1>7, <1>8 DEF PanelInv, PanelTypeOK, ShownInv, PanelType, NoRequest
<1>12. RetryInv'
    BY <1>1, <1>5 DEF PanelInv, PanelTypeOK, RetryInv
<1>. QED BY <1>9, <1>10, <1>11, <1>12 DEF PanelInv

(* An operation that is not advertised asks nothing.                          *)
LEMMA UnsupportedKeepsPanels ==
    ASSUME LifecycleInv, PanelInv, NEW p \in PanelIds, RunUnsupported(p)
    PROVE  PanelInv'
<1>1. UNCHANGED <<epoch, calls, view, requests, panelRequests, retryInputs>>
    BY DEF RunUnsupported, lifecycleVars, requestVars
<1>2. /\ \A q \in PanelIds : panels[q] \in PanelType /\ panels'[q] \in PanelType
      /\ panels'[p].phase = "error" /\ panels'[p].request = panels[p].request
      /\ panels'[p].value = panels[p].value
      /\ \A q \in PanelIds \ {p} : panels'[q] = panels[q]
      /\ panels' \in [PanelIds -> PanelType]
    BY DEF RunUnsupported, PanelInv, PanelTypeOK, PanelType
<1>3. PanelTypeOK' /\ AskedInv' /\ RetryInv'
    BY <1>1, <1>2 DEF PanelInv, PanelTypeOK, AskedInv, RetryInv
<1>4. ShownInv'
    BY <1>1, <1>2 DEF PanelInv, ShownInv
<1>. QED BY <1>3, <1>4 DEF PanelInv

(* Canceling a panel marks its request, and nothing else.                     *)
LEMMA CancelKeepsPanels ==
    ASSUME LifecycleInv, PanelInv, NEW p \in PanelIds, CancelPanel(p)
    PROVE  PanelInv'
<1>1. UNCHANGED <<epoch, calls, view, panels, panelRequests, retryInputs>>
    BY DEF CancelPanel, lifecycleVars
<1>2. /\ requests \in Seq(RequestType) /\ Len(requests) \in Nat
      /\ DOMAIN requests = 1..Len(requests) /\ panelRequests[p] \in 1..Len(requests)
    BY DEF CancelPanel, PanelInv, PanelTypeOK, NoRequest
<1>3. PICK r : /\ r = [requests[panelRequests[p]] EXCEPT !.aborted = TRUE]
               /\ r \in RequestType /\ r.epoch = requests[panelRequests[p]].epoch
  <2>1. requests[panelRequests[p]] \in RequestType
      BY <1>2
  <2>. QED BY <2>1, MarkedRequest, Zenon
<1>4. requests' = [requests EXCEPT ![panelRequests[p]] = r]
    BY <1>3 DEF CancelPanel
<1>5. /\ requests' \in Seq(RequestType) /\ Len(requests') = Len(requests)
      /\ \A m \in DOMAIN requests : requests'[m].epoch = requests[m].epoch
      /\ DOMAIN requests' = DOMAIN requests
    BY <1>2, <1>3, <1>4
<1>6. PanelTypeOK' /\ AskedInv' /\ RetryInv'
    BY <1>1, <1>5 DEF PanelInv, PanelTypeOK, AskedInv, RetryInv
<1>7. ShownInv'
  <2>1. \A q \in PanelIds : panels[q].request \in Nat /\ panels[q].value \in Nat
      BY DEF PanelInv, PanelTypeOK, PanelType
  <2>. QED BY <1>1, <1>2, <1>5, <2>1 DEF PanelInv, ShownInv, NoRequest
<1>. QED BY <1>6, <1>7 DEF PanelInv

(* A request that ends shows its answer only while it is the newest of its    *)
(* panel and of this epoch, the epoch of the view.                            *)
LEMMA EndKeepsPanels ==
    ASSUME LifecycleInv, PanelInv, NEW n \in DOMAIN requests, EndRequest(n),
           NEW p \in PanelIds, NEW v \in PanelType,
           panels' = panels \/ (panels' = [panels EXCEPT ![p] = v] /\ ~Superseded(n)),
           p = requests[n].panel, v.request = n, v.value \in {panels[p].value, n},
           v.phase # "loading"
    PROVE  PanelInv'
<1>1. UNCHANGED <<epoch, calls, view, retryInputs>>
    BY DEF EndRequest, lifecycleVars
<1>2. /\ requests \in Seq(RequestType) /\ Len(requests) \in Nat
      /\ DOMAIN requests = 1..Len(requests) /\ n \in 1..Len(requests)
      /\ \A q \in PanelIds : panels[q].request \in Nat /\ panels[q].value \in Nat
    BY DEF PanelInv, PanelTypeOK, PanelType
<1>3. PICK r : /\ r = [requests[n] EXCEPT !.open = FALSE]
               /\ r \in RequestType /\ r.epoch = requests[n].epoch
  <2>1. requests[n] \in RequestType
      BY <1>2
  <2>. QED BY <2>1, MarkedRequest, Zenon
<1>4. requests' = [requests EXCEPT ![n] = r]
    BY <1>3 DEF EndRequest
<1>5. /\ requests' \in Seq(RequestType) /\ Len(requests') = Len(requests)
      /\ \A m \in DOMAIN requests : requests'[m].epoch = requests[m].epoch
      /\ DOMAIN requests' = DOMAIN requests
    BY <1>2, <1>3, <1>4
<1>6. /\ panelRequests' \in [PanelIds -> 0..Len(requests)]
      /\ \A q \in PanelIds : panelRequests'[q] \in {NoRequest, panelRequests[q]}
      /\ panelRequests[p] = n => panelRequests'[p] = NoRequest
    BY <1>2 DEF EndRequest, PanelInv, PanelTypeOK, NoRequest
<1>7. panels' \in [PanelIds -> PanelType]
    BY DEF PanelInv, PanelTypeOK
<1>8. PanelTypeOK' /\ AskedInv' /\ RetryInv'
    BY <1>1, <1>5, <1>6, <1>7 DEF PanelInv, PanelTypeOK, AskedInv, RetryInv
<1>9. ShownInv'
  <2>1. CASE panels' = panels
      BY <1>1, <1>2, <1>5, <1>6, <2>1 DEF PanelInv, ShownInv, NoRequest
  <2>2. CASE panels' = [panels EXCEPT ![p] = v] /\ ~Superseded(n)
    <3>1. panelRequests[p] = n /\ requests[n].epoch = epoch
        BY <2>2 DEF Superseded
    <3>2. epoch # 0 /\ calls[epoch].kind = "switch"
      <4>1. requests[n] \in RequestType
          BY <1>2
      <4>. QED BY <3>1, <4>1 DEF PanelInv, AskedInv, RequestType, Epochs
    <3>3. view.epoch = epoch
        BY <3>2 DEF LifecycleInv, ViewInv
    <3>4. panels'[p] = v /\ \A q \in PanelIds \ {p} : panels'[q] = panels[q]
        BY <2>2 DEF PanelInv, PanelTypeOK
    <3>. QED BY <1>1, <1>2, <1>5, <1>6, <3>1, <3>3, <3>4 DEF PanelInv, ShownInv, NoRequest
  <2>. QED BY <2>1, <2>2
<1>. QED BY <1>8, <1>9 DEF PanelInv

(* Every way a request ends.                                                  *)
LEMMA RequestKeepsPanels ==
    ASSUME LifecycleInv, PanelInv, NEW n \in DOMAIN requests, RequestSettles(n)
    PROVE  PanelInv'
<1>. DEFINE p == requests[n].panel
<1>1. requests[n] \in RequestType /\ n \in Nat
    BY DEF PanelInv, PanelTypeOK
<1>2. p \in PanelIds
    BY <1>1 DEF RequestType
<1>3. panels \in [PanelIds -> PanelType] /\ panels[p] \in PanelType
    BY <1>2 DEF PanelInv, PanelTypeOK
<1>. HIDE DEF p
<1>4. CASE PanelStale(n)
  <2>1. PICK v \in PanelType : v.request = n /\ v.value = n /\ v.phase = "ready"
    <3>1. [phase |-> "ready", request |-> n, value |-> n] \in PanelType
        BY <1>1 DEF PanelType
    <3>. QED BY <3>1
  <2>. QED BY <1>2, <1>4, <2>1, EndKeepsPanels DEF PanelStale, p
<1>5. CASE PanelCanceled(n)
  <2>. DEFINE v == [panels[p] EXCEPT !.phase = "canceled", !.request = n]
  <2>1. /\ v \in PanelType /\ v.request = n /\ v.value = panels[p].value
        /\ v.phase = "canceled"
      BY <1>1, <1>3 DEF PanelType
  <2>2. panels' = [panels EXCEPT ![p] = v]
      BY <1>2, <1>3, <1>5 DEF PanelCanceled, p
  <2>. HIDE DEF v
  <2>. QED BY <1>2, <1>5, <2>1, <2>2, EndKeepsPanels DEF PanelCanceled, p
<1>6. CASE PanelFails(n)
  <2>. DEFINE v == [panels[p] EXCEPT !.phase = "error", !.request = n]
  <2>1. /\ v \in PanelType /\ v.request = n /\ v.value = panels[p].value
        /\ v.phase = "error"
      BY <1>1, <1>3 DEF PanelType
  <2>2. panels' = [panels EXCEPT ![p] = v]
      BY <1>2, <1>3, <1>6 DEF PanelFails, p
  <2>. HIDE DEF v
  <2>. QED BY <1>2, <1>6, <2>1, <2>2, EndKeepsPanels DEF PanelFails, p
<1>7. CASE PanelUpdates(n)
  <2>. DEFINE v == [phase |-> "ready", request |-> n, value |-> n]
  <2>1. v \in PanelType /\ v.request = n /\ v.value = n /\ v.phase = "ready"
      BY <1>1 DEF PanelType
  <2>2. panels' = [panels EXCEPT ![p] = v]
      BY <1>7 DEF PanelUpdates, p
  <2>. HIDE DEF v
  <2>. QED BY <1>2, <1>7, <2>1, <2>2, EndKeepsPanels DEF PanelUpdates, p
<1>. QED BY <1>4, <1>5, <1>6, <1>7 DEF RequestSettles

(* PanelInv is inductive beside LifecycleInv.                                 *)
LEMMA NextPanels ==
    ASSUME LifecycleInv, PanelInv, [Next]_vars
    PROVE  PanelInv'
<1>1. CASE RetryProfile
    BY <1>1, SwitchKeepsPanels DEF RetryProfile, LifecycleInv, LifecycleTypeOK
<1>2. ASSUME NEW p \in PanelIds, RetryPanel(p) PROVE PanelInv'
    BY <1>2, RunKeepsPanels DEF RetryPanel
<1>3. CASE UNCHANGED vars
    BY <1>3, QuietKeepsPanels DEF vars, lifecycleVars, panelVars, requestVars
<1>. QED
    BY <1>1, <1>2, <1>3, SwitchKeepsPanels, LeaveKeepsPanels, SetterKeepsPanels,
       RunKeepsPanels, UnsupportedKeepsPanels, CancelKeepsPanels, SettlingKeepsPanels,
       RequestKeepsPanels DEF Next

(* The inductive invariant of the panels holds of every reachable state.      *)
THEOREM PanelInvariant == Spec => []PanelInv
<1>. QED BY InitPanels, NextPanels, LifecycleInvariant, PTL DEF Spec

(* No panel shows, awaits or keeps for a retry what another epoch asked.      *)
THEOREM PanelsAreOfThisEpoch == Spec => []PanelsOfThisEpoch
<1>1. ASSUME LifecycleInv, PanelInv PROVE PanelsOfThisEpoch
  <2>1. ASSUME NEW p \in PanelIds, retryInputs[p] # 0 PROVE retryInputs[p] = view.epoch
    <3>1. epoch # 0 /\ calls[epoch].kind = "switch" /\ retryInputs[p] = epoch
        BY <1>1, <2>1 DEF PanelInv, RetryInv
    <3>. QED BY <1>1, <3>1 DEF LifecycleInv, ViewInv
  <2>. QED BY <1>1, <2>1 DEF PanelInv, ShownInv, PanelsOfThisEpoch
<1>. QED BY <1>1, LifecycleInvariant, PanelInvariant, PTL

(* A panel moves to newer requests only, or is emptied with all the others.   *)
THEOREM AnswersMoveForward == Spec => AnswersInOrder
<1>1. ASSUME LifecycleInv, PanelInv, [Next]_vars
      PROVE  \A p \in PanelIds :
                 panels'[p].request < panels[p].request => panels' = NoPanels
  <2>. SUFFICES ASSUME NEW p \in PanelIds, panels' # NoPanels
                PROVE  ~(panels'[p].request < panels[p].request)
      OBVIOUS
  <2>1. /\ panels \in [PanelIds -> PanelType] /\ panels[p] \in PanelType
        /\ panels[p].request \in Nat /\ panels[p].request <= Len(requests)
        /\ panelRequests[p] # NoRequest => panels[p].request <= panelRequests[p]
        /\ Len(requests) \in Nat
      BY <1>1 DEF PanelInv, PanelTypeOK, ShownInv, PanelType
  <2>2. CASE panels' = panels
      BY <2>1, <2>2
  <2>3. ASSUME NEW q \in PanelIds, RunPanel(q)
        PROVE  ~(panels'[p].request < panels[p].request)
      BY <2>1, <2>3 DEF RunPanel, PanelType
  <2>4. ASSUME NEW q \in PanelIds, RunUnsupported(q)
        PROVE  ~(panels'[p].request < panels[p].request)
      BY <2>1, <2>4 DEF RunUnsupported, PanelType
  <2>5. ASSUME NEW n \in DOMAIN requests, RequestSettles(n)
        PROVE  ~(panels'[p].request < panels[p].request)
    <3>1. n \in Nat /\ n # NoRequest
        BY <1>1, <2>5 DEF PanelInv, PanelTypeOK, NoRequest
    <3>2. panels' = panels \/ (panelRequests[requests[n].panel] = n
              /\ panels'[p].request = IF p = requests[n].panel THEN n ELSE panels[p].request)
        BY <2>1, <2>5 DEF RequestSettles, PanelStale, PanelCanceled, PanelFails, PanelUpdates,
           Superseded, PanelType
    <3>. QED BY <2>1, <2>2, <3>1, <3>2
  <2>6. ASSUME NEW e \in Epochs, CallSettles(e) PROVE panels' = panels
      BY <2>6, ZenonT(60) DEF CallSettles, PreviousReleaseRejects, PreviousReleasedStale,
         CreateTransport, FactoryFails, BootstrapReady, BootstrapSettlesLate,
         BootstrapFails, DiscardSettles, FailedReleaseResolves, panelVars,
         ReleaseFailsUnseen, CancelSettles, CloseSettles
  <2>. QED
      BY <1>1, <2>2, <2>3, <2>4, <2>5, <2>6 DEF Next, SwitchProfile, RetryProfile,
         CancelStartup, Close, Leave, Tick, SetPortableIntent, SetPreferences, RetryPanel,
         CancelPanel, vars, panelVars
<1>. QED BY <1>1, LifecycleInvariant, PanelInvariant, PTL DEF Spec, AnswersInOrder
-----------------------------------------------------------------------------
(* Why startups and panels settle: what shows that something is awaited is  *)
(* awaited, and nothing that is awaited is lost.                            *)

\* The view is switching only while the newest call is on its way to publish
\* otherwise, except when the release in the catch block of a failed startup
\* rejected.
StartupPending ==
    view.status = "switching" =>
        /\ epoch \in Epochs
        /\ \/ calls[epoch].at \in {"previous", "bootstrap", "failed", "cleanup"}
           \/ ReleaseMayReject /\ calls[epoch].at = "rejected"

\* A transport that a stale startup gives back was released by whoever replaced
\* it, so that no stale call waits for anything.
DiscardNeverWaits ==
    \A e \in Epochs : calls[e].at = "discard" => calls[e].waits = NoTransport

\* A panel that is loading shows its newest request, which was asked in this epoch
\* and will be heard, unless it was aborted.
LoadingPending ==
    \A p \in PanelIds : panels[p].phase = "loading" =>
        LET n == panels[p].request IN
        /\ n \in DOMAIN requests
        /\ \/ requests[n].aborted
           \/ /\ requests[n].open /\ requests[n].panel = p
              /\ ~Superseded(n)

(* A settling call of the newest epoch goes on, or leaves "switching" unless  *)
(* the release of a failed startup rejects.                                   *)
LEMMA SettlingPublishes ==
    ASSUME LifecycleInv, NEW e \in Epochs, CallSettles(e), view'.status = "switching"
    PROVE  /\ view.status = "switching" /\ epoch' = epoch
           /\ e = epoch /\ calls[e].at \in {"previous", "bootstrap", "failed", "cleanup"} =>
                  \/ calls'[e].at \in {"bootstrap", "failed"}
                  \/ ReleaseMayReject /\ calls'[e].at = "rejected"
<1>. USE DEF LifecycleInv, LifecycleTypeOK
<1>1. ASSUME NEW status \in {"error", "canceled"}, PublishEnd(status) PROVE FALSE
    BY <1>1 DEF PublishEnd, ViewType
<1>2. ASSUME PreviousReleaseRejects(e)
      PROVE  UNCHANGED <<view, epoch>> /\ e # epoch
    BY <1>1, <1>2 DEF PreviousReleaseRejects, Current
<1>3. ~FailedReleaseResolves(e)
    BY <1>1 DEF FailedReleaseResolves
<1>4. ~BootstrapReady(e)
    BY DEF BootstrapReady, ViewType
<1>5. \A rejects \in BOOLEAN : ~CancelSettles(e, rejects)
    BY DEF CancelSettles, ViewType
<1>6. ~CloseSettles(e)
    BY DEF CloseSettles, InitialView
<1>7. ASSUME PreviousReleasedStale(e) \/ \E rejects \in BOOLEAN : BootstrapSettlesLate(e, rejects)
      PROVE  UNCHANGED <<view, epoch>> /\ e # epoch
    BY <1>7 DEF PreviousReleasedStale, BootstrapSettlesLate, Current
<1>8. ASSUME CreateTransport(e) PROVE UNCHANGED <<view, epoch>> /\ calls'[e].at = "bootstrap"
    BY <1>8, AdvanceMoves DEF CreateTransport
<1>9. ASSUME (\E returned \in BOOLEAN : FactoryFails(e, returned)) \/ BootstrapFails(e)
      PROVE  UNCHANGED <<view, epoch>> /\ calls'[e].at = "failed"
    BY <1>9, AdvanceMoves DEF FactoryFails, BootstrapFails
<1>10. ASSUME DiscardSettles(e) PROVE UNCHANGED <<view, epoch>> /\ calls[e].at = "discard"
    BY <1>10 DEF DiscardSettles
<1>11. ASSUME ReleaseFailsUnseen(e)
       PROVE  UNCHANGED <<view, epoch>> /\ ReleaseMayReject /\ calls'[e].at = "rejected"
    BY <1>11, AdvanceMoves DEF ReleaseFailsUnseen, ReleaseRejects
<1>. QED
    BY <1>2, <1>3, <1>4, <1>5, <1>6, <1>7, <1>8, <1>9, <1>10, <1>11, Zenon DEF CallSettles

(* StartupPending is inductive beside LifecycleInv.                           *)
LEMMA StepKeepsPending ==
    ASSUME LifecycleInv, StartupPending, LifecycleStep
    PROVE  StartupPending'
<1>. USE DEF LifecycleInv, LifecycleTypeOK
<1>1. ASSUME NEW profile \in Profiles, NEW intent, SwitchProfile(profile, intent)
      PROVE  StartupPending'
  <2>1. epoch + 1 \in Epochs /\ epoch' = epoch + 1
      BY <1>1, ConstantsAssumption DEF SwitchProfile, Epochs
  <2>2. calls' = [calls EXCEPT ![epoch + 1] =
                      Call("switch", "previous", profile, Awaited(session))]
      BY <1>1 DEF SwitchProfile
  <2>3. calls'[epoch + 1].at = "previous"
      BY <2>1, <2>2 DEF Call
  <2>. QED BY <2>1, <2>3 DEF StartupPending
<1>2. ASSUME NEW kind \in {"cancel", "close"}, Leave(kind) PROVE StartupPending'
  <2>1. epoch + 1 \in Epochs /\ epoch' = epoch + 1
      BY <1>2, ConstantsAssumption DEF Leave, Epochs
  <2>2. calls' = [calls EXCEPT ![epoch + 1] =
                      Call(kind, "cleanup", NoProfile, Awaited(session))]
      BY <1>2 DEF Leave
  <2>3. calls'[epoch + 1].at = "cleanup"
      BY <2>1, <2>2 DEF Call
  <2>. QED BY <2>1, <2>3 DEF StartupPending
<1>3. ASSUME NEW e \in Epochs, CallSettles(e) PROVE StartupPending'
  <2>. SUFFICES ASSUME view'.status = "switching"
                PROVE  /\ epoch' \in Epochs
                       /\ \/ calls'[epoch'].at \in {"previous", "bootstrap", "failed", "cleanup"}
                          \/ ReleaseMayReject /\ calls'[epoch'].at = "rejected"
      BY DEF StartupPending
  <2>1. /\ view.status = "switching" /\ epoch' = epoch /\ epoch \in Epochs
        /\ \/ calls[epoch].at \in {"previous", "bootstrap", "failed", "cleanup"}
           \/ ReleaseMayReject /\ calls[epoch].at = "rejected"
      BY <1>3, SettlingPublishes DEF StartupPending
  <2>2. e # epoch => calls'[epoch].at = calls[epoch].at
      BY <1>3, <2>1, SettlingAdvances, AdvanceMoves
  <2>3. calls[e].at # "rejected"
      BY <1>3 DEF CallSettles, PreviousReleaseRejects, PreviousReleasedStale,
           CreateTransport, FactoryFails, BootstrapReady, BootstrapSettlesLate,
           BootstrapFails, DiscardSettles, FailedReleaseResolves,
           ReleaseFailsUnseen, CancelSettles, CloseSettles
  <2>. QED BY <1>3, <2>1, <2>2, <2>3, SettlingPublishes
<1>4. CASE SetterStep
  <2>1. UNCHANGED <<epoch, calls>> /\ view'.status = view.status
      BY <1>4 DEF SetterStep, Tick, SetPortableIntent, SetPreferences, lifecycleVars, ViewType
  <2>. QED BY <2>1 DEF StartupPending
<1>. QED BY <1>1, <1>2, <1>3, <1>4 DEF LifecycleStep

(* The safety core of StartupSettles: while the view is switching, the newest *)
(* call still has to publish - always when releases do not reject, and        *)
(* otherwise unless the release of a failed startup did.                      *)
THEOREM StartupIsPending == Spec => []StartupPending
<1>1. Init => StartupPending
    BY DEF Init, StartupPending, InitialView
<1>2. ASSUME LifecycleInv, StartupPending, [Next]_vars PROVE StartupPending'
  <2>1. CASE UNCHANGED <<lifecycleVars, view, lastSelection>>
      BY <1>2, <2>1 DEF StartupPending, lifecycleVars
  <2>. QED BY <1>2, <2>1, StepKeepsPending, NextIsLifecycleStep
<1>. QED BY <1>1, <1>2, LifecycleInvariant, PTL DEF Spec

(* A stale startup never waits for the release of its own transport: the call *)
(* that replaced it had that release invoked.                                 *)
THEOREM StaleNeverWaits == Spec => []DiscardNeverWaits
<1>1. Init => DiscardNeverWaits
    BY DEF Init, DiscardNeverWaits, Idle
<1>2. ASSUME LifecycleInv, DiscardNeverWaits, LifecycleStep PROVE DiscardNeverWaits'
  <2>. USE <1>2 DEF LifecycleInv, LifecycleTypeOK
  <2>1. ASSUME NEW profile \in Profiles, NEW intent, SwitchProfile(profile, intent)
        PROVE  DiscardNeverWaits'
    <3>1. calls' = [calls EXCEPT ![epoch + 1] =
                        Call("switch", "previous", profile, Awaited(session))]
        BY <2>1 DEF SwitchProfile
    <3>. QED BY <3>1 DEF DiscardNeverWaits, Call
  <2>2. ASSUME NEW kind \in {"cancel", "close"}, Leave(kind) PROVE DiscardNeverWaits'
    <3>1. calls' = [calls EXCEPT ![epoch + 1] =
                        Call(kind, "cleanup", NoProfile, Awaited(session))]
        BY <2>2 DEF Leave
    <3>. QED BY <3>1 DEF DiscardNeverWaits, Call
  <2>3. ASSUME NEW e \in Epochs, NEW at \in Stages, NEW t, Advance(e, at, t),
               at = "discard" => t = NoTransport
        PROVE  DiscardNeverWaits'
    <3>1. calls' = [f \in Epochs |->
                       IF f = e THEN [calls[f] EXCEPT !.at = at, !.waits = t] ELSE calls[f]]
        BY <2>3 DEF Advance
    <3>2. [calls[e] EXCEPT !.at = at, !.waits = t].at = at
              /\ [calls[e] EXCEPT !.at = at, !.waits = t].waits = t
        BY DEF CallType
    <3>. QED BY <2>3, <3>1, <3>2 DEF DiscardNeverWaits
  <2>4. ASSUME NEW e \in Epochs, CallSettles(e) PROVE DiscardNeverWaits'
    <3>1. ASSUME NEW rejects \in BOOLEAN, BootstrapSettlesLate(e, rejects)
          PROVE  DiscardNeverWaits'
      <4>1. e \in released
          BY <3>1, ConstantsAssumption
             DEF BootstrapSettlesLate, Current, CallInv, LeaseInv, SessionInv, Epochs, NoTransport
      <4>2. Advance(e, "discard", NoTransport)
          BY <3>1, <4>1 DEF BootstrapSettlesLate, Awaited, Invokes
      <4>. QED BY <2>3, <4>2 DEF Stages
    <3>2. ASSUME ~\E rejects \in BOOLEAN : BootstrapSettlesLate(e, rejects)
          PROVE  \E at \in Stages \ {"discard"} : \E t : Advance(e, at, t)
        BY <2>4, <3>2 DEF Stages, CallSettles, PreviousReleaseRejects, PreviousReleasedStale,
           CreateTransport, FactoryFails, BootstrapReady, BootstrapFails, DiscardSettles,
           FailedReleaseResolves, ReleaseFailsUnseen, CancelSettles, CloseSettles
    <3>. QED BY <2>3, <3>1, <3>2
  <2>5. CASE SetterStep
      BY <2>5 DEF SetterStep, DiscardNeverWaits, lifecycleVars
  <2>. QED BY <2>1, <2>2, <2>4, <2>5 DEF LifecycleStep
<1>3. ASSUME LifecycleInv, DiscardNeverWaits, [Next]_vars PROVE DiscardNeverWaits'
  <2>1. CASE UNCHANGED <<lifecycleVars, view, lastSelection>>
      BY <1>3, <2>1 DEF DiscardNeverWaits, lifecycleVars
  <2>. QED BY <1>2, <1>3, <2>1, NextIsLifecycleStep
<1>. QED BY <1>1, <1>3, LifecycleInvariant, PTL DEF Spec

(* What leaves panels, requests and the epoch alone keeps LoadingPending, and *)
(* so does what empties the panels.                                           *)
LEMMA QuietKeepsLoading ==
    ASSUME LoadingPending,
           panels' = NoPanels \/ UNCHANGED <<panels, requests, panelRequests, epoch>>
    PROVE  LoadingPending'
<1>1. CASE panels' = NoPanels
    BY <1>1 DEF LoadingPending, NoPanels, EmptyPanel
<1>2. CASE UNCHANGED <<panels, requests, panelRequests, epoch>>
    BY <1>2 DEF LoadingPending, Superseded
<1>. QED BY <1>1, <1>2

(* A mark changes nothing else of a request.                                  *)
LEMMA MarkedKeeps ==
    ASSUME NEW r \in RequestType, NEW b \in BOOLEAN
    PROVE  /\ [r EXCEPT !.aborted = b].aborted = b /\ [r EXCEPT !.aborted = b].open = r.open
           /\ [r EXCEPT !.aborted = b].panel = r.panel
           /\ [r EXCEPT !.open = b].open = b /\ [r EXCEPT !.open = b].aborted = r.aborted
           /\ [r EXCEPT !.open = b].panel = r.panel
  BY DEF RequestType

(* A call that leaves the panels under their view aborts what they wait for.  *)
LEMMA LeaveKeepsLoading ==
    ASSUME PanelInv, LoadingPending, AbortPanels, UNCHANGED panels
    PROVE  LoadingPending'
<1>1. SUFFICES ASSUME NEW p \in PanelIds, panels[p].phase = "loading"
               PROVE  /\ panels[p].request \in DOMAIN requests'
                      /\ requests'[panels[p].request].aborted
    BY DEF LoadingPending
<1>. DEFINE n == panels[p].request
<1>2. /\ n \in DOMAIN requests
      /\ requests[n].aborted \/ panelRequests[p] = n
    BY <1>1 DEF LoadingPending, Superseded
<1>3. requests[n] \in RequestType
    BY <1>2 DEF PanelInv, PanelTypeOK
<1>4. /\ DOMAIN requests' = DOMAIN requests
      /\ requests'[n] = [requests[n] EXCEPT !.aborted = @ \/ \E q \in PanelIds : panelRequests[q] = n]
    BY <1>2 DEF AbortPanels
<1>. HIDE DEF n
<1>5. requests'[n].aborted
  <2>1. (requests[n].aborted \/ \E q \in PanelIds : panelRequests[q] = n) = TRUE
      BY <1>2, <1>3 DEF RequestType
  <2>2. requests'[n] = [requests[n] EXCEPT !.aborted = TRUE]
      BY <1>4, <2>1
  <2>. QED BY <1>3, <2>2, MarkedKeeps
<1>. QED BY <1>2, <1>4, <1>5 DEF n

(* A panel that is run waits for the request it issued; whatever its older    *)
(* request was for is marked, the other panels' requests are not.             *)
LEMMA RunKeepsLoading ==
    ASSUME LifecycleInv, PanelInv, LoadingPending, NEW p \in PanelIds, RunPanel(p)
    PROVE  LoadingPending'
<1>. DEFINE n == Len(requests) + 1
            f(m) == [requests[m] EXCEPT !.aborted = @ \/ panelRequests[p] = m]
            r == [panel |-> p, epoch |-> session, aborted |-> FALSE, open |-> TRUE]
            s == [m \in DOMAIN requests |-> f(m)]
<1>1. session = epoch
    BY ReadySession DEF RunPanel
<1>2. /\ requests \in Seq(RequestType) /\ Len(requests) \in Nat
      /\ DOMAIN requests = 1..Len(requests) /\ n \in Nat \ {0}
    BY DEF PanelInv, PanelTypeOK
<1>3. /\ requests' = Append(s, r)
      /\ panelRequests' = [panelRequests EXCEPT ![p] = n]
      /\ panels' = [panels EXCEPT ![p].phase = "loading", ![p].request = n]
      /\ epoch' = epoch
    BY DEF RunPanel, lifecycleVars
<1>4. ASSUME NEW m \in 1..Len(requests)
      PROVE  /\ f(m).open = requests[m].open /\ f(m).panel = requests[m].panel
             /\ f(m).epoch = requests[m].epoch /\ f(m) \in RequestType
             /\ requests[m].aborted => f(m).aborted
  <2>. DEFINE b == requests[m].aborted \/ panelRequests[p] = m
  <2>1. requests[m] \in RequestType
      BY <1>2
  <2>2. b \in BOOLEAN
      OBVIOUS
  <2>3. f(m) = [requests[m] EXCEPT !.aborted = b]
      OBVIOUS
  <2>4. ASSUME requests[m].aborted PROVE f(m).aborted
    <3>1. b = TRUE
        BY <2>1, <2>4 DEF RequestType
    <3>2. f(m) = [requests[m] EXCEPT !.aborted = TRUE]
        BY <2>3, <3>1
    <3>. HIDE DEF b, f
    <3>. QED BY <2>1, <3>2, MarkedKeeps
  <2>. HIDE DEF b, f
  <2>5. f(m) \in RequestType /\ f(m).epoch = requests[m].epoch
      BY <2>1, <2>2, <2>3, MarkedRequest
  <2>6. f(m).open = requests[m].open /\ f(m).panel = requests[m].panel
      BY <2>1, <2>2, <2>3, MarkedKeeps
  <2>. QED BY <2>4, <2>5, <2>6
<1>5. r.panel = p /\ r.epoch = epoch /\ r.open
    BY <1>1
<1>. HIDE DEF f, r
<1>6. /\ DOMAIN s = 1..Len(requests) /\ Len(s) = Len(requests)
      /\ \A m \in 1..Len(requests) : s[m] = f(m)
      /\ s \in Seq(RequestType)
    BY <1>2, <1>4
<1>. HIDE DEF s
<1>7. /\ DOMAIN requests' = 1..n /\ requests'[n] = r
      /\ \A m \in 1..Len(requests) : requests'[m] = f(m)
    BY <1>2, <1>3, <1>6
<1>8. /\ panels'[p].request = n
      /\ \A q \in PanelIds \ {p} : panels'[q] = panels[q] /\ panelRequests'[q] = panelRequests[q]
      /\ panelRequests'[p] = n
    BY <1>3 DEF PanelInv, PanelTypeOK, PanelType
<1>9. SUFFICES ASSUME NEW q \in PanelIds, panels'[q].phase = "loading"
               PROVE  LET m == panels'[q].request IN
                      /\ m \in DOMAIN requests'
                      /\ \/ requests'[m].aborted
                         \/ /\ requests'[m].open /\ requests'[m].panel = q
                            /\ panelRequests'[requests'[m].panel] = m
                            /\ requests'[m].epoch = epoch'
    BY DEF LoadingPending, Superseded
<1>10. CASE q = p
    BY <1>2, <1>3, <1>5, <1>7, <1>8, <1>10
<1>11. CASE q # p
  <2>. DEFINE m == panels[q].request
  <2>1. panels'[q].request = m /\ panels[q].phase = "loading"
      BY <1>8, <1>9, <1>11
  <2>2. /\ m \in 1..Len(requests)
        /\ \/ requests[m].aborted
           \/ /\ requests[m].open /\ requests[m].panel = q
              /\ panelRequests[q] = m /\ requests[m].epoch = epoch
      BY <1>2, <2>1 DEF LoadingPending, Superseded
  <2>3. m \in 1..n
      BY <1>2, <2>2
  <2>. HIDE DEF m, n
  <2>4. requests'[m] = f(m) /\ panelRequests'[q] = panelRequests[q] /\ m \in DOMAIN requests'
      BY <1>7, <1>8, <1>11, <2>2, <2>3
  <2>5. \/ requests'[m].aborted
        \/ /\ requests'[m].open /\ requests'[m].panel = q
           /\ panelRequests'[requests'[m].panel] = m /\ requests'[m].epoch = epoch'
      BY <1>3, <1>4, <2>2, <2>4
  <2>. QED BY <2>1, <2>4, <2>5
<1>. QED BY <1>10, <1>11

(* An operation that is not advertised ends the waiting of its panel.         *)
LEMMA UnsupportedKeepsLoading ==
    ASSUME PanelInv, LoadingPending, NEW p \in PanelIds, RunUnsupported(p)
    PROVE  LoadingPending'
<1>1. UNCHANGED <<epoch, requests, panelRequests>>
    BY DEF RunUnsupported, lifecycleVars, requestVars
<1>2. /\ panels'[p].phase = "error"
      /\ \A q \in PanelIds \ {p} : panels'[q] = panels[q]
    BY DEF RunUnsupported, PanelInv, PanelTypeOK, PanelType
<1>. QED BY <1>1, <1>2 DEF LoadingPending, Superseded

(* Canceling a panel aborts its request.                                      *)
LEMMA CancelKeepsLoading ==
    ASSUME PanelInv, LoadingPending, NEW p \in PanelIds, CancelPanel(p)
    PROVE  LoadingPending'
<1>1. UNCHANGED <<epoch, panels, panelRequests>>
    BY DEF CancelPanel, lifecycleVars
<1>2. /\ requests \in Seq(RequestType) /\ DOMAIN requests = 1..Len(requests)
      /\ panelRequests[p] \in DOMAIN requests
    BY DEF CancelPanel, PanelInv, PanelTypeOK, NoRequest
<1>3. requests[panelRequests[p]] \in RequestType
    BY <1>2
<1>4. /\ DOMAIN requests' = DOMAIN requests
      /\ requests'[panelRequests[p]] = [requests[panelRequests[p]] EXCEPT !.aborted = TRUE]
      /\ \A m \in DOMAIN requests : m # panelRequests[p] => requests'[m] = requests[m]
    BY <1>2 DEF CancelPanel
<1>5. requests'[panelRequests[p]].aborted
    BY <1>3, <1>4, MarkedKeeps
<1>6. \A m \in DOMAIN requests : requests'[m].aborted \/ requests'[m] = requests[m]
    BY <1>4, <1>5
<1>. QED BY <1>1, <1>4, <1>6 DEF LoadingPending, Superseded

(* Every way a request ends leaves no panel waiting for it but those whose    *)
(* request was aborted.                                                       *)
LEMMA EndKeepsLoading ==
    ASSUME PanelInv, LoadingPending, NEW n \in DOMAIN requests, RequestSettles(n)
    PROVE  LoadingPending'
<1>1. EndRequest(n) /\ epoch' = epoch
    BY DEF RequestSettles, PanelStale, PanelCanceled, PanelFails, PanelUpdates, EndRequest,
       lifecycleVars
<1>2. requests \in Seq(RequestType) /\ requests[n] \in RequestType
    BY DEF PanelInv, PanelTypeOK
<1>3. /\ DOMAIN requests' = DOMAIN requests
      /\ requests'[n] = [requests[n] EXCEPT !.open = FALSE]
      /\ \A m \in DOMAIN requests : m # n => requests'[m] = requests[m]
    BY <1>1, <1>2 DEF EndRequest
<1>4. requests'[n].aborted = requests[n].aborted
    BY <1>2, <1>3, MarkedKeeps
<1>5. \A q \in PanelIds : panelRequests[q] # n => panelRequests'[q] = panelRequests[q]
    BY <1>1 DEF EndRequest
<1>6. \/ panels' = panels /\ (Superseded(n) \/ requests[n].aborted)
      \/ /\ panels'[requests[n].panel].phase # "loading"
         /\ \A q \in PanelIds : q # requests[n].panel => panels'[q] = panels[q]
  <2>1. /\ requests[n].panel \in PanelIds /\ panels \in [PanelIds -> PanelType]
        /\ panels[requests[n].panel] \in PanelType
      BY <1>2 DEF RequestType, PanelInv, PanelTypeOK
  <2>. QED
      BY <2>1 DEF RequestSettles, PanelStale, PanelCanceled, PanelFails, PanelUpdates, PanelType
<1>7. SUFFICES ASSUME NEW q \in PanelIds, panels'[q].phase = "loading"
               PROVE  LET m == panels'[q].request IN
                      /\ m \in DOMAIN requests'
                      /\ \/ requests'[m].aborted
                         \/ /\ requests'[m].open /\ requests'[m].panel = q
                            /\ panelRequests'[requests'[m].panel] = m
                            /\ requests'[m].epoch = epoch'
    BY DEF LoadingPending, Superseded
<1>8. panels'[q] = panels[q]
    BY <1>6, <1>7
<1>. DEFINE m == panels[q].request
<1>9. /\ m \in DOMAIN requests
      /\ \/ requests[m].aborted
         \/ /\ requests[m].open /\ requests[m].panel = q
            /\ ~Superseded(m) /\ panelRequests[q] = m /\ requests[m].epoch = epoch
    BY <1>7, <1>8 DEF LoadingPending, Superseded
<1>10. m = n => requests[m].aborted
    BY <1>6, <1>7, <1>9
<1>. HIDE DEF m
<1>11. \/ requests'[m].aborted
       \/ /\ requests'[m].open /\ requests'[m].panel = q
          /\ panelRequests'[requests'[m].panel] = m /\ requests'[m].epoch = epoch'
  <2>1. CASE m = n
      BY <1>4, <1>10, <2>1
  <2>2. CASE m # n
    <3>1. requests'[m] = requests[m]
        BY <1>3, <1>9, <2>2
    <3>2. panelRequests[q] = m => panelRequests'[q] = m
        BY <1>5, <2>2
    <3>. QED BY <1>1, <1>9, <3>1, <3>2
  <2>. QED BY <2>1, <2>2
<1>12. panels'[q].request = m /\ m \in DOMAIN requests'
    BY <1>3, <1>8, <1>9 DEF m
<1>. QED BY <1>11, <1>12

(* The safety core of PanelSettles: while a panel is loading, the request it  *)
(* shows is open, is its newest and of this epoch - its answer will be heard - *)
(* unless the request was aborted.                                            *)
THEOREM LoadingIsPending == Spec => []LoadingPending
<1>1. Init => LoadingPending
    BY DEF Init, LoadingPending, NoPanels, EmptyPanel
<1>2. ASSUME LifecycleInv, PanelInv, LoadingPending, [Next]_vars PROVE LoadingPending'
  <2>1. ASSUME NEW profile, NEW intent, SwitchProfile(profile, intent) PROVE LoadingPending'
      BY <1>2, <2>1, QuietKeepsLoading DEF SwitchProfile
  <2>2. CASE RetryProfile
      BY <2>1, <2>2 DEF RetryProfile
  <2>3. CASE CancelStartup \/ Close
      BY <1>2, <2>3, LeaveKeepsLoading DEF CancelStartup, Close, Leave
  <2>4. CASE UNCHANGED vars
      BY <1>2, <2>4, QuietKeepsLoading DEF vars, lifecycleVars, panelVars, requestVars
  <2>5. ASSUME NEW e \in Epochs, CallSettles(e) PROVE LoadingPending'
    <3>1. panels' = NoPanels \/ UNCHANGED <<panels, requests, panelRequests, epoch>>
        BY <2>5, ZenonT(60) DEF CallSettles, PreviousReleaseRejects, PreviousReleasedStale,
           CreateTransport, FactoryFails, BootstrapReady, BootstrapSettlesLate,
           BootstrapFails, DiscardSettles, FailedReleaseResolves, panelVars, requestVars,
           ReleaseFailsUnseen, CancelSettles, CloseSettles
    <3>. QED BY <1>2, <3>1, QuietKeepsLoading
  <2>6. CASE \/ Tick
             \/ \E intent \in SUBSET Fields : SetPortableIntent(intent)
             \/ \E mode \in Modes : SetPreferences(mode)
    <3>1. UNCHANGED <<panels, requests, panelRequests, epoch>>
        BY <2>6 DEF Tick, SetPortableIntent, SetPreferences, panelVars, requestVars, lifecycleVars
    <3>. QED BY <1>2, <3>1, QuietKeepsLoading
  <2>7. ASSUME NEW p \in PanelIds,
               RunPanel(p) \/ RunUnsupported(p) \/ RetryPanel(p) \/ CancelPanel(p)
        PROVE  LoadingPending'
      BY <1>2, <2>7, RunKeepsLoading, UnsupportedKeepsLoading, CancelKeepsLoading DEF RetryPanel
  <2>. QED
      BY <1>2, <2>1, <2>2, <2>3, <2>4, <2>5, <2>6, <2>7, EndKeepsLoading DEF Next
<1>. QED BY <1>1, <1>2, LifecycleInvariant, PanelInvariant, PTL DEF Spec
===============================================================================
