------------------------- MODULE LocalTransportProofs -------------------------
(***************************************************************************)
(* For any number of transports, calls and downloads: the session belongs  *)
(* to the mounted transport, one runtime serves the page, and the          *)
(* transports implement TransportLease.                                    *)
(***************************************************************************)
EXTENDS LocalTransportProperties, TLAPS

CallType ==
    [transport : Transports \cup {NoTransport}, kind : {"none", "bootstrap", "request"},
     at : {"idle", "load", "initialize", "answers", "settled"},
     load : 0..MaxLoads, aborted : BOOLEAN]
LoadType == {"none", "pending", "fulfilled", "failed", "expired", "late"}

LocalTypeOK ==
    /\ mounted \in Transports \cup {NoTransport}
    /\ released \subseteq Transports
    /\ runtimeOf \in [Transports -> 0..MaxLoads]
    /\ initialized \subseteq Transports /\ bootstrapped \subseteq Transports
    /\ calls \in [Calls -> CallType]
    /\ session \in [Loads -> Transports \cup {NoTransport}]
    /\ memo \in 0..MaxLoads
    /\ load \in [Loads -> LoadType]

\* The remembered download is the only one pending or fulfilled, and transports hold
\* the runtime of a fulfilled one.
LoaderInv ==
    /\ memo # 0 => load[memo] \in {"pending", "fulfilled"}
    /\ \A k \in Loads : load[k] \in {"pending", "fulfilled"} => memo = k
    /\ \A t \in Transports : runtimeOf[t] # 0 => load[runtimeOf[t]] = "fulfilled"

\* Only the mounted transport can be initialized, and a session is held exactly then.
SessionInv ==
    /\ mounted \notin released
    /\ bootstrapped \subseteq initialized
    /\ \A t \in initialized : t = mounted /\ runtimeOf[t] # 0 /\ session[runtimeOf[t]] = t
    /\ \A r \in Loads : session[r] # NoTransport =>
           session[r] = mounted /\ mounted \in initialized /\ runtimeOf[mounted] = r

\* A suspended call is of the mounted transport or of a released one, and past its
\* download its transport has a runtime.
CallsInv ==
    \A c \in Calls : calls[c].at \in {"load", "initialize", "answers"} =>
        /\ calls[c].transport \in Transports
        /\ calls[c].transport = mounted \/ calls[c].transport \in released
        /\ calls[c].at = "load" => calls[c].load \in Loads
        /\ calls[c].at # "load" => runtimeOf[calls[c].transport] # 0

LocalInv == LocalTypeOK /\ LoaderInv /\ SessionInv /\ CallsInv

-----------------------------------------------------------------------------
LEMMA InitLocal == Init => LocalInv
  BY LocalAssumption DEF Init, LocalInv, LocalTypeOK, LoaderInv, SessionInv, CallsInv,
     CallType, LoadType, Loads, Idle

\* The selector: the mounted transport is released and loses its session.
LEMMA SelectKeeps ==
    ASSUME LocalInv, NEW t \in Transports \cup {NoTransport}, Select(t)
    PROVE  LocalInv'
<1> USE LocalAssumption DEF LocalInv
<1>1. LocalTypeOK'
  BY DEF LocalTypeOK, Select, EndSession, loaderVars
<1>2. LoaderInv'
  BY DEF LocalTypeOK, LoaderInv, Select, loaderVars
<1>3. SessionInv'
  <2>1. CASE mounted = NoTransport
    BY <2>1 DEF LocalTypeOK, SessionInv, Select, loaderVars
  <2>2. CASE mounted # NoTransport
    <3>1. \A r \in Loads : session'[r] = NoTransport
      BY <2>2 DEF LocalTypeOK, SessionInv, Select, EndSession
    <3>2. initialized' = {} /\ bootstrapped' = {}
      BY <2>2 DEF LocalTypeOK, SessionInv, Select
    <3> QED
      BY <2>2, <3>1, <3>2 DEF LocalTypeOK, SessionInv, Select
  <2> QED
    BY <2>1, <2>2
<1>4. CallsInv'
  BY DEF LocalTypeOK, CallsInv, SessionInv, Select, loaderVars
<1> QED
  BY <1>1, <1>2, <1>3, <1>4

\* A download ends: no transport or session changes.
LEMMA DownloadKeeps ==
    ASSUME LocalInv, NEW k \in Loads, Ends(k)
    PROVE  LocalInv'
<1> USE LocalAssumption
<1>0. LocalTypeOK /\ LoaderInv /\ SessionInv /\ CallsInv
  BY DEF LocalInv
<1>1. UNCHANGED <<transportVars, calls, session>>
  BY DEF Ends, ScriptRuns, ScriptFails, TimesOut, Forgets
<1>2. PICK outcome \in {"fulfilled", "late", "failed", "expired"} :
         /\ load' = [load EXCEPT ![k] = outcome]
         /\ \/ load[k] = "pending" /\ outcome = "fulfilled" /\ memo' = memo
            \/ load[k] = "expired" /\ outcome = "late" /\ memo' = memo
            \/ load[k] = "pending" /\ outcome \in {"failed", "expired"} /\ memo' = 0
  BY <1>0 DEF Ends, ScriptRuns, ScriptFails, TimesOut, Forgets, LocalTypeOK
<1>3. load' \in [Loads -> LoadType]
  BY <1>0, <1>2 DEF LocalTypeOK, LoadType
<1>4. LocalTypeOK'
  BY <1>0, <1>1, <1>2, <1>3 DEF LocalTypeOK, transportVars
<1>5. load'[k] = outcome /\ \A j \in Loads : j # k => load'[j] = load[j]
  BY <1>0, <1>2 DEF LocalTypeOK
<1>6. \A t \in Transports : runtimeOf[t] # 0 => runtimeOf[t] \in Loads
  <2>1. runtimeOf \in [Transports -> 0..MaxLoads] /\ MaxLoads \in Nat
    BY <1>0 DEF LocalTypeOK
  <2> QED
    BY <2>1 DEF Loads
<1>7. memo # 0 => memo \in Loads
  <2>1. memo \in 0..MaxLoads /\ MaxLoads \in Nat
    BY <1>0 DEF LocalTypeOK
  <2> QED
    BY <2>1 DEF Loads
<1>8. LoaderInv'
  BY <1>0, <1>1, <1>2, <1>5, <1>6, <1>7 DEF LoaderInv, transportVars
<1>9. SessionInv' /\ CallsInv'
  BY <1>0, <1>1 DEF SessionInv, CallsInv, transportVars
<1> QED
  BY <1>4, <1>8, <1>9 DEF LocalInv

\* runtime.initialize by the mounted transport, on the runtime it holds.
LEMMA InitializeKeeps ==
    ASSUME LocalTypeOK, SessionInv, NEW t \in Transports, NEW r \in Loads, t = mounted,
           InitializeSession(t, r),
           mounted' = mounted, released' = released, bootstrapped' = bootstrapped,
           runtimeOf' = [runtimeOf EXCEPT ![t] = r],
           runtimeOf[t] # 0 => runtimeOf[t] = r
    PROVE  /\ initialized' \subseteq Transports
           /\ session' \in [Loads -> Transports \cup {NoTransport}]
           /\ SessionInv'
<1> USE LocalAssumption
<1>1. CASE t \in initialized \/ t \notin Matching
  BY <1>1 DEF LocalTypeOK, SessionInv, InitializeSession, Loads
<1>2. CASE ~(t \in initialized \/ t \notin Matching)
  <2>1. /\ initialized' = initialized \cup {t}
        /\ session' = [session EXCEPT ![r] = t]
    BY <1>2 DEF InitializeSession
  <2>2. initialized = {}
    BY <1>2 DEF SessionInv
  <2>3. \A j \in Loads : session[j] = NoTransport
    BY <1>2 DEF SessionInv
  <2> QED
    BY <2>1, <2>2, <2>3 DEF LocalTypeOK, SessionInv, Loads
<1> QED
  BY <1>1, <1>2

\* A call of the mounted transport begins.
LEMMA BeginKeepsCalls ==
    ASSUME LocalTypeOK, CallsInv, NEW c \in Calls, NEW kind \in {"bootstrap", "request"},
           NEW at \in {"load", "initialize", "answers"}, NEW k \in 0..MaxLoads,
           Begins(c, kind, at, k), mounted # NoTransport,
           at = "load" => k \in Loads, at # "load" => runtimeOf[mounted] # 0,
           mounted' = mounted, released' = released, runtimeOf' = runtimeOf
    PROVE  calls' \in [Calls -> CallType] /\ CallsInv'
<1> DEFINE begun == [transport |-> mounted, kind |-> kind, at |-> at,
                     load |-> k, aborted |-> FALSE]
<1>1. calls' = [calls EXCEPT ![c] = begun]
  BY DEF Begins
<1>2. begun \in CallType
  BY DEF LocalTypeOK, CallType
<1>3. calls' \in [Calls -> CallType]
  BY <1>1, <1>2 DEF LocalTypeOK
<1>4. calls'[c] = begun /\ \A d \in Calls : d # c => calls'[d] = calls[d]
  BY <1>1 DEF LocalTypeOK
<1>5. mounted \in Transports
  BY DEF LocalTypeOK
<1> QED
  BY <1>3, <1>4, <1>5 DEF CallsInv

\* A call moves on within its transport.
LEMMA MoveKeepsCalls ==
    ASSUME LocalTypeOK, CallsInv, NEW c \in Calls, NEW at \in {"initialize", "answers"},
           Moves(c, at), calls[c].at \in {"load", "initialize"},
           runtimeOf'[calls[c].transport] # 0,
           mounted' = mounted, released' = released,
           \A t \in Transports : runtimeOf[t] # 0 => runtimeOf'[t] # 0
    PROVE  calls' \in [Calls -> CallType] /\ CallsInv'
<1>1. calls'[c] = [calls[c] EXCEPT !.at = at] /\ \A d \in Calls : d # c => calls'[d] = calls[d]
  BY DEF LocalTypeOK, Moves
<1>2. calls[c] \in CallType
  BY DEF LocalTypeOK
<1>3. /\ calls'[c] \in CallType /\ calls'[c].at = at
      /\ calls'[c].transport = calls[c].transport
  BY <1>1, <1>2 DEF CallType
<1>4. calls' \in [Calls -> CallType]
  BY <1>3 DEF LocalTypeOK, Moves
<1> QED
  BY <1>1, <1>3, <1>4 DEF CallsInv

\* A call settles.
LEMMA SettleKeepsCalls ==
    ASSUME LocalTypeOK, CallsInv, NEW c \in Calls, Settle(c),
           mounted' = mounted, released' = released,
           \A t \in Transports : runtimeOf[t] # 0 => runtimeOf'[t] # 0
    PROVE  calls' \in [Calls -> CallType] /\ CallsInv'
<1> USE LocalAssumption
<1>1. Settled \in CallType /\ Settled.at = "settled"
  <2>1. Idle \in CallType
    BY DEF Idle, CallType
  <2> QED
    BY <2>1 DEF Settled, CallType
<1>2. calls'[c] = Settled /\ \A d \in Calls : d # c => calls'[d] = calls[d]
  BY DEF LocalTypeOK, Settle
<1>3. calls' \in [Calls -> CallType]
  BY <1>1 DEF LocalTypeOK, Settle
<1> QED
  BY <1>1, <1>2, <1>3 DEF CallsInv

\* A call begins with the download, which it may be the one to start.
LEMMA BootstrapLoadsKeeps ==
    ASSUME LocalInv, NEW c \in Calls, BootstrapLoads(c)
    PROVE  LocalInv'
<1> USE LocalAssumption
<1>0. LocalTypeOK /\ LoaderInv /\ SessionInv /\ CallsInv
  BY DEF LocalInv
<1>1. UNCHANGED <<transportVars, session>> /\ mounted # NoTransport
  BY DEF BootstrapLoads
<1>2. memo' \in Loads /\ load' \in [Loads -> LoadType]
  <2>1. CASE memo # 0
    BY <2>1, <1>0 DEF BootstrapLoads, LoadRuntime, LocalTypeOK, Loads
  <2>2. CASE memo = 0
    BY <2>2, <1>0 DEF BootstrapLoads, LoadRuntime, LocalTypeOK, LoadType
  <2> QED
    BY <2>1, <2>2
<1>3. LoaderInv'
  <2>1. CASE memo # 0
    BY <2>1, <1>0, <1>1 DEF BootstrapLoads, LoadRuntime, LoaderInv, transportVars
  <2>2. CASE memo = 0
    <3>1. PICK k \in Loads : load[k] = "none" /\ memo' = k
                             /\ load' = [load EXCEPT ![k] = "pending"]
      BY <2>2 DEF BootstrapLoads, LoadRuntime
    <3>2. load'[k] = "pending" /\ \A j \in Loads : j # k => load'[j] = load[j]
      BY <1>0, <3>1 DEF LocalTypeOK
    <3>3. \A j \in Loads : load[j] \notin {"pending", "fulfilled"}
      BY <1>0, <2>2 DEF LoaderInv, Loads
    <3>4. \A t \in Transports : runtimeOf[t] = 0
      BY <1>0, <3>3 DEF LocalTypeOK, LoaderInv, Loads
    <3> QED
      BY <1>1, <3>1, <3>2, <3>3, <3>4 DEF LoaderInv, transportVars
  <2> QED
    BY <2>1, <2>2
<1>4. calls' \in [Calls -> CallType] /\ CallsInv'
  <2>1. Begins(c, "bootstrap", "load", memo') /\ memo' \in 0..MaxLoads
    BY <1>2 DEF BootstrapLoads, Loads
  <2> QED
    BY <1>0, <1>1, <1>2, <2>1, BeginKeepsCalls DEF transportVars
<1>5. LocalTypeOK'
  BY <1>0, <1>1, <1>2, <1>4 DEF LocalTypeOK, transportVars, Loads
<1>6. SessionInv'
  BY <1>0, <1>1 DEF SessionInv, transportVars
<1> QED
  BY <1>3, <1>4, <1>5, <1>6 DEF LocalInv

\* A call of a transport that has its runtime asks for the session first.
LEMMA BootstrapAgainKeeps ==
    ASSUME LocalInv, NEW c \in Calls, BootstrapAgain(c)
    PROVE  LocalInv'
<1> USE LocalAssumption
<1>0. LocalTypeOK /\ LoaderInv /\ SessionInv /\ CallsInv
  BY DEF LocalInv
<1>1. /\ mounted \in Transports /\ runtimeOf[mounted] \in Loads
      /\ UNCHANGED <<mounted, released, runtimeOf, bootstrapped, loaderVars>>
      /\ runtimeOf' = [runtimeOf EXCEPT ![mounted] = runtimeOf[mounted]]
  BY <1>0 DEF BootstrapAgain, LocalTypeOK, Loads
<1>2. /\ initialized' \subseteq Transports
      /\ session' \in [Loads -> Transports \cup {NoTransport}]
      /\ SessionInv'
  BY <1>0, <1>1, InitializeKeeps DEF BootstrapAgain
<1>3. calls' \in [Calls -> CallType] /\ CallsInv'
  <2>1. Begins(c, "bootstrap", "initialize", 0) /\ 0 \in 0..MaxLoads
        /\ runtimeOf[mounted] # 0 /\ mounted # NoTransport
    BY DEF BootstrapAgain
  <2> QED
    BY <1>0, <1>1, <2>1, BeginKeepsCalls
<1>4. LocalTypeOK'
  BY <1>0, <1>1, <1>2, <1>3 DEF LocalTypeOK, loaderVars
<1>5. LoaderInv'
  BY <1>0, <1>1 DEF LoaderInv, loaderVars
<1> QED
  BY <1>2, <1>3, <1>4, <1>5 DEF LocalInv

\* The download arrives: its transport has the runtime of the one fulfilled load, and
\* goes on unless it was released or its caller gave up.
LEMMA RuntimeArrivesKeeps ==
    ASSUME LocalInv, NEW c \in Calls, RuntimeArrives(c)
    PROVE  LocalInv'
<1> USE LocalAssumption
<1> DEFINE t == calls[c].transport
           r == calls[c].load
<1>0. LocalTypeOK /\ LoaderInv /\ SessionInv /\ CallsInv
  BY DEF LocalInv
<1>1. /\ calls[c].at = "load" /\ load[r] = "fulfilled"
      /\ runtimeOf' = [runtimeOf EXCEPT ![t] = r]
      /\ UNCHANGED <<mounted, released, bootstrapped, loaderVars>>
      /\ \/ Open(c) /\ InitializeSession(t, r) /\ Moves(c, "initialize")
         \/ ~Open(c) /\ UNCHANGED <<initialized, session>> /\ Settle(c)
  BY DEF RuntimeArrives, RuntimeOfLoad
<1>2. t \in Transports /\ (t = mounted \/ t \in released) /\ r \in Loads
  BY <1>0, <1>1 DEF CallsInv
<1>3. \A u \in Transports : runtimeOf[u] # 0 => runtimeOf[u] = r
  <2>1. runtimeOf \in [Transports -> 0..MaxLoads] /\ MaxLoads \in Nat
    BY <1>0 DEF LocalTypeOK
  <2>2. \A u \in Transports : runtimeOf[u] # 0 => runtimeOf[u] \in Loads
    BY <2>1 DEF Loads
  <2> QED
    BY <1>0, <1>1, <1>2, <2>2 DEF LoaderInv
<1>4. r # 0 /\ runtimeOf'[t] = r /\ \A u \in Transports : u # t => runtimeOf'[u] = runtimeOf[u]
  BY <1>0, <1>1, <1>2 DEF LocalTypeOK, Loads
<1>5. runtimeOf' \in [Transports -> 0..MaxLoads]
  BY <1>0, <1>1, <1>2 DEF LocalTypeOK, Loads
<1>6. LoaderInv'
  BY <1>0, <1>1, <1>2, <1>4 DEF LoaderInv, loaderVars
<1>7. /\ initialized' \subseteq Transports
      /\ session' \in [Loads -> Transports \cup {NoTransport}]
      /\ SessionInv'
  <2>1. CASE Open(c) /\ InitializeSession(t, r)
    <3>1. t = mounted
      BY <1>2, <2>1 DEF Open
    <3> QED
      BY <1>0, <1>1, <1>2, <1>3, <2>1, <3>1, InitializeKeeps
  <2>2. CASE UNCHANGED <<initialized, session>>
    <3>1. \A u \in initialized : runtimeOf'[u] = runtimeOf[u]
      BY <1>0, <1>3, <1>4 DEF LocalTypeOK, SessionInv
    <3> QED
      BY <1>0, <1>1, <2>2, <3>1 DEF LocalTypeOK, SessionInv
  <2> QED
    BY <1>1, <2>1, <2>2
<1>8. calls' \in [Calls -> CallType] /\ CallsInv'
  <2>1. \A u \in Transports : runtimeOf[u] # 0 => runtimeOf'[u] # 0
    BY <1>4
  <2>2. CASE Moves(c, "initialize")
    BY <1>0, <1>1, <1>4, <2>1, <2>2, MoveKeepsCalls
  <2>3. CASE Settle(c)
    BY <1>0, <1>1, <2>1, <2>3, SettleKeepsCalls
  <2> QED
    BY <1>1, <2>2, <2>3
<1>9. LocalTypeOK'
  BY <1>0, <1>1, <1>5, <1>7, <1>8 DEF LocalTypeOK, loaderVars
<1> QED
  BY <1>6, <1>7, <1>8, <1>9 DEF LocalInv

\* The other steps of a call leave the loader, the session and the transports alone,
\* but that an answer may complete a handshake.
LEMMA OtherStepsKeep ==
    ASSUME LocalInv, NEW c \in Calls,
           LoadRejects(c) \/ Initialized(c) \/ Answers(c) \/ AnswerFails(c)
               \/ Request(c) \/ Abort(c)
    PROVE  LocalInv'
<1> USE LocalAssumption
<1>0. LocalTypeOK /\ LoaderInv /\ SessionInv /\ CallsInv
  BY DEF LocalInv
<1>1. UNCHANGED <<mounted, released, runtimeOf, initialized, session, loaderVars>>
  BY DEF LoadRejects, Initialized, Answers, AnswerFails, Request, Abort, transportVars
<1>2. bootstrapped' \subseteq initialized
  <2>1. CASE Answers(c)
    <3>1. runtimeOf[calls[c].transport] \in Loads /\ calls[c].transport \in Transports
      <4>1. runtimeOf[calls[c].transport] # 0 /\ calls[c].transport \in Transports
        BY <1>0, <2>1 DEF CallsInv, Answers
      <4>2. runtimeOf \in [Transports -> 0..MaxLoads] /\ MaxLoads \in Nat
        BY <1>0 DEF LocalTypeOK
      <4> QED
        BY <4>1, <4>2 DEF Loads
    <3>2. calls[c].transport \in initialized
      BY <1>0, <2>1, <3>1 DEF SessionInv, Answers
    <3> QED
      BY <1>0, <2>1, <3>2 DEF SessionInv, Answers
  <2>2. CASE ~Answers(c)
    BY <1>0, <2>2 DEF SessionInv, LoadRejects, Initialized, AnswerFails, Request, Abort,
       transportVars
  <2> QED
    BY <2>1, <2>2
<1>3. SessionInv' /\ LoaderInv'
  BY <1>0, <1>1, <1>2 DEF SessionInv, LoaderInv, loaderVars
<1>4. calls' \in [Calls -> CallType] /\ CallsInv'
  <2>1. CASE Settle(c)
    BY <1>0, <1>1, <2>1, SettleKeepsCalls
  <2>2. CASE Initialized(c) /\ ~Settle(c)
    <3>1. Moves(c, "answers") /\ calls[c].at = "initialize"
          /\ runtimeOf[calls[c].transport] # 0
      BY <1>0, <2>2 DEF Initialized, CallsInv
    <3> QED
      BY <1>0, <1>1, <3>1, MoveKeepsCalls
  <2>3. CASE Request(c)
    <3>1. mounted # NoTransport /\ runtimeOf[mounted] # 0
          /\ Begins(c, "request", "answers", 0) /\ 0 \in 0..MaxLoads
      BY <1>0, <2>3 DEF Request, SessionInv, LocalTypeOK
    <3> QED
      BY <1>0, <1>1, <3>1, BeginKeepsCalls
  <2>4. CASE Abort(c)
    <3>1. calls'[c] = [calls[c] EXCEPT !.aborted = TRUE]
          /\ \A d \in Calls : d # c => calls'[d] = calls[d]
      BY <1>0, <2>4 DEF LocalTypeOK, Abort
    <3>2. calls[c] \in CallType
      BY <1>0 DEF LocalTypeOK
    <3>3. /\ calls'[c] \in CallType /\ calls'[c].at = calls[c].at
          /\ calls'[c].transport = calls[c].transport /\ calls'[c].load = calls[c].load
      BY <3>1, <3>2 DEF CallType
    <3>4. calls' \in [Calls -> CallType]
      BY <1>0, <2>4, <3>3 DEF LocalTypeOK, Abort
    <3> QED
      BY <1>0, <1>1, <3>1, <3>3, <3>4 DEF CallsInv
  <2> QED
    BY <2>1, <2>2, <2>3, <2>4 DEF LoadRejects, Answers, AnswerFails
<1>5. LocalTypeOK'
  BY <1>0, <1>1, <1>2, <1>4 DEF LocalTypeOK, loaderVars
<1> QED
  BY <1>3, <1>4, <1>5 DEF LocalInv

\* The inductive invariant, for any number of transports, calls and downloads.
THEOREM LocalInvariant == Spec => []LocalInv
<1>1. LocalInv /\ [Next]_vars => LocalInv'
  <2> SUFFICES ASSUME LocalInv, [Next]_vars PROVE LocalInv'
    OBVIOUS
  <2>1. CASE UNCHANGED vars
    BY <2>1 DEF vars, transportVars, loaderVars, LocalInv, LocalTypeOK, LoaderInv,
       SessionInv, CallsInv
  <2>2. CASE Next
    BY <2>2, SelectKeeps, DownloadKeeps, BootstrapLoadsKeeps, BootstrapAgainKeeps,
       RuntimeArrivesKeeps, OtherStepsKeep DEF Next, Resumes
  <2> QED
    BY <2>1, <2>2
<1> QED
  BY <1>1, InitLocal, PTL DEF Spec

\* The session is that of whoever reported readiness and was not released
\* (datascript-profile-transport.mjs, bootstrap and release).
THEOREM ReadyTransportHasSession == Spec => []ReadyHasSession
<1>1. LocalInv => ReadyHasSession
  BY DEF LocalInv, SessionInv, ReadyHasSession
<1> QED
  BY <1>1, LocalInvariant, PTL

\* All transports of the page hold the same runtime (datascript-runtime-loader.mjs).
THEOREM PageHasOneRuntime == Spec => []OneRuntime
<1>1. LocalInv => OneRuntime
  <2> SUFFICES ASSUME LocalInv PROVE OneRuntime
    OBVIOUS
  <2>1. runtimeOf \in [Transports -> 0..MaxLoads] /\ MaxLoads \in Nat
    BY LocalAssumption DEF LocalInv, LocalTypeOK
  <2>2. \A t \in Transports : runtimeOf[t] # 0 => runtimeOf[t] \in Loads
    BY <2>1 DEF Loads
  <2>3. \A t \in Transports : runtimeOf[t] # 0 => runtimeOf[t] = memo
    BY <2>2 DEF LocalInv, LoaderInv
  <2> QED
    BY <2>3 DEF OneRuntime
<1> QED
  BY <1>1, LocalInvariant, PTL

-----------------------------------------------------------------------------
\* The session is held by the mounted transport or by none.
HolderInv == Holder = IF mounted \in initialized THEN mounted ELSE NoTransport
LEMMA HolderIsMounted == LocalInv => HolderInv
<1> SUFFICES ASSUME LocalInv PROVE HolderInv
  OBVIOUS
<1> USE LocalAssumption DEF LocalInv, HolderInv
<1>1. CASE \A r \in Loads : session[r] = NoTransport
  <2>1. mounted \notin initialized
    <3> SUFFICES ASSUME mounted \in initialized PROVE FALSE
      OBVIOUS
    <3>1. /\ mounted \in Transports /\ runtimeOf[mounted] # 0
          /\ session[runtimeOf[mounted]] = mounted
      BY DEF LocalTypeOK, SessionInv
    <3>2. runtimeOf \in [Transports -> 0..MaxLoads] /\ MaxLoads \in Nat
      BY DEF LocalTypeOK
    <3>3. runtimeOf[mounted] \in Loads
      BY <3>1, <3>2 DEF Loads
    <3> QED
      BY <1>1, <3>1, <3>3
  <2> QED
    BY <1>1, <2>1 DEF Holder
<1>2. CASE ~ \A r \in Loads : session[r] = NoTransport
  <2> DEFINE r == CHOOSE r \in Loads : session[r] # NoTransport
  <2>1. r \in Loads /\ session[r] # NoTransport
    BY <1>2
  <2>2. session[r] = mounted /\ mounted \in initialized
    BY <2>1 DEF SessionInv
  <2> QED
    BY <1>2, <2>2 DEF Holder
<1> QED
  BY <1>1, <1>2

\* The transports implement TransportLease: the session is taken only while nobody
\* holds it, leaves with its holder, and never returns to a released transport.
THEOREM HoldsTheLease == Spec => HoldsSession
<1> USE LocalAssumption
<1>1. Init => Lease!LeaseInit
  BY DEF Init, Lease!LeaseInit, Holder
<1>2. LocalInv /\ HolderInv /\ HolderInv' /\ [Next]_vars => [Lease!LeaseNext]_(Lease!leaseVars)
  <2> SUFFICES ASSUME LocalInv, HolderInv, HolderInv', [Next]_vars
               PROVE  [Lease!LeaseNext]_(Lease!leaseVars)
    OBVIOUS
  <2>1. Holder = IF mounted \in initialized THEN mounted ELSE NoTransport
    BY DEF HolderInv
  <2>2. Holder' = IF mounted' \in initialized' THEN mounted' ELSE NoTransport
    BY DEF HolderInv
  <2>3. CASE \E t \in Transports \cup {NoTransport} : Select(t)
    <3>1. Holder' = NoTransport
      <4>1. initialized' = {} \/ mounted' \notin initialized'
        BY <2>3 DEF Select, LocalInv, SessionInv, LocalTypeOK
      <4> QED
        BY <2>2, <4>1
    <3>2. CASE mounted = NoTransport
      BY <2>1, <2>3, <3>1, <3>2 DEF Select, Lease!leaseVars, LocalInv, LocalTypeOK
    <3>3. CASE mounted # NoTransport /\ mounted \in initialized
      BY <2>1, <2>3, <3>1, <3>3 DEF Select, Lease!LeaseNext, Lease!Retire
    <3>4. CASE mounted # NoTransport /\ mounted \notin initialized
      <4>1. mounted \in Transports \ released /\ released' = released \cup {mounted}
        BY <2>3, <3>4 DEF Select, LocalInv, LocalTypeOK, SessionInv
      <4>2. Lease!Reject(mounted)
        BY <2>1, <3>1, <3>4, <4>1 DEF Lease!Reject
      <4> QED
        BY <4>1, <4>2 DEF Lease!LeaseNext
    <3> QED
      BY <3>2, <3>3, <3>4
  <2>4. ASSUME mounted' = mounted, released' = released,
               initialized' = initialized \/ (mounted \in Transports \ released
                                                 /\ initialized' \subseteq initialized \cup {mounted}
                                                 /\ initialized \subseteq initialized')
        PROVE  [Lease!LeaseNext]_(Lease!leaseVars)
    <3>1. CASE Holder' = Holder
      BY <2>4, <3>1 DEF Lease!leaseVars
    <3>2. CASE Holder' # Holder
      <4>1. Holder = NoTransport /\ Holder' = mounted /\ mounted \in Transports \ released
        BY <2>1, <2>2, <2>4, <3>2
      <4>2. Lease!Acquire(mounted)
        BY <2>4, <4>1 DEF Lease!Acquire
      <4> QED
        BY <4>1, <4>2 DEF Lease!LeaseNext
    <3> QED
      BY <3>1, <3>2
  <2>5. CASE UNCHANGED vars
    BY <2>4, <2>5 DEF vars, transportVars
  <2>6. CASE \E k \in Loads : Ends(k)
    BY <2>4, <2>6 DEF Ends, ScriptRuns, ScriptFails, TimesOut, Forgets, transportVars
  <2>7. ASSUME NEW c \in Calls, BootstrapAgain(c)
        PROVE  [Lease!LeaseNext]_(Lease!leaseVars)
    BY <2>4, <2>7 DEF BootstrapAgain, InitializeSession, LocalInv, LocalTypeOK, SessionInv
  <2>8. ASSUME NEW c \in Calls, RuntimeArrives(c)
        PROVE  [Lease!LeaseNext]_(Lease!leaseVars)
    <3>1. calls[c].transport \in Transports
          /\ (calls[c].transport = mounted \/ calls[c].transport \in released)
      BY <2>8 DEF RuntimeArrives, LocalInv, CallsInv
    <3>2. CASE Open(c)
      BY <2>4, <2>8, <3>1, <3>2 DEF RuntimeArrives, InitializeSession, Open
    <3>3. CASE ~Open(c)
      BY <2>4, <2>8, <3>3 DEF RuntimeArrives
    <3> QED
      BY <3>2, <3>3
  <2>9. ASSUME NEW c \in Calls,
               BootstrapLoads(c) \/ LoadRejects(c) \/ Initialized(c) \/ Answers(c)
                   \/ AnswerFails(c) \/ Request(c) \/ Abort(c)
        PROVE  [Lease!LeaseNext]_(Lease!leaseVars)
    BY <2>4, <2>9 DEF BootstrapLoads, LoadRejects, Initialized, Answers, AnswerFails,
       Request, Abort, transportVars
  <2> QED
    BY <2>3, <2>5, <2>6, <2>7, <2>8, <2>9 DEF Next, Resumes
<1> QED
  BY <1>1, <1>2, LocalInvariant, HolderIsMounted, PTL DEF Spec, HoldsSession, Lease!LeaseSpec
-----------------------------------------------------------------------------
(* Why calls settle: what they wait for was begun, and they never go back.  *)

\* A call that awaits a download awaits one that was begun: it is pending, and its timer
\* is running, or what became of it lets the call resume.
DownloadBegun ==
    \A c \in Calls : calls[c].at = "load" =>
        calls[c].load \in Loads /\ load[calls[c].load] # "none"

\* The order of the places a call is in.
Stage(at) == CASE at = "idle" -> 0 [] at = "load" -> 1 [] at = "initialize" -> 2
               [] at = "answers" -> 3 [] at = "settled" -> 4

\* A call only goes on to a later place.
CallsAdvance ==
    [][\A c \in Calls : calls'[c].at # calls[c].at => Stage(calls'[c].at) > Stage(calls[c].at)]_vars

\* What a step does to the downloads: one that was begun stays begun.
LEMMA BegunStays ==
    ASSUME LocalInv, [Next]_vars, NEW k \in Loads, load[k] # "none"
    PROVE  load'[k] # "none"
<1>0. load \in [Loads -> LoadType]
  BY DEF LocalInv, LocalTypeOK
<1>1. ASSUME NEW j \in Loads, Ends(j) PROVE load'[k] # "none"
  BY <1>0, <1>1 DEF Ends, ScriptRuns, ScriptFails, TimesOut, Forgets
<1>2. ASSUME NEW c \in Calls, BootstrapLoads(c) PROVE load'[k] # "none"
  BY <1>0, <1>2 DEF BootstrapLoads, LoadRuntime
<1>3. ASSUME NEW c \in Calls, BootstrapAgain(c) \/ Request(c) \/ Abort(c) \/ Resumes(c)
      PROVE  UNCHANGED load
  BY <1>3 DEF BootstrapAgain, Request, Abort, Resumes, RuntimeArrives, LoadRejects,
     Initialized, Answers, AnswerFails, loaderVars
<1>4. ASSUME NEW t, Select(t) PROVE UNCHANGED load
  BY <1>4 DEF Select, loaderVars
<1> QED
  BY <1>1, <1>2, <1>3, <1>4 DEF Next, vars, loaderVars

\* What a step may do to a call.
CallMoves(c) ==
    \/ calls'[c].at = calls[c].at /\ calls'[c].load = calls[c].load
    \/ /\ calls[c].at = "idle" /\ calls'[c].at = "load"
       /\ calls'[c].load \in Loads /\ load'[calls'[c].load] # "none"
    \/ calls[c].at = "idle" /\ calls'[c].at \in {"initialize", "answers"}
    \/ calls[c].at = "load" /\ calls'[c].at \in {"initialize", "settled"}
    \/ calls[c].at = "initialize" /\ calls'[c].at \in {"answers", "settled"}
    \/ calls[c].at = "answers" /\ calls'[c].at = "settled"

LEMMA CallStep ==
    ASSUME LocalInv, [Next]_vars, NEW c \in Calls
    PROVE  CallMoves(c)
<1>0. /\ calls \in [Calls -> CallType] /\ load \in [Loads -> LoadType]
      /\ memo \in 0..MaxLoads /\ calls[c] \in CallType
      /\ memo # 0 => load[memo] \in {"pending", "fulfilled"}
  BY DEF LocalInv, LocalTypeOK, LoaderInv
<1>1. CASE UNCHANGED calls
  BY <1>1 DEF CallMoves
<1>2. ASSUME NEW d \in Calls, BootstrapLoads(d) PROVE CallMoves(c)
  <2>1. memo' \in Loads /\ load'[memo'] # "none"
    BY <1>0, <1>2, LocalAssumption DEF BootstrapLoads, LoadRuntime, Loads
  <2>2. /\ calls' = [calls EXCEPT ![d] = [transport |-> mounted, kind |-> "bootstrap",
                                         at |-> "load", load |-> memo', aborted |-> FALSE]]
        /\ calls[d] = Idle
    BY <1>2 DEF BootstrapLoads, Begins
  <2> QED
    BY <1>0, <2>1, <2>2 DEF Idle, CallMoves
<1>3. ASSUME NEW d \in Calls, BootstrapAgain(d) PROVE CallMoves(c)
  BY <1>0, <1>3 DEF BootstrapAgain, Begins, Idle, CallMoves
<1>4. ASSUME NEW d \in Calls, Request(d) PROVE CallMoves(c)
  BY <1>0, <1>4 DEF Request, Begins, Idle, CallMoves
<1>5. ASSUME NEW d \in Calls, Abort(d) PROVE CallMoves(c)
  BY <1>0, <1>5 DEF Abort, CallType, CallMoves
<1>6. ASSUME NEW d \in Calls, Settle(d), calls[d].at \in {"load", "initialize", "answers"}
      PROVE  CallMoves(c)
  <2>1. Settled.at = "settled"
    BY DEF Settled, Idle
  <2>2. calls'[d] = Settled /\ (c # d => calls'[c] = calls[c])
    BY <1>0, <1>6 DEF Settle
  <2>3. CASE c = d
    BY <1>6, <2>1, <2>2, <2>3 DEF CallMoves
  <2>4. CASE c # d
    BY <2>2, <2>4 DEF CallMoves
  <2> QED
    BY <2>3, <2>4
<1>7. ASSUME NEW d \in Calls, NEW to \in {"initialize", "answers"}, Moves(d, to),
             calls[d].at = IF to = "initialize" THEN "load" ELSE "initialize"
      PROVE  CallMoves(c)
  <2>1. calls'[d] = [calls[d] EXCEPT !.at = to] /\ (c # d => calls'[c] = calls[c])
    BY <1>0, <1>7 DEF Moves
  <2>2. CASE c = d
    <3>1. calls'[c].at = to
      BY <1>0, <2>1, <2>2 DEF CallType
    <3> QED
      BY <1>7, <2>2, <3>1 DEF CallMoves
  <2>3. CASE c # d
    BY <2>1, <2>3 DEF CallMoves
  <2> QED
    BY <2>2, <2>3
<1>8. ASSUME NEW d \in Calls, Resumes(d) PROVE CallMoves(c)
  <2>1. \/ Settle(d) /\ calls[d].at \in {"load", "initialize", "answers"}
        \/ calls[d].at = "load" /\ Moves(d, "initialize")
        \/ calls[d].at = "initialize" /\ Moves(d, "answers")
    BY <1>8 DEF Resumes, RuntimeArrives, LoadRejects, Initialized, Answers, AnswerFails
  <2>2. CASE Settle(d) /\ calls[d].at \in {"load", "initialize", "answers"}
    BY <1>6, <2>2
  <2>3. CASE calls[d].at = "load" /\ Moves(d, "initialize")
    BY <1>7, <2>3
  <2>4. CASE calls[d].at = "initialize" /\ Moves(d, "answers")
    BY <1>7, <2>4
  <2> QED
    BY <2>1, <2>2, <2>3, <2>4
<1>9. ASSUME NEW k \in Loads, Ends(k) PROVE UNCHANGED calls
  BY <1>9 DEF Ends, ScriptRuns, ScriptFails, TimesOut, Forgets
<1>10. ASSUME NEW t, Select(t) PROVE UNCHANGED calls
  BY <1>10 DEF Select
<1> QED
  BY <1>1, <1>2, <1>3, <1>4, <1>5, <1>8, <1>9, <1>10 DEF Next, vars

\* The safety core of CallsSettle: no call waits for a download that was never begun, so
\* that the timer, the script or its failure lets it resume, ...
THEOREM NoCallWaitsForNothing == Spec => []DownloadBegun
<1>1. Init => DownloadBegun
  BY DEF Init, DownloadBegun, Idle
<1>2. ASSUME LocalInv, DownloadBegun, [Next]_vars PROVE DownloadBegun'
  BY <1>2, CallStep, BegunStays DEF DownloadBegun, CallMoves
<1> QED
  BY <1>1, <1>2, LocalInvariant, PTL DEF Spec

\* ... and every step of a call brings it closer to its end.
THEOREM EveryCallAdvances == Spec => CallsAdvance
<1>1. ASSUME LocalInv, [Next]_vars
      PROVE  \A c \in Calls :
                 calls'[c].at # calls[c].at => Stage(calls'[c].at) > Stage(calls[c].at)
  <2>1. /\ Stage("idle") = 0 /\ Stage("load") = 1 /\ Stage("initialize") = 2
        /\ Stage("answers") = 3 /\ Stage("settled") = 4
    BY DEF Stage
  <2> QED
    BY <1>1, <2>1, CallStep DEF CallMoves
<1> QED
  BY <1>1, LocalInvariant, PTL DEF Spec, CallsAdvance
=============================================================================
