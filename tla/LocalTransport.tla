--------------------------- MODULE LocalTransport ---------------------------
(***************************************************************************)
(* packages/explorer-state: the DataScript profile transports of one page  *)
(* and the loader they share.  The application mounts a transport when its *)
(* profile is selected and releases it when another is.  A transport       *)
(* bootstraps by downloading the runtime - one script, whose promise the   *)
(* loader memoises -, by initializing a session in it under its own owner  *)
(* token, and by asking for its descriptor; requests follow.  Calls of one *)
(* transport overlap, and each looks again after an await whether the      *)
(* transport was released or its own signal aborted.                       *)
(*                                                                         *)
(* A script that runs brings a runtime instance, named by its load.  Of    *)
(* runtime.cljs (module DataScriptRuntime) only the owner of the session   *)
(* is kept: initialize! takes it from whomever, release! gives it up.      *)
(***************************************************************************)
EXTENDS Naturals, FiniteSets

CONSTANTS
    Transports,     \* the transports ever created
    NoTransport,
    Matching,       \* those whose profile matches the compiled runtime
    Calls,          \* calls of bootstrap and request
    MaxLoads        \* bound: downloads

ASSUME LocalAssumption ==
    NoTransport \notin Transports /\ Matching \subseteq Transports /\ MaxLoads \in Nat

VARIABLES
    mounted,        \* the transport of the selected profile
    released,       \* transports whose release was called
    runtimeOf,      \* transport -> the runtime it holds, 0 for none
    initialized,    \* transports whose initialization promise is set and not rejected
    bootstrapped,   \* transports whose handshake has completed
    calls,          \* where each call is suspended
    session,        \* runtime -> the owner of its session
    memo,           \* the load the loader remembers, 0 for none
    load,           \* what became of each load
    global          \* the runtime window.EaclDataScriptRuntime names
transportVars == <<mounted, released, runtimeOf, initialized, bootstrapped>>
loaderVars == <<memo, load, global>>
vars == <<transportVars, calls, session, loaderVars>>

Loads == 1..MaxLoads
Idle == [transport |-> NoTransport, kind |-> "none", at |-> "idle", load |-> 0, aborted |-> FALSE]

Init ==
    /\ mounted = NoTransport /\ released = {}
    /\ runtimeOf = [t \in Transports |-> 0]
    /\ initialized = {} /\ bootstrapped = {}
    /\ calls = [c \in Calls |-> Idle]
    /\ session = [r \in Loads |-> NoTransport]
    /\ memo = 0 /\ load = [k \in Loads |-> "none"] /\ global = 0

-----------------------------------------------------------------------------
(* The profile selector.                                                   *)

\* The owner gives its session up; a transport that has no runtime yet has none.
KeepSession(t) == UNCHANGED session
EndSession(t) == session' = [r \in Loads |-> IF session[r] = t THEN NoTransport ELSE session[r]]

\* The previous transport is released before the next one is mounted; NoTransport
\* stands for a profile of a server.
Select(t) ==
    /\ t # mounted /\ t \notin released /\ mounted' = t
    /\ IF mounted = NoTransport THEN UNCHANGED <<released, initialized, bootstrapped, session>>
       ELSE /\ released' = released \cup {mounted}
            /\ initialized' = initialized \ {mounted}
            /\ bootstrapped' = bootstrapped \ {mounted}
            /\ EndSession(mounted)
    /\ UNCHANGED <<runtimeOf, calls, loaderVars>>

-----------------------------------------------------------------------------
(* The loader.                                                             *)

\* The runtime a fulfilled load has is the global one at its load event, that of its
\* own script, and not whichever script ran last.
GlobalRuntime(k) == global
RuntimeOfLoad(k) == k

\* A download that is remembered is shared, also when it is done.
LoadRuntime ==
    IF memo # 0 THEN UNCHANGED <<memo, load>>
    ELSE \E k \in Loads :
        /\ load[k] = "none" /\ \A j \in Loads : j < k => load[j] # "none"
        /\ memo' = k /\ load' = [load EXCEPT ![k] = "pending"]

\* The script runs and its load event follows at once; the script of a download that
\* timed out was removed, but may still run, unheard.
ScriptRuns(k) ==
    /\ load[k] \in {"pending", "expired"}
    /\ load' = [load EXCEPT ![k] = IF @ = "pending" THEN "fulfilled" ELSE "late"]
    /\ global' = k
    /\ UNCHANGED <<transportVars, calls, session, memo>>

\* A download that failed is forgotten, so that a retry downloads again.
Forgets(k, outcome) ==
    /\ load[k] = "pending" /\ load' = [load EXCEPT ![k] = outcome]
    /\ memo' = 0
    /\ UNCHANGED <<transportVars, calls, session, global>>
ScriptFails(k) == Forgets(k, "failed")
NeverTimesOut(k) == FALSE /\ UNCHANGED vars
TimesOut(k) == Forgets(k, "expired")

-----------------------------------------------------------------------------
(* bootstrap() and request().                                              *)

Moves(c, to) == calls' = [calls EXCEPT ![c].at = to]
Settled == [Idle EXCEPT !.at = "settled"]
Settle(c) == calls' = [calls EXCEPT ![c] = Settled]
\* assertOpen and throwIfAborted.
OpenUnlessAborted(c) == ~calls[c].aborted
Open(c) == calls[c].transport \notin released /\ ~calls[c].aborted

\* runtime.initialize, once for a transport; it rejects what it was not compiled for.
\* ("initialization" is undefined again before anyone resumes from a rejection.)
InitializeSession(t, r) ==
    IF t \in initialized \/ t \notin Matching THEN UNCHANGED <<initialized, session>>
    ELSE /\ initialized' = initialized \cup {t}
         /\ session' = [session EXCEPT ![r] = t]

Begins(c, kind, at, k) ==
    /\ calls[c] = Idle
    /\ calls' = [calls EXCEPT ![c] = [transport |-> mounted, kind |-> kind, at |-> at,
                                      load |-> k, aborted |-> FALSE]]

\* To the first await: of the download, or of the session's initialization.
BootstrapLoads(c) ==
    /\ mounted # NoTransport /\ runtimeOf[mounted] = 0 /\ LoadRuntime
    /\ Begins(c, "bootstrap", "load", memo')
    /\ UNCHANGED <<transportVars, session, global>>
BootstrapAgain(c) ==
    /\ mounted # NoTransport /\ runtimeOf[mounted] # 0
    /\ Begins(c, "bootstrap", "initialize", 0)
    /\ InitializeSession(mounted, runtimeOf[mounted])
    /\ UNCHANGED <<mounted, released, runtimeOf, bootstrapped, loaderVars>>

\* The runtime is kept whatever happened meanwhile; the rest is not.
RuntimeArrives(c) ==
    LET t == calls[c].transport
        r == RuntimeOfLoad(calls[c].load)
    IN
    /\ calls[c].at = "load" /\ load[calls[c].load] = "fulfilled"
    /\ runtimeOf' = [runtimeOf EXCEPT ![t] = r]
    /\ IF Open(c) THEN InitializeSession(t, r) /\ Moves(c, "initialize")
       ELSE UNCHANGED <<initialized, session>> /\ Settle(c)
    /\ UNCHANGED <<mounted, released, bootstrapped, loaderVars>>
LoadRejects(c) ==
    /\ calls[c].at = "load" /\ load[calls[c].load] \in {"failed", "expired", "late"}
    /\ Settle(c)
    /\ UNCHANGED <<transportVars, session, loaderVars>>

Initialized(c) ==
    /\ calls[c].at = "initialize"
    /\ IF Open(c) /\ calls[c].transport \in Matching THEN Moves(c, "answers") ELSE Settle(c)
    /\ UNCHANGED <<transportVars, session, loaderVars>>

Request(c) ==
    /\ mounted \in bootstrapped /\ Begins(c, "request", "answers", 0)
    /\ UNCHANGED <<transportVars, session, loaderVars>>

\* The runtime answers the owner of its session.  A bootstrap asks twice, for the
\* descriptor and the health, of one captured runtime.
Answers(c) ==
    LET t == calls[c].transport IN
    /\ calls[c].at = "answers" /\ Open(c)
    /\ session[runtimeOf[t]] = t
    /\ bootstrapped' = IF calls[c].kind = "bootstrap" THEN bootstrapped \cup {t} ELSE bootstrapped
    /\ Settle(c)
    /\ UNCHANGED <<mounted, released, runtimeOf, initialized, session, loaderVars>>
\* The runtime could not be built, the session passed, or nobody waits any more.
AnswerFails(c) ==
    /\ calls[c].at = "answers" /\ Settle(c)
    /\ UNCHANGED <<transportVars, session, loaderVars>>

\* The caller's signal: superseded by a later request, or out of time.  (An answer that
\* finds it is one that fails.)
Abort(c) ==
    /\ calls[c].at \in {"load", "initialize"} /\ ~calls[c].aborted
    /\ calls' = [calls EXCEPT ![c].aborted = TRUE]
    /\ UNCHANGED <<transportVars, session, loaderVars>>

Resumes(c) ==
    RuntimeArrives(c) \/ LoadRejects(c) \/ Initialized(c) \/ Answers(c) \/ AnswerFails(c)
Ends(k) == ScriptRuns(k) \/ ScriptFails(k) \/ TimesOut(k)

Next ==
    \/ \E t \in Transports \cup {NoTransport} : Select(t)
    \/ \E k \in Loads : Ends(k)
    \/ \E c \in Calls :
          BootstrapLoads(c) \/ BootstrapAgain(c) \/ Request(c) \/ Abort(c) \/ Resumes(c)
Spec == Init /\ [][Next]_vars

\* The event loop resumes what can resume, and the timer of a download fires: no
\* script need ever run or fail.
FairSpec ==
    /\ Spec
    /\ \A c \in Calls : WF_vars(Resumes(c))
    /\ \A k \in Loads : WF_vars(TimesOut(k))
=============================================================================
