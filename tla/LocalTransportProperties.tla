----------------------- MODULE LocalTransportProperties -----------------------
(***************************************************************************)
(* What the page may rely on while DataScript profiles come and go.        *)
(***************************************************************************)
EXTENDS LocalTransport

\* However bootstraps overlap downloads, time-outs, retries and changes of the profile,
\* the sessions of the page are held as TransportLease promises: one transport at a
\* time, until it is released, and no transport holds one after its release, however
\* late its download arrives.
Holder == IF \A r \in Loads : session[r] = NoTransport THEN NoTransport
          ELSE session[CHOOSE r \in Loads : session[r] # NoTransport]
Lease == INSTANCE TransportLease WITH holder <- Holder, retired <- released
HoldsSession == Lease!LeaseSpec

\* A transport that has reported readiness has the session its requests are answered
\* from, until it is released: no other transport's initialization, retry or late
\* download takes it away.
ReadyHasSession == \A t \in bootstrapped : t = mounted /\ session[runtimeOf[t]] = t

\* One runtime serves the page: a transport never holds another instance than the one
\* before, although a script that was given up may run after its successor.
OneRuntime ==
    \A t, u \in Transports : (runtimeOf[t] # 0 /\ runtimeOf[u] # 0) => runtimeOf[t] = runtimeOf[u]

\* Every bootstrap and every request settles, also when the download hangs or the
\* transport is released while they wait.
CallsSettle == \A c \in Calls : calls[c].at # "idle" ~> calls[c].at = "settled"
=============================================================================
