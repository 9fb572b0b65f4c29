--------------------------- MODULE TransportLease ---------------------------
(***************************************************************************)
(* What the explorer controller promises about the profile transports it  *)
(* owns, and the DataScript transports about the runtime session, without  *)
(* epochs, promises or views: at most one transport is held at a time, a   *)
(* held transport leaves by being retired, a retired one never comes back, *)
(* and a transport is retired only once.                                   *)
(***************************************************************************)
CONSTANTS Transports,   \* every transport a factory may ever return
          NoTransport   \* none of them

VARIABLES holder,       \* the transport that operations are routed to
          retired       \* transports whose release has been called

leaseVars == <<holder, retired>>

LeaseInit == holder = NoTransport /\ retired = {}

\* A new transport is taken only while none is held.
Acquire(t) ==
    /\ holder = NoTransport
    /\ t \in Transports \ retired
    /\ holder' = t
    /\ UNCHANGED retired

\* The held transport is given up and released in the same step.
Retire ==
    /\ holder # NoTransport
    /\ holder' = NoTransport
    /\ retired' = retired \cup {holder}

\* A factory product that cannot serve is released without being held.
Reject(t) ==
    /\ holder = NoTransport
    /\ t \in Transports \ retired
    /\ retired' = retired \cup {t}
    /\ UNCHANGED holder

LeaseNext == Retire \/ \E t \in Transports : Acquire(t) \/ Reject(t)

LeaseSpec == LeaseInit /\ [][LeaseNext]_leaseVars
=============================================================================
