--------------------------- MODULE MCLocalTransport ---------------------------
(***************************************************************************)
(* Three DataScript transports of one page, the last for a profile that    *)
(* the compiled runtime refuses.                                           *)
(***************************************************************************)
EXTENDS LocalTransportProperties, TLC

CONSTANTS t1, t2, t3, c1, c2, c3
MCTransports == {t1, t2, t3}
MCMatching == {t1, t2}
MCCalls == {c1, c2, c3}
=============================================================================
