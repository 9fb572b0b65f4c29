-------------------------- MODULE MCSnapshotReader --------------------------
(***************************************************************************)
(* An instance of SnapshotReader for TLC: more requests than permits, one  *)
(* of them for a date, and closes enough for one whose snapshot release    *)
(* fails, one whose connection release fails and one that succeeds.        *)
(***************************************************************************)
EXTENDS SnapshotReaderProperties
=============================================================================
