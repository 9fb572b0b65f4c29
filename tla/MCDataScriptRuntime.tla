------------------------- MODULE MCDataScriptRuntime -------------------------
(***************************************************************************)
(* Instances of DataScriptRuntime for TLC: batches of two, submissions of  *)
(* one to three resources, so that jobs need one batch or two, end on and  *)
(* off a batch boundary, and can fail between batches.                     *)
(***************************************************************************)
EXTENDS DataScriptRuntimeProperties
=============================================================================
