---------------------------- MODULE MCSeedingPage ----------------------------
(***************************************************************************)
(* The page and its runtime for TLC: two sessions of which the first may   *)
(* leave jobs and builds behind, submissions of one to four resources in   *)
(* batches of two, failed batches and failed builds, and retries.          *)
(***************************************************************************)
EXTENDS SeedingPage
=============================================================================
