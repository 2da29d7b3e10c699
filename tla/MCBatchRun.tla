----------------------------- MODULE MCBatchRun -----------------------------
(***************************************************************************)
(* Instance of BatchRun for TLC: up to three items in batches of two, two  *)
(* attempts in each of the nested loops.                                   *)
(***************************************************************************)
EXTENDS BatchRun
=============================================================================
