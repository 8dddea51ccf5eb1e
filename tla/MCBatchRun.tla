----------------------------- MODULE MCBatchRun -----------------------------
EXTENDS BatchRun

(* The batch screen alone, with the calls of its own that outlive it. *)
BatchAlone == route = "batch" /\ BatchSpec
=============================================================================
