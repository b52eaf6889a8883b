----------------------------- MODULE MCRunQueue -----------------------------
(* The small instances of RunQueue, and of its refinement mapping, for TLC. *)
EXTENDS RunQueueRefinement
=============================================================================
