--------------------------- MODULE MCWatchTrigger ---------------------------
(* The small instances of WatchTrigger that TLC checks. *)
EXTENDS WatchTrigger, TLC

Symmetry == Permutations(Items) \cup Permutations(Pollers) \cup Permutations(Passes)
=============================================================================
