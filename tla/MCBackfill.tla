----------------------------- MODULE MCBackfill -----------------------------
(* The small instances of Backfill that TLC checks. *)
EXTENDS Backfill, TLC
=============================================================================
