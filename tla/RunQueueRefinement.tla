------------------------- MODULE RunQueueRefinement -------------------------
(***************************************************************************)
(* RunQueue implements ChainJourney: a run is queued when its row exists   *)
(* and settled when its row is final.                                      *)
(***************************************************************************)
EXTENDS RunQueue

queuedBar == {r \in Runs : row[r] # Absent}
resultBar == [r \in Runs |-> IF Settled(r) THEN row[r].state ELSE "none"]

Journey == INSTANCE ChainJourney WITH queued <- queuedBar, result <- resultBar

(* Every behaviour of the drain, overlapping passes, crashes, reaps and    *)
(* lost claims included, is a journey in which each run is settled once    *)
(* and only a success queues the successor (drain.py, advance.py).         *)
ImplementsJourney == Journey!JSpec
=============================================================================
