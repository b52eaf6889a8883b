---------------------------- MODULE ChainJourney ----------------------------
(***************************************************************************)
(* What the run queue promises, without attempts, claims, passes or        *)
(* crashes: an item enters the chain at rank 1, every run it queues is     *)
(* settled once and for good, and only a success queues the next rank.     *)
(***************************************************************************)
EXTENDS Integers

CONSTANTS Items, ChainLength

Ranks == 1 .. ChainLength
Runs  == Ranks \X Items

VARIABLES
  queued,   \* the runs queued so far
  result    \* result[r]: how r was settled, "none" before

jvars == <<queued, result>>

Results == {"succeeded", "gated", "errored", "failed"}

JInit == queued = {} /\ result = [r \in Runs |-> "none"]

(* Items enter the chain. *)
Enter(S) ==
  /\ queued' = queued \cup {<<1, i>> : i \in S}
  /\ UNCHANGED result

(* A run is settled; on success its successor is queued in the same step.  *)
Settle(r, res) ==
  /\ r \in queued
  /\ result[r] = "none"
  /\ result' = [result EXCEPT ![r] = res]
  /\ queued' = IF res = "succeeded" /\ r[1] < ChainLength
               THEN queued \cup {<<r[1] + 1, r[2]>>} ELSE queued

(* Several runs are given up at once. *)
GiveUp(R) ==
  /\ R # {}
  /\ \A r \in R : r \in queued /\ result[r] = "none"
  /\ result' = [r \in Runs |-> IF r \in R THEN "failed" ELSE result[r]]
  /\ UNCHANGED queued

JNext ==
  \/ \E S \in SUBSET Items : Enter(S)
  \/ \E r \in Runs, res \in Results : Settle(r, res)
  \/ \E R \in SUBSET Runs : GiveUp(R)

JSpec == JInit /\ [][JNext]_jvars
=============================================================================
