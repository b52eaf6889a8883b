------------------------------ MODULE JobLease ------------------------------
(***************************************************************************)
(* The lease a scheduled job holds while a pass of it runs                 *)
(* (common/commands.py, common/lease_renewer.py, named_lock of             *)
(* common/locks.py).  A pass acquires the job's cache key with cache.add,  *)
(* a daemon thread renews it (read the key, then set it), and the pass     *)
(* joins that thread and releases the key (read it, then delete it) when   *)
(* its work ends, is interrupted by SIGTERM, or raises.  A killed pass     *)
(* leaves its key to the TTL, a pass past its maximum hold stops renewing, *)
(* and an operator may clear the key.                                      *)
(*                                                                         *)
(* What a pass does while it works is left to the module that extends this *)
(* one; time shows only in what it makes possible, the end of a TTL.       *)
(***************************************************************************)
EXTENDS Integers, FiniteSets

CONSTANTS
  Procs,      \* processes that run passes of the job
  Nobody,     \* the key is not set
  Orphan,     \* the key holds the token of a process that is gone
  MaxFaults,  \* bound: kills, SIGTERMs and database errors
  MaxSlips    \* bound: leases that end, or may end, under a live holder

ASSUME TokenAssumption == Nobody \notin Procs /\ Orphan \notin Procs /\ Nobody # Orphan
ASSUME LeaseBoundsAssumption == {MaxFaults, MaxSlips} \subseteq Nat

VARIABLES
  key,      \* the cache entry job_lock:<name>: the holder's token
  proc,     \* proc[p]: where SingleFlightCommand.execute stands
  renewer,  \* renewer[p]: the thread: "off", "wait", or "got" the key's value
  faults, slips

leaseVars == <<key, proc, renewer, faults, slips>>

Fault == faults < MaxFaults /\ faults' = faults + 1
Slip  == slips < MaxSlips /\ slips' = slips + 1

LeaseInit ==
  /\ key = Nobody
  /\ proc = [p \in Procs |-> "idle"]
  /\ renewer = [p \in Procs |-> "off"]
  /\ faults = 0 /\ slips = 0

Working(p) == proc[p] = "work"

-----------------------------------------------------------------------------
(* The pass.                                                               *)

\* Mutant: the pass does not mind that the key is held.
TakesAnyway(p) == key # p

\* cache.add.
Takes(p) == key = Nobody

\* execute: the lock, then the renewer.  A pass that finds the key held skips.
Acquire(p) ==
  /\ proc[p] = "idle"
  /\ renewer[p] = "off"
  /\ Takes(p)
  /\ key' = p
  /\ proc' = [proc EXCEPT ![p] = "work"]
  /\ renewer' = [renewer EXCEPT ![p] = "wait"]
  /\ UNCHANGED <<faults, slips>>

\* LeaseRenewer.__exit__: the stop event.  To be conjoined with what ends the
\* work.
EndWork(p) == proc' = [proc EXCEPT ![p] = "join"]

\* Mutant: the pass does not wait for its renewer.
JoinsNobody(p) == TRUE

\* The thread is asleep or gone, not in the middle of a renewal.
Joins(p) == renewer[p] # "got"

Join(p) ==
  /\ proc[p] = "join"
  /\ Joins(p)
  /\ proc' = [proc EXCEPT ![p] = "release"]
  /\ renewer' = [renewer EXCEPT ![p] = IF @ = "got" THEN "got" ELSE "off"]
  /\ UNCHANGED <<key, faults, slips>>

\* SIGTERM reaches the main thread in join(): the release goes on without the
\* thread, whose write may then fall on another pass's key.
Interrupt(p) ==
  /\ proc[p] = "join"
  /\ renewer[p] = "got"
  /\ Slip
  /\ proc' = [proc EXCEPT ![p] = "release"]
  /\ UNCHANGED <<key, renewer, faults>>

\* named_lock's finally: `cache.get(name) == token`, ...
Owns(p) == key = p

ReleaseGet(p) ==
  /\ proc[p] = "release"
  /\ proc' = [proc EXCEPT ![p] = IF Owns(p) THEN "delete" ELSE "idle"]
  /\ UNCHANGED <<key, renewer, faults, slips>>

\* ... and then the delete, of whatever is there by now.
ReleaseDelete(p) ==
  /\ proc[p] = "delete"
  /\ key' = Nobody
  /\ proc' = [proc EXCEPT ![p] = "idle"]
  /\ UNCHANGED <<renewer, faults, slips>>

\* SIGKILL, out of memory, the container or the cache is gone: nothing unwinds.
Kill(p) ==
  /\ proc[p] # "idle"
  /\ Fault
  /\ key' = IF key = p THEN Orphan ELSE key
  /\ proc' = [proc EXCEPT ![p] = "idle"]
  /\ renewer' = [renewer EXCEPT ![p] = "off"]
  /\ UNCHANGED slips

-----------------------------------------------------------------------------
(* The renewer thread.                                                     *)

\* LockLease.renew reads the key (the thread may have left its wait just before
\* the stop event).  A read or write that raises changes nothing and is retried.
StillOurs(p) == key = p

RenewGet(p) ==
  /\ renewer[p] = "wait"
  /\ proc[p] \in {"work", "join"}
  /\ renewer' = [renewer EXCEPT ![p] = IF StillOurs(p) THEN "got" ELSE "off"]
  /\ UNCHANGED <<key, proc, faults, slips>>

\* ... and sets it: if it changed hands in between, the new holder's is gone.
\* A thread that outlived its pass leaves a token nobody will release, ...
RenewSet(p) ==
  /\ renewer[p] = "got"
  /\ key' = IF proc[p] = "idle" THEN Orphan ELSE p
  /\ renewer' = [renewer EXCEPT ![p] = IF Working(p) THEN "wait" ELSE "off"]
  /\ UNCHANGED <<proc, faults, slips>>

\* ... unless it ends with its process (it is a daemon thread) before it writes.
Exit(p) ==
  /\ proc[p] = "idle"
  /\ renewer[p] = "got"
  /\ renewer' = [renewer EXCEPT ![p] = "off"]
  /\ UNCHANGED <<key, proc, faults, slips>>

\* JOB_LOCK_MAX_HOLD_SECONDS have passed, or the cache failed for a whole window:
\* the renewer stops, the work goes on.
GiveUp(p) ==
  /\ renewer[p] = "wait"
  /\ Working(p)
  /\ Slip
  /\ renewer' = [renewer EXCEPT ![p] = "off"]
  /\ UNCHANGED <<key, proc, faults>>

-----------------------------------------------------------------------------
(* The cache.                                                              *)

\* The TTL of a key nobody renews.
Expire ==
  /\ key = Orphan \/ \E p \in Procs : key = p /\ Working(p) /\ renewer[p] = "off"
  /\ key' = Nobody
  /\ UNCHANGED <<proc, renewer, faults, slips>>

\* The holder was held up for a whole window, or clear_job_locks deleted the key.
Lapse ==
  /\ key # Nobody
  /\ Slip
  /\ key' = Nobody
  /\ UNCHANGED <<proc, renewer, faults>>

\* Everything a pass does besides its work, and what happens to it.
Unwind(p) == Join(p) \/ ReleaseGet(p) \/ ReleaseDelete(p)
Renew(p)  == RenewGet(p) \/ RenewSet(p) \/ Exit(p)

-----------------------------------------------------------------------------
LeaseTypeOK ==
  /\ key \in Procs \cup {Nobody, Orphan}
  /\ proc \in [Procs -> {"idle", "work", "join", "release", "delete"}]
  /\ renewer \in [Procs -> {"off", "wait", "got"}]
  /\ faults \in 0 .. MaxFaults /\ slips \in 0 .. MaxSlips

\* A second launch skips while one is in flight (common/commands.py), until a
\* lease ends under a live holder; and each time that happens lets at most one
\* more pass run alongside.  The reads and writes of the key are not atomic, so
\* one lapse can reach further than the pass it befell.
SingleFlight == Cardinality({p \in Procs : Working(p)}) <= 1 + slips
=============================================================================
