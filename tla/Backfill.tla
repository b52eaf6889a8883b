------------------------------ MODULE Backfill ------------------------------
(***************************************************************************)
(* One backfill job (watches/services/backfills.py,                        *)
(* watches/operations/backfill.py): re-run an action, the target, over the *)
(* items its source passed.  `manage.py process_due_backfills` reaps a     *)
(* stale claim, claims the job, deletes the final runs of the target and   *)
(* of every action after it (`replace` only), stamps that it did and       *)
(* queues the target's runs again; the drain executes them and the chain   *)
(* advances from there.  Passes overlap and die, the drain and retention   *)
(* go on in between, and an operator may remove the target.                *)
(*                                                                         *)
(* The actions are numbered from the target, 1, down the chain.  A run's   *)
(* claim, retries and failures are RunQueue's: here it is in flight until  *)
(* it ends.  Instead of a clock, a start time is either young or older     *)
(* than WATCH_BACKFILL_STALE_SECONDS.                                      *)
(***************************************************************************)
EXTENDS Integers, FiniteSets

CONSTANTS
  Items,        \* the items the source passed, in the job's windows
  ChainLength,  \* actions from the target to the tail
  Passes,       \* process_due_backfills processes that may overlap
  MaxAttempts,  \* WATCH_BACKFILL_MAX_ATTEMPTS
  MaxFaults     \* bound: attempts that crash or raise

ASSUME SettingsAssumption == {ChainLength, MaxAttempts} \subseteq Nat \ {0}
ASSUME BoundsAssumption   == MaxFaults \in Nat

VARIABLES
  job,      \* the WatchActionBackfill row
  pass,     \* pass[p]: locals of the command and of WatchBackfillOperation
  row,      \* row[a][i]: the run of action a on item i
  exist,    \* the items retention has left
  target,   \* the target action exists, and so does its watch
  faults,   \* attempts that died
  overlap,  \* history: a job was reaped while its attempt lived
  busy      \* history: items with a run in flight when a delete phase began

vars == <<job, pass, row, exist, target, faults, overlap, busy>>

Actions == 1 .. ChainLength
Target  == 1

-----------------------------------------------------------------------------
\* fresh (history): the run was queued by this job, or by the advance of a run
\* that was.
RowType == [state : {"absent", "inflight", "succeeded", "dropped"}, fresh : BOOLEAN]
Absent  == [state |-> "absent", fresh |-> FALSE]
Queued(fresh) == [state |-> "inflight", fresh |-> fresh]

InFlight(a, i) == row[a][i].state = "inflight"

\* _DELETABLE_TERMINAL.
Deletable(a, i) == row[a][i].state \in {"succeeded", "dropped"}

JobType ==
  [state : {"pending", "running", "done", "failed"}, attempts : 0 .. MaxAttempts,
   replace : BOOLEAN, marker : BOOLEAN, completed : BOOLEAN, old : BOOLEAN]

PassType ==
  [pc : {"idle", "claim", "refresh", "resolve", "delete", "stamp", "enqueue"},
   seen : {"pending", "failed"}, old : BOOLEAN, stamp : 0 .. MaxAttempts,
   marker : BOOLEAN, cursor : Actions, todo : SUBSET Items]

IdlePass ==
  [pc |-> "idle", seen |-> "pending", old |-> FALSE, stamp |-> 0,
   marker |-> FALSE, cursor |-> Target, todo |-> {}]

\* A chain as the run queue leaves it: an action has a run of an item exactly
\* if the action before it succeeded on it.
Chained(r) ==
  /\ \A i \in Items, a \in Actions : ~r[a][i].fresh
  /\ \A i \in Items, a \in Actions \ {ChainLength} :
       r[a + 1][i] # Absent <=> r[a][i].state = "succeeded"

Init ==
  /\ job \in {[state |-> "pending", attempts |-> 0, replace |-> r, marker |-> FALSE,
               completed |-> FALSE, old |-> FALSE] : r \in BOOLEAN}
  /\ pass = [p \in Passes |-> IdlePass]
  /\ row \in [Actions -> [Items -> {[state |-> s, fresh |-> FALSE] :
                s \in {"absent", "inflight", "succeeded", "dropped"}}]]
  /\ Chained(row)
  /\ exist = Items
  /\ target = TRUE
  /\ faults = 0
  /\ overlap = FALSE
  /\ busy = {}

-----------------------------------------------------------------------------
(* The queue: reap, claim, finish.                                         *)

Exhausted(j) == j.attempts >= MaxAttempts

\* Mutant: only the jobs that may be retried are reaped.
ReapedToRetry ==
  IF job.state = "running" /\ job.old /\ ~Exhausted(job)
  THEN [job EXCEPT !.state = "failed"]
  ELSE job

\* reap_stale: a RUNNING job whose started_at is before the cutoff.
Reaped ==
  IF job.state = "running" /\ job.old
  THEN [job EXCEPT !.state = "failed", !.completed = Exhausted(job)]
  ELSE job

\* Mutant: the cap is not part of the claim's UPDATE.
ClaimableAtCap(j) == j.state \in {"pending", "failed"}

\* Claimable state, under the cap.
Claimable(j) == j.state \in {"pending", "failed"} /\ j.attempts < MaxAttempts

Working(p) == pass[p].pc \notin {"idle", "claim"}

\* handle() reaps, then reads its candidate.
StartPass(p) ==
  /\ pass[p].pc = "idle"
  /\ Reaped # job \/ Claimable(Reaped)
  /\ job' = Reaped
  /\ pass' = [pass EXCEPT ![p] =
       IF Claimable(Reaped) THEN [IdlePass EXCEPT !.pc = "claim", !.seen = Reaped.state]
                            ELSE IdlePass]
  /\ overlap' = (overlap \/ (Reaped # job /\ \E q \in Passes : Working(q)))
  /\ UNCHANGED <<row, exist, target, faults, busy>>

\* The CAS on the state that was read; started_at is the pass's start.
Claim(p) ==
  /\ pass[p].pc = "claim"
  /\ job.state = pass[p].seen
  /\ Claimable(job)
  /\ job' = [job EXCEPT !.state = "running", !.attempts = @ + 1, !.old = pass[p].old]
  /\ pass' = [pass EXCEPT ![p] = [IdlePass EXCEPT !.pc = "refresh"]]
  /\ UNCHANGED <<row, exist, target, faults, overlap, busy>>

LoseClaim(p) ==
  /\ pass[p].pc = "claim"
  /\ ~(job.state = pass[p].seen /\ Claimable(job))
  /\ pass' = [pass EXCEPT ![p] = IdlePass]
  /\ UNCHANGED <<job, row, exist, target, faults, overlap, busy>>

\* refresh_from_db, a statement of its own.
Refresh(p) ==
  /\ pass[p].pc = "refresh"
  /\ pass' = [pass EXCEPT ![p].pc = "resolve", ![p].stamp = job.attempts,
                          ![p].marker = job.marker]
  /\ UNCHANGED <<job, row, exist, target, faults, overlap, busy>>

\* RUNNING at our attempts.
HoldsClaim(p) == job.state = "running" /\ job.attempts = pass[p].stamp

\* _fail: the target or its watch is gone, and no retry will change that.
Fail(p) ==
  /\ pass[p].pc = "resolve"
  /\ ~target
  /\ job' = IF HoldsClaim(p)
            THEN [job EXCEPT !.state = "failed", !.attempts = MaxAttempts, !.completed = TRUE]
            ELSE job
  /\ pass' = [pass EXCEPT ![p] = IdlePass]
  /\ UNCHANGED <<row, exist, target, faults, overlap, busy>>

-----------------------------------------------------------------------------
(* The delete phase.                                                       *)

\* Mutant: a retry deletes again.
DeletesAgain(p) == job.replace

\* `replace`, and no earlier attempt has stamped its delete.
Deletes(p) == job.replace /\ ~pass[p].marker

Resolve(p) ==
  /\ pass[p].pc = "resolve"
  /\ target
  /\ pass' = [pass EXCEPT ![p].pc = IF Deletes(p) THEN "delete" ELSE "enqueue",
                          ![p].todo = IF Deletes(p) THEN {} ELSE Items,
                          ![p].marker = FALSE]
  /\ busy' = IF Deletes(p) THEN busy \cup {i \in Items : \E a \in Actions : InFlight(a, i)}
                           ELSE busy
  /\ UNCHANGED <<job, row, exist, target, faults, overlap>>

\* Mutant: only the target's runs are deleted.
TargetOnly(a) == TRUE

\* next_in_chain finds none.
IsTail(a) == a = ChainLength

\* delete_terminal_for_action, one DELETE per action, from the target down.
Delete(p) ==
  LET a == pass[p].cursor IN
  /\ pass[p].pc = "delete"
  /\ row' = [row EXCEPT ![a] = [i \in Items |->
       IF i \in exist /\ Deletable(a, i) THEN Absent ELSE row[a][i]]]
  /\ pass' = [pass EXCEPT ![p].pc = IF IsTail(a) THEN "stamp" ELSE "delete",
                          ![p].cursor = IF IsTail(a) THEN Target ELSE a + 1]
  /\ UNCHANGED <<job, exist, target, faults, overlap, busy>>

\* replace_deleted_at, guarded by the claim; a lost stamp does not stop us.
Stamp(p) ==
  /\ pass[p].pc = "stamp"
  /\ job' = IF HoldsClaim(p) THEN [job EXCEPT !.marker = TRUE] ELSE job
  /\ pass' = [pass EXCEPT ![p].pc = "enqueue", ![p].todo = Items]
  /\ UNCHANGED <<row, exist, target, faults, overlap, busy>>

-----------------------------------------------------------------------------
(* The enqueue.                                                            *)

\* Mutant: a job that was retried takes its runs for queued.
AheadFirstTime(p) == IF pass[p].stamp = 1 THEN pass[p].todo \cap exist ELSE {}

\* What iter_existing_feed_item_ids has yet to yield.
Ahead(p) == pass[p].todo \cap exist

\* One chunk's INSERT ... ON CONFLICT DO NOTHING; a chunk here is one item.
EnqueueChunk(p, i) ==
  /\ pass[p].pc = "enqueue"
  /\ i \in Ahead(p)
  /\ row' = IF row[Target][i] = Absent THEN [row EXCEPT ![Target][i] = Queued(TRUE)] ELSE row
  /\ pass' = [pass EXCEPT ![p].todo = @ \ {i}]
  /\ UNCHANGED <<job, exist, target, faults, overlap, busy>>

Finish(p) ==
  /\ pass[p].pc = "enqueue"
  /\ Ahead(p) = {}
  /\ job' = IF HoldsClaim(p) THEN [job EXCEPT !.state = "done", !.completed = TRUE] ELSE job
  /\ pass' = [pass EXCEPT ![p] = IdlePass]
  /\ UNCHANGED <<row, exist, target, faults, overlap, busy>>

\* The process is killed, or the command catches the exception and goes on:
\* the job stays RUNNING for the reaper.
Die(p) ==
  /\ Working(p)
  /\ faults < MaxFaults
  /\ faults' = faults + 1
  /\ pass' = [pass EXCEPT ![p] = IdlePass]
  /\ UNCHANGED <<job, row, exist, target, overlap, busy>>

-----------------------------------------------------------------------------
(* The surroundings.                                                       *)

\* The drain ends a run; a success queues the next action's run unless there
\* is one.  A run whose item or action is gone cannot succeed.
Succeed(a, i) ==
  /\ InFlight(a, i)
  /\ i \in exist
  /\ a = Target => target
  /\ LET r == [row EXCEPT ![a][i].state = "succeeded"] IN
     row' = IF ~IsTail(a) /\ row[a + 1][i] = Absent
            THEN [r EXCEPT ![a + 1][i] = Queued(row[a][i].fresh)]
            ELSE r
  /\ UNCHANGED <<job, pass, exist, target, faults, overlap, busy>>

Drop(a, i) ==
  /\ InFlight(a, i)
  /\ row' = [row EXCEPT ![a][i].state = "dropped"]
  /\ UNCHANGED <<job, pass, exist, target, faults, overlap, busy>>

Prune(i) ==
  /\ i \in exist
  /\ exist' = exist \ {i}
  /\ UNCHANGED <<job, pass, row, target, faults, overlap, busy>>

RemoveTarget ==
  /\ target
  /\ target' = FALSE
  /\ UNCHANGED <<job, pass, row, exist, faults, overlap, busy>>

\* The stale timeout goes by: every start time so far is past it, that of a
\* claim still to be made too.
Age ==
  /\ pass' = [p \in Passes |-> [pass[p] EXCEPT !.old = pass[p].pc = "claim"]]
  /\ job' = [job EXCEPT !.old = job.state = "running"]
  /\ UNCHANGED <<row, exist, target, faults, overlap, busy>>

-----------------------------------------------------------------------------
Work(p) ==
  \/ Claim(p) \/ LoseClaim(p) \/ Refresh(p)
  \/ Fail(p) \/ Resolve(p)
  \/ Delete(p) \/ Stamp(p)
  \/ \E i \in Items : EnqueueChunk(p, i)
  \/ Finish(p)

Next ==
  \/ \E p \in Passes : StartPass(p) \/ Work(p) \/ Die(p)
  \/ \E a \in Actions, i \in Items : Succeed(a, i) \/ Drop(a, i)
  \/ \E i \in Items : Prune(i)
  \/ RemoveTarget
  \/ Age

Spec == Init /\ [][Next]_vars

\* Cron starts passes for ever, a live one goes on, and time goes by.
Fairness ==
  /\ \A p \in Passes : WF_vars(StartPass(p) \/ Work(p))
  /\ WF_vars(Age)

FairSpec == Spec /\ Fairness

-----------------------------------------------------------------------------
\* Types; in particular attempts never pass the cap.
TypeOK ==
  /\ job \in JobType
  /\ pass \in [Passes -> PassType]
  /\ row \in [Actions -> [Items -> RowType]]
  /\ exist \subseteq Items
  /\ target \in BOOLEAN
  /\ faults \in 0 .. MaxFaults
  /\ overlap \in BOOLEAN
  /\ busy \subseteq Items

Final == job.state = "done" \/ (job.state = "failed" /\ job.attempts = MaxAttempts)

\* completed_at is how a reader tells a failed job from one that will be
\* retried: it is set exactly on final jobs.
CompletedIffFinal == job.completed <=> Final

\* Whoever is still working on a job that has ended leaves its row alone.
FinalIsForever == [][Final => job' = [job EXCEPT !.old = job'.old]]_vars

Quiet == \A p \in Passes : ~Working(p)

\* A job is DONE only when every item of its source has a run of the target,
\* whatever was pruned, died and was tried again on the way; a dead attempt may
\* undo that only if it was reaped while it lived.
DoneIsComplete ==
  job.state = "done" /\ Quiet /\ ~(overlap /\ faults > 0)
    => \A i \in exist : row[Target][i] # Absent

\* Delete-once: "a reaped/retried job skips the delete and can't wipe runs the
\* drain has since regenerated" (WatchActionBackfill), unless it is
\* the reaped attempt itself that lives on.
FreshRunsKept ==
  [][\A a \in Actions, i \in Items :
       row[a][i].fresh /\ row'[a][i] = Absent => overlap]_vars

Idle(i) == \A a \in Actions : ~InFlight(a, i)

\* The runs of an item are this job's, from the target to where it was dropped.
Regenerated(i) ==
  /\ row[Target][i].fresh
  /\ \A a \in Actions \ {ChainLength} :
       row[a][i].state = "succeeded" => row[a + 1][i].fresh
  /\ \A a \in Actions : row[a][i] # Absent => row[a][i].fresh

\* "A replace regenerates the whole chain" (backfill.py): when a replace is
\* done and an item's runs have ended, all of them are new, provided the item
\* had no run in flight while the old ones were deleted.
ReplaceRegenerates ==
  job.replace /\ job.state = "done" /\ Quiet /\ ~overlap
    => \A i \in exist \ busy : Idle(i) => Regenerated(i)

\* Every job ends although its attempts die.
EveryJobSettles == <>Final
=============================================================================
