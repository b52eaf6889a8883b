------------------------------ MODULE RunQueue ------------------------------
(***************************************************************************)
(* The instant run queue: rows of the table watches_watchactionrun, the    *)
(* drain passes of `manage.py process_due_runs` that claim and execute     *)
(* them, the reaper each pass starts with, and the chain advance that      *)
(* commits together with a run's result.                                   *)
(*                                                                         *)
(* A run is one action of one watch against one feed item; the unique key  *)
(* (account, watch, action, feed_item) makes it the pair <<rank, item>>.   *)
(* Digest actions are the module DigestWindow's; here every action is      *)
(* instant.  Several passes may overlap: the command's job lock is a lease *)
(* that can lapse, and the source calls it "a convenience, NOT a           *)
(* correctness requirement".  A pass judges up to |Slots| runs at once.    *)
(***************************************************************************)
EXTENDS Integers, FiniteSets

CONSTANTS
  Items,        \* feed items the trigger feeds into the chain
  ChainLength,  \* number of actions of the watch, ranks 1 .. ChainLength
  Outbound,     \* ranks whose action makes an HTTP call (webhook)
  Passes,       \* process_due_runs processes
  Slots,        \* worker threads of one pass (--concurrency)
  NoRun,        \* what a free slot holds
  MaxAttempts,  \* WATCH_RUN_MAX_ATTEMPTS
  StaleAfter,   \* WATCH_RUN_STALE_SECONDS, in clock ticks
  MaxClock,     \* bound: the clock stops here
  MaxFaults     \* bound: crashes and failed commits in a behaviour

Ranks     == 1 .. ChainLength
Runs      == Ranks \X Items
Executors == Passes \X Slots
Times     == 0 .. MaxClock

ASSUME ChainLengthAssumption == ChainLength \in Nat \ {0}
ASSUME OutboundAssumption    == Outbound \subseteq Ranks
ASSUME NoRunAssumption       == NoRun \notin Runs
ASSUME FiniteAssumption      == IsFiniteSet(Passes) /\ IsFiniteSet(Slots)
ASSUME MaxAttemptsAssumption == MaxAttempts \in Nat \ {0}
ASSUME StaleAfterAssumption  == StaleAfter \in Nat
ASSUME BoundsAssumption      == MaxClock \in Nat /\ MaxFaults \in Nat

VARIABLES
  row,         \* row[r]: the database row of run r, or Absent
  pass,        \* pass[p]: the locals of process_due_runs in process p
  exec,        \* exec[e]: the locals of one WatchDrainOperation
  deliveries,  \* deliveries[r]: WatchActionDelivery rows recorded for r
  calls,       \* history: outbound attempts made for r
  clock,       \* wall clock
  faults       \* faults so far

vars == <<row, pass, exec, deliveries, calls, clock, faults>>

-----------------------------------------------------------------------------
(* Rows.  completed is "completed_at is not null".                         *)

CleanTerminal == {"succeeded", "gated", "errored"}
Claimable     == {"pending", "failed"}
RowStates     == {"absent", "pending", "running", "failed"} \cup CleanTerminal

RowType == [state : RowStates, attempts : 0 .. MaxAttempts, scheduled : Times,
            started : Times, completed : BOOLEAN]

Absent == [state |-> "absent", attempts |-> 0, scheduled |-> 0,
           started |-> 0, completed |-> FALSE]

NewRow(ts) == [Absent EXCEPT !.state = "pending", !.scheduled = ts]

(* completion_ts: an outcome that sets completed_at rather than clear it.   *)
IsFinal(state, attempts) ==
  state \in CleanTerminal \/ (state = "failed" /\ attempts >= MaxAttempts)

AttemptsLeftAtCap(r) == row[r].attempts <= MaxAttempts                         \* mutant
AttemptsLeft(r) == row[r].attempts < MaxAttempts

(* What no pass will ever claim again. *)
Settled(r) ==
  row[r].state \in CleanTerminal \/ (row[r].state = "failed" /\ ~AttemptsLeft(r))

(* _due_runs: what the cursor of a pass whose clock read ts selects.       *)
Due(r, ts) ==
  /\ row[r].state \in Claimable
  /\ AttemptsLeft(r)
  /\ row[r].scheduled <= ts

StaleWithRetries(r, ts) ==                                                     \* mutant
  row[r].state = "running" /\ row[r].started < ts - StaleAfter /\ AttemptsLeft(r)
Stale(r, ts) == row[r].state = "running" /\ row[r].started < ts - StaleAfter

(* The SET clause of the claim: started_at is the pass's own clock reading, *)
(* not the time of the claim.                                              *)
ClaimedAnew(r, ts) == [row[r] EXCEPT !.state = "running", !.started = ts]      \* mutant
Claimed(r, ts) == [row[r] EXCEPT !.state = "running", !.started = ts, !.attempts = @ + 1]

Next1(r) == <<r[1] + 1, r[2]>>

-----------------------------------------------------------------------------
(* Passes and executors.                                                   *)

(* seen[r] is the state the cursor's snapshot saw r in, "none" once r has  *)
(* been handled or when it was not due.                                    *)
PassType == [pc : {"idle", "reaped", "draining"}, now : Times,
             seen : [Runs -> {"none"} \cup Claimable]]

IdlePass == [pc |-> "idle", now |-> 0, seen |-> [r \in Runs |-> "none"]]

Verdicts == {"succeeded", "gated", "errored", "failed"}

(* attempts is the value refresh_from_db read, stamp (history) the value   *)
(* this claim's own UPDATE wrote.                                          *)
ExecType == [pc : {"free", "claimed", "held", "resolved", "recorded"},
             run : Runs \cup {NoRun}, attempts : 0 .. MaxAttempts,
             stamp : 0 .. MaxAttempts, verdict : Verdicts \cup {"none"},
             outbound : BOOLEAN]

Free == [pc |-> "free", run |-> NoRun, attempts |-> 0, stamp |-> 0,
         verdict |-> "none", outbound |-> FALSE]

(* An executor right after its CAS, which wrote n to the row's attempts.   *)
Claiming(r, n) == [pc |-> "claimed", run |-> r, attempts |-> 0, stamp |-> n,
                   verdict |-> "none", outbound |-> FALSE]

(* The claimer is one generator on the pass's main thread: it refreshes a  *)
(* claimed run before it is asked for another.                             *)
ClaimerReady(p) ==
  /\ pass[p].pc = "draining"
  /\ \A s \in Slots : exec[<<p, s>>].pc # "claimed"
  /\ \E s \in Slots : exec[<<p, s>>].pc = "free"

(* order_by("scheduled_at") over the snapshot. *)
NextCandidate(p, r) ==
  /\ pass[p].seen[r] # "none"
  /\ \A q \in Runs : pass[p].seen[q] # "none" => row[r].scheduled <= row[q].scheduled

-----------------------------------------------------------------------------
Init ==
  /\ row = [r \in Runs |-> Absent]
  /\ pass = [p \in Passes |-> IdlePass]
  /\ exec = [e \in Executors |-> Free]
  /\ deliveries = [r \in Runs |-> 0]
  /\ calls = [r \in Runs |-> 0]
  /\ clock = 0
  /\ faults = 0

(* enqueue_many: the trigger inserts the head runs its window lacks.       *)
Enqueue(S) ==
  /\ \E i \in S : row[<<1, i>>] = Absent
  /\ row' = [r \in Runs |-> IF r[1] = 1 /\ r[2] \in S /\ row[r] = Absent
                            THEN NewRow(clock) ELSE row[r]]
  /\ UNCHANGED <<pass, exec, deliveries, calls, clock, faults>>

(* handle() reads the clock once, then reap_stale: a stale RUNNING row is  *)
(* FAILED, final when its attempts are exhausted.                          *)
StartPass(p) ==
  /\ pass[p].pc = "idle"
  /\ pass' = [pass EXCEPT ![p].pc = "reaped", ![p].now = clock]
  /\ row' = [r \in Runs |->
       IF Stale(r, clock)
       THEN [row[r] EXCEPT !.state = "failed",
                           !.completed = IsFinal("failed", row[r].attempts)]
       ELSE row[r]]
  /\ UNCHANGED <<exec, deliveries, calls, clock, faults>>

(* claim_due opens its cursor on the first next(). *)
OpenCursor(p) ==
  /\ pass[p].pc = "reaped"
  /\ pass' = [pass EXCEPT ![p].pc = "draining",
                          ![p].seen = [r \in Runs |-> IF Due(r, pass[p].now)
                                                      THEN row[r].state ELSE "none"]]
  /\ UNCHANGED <<row, exec, deliveries, calls, clock, faults>>

(* The claim: UPDATE ... WHERE id = r AND state = <snapshot> AND attempts  *)
(* < MAX.                                                                  *)
Claim(e, r) ==
  LET p == e[1] IN
  /\ ClaimerReady(p)
  /\ exec[e].pc = "free"
  /\ NextCandidate(p, r)
  /\ row[r].state = pass[p].seen[r]
  /\ AttemptsLeft(r)
  /\ row' = [row EXCEPT ![r] = Claimed(r, pass[p].now)]
  /\ exec' = [exec EXCEPT ![e] = Claiming(r, row[r].attempts + 1)]
  /\ pass' = [pass EXCEPT ![p].seen[r] = "none"]
  /\ UNCHANGED <<deliveries, calls, clock, faults>>

(* The UPDATE matched no row: another drain took it since the snapshot.    *)
SkipCandidate(p, r) ==
  /\ ClaimerReady(p)
  /\ NextCandidate(p, r)
  /\ row[r].state # pass[p].seen[r] \/ ~AttemptsLeft(r)
  /\ pass' = [pass EXCEPT ![p].seen[r] = "none"]
  /\ UNCHANGED <<row, exec, deliveries, calls, clock, faults>>

(* run.refresh_from_db(), a second statement: what the row holds by then.  *)
Refresh(e) ==
  /\ exec[e].pc = "claimed"
  /\ exec' = [exec EXCEPT ![e].pc = "held", ![e].attempts = row[exec[e].run].attempts]
  /\ UNCHANGED <<row, pass, deliveries, calls, clock, faults>>

(* _resolve: the impl's verdict, ERRORED when the action, item or executor *)
(* is gone, FAILED when the impl raises; outbound iff an HTTP call was     *)
(* attempted.  An outbound action never gates, and succeeds only by a call.*)
Resolve(e, v, out) ==
  LET r == exec[e].run IN
  /\ exec[e].pc = "held"
  /\ out => r[1] \in Outbound
  /\ r[1] \in Outbound => v # "gated" /\ (v = "succeeded" => out)
  /\ out => v # "gated"
  /\ exec' = [exec EXCEPT ![e].pc = "resolved", ![e].verdict = v, ![e].outbound = out]
  /\ calls' = [calls EXCEPT ![r] = IF out THEN @ + 1 ELSE @]
  /\ UNCHANGED <<row, pass, deliveries, clock, faults>>

(* delivery_svc.record: its own commit, before the completion's CAS.       *)
Record(e) ==
  /\ exec[e].pc = "resolved"
  /\ exec[e].outbound
  /\ deliveries' = [deliveries EXCEPT ![exec[e].run] = @ + 1]
  /\ exec' = [exec EXCEPT ![e].pc = "recorded"]
  /\ UNCHANGED <<row, pass, calls, clock, faults>>

ReadyUnrecorded(e) == exec[e].pc \in {"resolved", "recorded"}                  \* mutant
ReadyToComplete(e) ==
  \/ exec[e].pc = "recorded"
  \/ exec[e].pc = "resolved" /\ ~exec[e].outbound

(* complete's CAS: still RUNNING under the attempts this claim read.       *)
BlindSave(e) == exec[e].pc # "free"                                            \* mutant
HoldsClaim(e) ==
  /\ row[exec[e].run].state = "running"
  /\ row[exec[e].run].attempts = exec[e].attempts

(* One transaction: the terminal write and, on SUCCEEDED, the successor    *)
(* row (INSERT ... ON CONFLICT DO NOTHING), scheduled at the pass's now.   *)
Commit(e) ==
  LET r == exec[e].run
      v == exec[e].verdict
      successor(q) == v = "succeeded" /\ q = Next1(r) /\ row[q] = Absent
  IN
  /\ ReadyToComplete(e)
  /\ HoldsClaim(e)
  /\ row' = [q \in Runs |->
       IF q = r THEN [row[r] EXCEPT !.state = v,
                                    !.completed = IsFinal(v, exec[e].attempts)]
       ELSE IF successor(q) THEN NewRow(pass[e[1]].now) ELSE row[q]]
  /\ exec' = [exec EXCEPT ![e] = Free]
  /\ UNCHANGED <<pass, deliveries, calls, clock, faults>>

(* The CAS matched nothing: the claim was lost, neither write nor advance. *)
LoseClaim(e) ==
  /\ ReadyToComplete(e)
  /\ ~HoldsClaim(e)
  /\ exec' = [exec EXCEPT ![e] = Free]
  /\ UNCHANGED <<row, pass, deliveries, calls, clock, faults>>

EndPass(p) ==
  /\ pass[p].pc = "draining"
  /\ \A r \in Runs : pass[p].seen[r] = "none"
  /\ \A s \in Slots : exec[<<p, s>>].pc = "free"
  /\ pass' = [pass EXCEPT ![p] = IdlePass]
  /\ UNCHANGED <<row, exec, deliveries, calls, clock, faults>>

(* A fault may strike while the clock still has room for the reaper.       *)
FaultAllowed == faults < MaxFaults /\ clock + StaleAfter < MaxClock

(* _safe_drain: an unexpected error (a failed record or commit, rolled     *)
(* back) leaves the run RUNNING for the reaper and the pass goes on.       *)
DrainError(e) ==
  /\ FaultAllowed
  /\ exec[e].pc \in {"held", "resolved", "recorded"}
  /\ exec' = [exec EXCEPT ![e] = Free]
  /\ faults' = faults + 1
  /\ UNCHANGED <<row, pass, deliveries, calls, clock>>

(* SIGKILL or OOM: the process and its threads are gone.                   *)
Crash(p) ==
  /\ FaultAllowed
  /\ pass[p].pc # "idle"
  /\ pass' = [pass EXCEPT ![p] = IdlePass]
  /\ exec' = [e \in Executors |-> IF e[1] = p THEN Free ELSE exec[e]]
  /\ faults' = faults + 1
  /\ UNCHANGED <<row, deliveries, calls, clock>>

Tick ==
  /\ clock < MaxClock
  /\ clock' = clock + 1
  /\ UNCHANGED <<row, pass, exec, deliveries, calls, faults>>

ExecStep(e) ==
  \/ \E r \in Runs : Claim(e, r)
  \/ Refresh(e)
  \/ \E v \in Verdicts, out \in BOOLEAN : Resolve(e, v, out)
  \/ Record(e)
  \/ Commit(e)
  \/ LoseClaim(e)

PassStep(p) ==
  \/ StartPass(p)
  \/ OpenCursor(p)
  \/ \E r \in Runs : SkipCandidate(p, r)
  \/ EndPass(p)

Next ==
  \/ \E S \in SUBSET Items : Enqueue(S)
  \/ \E p \in Passes : PassStep(p) \/ Crash(p)
  \/ \E e \in Executors : ExecStep(e) \/ DrainError(e)
  \/ Tick

Spec == Init /\ [][Next]_vars

(* The scheduler starts passes forever, a pass and its threads run on, and *)
(* time passes; nothing obliges the trigger, and faults need not happen.   *)
Fairness ==
  /\ \A p \in Passes : WF_vars(PassStep(p))
  /\ \A e \in Executors : WF_vars(ExecStep(e))
  /\ WF_vars(Tick)

FairSpec == Spec /\ Fairness

-----------------------------------------------------------------------------
(* Every variable keeps its type; in particular attempts never passes      *)
(* WATCH_RUN_MAX_ATTEMPTS.                                                 *)
TypeOK ==
  /\ row \in [Runs -> RowType]
  /\ pass \in [Passes -> PassType]
  /\ exec \in [Executors -> ExecType]
  /\ deliveries \in [Runs -> Nat]
  /\ calls \in [Runs -> Nat]
  /\ clock \in Times
  /\ faults \in 0 .. MaxFaults

(* "The runner advances the chain to the next action IFF a run reaches     *)
(* SUCCEEDED": whatever passes overlap, crash or lose their claims, the    *)
(* successor's row exists exactly when its predecessor's row succeeded.    *)
AdvancesIffSucceeded ==
  \A r \in Runs : r[1] < ChainLength =>
    (row[Next1(r)] # Absent <=> row[r].state = "succeeded")

(* completed_at is set exactly when the run reached a final state, never   *)
(* for a failure that will be retried (completion_ts, reap_stale).         *)
CompletedIffFinal == \A r \in Runs : row[r].completed <=> Settled(r)

(* A final row is never written again, by no claim, reaper or late         *)
(* completer of an earlier claim.                                          *)
FinalIsForever == [][\A r \in Runs : Settled(r) => row'[r] = row[r]]_vars

(* The attempts cap bounds the real outbound calls, retries and duplicate  *)
(* executions included: each call belongs to a claim that burned an        *)
(* attempt of its own.                                                     *)
CallsWithinAttempts ==
  \A r \in Runs :
    /\ calls[r] <= row[r].attempts
    /\ deliveries[r] <= calls[r]

(* A run of an outbound action that reads SUCCEEDED has a delivery row: the *)
(* record is committed before the run's CAS.                               *)
SuccessIsAudited ==
  \A r \in Runs : r[1] \in Outbound /\ row[r].state = "succeeded" => deliveries[r] > 0

(* Every queued run reaches a final state: crashes are reaped, retries are *)
(* bounded, and passes keep coming.                                        *)
EveryRunSettles == \A r \in Runs : row[r] # Absent ~> Settled(r)
=============================================================================
