---------------------------- MODULE DigestWindow ----------------------------
(***************************************************************************)
(* One delivery action whose cadence is digest: arrivals open its window   *)
(* row and queue PENDING runs, `manage.py process_due_digests` emits a due *)
(* window's runs in slices and closes it, and the drain must leave the     *)
(* action alone, which it tells only by the window row's existence.        *)
(* Operators edit the cadence or remove the action while all this runs.    *)
(*                                                                         *)
(* Left to RunQueue: the claim's refresh, false reaps and delivery rows.   *)
(* Here one drain pass with one worker claims what the window does not     *)
(* cover, and its reaper only meets runs whose worker is gone.             *)
(***************************************************************************)
EXTENDS Integers, FiniteSets

CONSTANTS
  Items,         \* feed items that may reach the action
  IsHead,        \* TRUE: fed by the trigger; FALSE: by its predecessor's successes
  Feeders,       \* trigger passes, or passes completing the predecessor's runs
  Flushers,      \* process_due_digests processes
  Nobody,        \* holder of a free flush lock
  BatchCap,      \* DIGEST_MAX_BATCH_ITEMS
  MaxAttempts,   \* WATCH_RUN_MAX_ATTEMPTS
  Interval,      \* digest_interval_seconds, in clock ticks
  MaxClock,      \* bound: the clock stops here
  MaxFaults,     \* bound: crashes and failed commits
  MaxLapses,     \* bound: flush locks that outlive their TTL under a live holder
  MaxEdits,      \* bound: operator edits of the action
  MaxBackfills   \* bound: backfill jobs that target the action

Times == 0 .. MaxClock

ASSUME NobodyAssumption   == Nobody \notin Flushers
ASSUME IsHeadAssumption   == IsHead \in BOOLEAN
ASSUME SettingsAssumption == BatchCap \in Nat \ {0} /\ MaxAttempts \in Nat \ {0}
                             /\ Interval \in Nat \ {0}
ASSUME BoundsAssumption   == {MaxClock, MaxFaults, MaxLapses, MaxEdits, MaxBackfills} \subseteq Nat

VARIABLES
  cadence,     \* the action's config: "digest", "instant", or "gone"
  window,      \* the WatchActionDigestWindow row
  row,         \* row[i]: the action's run for item i
  successors,  \* items whose run of the next action exists
  fence,       \* holder of digest_flush_lock(action)
  feeder,      \* feeder[w]: locals of a trigger or drain pass upstream
  flush,       \* flush[f]: locals of process_due_digests
  drain,       \* locals of process_due_runs as far as this action goes
  emits,       \* history: emits[i] counts the digests that carried i
  clock,       \* wall clock
  spent        \* faults, lapses, edits and backfills so far

vars == <<cadence, window, row, successors, fence, feeder, flush, drain, emits, clock, spent>>

-----------------------------------------------------------------------------
(* The window row: absent, present without a close_at, or open until close. *)
WindowType == [row : BOOLEAN, open : BOOLEAN, close : Times]
NoWindow   == [row |-> FALSE, open |-> FALSE, close |-> 0]
Shut       == [row |-> TRUE,  open |-> FALSE, close |-> 0]

RowStates == {"absent", "pending", "running", "succeeded", "errored", "failed"}
RowType   == [state : RowStates, attempts : 0 .. MaxAttempts]
Absent    == [state |-> "absent", attempts |-> 0]
Queued    == [state |-> "pending", attempts |-> 0]

Pending == {i \in Items : row[i].state = "pending"}

Settled(i) ==
  \/ row[i].state \in {"succeeded", "errored"}
  \/ row[i].state = "failed" /\ row[i].attempts >= MaxAttempts

(* INSERT ... ON CONFLICT DO NOTHING. *)
Enqueued(S) ==
  [i \in Items |-> IF i \in S /\ row[i] = Absent THEN Queued ELSE row[i]]

(* open_window: later arrivals join without extending close_at. *)
Opened(ts) ==
  IF window.open THEN window ELSE [row |-> TRUE, open |-> TRUE, close |-> ts + Interval]

(* close_if_drained on the rows its transaction sees. *)
DrainedEmitted(rows) == TRUE                                                   \* mutant
Drained(rows) == \A i \in Items : rows[i].state # "pending"
ClosedUnsaved(rows) == window                                                  \* mutant
Closed(rows) == IF window.row /\ Drained(rows) THEN Shut ELSE window

(* complete_batch: guarded on PENDING.                                     *)
Completed(S, state) ==
  [i \in Items |-> IF i \in S \cap Pending THEN [row[i] EXCEPT !.state = state]
                                           ELSE row[i]]

(* fail_batch: burn an attempt, FAILED for good at the cap. *)
FailedUncapped(S) ==                                                           \* mutant
  [i \in Items |-> IF i \in S \cap Pending THEN [row[i] EXCEPT !.attempts = @ + 1]
                                            ELSE row[i]]
Failed(S) ==
  [i \in Items |->
     IF i \notin S \cap Pending THEN row[i]
     ELSE [state |-> IF row[i].attempts + 1 >= MaxAttempts THEN "failed" ELSE "pending",
           attempts |-> row[i].attempts + 1]]

(* digest_batch: at most BatchCap pending runs, least tried first.  Which  *)
(* of equally tried runs has the smaller ULID is left open.                *)
IsBatch(S) ==
  /\ S \subseteq Pending
  /\ Cardinality(S) = IF Cardinality(Pending) <= BatchCap THEN Cardinality(Pending)
                                                          ELSE BatchCap
  /\ \A i \in S, j \in Pending \ S : row[i].attempts <= row[j].attempts

-----------------------------------------------------------------------------
FeederType == [pc : {"idle", "started", "resolved", "opened"}, now : Times,
               cadence : {"digest", "instant"}]
IdleFeeder == [pc |-> "idle", now |-> 0, cadence |-> "instant"]

Holding   == {"slicing", "gathered", "ready", "emitted", "closing", "leaving"}
Verdicts  == {"succeeded", "errored", "failed"}
FlushType == [pc : {"idle", "due"} \cup Holding, batch : SUBSET Items,
              gone : SUBSET Items, verdict : Verdicts]
IdleFlush == [pc |-> "idle", batch |-> {}, gone |-> {}, verdict |-> "failed"]

DrainType == [pc : {"idle", "draining", "judging"}, run : SUBSET Items,
              seen : [Items -> {"none", "pending", "failed"}]]
IdleDrain == [pc |-> "idle", run |-> {}, seen |-> [i \in Items |-> "none"]]

SpentType == [faults : 0 .. MaxFaults, lapses : 0 .. MaxLapses,
              edits : 0 .. MaxEdits, backfills : 0 .. MaxBackfills]

Init ==
  /\ cadence \in {"digest", "instant"}
  /\ window = NoWindow
  /\ row = [i \in Items |-> Absent]
  /\ successors = {}
  /\ fence = Nobody
  /\ feeder = [w \in Feeders |-> IdleFeeder]
  /\ flush = [f \in Flushers |-> IdleFlush]
  /\ drain = IdleDrain
  /\ emits = [i \in Items |-> 0]
  /\ clock = 0
  /\ spent = [faults |-> 0, lapses |-> 0, edits |-> 0, backfills |-> 0]

-----------------------------------------------------------------------------
(* Arrivals.                                                               *)

(* A trigger or drain pass reads the clock once, at its start. *)
FeedStart(w) ==
  /\ feeder[w].pc = "idle"
  /\ feeder' = [feeder EXCEPT ![w].pc = "started", ![w].now = clock]
  /\ UNCHANGED <<cadence, window, row, successors, fence, flush, drain, emits, clock, spent>>

(* It reads the action's config: the trigger once per pass, the advance    *)
(* inside each completion.                                                 *)
FeedResolve(w) ==
  /\ feeder[w].pc = "started"
  /\ cadence # "gone"
  /\ feeder' = [feeder EXCEPT ![w].pc = "resolved", ![w].cadence = cadence]
  /\ UNCHANGED <<cadence, window, row, successors, fence, flush, drain, emits, clock, spent>>

(* The clock must leave room for the window to fall due. *)
RoomToClose(ts) == ts + Interval <= MaxClock

(* The trigger opens a digest head's window in a transaction of its own,   *)
(* once per pass.                                                          *)
OpenForHead(w) ==
  /\ IsHead
  /\ feeder[w].pc = "resolved"
  /\ feeder[w].cadence = "digest"
  /\ RoomToClose(feeder[w].now)
  /\ window' = Opened(feeder[w].now)
  /\ feeder' = [feeder EXCEPT ![w].pc = "opened"]
  /\ UNCHANGED <<cadence, row, successors, fence, flush, drain, emits, clock, spent>>

(* ... and enqueues each feed's new items later, outside any transaction.  *)
EnqueueHead(w, S) ==
  /\ IsHead
  /\ \/ feeder[w].pc = "opened"
     \/ feeder[w].pc = "resolved" /\ feeder[w].cadence = "instant"
  /\ \E i \in S : row[i] = Absent
  /\ row' = Enqueued(S)
  /\ UNCHANGED <<cadence, window, successors, fence, feeder, flush, drain, emits, clock, spent>>

(* enqueue_next_batch inside the completion's transaction: open_window     *)
(* takes the row lock, the runs are inserted before it is released.        *)
Advance(w, S) ==
  /\ ~IsHead
  /\ feeder[w].pc = "resolved"
  /\ \E i \in S : row[i] = Absent
  /\ feeder[w].cadence = "digest" => RoomToClose(feeder[w].now)
  /\ window' = IF feeder[w].cadence = "digest" THEN Opened(feeder[w].now) ELSE window
  /\ row' = Enqueued(S)
  /\ feeder' = [feeder EXCEPT ![w].pc = "started"]
  /\ UNCHANGED <<cadence, successors, fence, flush, drain, emits, clock, spent>>

(* The pass ends, or dies: it holds nothing that outlives it. *)
FeedEnd(w) ==
  /\ feeder[w].pc # "idle"
  /\ feeder' = [feeder EXCEPT ![w] = IdleFeeder]
  /\ UNCHANGED <<cadence, window, row, successors, fence, flush, drain, emits, clock, spent>>

(* A backfill job enqueues runs of its target and opens no window. *)
Backfill(S) ==
  /\ spent.backfills < MaxBackfills
  /\ cadence # "gone"
  /\ \E i \in S : row[i] = Absent
  /\ row' = Enqueued(S)
  /\ spent' = [spent EXCEPT !.backfills = @ + 1]
  /\ UNCHANGED <<cadence, window, successors, fence, feeder, flush, drain, emits, clock>>

(* set_config and remove: an edit away from digest deletes the window row  *)
(* in the same transaction, an edit into digest leaves the runs alone.     *)
WindowAfterEdit(c) == IF c = "digest" THEN window ELSE NoWindow

Edit(c) ==
  /\ spent.edits < MaxEdits
  /\ cadence # "gone"
  /\ c # cadence
  /\ cadence' = c
  /\ window' = WindowAfterEdit(c)
  /\ spent' = [spent EXCEPT !.edits = @ + 1]
  /\ UNCHANGED <<row, successors, fence, feeder, flush, drain, emits, clock>>

-----------------------------------------------------------------------------
(* The flush.                                                              *)

(* iter_due finds the window due. *)
FlushStart(f) ==
  /\ flush[f].pc = "idle"
  /\ window.open
  /\ window.close <= clock
  /\ flush' = [flush EXCEPT ![f].pc = "due"]
  /\ UNCHANGED <<cadence, window, row, successors, fence, feeder, drain, emits, clock, spent>>

(* digest_flush_lock: cache.add, or skip the window. *)
UnfencedFlush(f) == TRUE                                                       \* mutant
MayFlush(f) == fence = Nobody

TakeFence(f) ==
  /\ flush[f].pc = "due"
  /\ MayFlush(f)
  /\ fence' = f
  /\ flush' = [flush EXCEPT ![f].pc = "slicing"]
  /\ UNCHANGED <<cadence, window, row, successors, feeder, drain, emits, clock, spent>>

SkipWindow(f) ==
  /\ flush[f].pc = "due"
  /\ ~MayFlush(f)
  /\ flush' = [flush EXCEPT ![f] = IdleFlush]
  /\ UNCHANGED <<cadence, window, row, successors, fence, feeder, drain, emits, clock, spent>>

(* _flush_slice reads a batch (and, in the same breath, which of its items *)
(* retention has pruned).                                                  *)
Gather(f) ==
  /\ flush[f].pc = "slicing"
  /\ \E S \in SUBSET Items : \E G \in SUBSET S :
       /\ IsBatch(S)
       /\ flush' = [flush EXCEPT ![f].batch = S, ![f].gone = G,
                                 ![f].pc = IF S = {} THEN "closing" ELSE "gathered"]
  /\ UNCHANGED <<cadence, window, row, successors, fence, feeder, drain, emits, clock, spent>>

(* Runs that cannot be emitted are ERRORED first, in a commit of their own: *)
(* all of them when the action is gone, else those whose item is.          *)
Unemittable(f) == IF cadence = "gone" THEN flush[f].batch ELSE flush[f].gone

DropUnemittable(f) ==
  LET left == flush[f].batch \ Unemittable(f) IN
  /\ flush[f].pc = "gathered"
  /\ row' = Completed(Unemittable(f), "errored")
  /\ flush' = [flush EXCEPT ![f].batch = left, ![f].gone = {},
                            ![f].pc = IF left = {} THEN "closing" ELSE "ready"]
  /\ UNCHANGED <<cadence, window, successors, fence, feeder, drain, emits, clock, spent>>

(* impl.run, outside any transaction. *)
Emit(f, v) ==
  /\ flush[f].pc = "ready"
  /\ emits' = [i \in Items |-> IF i \in flush[f].batch THEN emits[i] + 1 ELSE emits[i]]
  /\ flush' = [flush EXCEPT ![f].pc = "emitted", ![f].verdict = v]
  /\ UNCHANGED <<cadence, window, row, successors, fence, feeder, drain, clock, spent>>

(* The items a slice advances: its whole batch when the emit succeeded,    *)
(* whatever complete_batch wrote.                                          *)
AdvanceAnyway(f) == flush[f].batch                                             \* mutant
AdvancedBy(f) == IF flush[f].verdict = "succeeded" THEN flush[f].batch ELSE {}

(* One transaction: complete or fail the batch, advance it, close the      *)
(* window if nothing is pending.  A failure stops the loop.                *)
FinishSlice(f) ==
  LET v == flush[f].verdict
      rows == IF v = "failed" THEN Failed(flush[f].batch) ELSE Completed(flush[f].batch, v)
  IN
  /\ flush[f].pc = "emitted"
  /\ row' = rows
  /\ successors' = successors \cup AdvancedBy(f)
  /\ window' = Closed(rows)
  /\ flush' = [flush EXCEPT ![f].batch = {},
                 ![f].pc = IF v = "failed" \/ ~window.row \/ Drained(rows)
                           THEN "leaving" ELSE "slicing"]
  /\ UNCHANGED <<cadence, fence, feeder, drain, emits, clock, spent>>

(* _close, a transaction of its own on the paths without an emit. *)
CloseEmpty(f) ==
  /\ flush[f].pc = "closing"
  /\ window' = Closed(row)
  /\ flush' = [flush EXCEPT ![f].pc = "leaving"]
  /\ UNCHANGED <<cadence, row, successors, fence, feeder, drain, emits, clock, spent>>

(* named_lock's finally: delete the key if it is still ours. *)
Leave(f) ==
  /\ flush[f].pc = "leaving"
  /\ fence' = IF fence = f THEN Nobody ELSE fence
  /\ flush' = [flush EXCEPT ![f] = IdleFlush]
  /\ UNCHANGED <<cadence, window, row, successors, feeder, drain, emits, clock, spent>>

(* A database error: the pass logs it, unwinds the lock and goes on.       *)
FlushError(f) ==
  /\ spent.faults < MaxFaults
  /\ flush[f].pc \in Holding \ {"leaving"}
  /\ flush' = [flush EXCEPT ![f].pc = "leaving", ![f].batch = {}, ![f].gone = {}]
  /\ spent' = [spent EXCEPT !.faults = @ + 1]
  /\ UNCHANGED <<cadence, window, row, successors, fence, feeder, drain, emits, clock>>

(* SIGKILL: the lock stays until its TTL. *)
FlushCrash(f) ==
  /\ spent.faults < MaxFaults
  /\ flush[f].pc \in Holding
  /\ flush' = [flush EXCEPT ![f] = IdleFlush]
  /\ spent' = [spent EXCEPT !.faults = @ + 1]
  /\ UNCHANGED <<cadence, window, row, successors, fence, feeder, drain, emits, clock>>

HolderAlive == fence # Nobody /\ flush[fence].pc \in Holding

(* DIGEST_FLUSH_LOCK_TIMEOUT_SECONDS after the acquisition, never renewed. *)
FenceExpires ==
  /\ fence # Nobody
  /\ ~HolderAlive
  /\ fence' = Nobody
  /\ UNCHANGED <<cadence, window, row, successors, feeder, flush, drain, emits, clock, spent>>

FenceLapses ==
  /\ HolderAlive
  /\ spent.lapses < MaxLapses
  /\ fence' = Nobody
  /\ spent' = [spent EXCEPT !.lapses = @ + 1]
  /\ UNCHANGED <<cadence, window, row, successors, feeder, flush, drain, emits, clock>>

-----------------------------------------------------------------------------
(* The drain, as far as it reaches this action's runs.                     *)

Retryable(i) == row[i].state = "failed" /\ row[i].attempts < MaxAttempts

(* _due_runs excludes every action that has a window row, open or not.     *)
DueToDrain(r) ==
  /\ ~window.row
  /\ r.attempts < MaxAttempts
  /\ r.state \in {"pending", "failed"}

(* A pass reaps the runs of dead workers and opens its cursor. *)
DrainStart ==
  LET reaped == [i \in Items |-> IF row[i].state = "running"
                                 THEN [row[i] EXCEPT !.state = "failed"] ELSE row[i]]
  IN
  /\ drain.pc = "idle"
  /\ row' = reaped
  /\ drain' = [drain EXCEPT !.pc = "draining",
       !.seen = [i \in Items |-> IF DueToDrain(reaped[i]) THEN reaped[i].state ELSE "none"]]
  /\ UNCHANGED <<cadence, window, successors, fence, feeder, flush, emits, clock, spent>>

(* The claim's UPDATE compares the state alone; the window is not looked   *)
(* at again.                                                               *)
DrainClaim(i) ==
  /\ drain.pc = "draining"
  /\ drain.seen[i] = row[i].state
  /\ row[i].attempts < MaxAttempts
  /\ row' = [row EXCEPT ![i].state = "running", ![i].attempts = @ + 1]
  /\ drain' = [drain EXCEPT !.pc = "judging", !.run = {i}, !.seen[i] = "none"]
  /\ UNCHANGED <<cadence, window, successors, fence, feeder, flush, emits, clock, spent>>

DrainSkip(i) ==
  /\ drain.pc = "draining"
  /\ drain.seen[i] # "none"
  /\ drain.seen[i] # row[i].state
  /\ drain' = [drain EXCEPT !.seen[i] = "none"]
  /\ UNCHANGED <<cadence, window, row, successors, fence, feeder, flush, emits, clock, spent>>

(* Deliver the run on its own, complete and advance it. *)
DrainFinish(v) ==
  /\ drain.pc = "judging"
  /\ cadence = "gone" => v = "errored"
  /\ row' = [i \in Items |-> IF i \in drain.run THEN [row[i] EXCEPT !.state = v] ELSE row[i]]
  /\ successors' = IF v = "succeeded" THEN successors \cup drain.run ELSE successors
  /\ drain' = [drain EXCEPT !.pc = "draining", !.run = {}]
  /\ UNCHANGED <<cadence, window, fence, feeder, flush, emits, clock, spent>>

DrainEnd ==
  /\ drain.pc = "draining"
  /\ \A i \in Items : drain.seen[i] = "none"
  /\ drain' = IdleDrain
  /\ UNCHANGED <<cadence, window, row, successors, fence, feeder, flush, emits, clock, spent>>

DrainCrash ==
  /\ spent.faults < MaxFaults
  /\ drain.pc = "judging"
  /\ drain' = IdleDrain
  /\ spent' = [spent EXCEPT !.faults = @ + 1]
  /\ UNCHANGED <<cadence, window, row, successors, fence, feeder, flush, emits, clock>>

Tick ==
  /\ clock < MaxClock
  /\ clock' = clock + 1
  /\ UNCHANGED <<cadence, window, row, successors, fence, feeder, flush, drain, emits, spent>>

-----------------------------------------------------------------------------
FeedStep(w) ==
  \/ FeedStart(w)
  \/ FeedResolve(w)
  \/ OpenForHead(w)
  \/ \E S \in SUBSET Items : EnqueueHead(w, S)
  \/ \E S \in SUBSET Items : Advance(w, S)
  \/ FeedEnd(w)

FlushStep(f) ==
  \/ FlushStart(f)
  \/ TakeFence(f)
  \/ SkipWindow(f)
  \/ Gather(f)
  \/ DropUnemittable(f)
  \/ \E v \in Verdicts : Emit(f, v)
  \/ FinishSlice(f)
  \/ CloseEmpty(f)
  \/ Leave(f)

DrainStep ==
  \/ DrainStart
  \/ \E i \in Items : DrainClaim(i) \/ DrainSkip(i)
  \/ \E v \in Verdicts : DrainFinish(v)
  \/ DrainEnd

Next ==
  \/ \E w \in Feeders : FeedStep(w)
  \/ \E f \in Flushers : FlushStep(f) \/ FlushError(f) \/ FlushCrash(f)
  \/ DrainStep \/ DrainCrash
  \/ FenceExpires \/ FenceLapses
  \/ \E S \in SUBSET Items : Backfill(S)
  \/ \E c \in {"digest", "instant", "gone"} : Edit(c)
  \/ Tick

Spec == Init /\ [][Next]_vars

(* Cron starts flush passes for ever and a started pass goes on; a drain   *)
(* pass does too; a dead holder's lock expires.                            *)
Fairness ==
  /\ \A f \in Flushers : WF_vars(FlushStep(f))
  /\ WF_vars(DrainStep)
  /\ WF_vars(FenceExpires)
  /\ WF_vars(Tick)

-----------------------------------------------------------------------------
(* Every variable keeps its type; in particular attempts never pass the cap. *)
TypeOK ==
  /\ cadence \in {"digest", "instant", "gone"}
  /\ window \in WindowType
  /\ row \in [Items -> RowType]
  /\ successors \subseteq Items
  /\ fence \in Flushers \cup {Nobody}
  /\ feeder \in [Feeders -> FeederType]
  /\ flush \in [Flushers -> FlushType]
  /\ drain \in DrainType
  /\ emits \in [Items -> Nat]
  /\ clock \in Times
  /\ spent \in SpentType

(* Somebody will take every pending run: the flush if the action has a     *)
(* window row, and then the window must be open, else the drain            *)
(* (close_if_drained: "Either way: no orphan").                            *)
NoOrphan == Pending # {} /\ window.row => window.open

(* The drain never claims a run of a digest action.                        *)
DrainSkipsDigests ==
  [][\A i \in Items : row[i].state # "running" /\ row'[i].state = "running"
                      => cadence # "digest"]_vars

(* "The runner advances the chain IFF a run reaches SUCCEEDED".            *)
AdvancesIffSucceeded == \A i \in Items : i \in successors <=> row[i].state = "succeeded"

(* A final run is never written again, whatever flush, drain or edit still *)
(* holds it.                                                               *)
FinalIsForever == [][\A i \in Items : Settled(i) => row'[i] = row[i]]_vars

(* A run that may still be tried is under the cap, so that either cadence  *)
(* can take it: fail_batch leaves no pending run the drain would refuse.   *)
PendingIsUnderCap == \A i \in Pending : row[i].attempts < MaxAttempts

(* At-least-once stays bounded: an item is emitted once per attempt burned *)
(* plus once per crash and per lock that lapsed.                           *)
EmissionsBounded ==
  \A i \in Items : emits[i] <= MaxAttempts + spent.faults + spent.lapses
=============================================================================
