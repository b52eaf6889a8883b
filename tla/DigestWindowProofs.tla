------------------------- MODULE DigestWindowProofs -------------------------
(***************************************************************************)
(* DigestWindow for any items, feeders, flushers, caps and faults: types,  *)
(* the attempts cap, the finality of runs and the bound on emissions,      *)
(* whatever else goes on; and, while nobody edits the action or backfills  *)
(* it, that no pending run is orphaned, that the drain leaves a digest     *)
(* alone and, while no flush lock lapses, that the chain advances exactly  *)
(* on success.                                                             *)
(***************************************************************************)
EXTENDS DigestWindow, FiniteSetTheorems, TLAPS

-----------------------------------------------------------------------------
(* Types.                                                                  *)

LEMMA RowTypes ==
  ASSUME NEW r \in RowType
  PROVE  /\ Absent \in RowType /\ Queued \in RowType
         /\ \A s \in RowStates : [r EXCEPT !.state = s] \in RowType
         /\ \A s \in RowStates : r.attempts < MaxAttempts
              => /\ [r EXCEPT !.state = s, !.attempts = @ + 1] \in RowType
                 /\ [state |-> s, attempts |-> r.attempts + 1] \in RowType
<1>1. 0 \in 0 .. MaxAttempts
  BY SettingsAssumption
<1>2. Absent \in RowType /\ Queued \in RowType
  BY <1>1 DEF Absent, Queued, RowType, RowStates
<1>3. ASSUME NEW s \in RowStates PROVE [r EXCEPT !.state = s] \in RowType
  BY DEF RowType
<1>4. ASSUME NEW s \in RowStates, r.attempts < MaxAttempts
      PROVE  /\ [r EXCEPT !.state = s, !.attempts = @ + 1] \in RowType
             /\ [state |-> s, attempts |-> r.attempts + 1] \in RowType
  <2>1. r.attempts + 1 \in 0 .. MaxAttempts
    BY <1>4, SettingsAssumption DEF RowType
  <2>2. QED
    BY <2>1 DEF RowType
<1>5. QED
  BY <1>2, <1>3, <1>4, Zenon

\* A pending run that fails has an attempt left: PendingIsUnderCap is needed
\* for the types.
LEMMA RowWrites ==
  ASSUME row \in [Items -> RowType], PendingIsUnderCap, NEW S \in SUBSET Items
  PROVE  /\ Enqueued(S) \in [Items -> RowType]
         /\ \A s \in RowStates : Completed(S, s) \in [Items -> RowType]
         /\ Failed(S) \in [Items -> RowType]
<1>1. ASSUME NEW i \in Items
      PROVE  /\ (IF i \in S /\ row[i] = Absent THEN Queued ELSE row[i]) \in RowType
             /\ \A s \in RowStates : [row[i] EXCEPT !.state = s] \in RowType
  <2>1. row[i] \in RowType
    OBVIOUS
  <2>2. Queued \in RowType /\ \A s \in RowStates : [row[i] EXCEPT !.state = s] \in RowType
    BY <2>1, RowTypes, Zenon
  <2>3. QED
    BY <2>1, <2>2
<1>2. Enqueued(S) \in [Items -> RowType]
  BY <1>1 DEF Enqueued
<1>3. ASSUME NEW s \in RowStates PROVE Completed(S, s) \in [Items -> RowType]
  BY <1>1 DEF Completed
<1>4. Failed(S) \in [Items -> RowType]
  <2>1. ASSUME NEW i \in Items, i \in S \cap Pending, NEW s \in RowStates
        PROVE  [state |-> s, attempts |-> row[i].attempts + 1] \in RowType
    <3>1. row[i].attempts < MaxAttempts /\ row[i] \in RowType
      BY <2>1 DEF PendingIsUnderCap
    <3>2. QED
      BY <3>1, RowTypes, Zenon
  <2>2. "failed" \in RowStates /\ "pending" \in RowStates
    BY DEF RowStates
  <2>3. ASSUME NEW i \in Items, i \in S \cap Pending
        PROVE  [state |-> IF row[i].attempts + 1 >= MaxAttempts THEN "failed" ELSE "pending",
                attempts |-> row[i].attempts + 1] \in RowType
    <3>1. CASE row[i].attempts + 1 >= MaxAttempts
      BY <3>1, <2>1, <2>2, <2>3
    <3>2. CASE ~(row[i].attempts + 1 >= MaxAttempts)
      BY <3>2, <2>1, <2>2, <2>3
    <3>3. QED
      BY <3>1, <3>2
  <2>4. QED
    BY <2>3 DEF Failed
<1>5. QED
  BY <1>2, <1>3, <1>4, Zenon

LEMMA WindowTypes ==
  ASSUME window \in WindowType
  PROVE  /\ NoWindow \in WindowType
         /\ \A rows : Closed(rows) \in WindowType
         /\ \A ts \in Times : RoomToClose(ts) => Opened(ts) \in WindowType
<1>1. 0 \in Times
  BY BoundsAssumption DEF Times
<1>2. NoWindow \in WindowType /\ Shut \in WindowType
  BY <1>1 DEF NoWindow, Shut, WindowType
<1>3. ASSUME NEW ts \in Times, RoomToClose(ts) PROVE Opened(ts) \in WindowType
  <2>1. ts + Interval \in Times
    BY <1>3, SettingsAssumption, BoundsAssumption DEF RoomToClose, Times
  <2>2. QED
    BY <2>1 DEF Opened, WindowType
<1>4. QED
  BY <1>2, <1>3 DEF Closed

\* What a flush's steps make of its locals.
LEMMA FlushTypes ==
  ASSUME NEW q \in FlushType
  PROVE  /\ IdleFlush \in FlushType
         /\ \A pc \in {"idle", "due"} \cup Holding : [q EXCEPT !.pc = pc] \in FlushType
         /\ \A pc \in Holding, v \in Verdicts :
              [q EXCEPT !.pc = pc, !.verdict = v] \in FlushType
         /\ \A pc \in Holding, S \in SUBSET Items :
              [q EXCEPT !.batch = S, !.pc = pc] \in FlushType
         /\ \A pc \in Holding, S, G \in SUBSET Items :
              [q EXCEPT !.batch = S, !.gone = G, !.pc = pc] \in FlushType
         /\ \A pc \in Holding, S, G \in SUBSET Items :
              [q EXCEPT !.pc = pc, !.batch = S, !.gone = G] \in FlushType
<1>1. IdleFlush \in FlushType
  BY DEF IdleFlush, FlushType, Verdicts
<1>2. ASSUME NEW pc \in {"idle", "due"} \cup Holding PROVE [q EXCEPT !.pc = pc] \in FlushType
  BY DEF FlushType
<1>3. ASSUME NEW pc \in Holding, NEW v \in Verdicts
      PROVE  [q EXCEPT !.pc = pc, !.verdict = v] \in FlushType
  BY DEF FlushType
<1>4. ASSUME NEW pc \in Holding, NEW S \in SUBSET Items
      PROVE  [q EXCEPT !.batch = S, !.pc = pc] \in FlushType
  BY DEF FlushType
<1>5. ASSUME NEW pc \in Holding, NEW S \in SUBSET Items, NEW G \in SUBSET Items
      PROVE  /\ [q EXCEPT !.batch = S, !.gone = G, !.pc = pc] \in FlushType
             /\ [q EXCEPT !.pc = pc, !.batch = S, !.gone = G] \in FlushType
  BY DEF FlushType
<1>6. QED
  BY <1>1, <1>2, <1>3, <1>4, <1>5, Zenon

LEMMA FeederTypes ==
  ASSUME NEW q \in FeederType
  PROVE  /\ IdleFeeder \in FeederType
         /\ \A t \in Times : [q EXCEPT !.pc = "started", !.now = t] \in FeederType
         /\ \A c \in {"digest", "instant"} :
              [q EXCEPT !.pc = "resolved", !.cadence = c] \in FeederType
         /\ [q EXCEPT !.pc = "opened"] \in FeederType
         /\ [q EXCEPT !.pc = "started"] \in FeederType
<1>1. 0 \in Times
  BY BoundsAssumption DEF Times
<1>2. IdleFeeder \in FeederType
  BY <1>1 DEF IdleFeeder, FeederType
<1>3. ASSUME NEW t \in Times PROVE [q EXCEPT !.pc = "started", !.now = t] \in FeederType
  BY DEF FeederType
<1>4. ASSUME NEW c \in {"digest", "instant"}
      PROVE  [q EXCEPT !.pc = "resolved", !.cadence = c] \in FeederType
  BY DEF FeederType
<1>5. [q EXCEPT !.pc = "opened"] \in FeederType /\ [q EXCEPT !.pc = "started"] \in FeederType
  BY DEF FeederType
<1>6. QED
  BY <1>2, <1>3, <1>4, <1>5, Zenon

LEMMA SpentTypes ==
  ASSUME NEW q \in SpentType
  PROVE  /\ q.faults < MaxFaults => [q EXCEPT !.faults = @ + 1] \in SpentType
         /\ q.lapses < MaxLapses => [q EXCEPT !.lapses = @ + 1] \in SpentType
         /\ q.edits < MaxEdits => [q EXCEPT !.edits = @ + 1] \in SpentType
         /\ q.backfills < MaxBackfills => [q EXCEPT !.backfills = @ + 1] \in SpentType
<1> USE BoundsAssumption DEF SpentType
<1>1. q.faults < MaxFaults => [q EXCEPT !.faults = @ + 1] \in SpentType
  OBVIOUS
<1>2. q.lapses < MaxLapses => [q EXCEPT !.lapses = @ + 1] \in SpentType
  OBVIOUS
<1>3. q.edits < MaxEdits => [q EXCEPT !.edits = @ + 1] \in SpentType
  OBVIOUS
<1>4. q.backfills < MaxBackfills => [q EXCEPT !.backfills = @ + 1] \in SpentType
  OBVIOUS
<1>5. QED
  BY <1>1, <1>2, <1>3, <1>4

-----------------------------------------------------------------------------
(* What a step leaves alone, variable by variable.                         *)

LEMMA RowWriters ==
  ASSUME [Next]_vars
  PROVE  \/ row' = row
         \/ \E S \in SUBSET Items : row' = Enqueued(S)
         \/ \E f \in Flushers : DropUnemittable(f) \/ FinishSlice(f)
         \/ DrainStart
         \/ \E i \in Items : DrainClaim(i)
         \/ \E v \in Verdicts : DrainFinish(v)
<1>1. ASSUME NEW w \in Feeders, FeedStep(w)
      PROVE  row' = row \/ \E S \in SUBSET Items : row' = Enqueued(S)
  BY <1>1 DEF FeedStep, FeedStart, FeedResolve, OpenForHead, EnqueueHead, Advance, FeedEnd
<1>2. ASSUME NEW f \in Flushers, FlushStep(f) \/ FlushError(f) \/ FlushCrash(f)
      PROVE  row' = row \/ DropUnemittable(f) \/ FinishSlice(f)
  BY <1>2 DEF FlushStep, FlushStart, TakeFence, SkipWindow, Gather, Emit, CloseEmpty, Leave,
              FlushError, FlushCrash
<1>3. ASSUME DrainStep \/ DrainCrash
      PROVE  \/ row' = row \/ DrainStart
             \/ \E i \in Items : DrainClaim(i)
             \/ \E v \in Verdicts : DrainFinish(v)
  BY <1>3 DEF DrainStep, DrainSkip, DrainEnd, DrainCrash
<1>4. ASSUME FenceExpires \/ FenceLapses \/ Tick \/ UNCHANGED vars PROVE row' = row
  BY <1>4 DEF FenceExpires, FenceLapses, Tick, vars
<1>5. ASSUME NEW c \in {"digest", "instant", "gone"}, Edit(c) PROVE row' = row
  BY <1>5 DEF Edit
<1>6. ASSUME NEW S \in SUBSET Items, Backfill(S) PROVE row' = Enqueued(S)
  BY <1>6 DEF Backfill
<1>7. QED
  BY <1>1, <1>2, <1>3, <1>4, <1>5, <1>6, Zenon DEF Next

LEMMA WindowWriters ==
  ASSUME [Next]_vars
  PROVE  \/ window' = window
         \/ \E w \in Feeders : OpenForHead(w) \/ \E S \in SUBSET Items : Advance(w, S)
         \/ \E f \in Flushers : FinishSlice(f) \/ CloseEmpty(f)
         \/ \E c \in {"digest", "instant", "gone"} : Edit(c)
<1>1. ASSUME NEW w \in Feeders, FeedStep(w)
      PROVE  window' = window \/ OpenForHead(w) \/ \E S \in SUBSET Items : Advance(w, S)
  BY <1>1 DEF FeedStep, FeedStart, FeedResolve, EnqueueHead, FeedEnd
<1>2. ASSUME NEW f \in Flushers, FlushStep(f) \/ FlushError(f) \/ FlushCrash(f)
      PROVE  window' = window \/ FinishSlice(f) \/ CloseEmpty(f)
  BY <1>2 DEF FlushStep, FlushStart, TakeFence, SkipWindow, Gather, DropUnemittable, Emit, Leave,
              FlushError, FlushCrash
<1>3. ASSUME DrainStep \/ DrainCrash PROVE window' = window
  BY <1>3 DEF DrainStep, DrainStart, DrainClaim, DrainSkip, DrainFinish, DrainEnd, DrainCrash
<1>4. ASSUME FenceExpires \/ FenceLapses \/ Tick \/ UNCHANGED vars PROVE window' = window
  BY <1>4 DEF FenceExpires, FenceLapses, Tick, vars
<1>5. ASSUME NEW S \in SUBSET Items, Backfill(S) PROVE window' = window
  BY <1>5 DEF Backfill
<1>6. QED
  BY <1>1, <1>2, <1>3, <1>4, <1>5, Zenon DEF Next

LEMMA DrainWriters ==
  ASSUME [Next]_vars
  PROVE  drain' = drain \/ DrainStep \/ DrainCrash
<1>1. ASSUME NEW w \in Feeders, FeedStep(w) PROVE drain' = drain
  BY <1>1 DEF FeedStep, FeedStart, FeedResolve, OpenForHead, EnqueueHead, Advance, FeedEnd
<1>2. ASSUME NEW f \in Flushers, FlushStep(f) \/ FlushError(f) \/ FlushCrash(f)
      PROVE  drain' = drain
  BY <1>2 DEF FlushStep, FlushStart, TakeFence, SkipWindow, Gather, DropUnemittable, Emit,
              FinishSlice, CloseEmpty, Leave, FlushError, FlushCrash
<1>3. ASSUME FenceExpires \/ FenceLapses \/ Tick \/ UNCHANGED vars PROVE drain' = drain
  BY <1>3 DEF FenceExpires, FenceLapses, Tick, vars
<1>4. ASSUME NEW c \in {"digest", "instant", "gone"}, Edit(c) PROVE drain' = drain
  BY <1>4 DEF Edit
<1>5. ASSUME NEW S \in SUBSET Items, Backfill(S) PROVE drain' = drain
  BY <1>5 DEF Backfill
<1>6. QED
  BY <1>1, <1>2, <1>3, <1>4, <1>5, Zenon DEF Next

LEMMA FlushWriters ==
  ASSUME [Next]_vars
  PROVE  \/ UNCHANGED flush
         \/ \E f \in Flushers : FlushStep(f) \/ FlushError(f) \/ FlushCrash(f)
<1>1. ASSUME NEW w \in Feeders, FeedStep(w) PROVE UNCHANGED flush
  BY <1>1 DEF FeedStep, FeedStart, FeedResolve, OpenForHead, EnqueueHead, Advance, FeedEnd
<1>2. ASSUME DrainStep \/ DrainCrash PROVE UNCHANGED flush
  BY <1>2 DEF DrainStep, DrainStart, DrainClaim, DrainSkip, DrainFinish, DrainEnd, DrainCrash
<1>3. ASSUME FenceExpires \/ FenceLapses \/ Tick \/ UNCHANGED vars PROVE UNCHANGED flush
  BY <1>3 DEF FenceExpires, FenceLapses, Tick, vars
<1>4. ASSUME NEW c \in {"digest", "instant", "gone"}, Edit(c) PROVE UNCHANGED flush
  BY <1>4 DEF Edit
<1>5. ASSUME NEW S \in SUBSET Items, Backfill(S) PROVE UNCHANGED flush
  BY <1>5 DEF Backfill
<1>6. QED
  BY <1>1, <1>2, <1>3, <1>4, <1>5, Zenon DEF Next

LEMMA FeederWriters ==
  ASSUME [Next]_vars
  PROVE  UNCHANGED feeder \/ \E w \in Feeders : FeedStep(w)
<1>1. ASSUME NEW f \in Flushers, FlushStep(f) \/ FlushError(f) \/ FlushCrash(f)
      PROVE  UNCHANGED feeder
  BY <1>1 DEF FlushStep, FlushStart, TakeFence, SkipWindow, Gather, DropUnemittable, Emit,
              FinishSlice, CloseEmpty, Leave, FlushError, FlushCrash
<1>2. ASSUME DrainStep \/ DrainCrash PROVE UNCHANGED feeder
  BY <1>2 DEF DrainStep, DrainStart, DrainClaim, DrainSkip, DrainFinish, DrainEnd, DrainCrash
<1>3. ASSUME FenceExpires \/ FenceLapses \/ Tick \/ UNCHANGED vars PROVE UNCHANGED feeder
  BY <1>3 DEF FenceExpires, FenceLapses, Tick, vars
<1>4. ASSUME NEW c \in {"digest", "instant", "gone"}, Edit(c) PROVE UNCHANGED feeder
  BY <1>4 DEF Edit
<1>5. ASSUME NEW S \in SUBSET Items, Backfill(S) PROVE UNCHANGED feeder
  BY <1>5 DEF Backfill
<1>6. QED
  BY <1>1, <1>2, <1>3, <1>4, <1>5, Zenon DEF Next

-----------------------------------------------------------------------------
(* Types, the attempts cap, and what the drain holds.                      *)

\* The run a drain pass judges is its own: nobody else writes a RUNNING one.
DrainHolds == drain.pc = "judging" => \A i \in drain.run : row[i].state = "running"

RowsSound == TypeOK /\ PendingIsUnderCap /\ DrainHolds

\* One item's run in a step, in terms of its state before: every writer's
\* guard on the run it writes.
RunStep(i) ==
  \/ row'[i] = row[i]
  \/ row[i] = Absent /\ row'[i] = Queued
  \/ row[i].state = "pending" /\ row'[i].state \in {"succeeded", "errored", "failed"}
  \/ /\ row[i].state = "pending" /\ row'[i].state = "pending"
     /\ row[i].attempts + 1 < MaxAttempts /\ row'[i].attempts = row[i].attempts + 1
  \/ /\ row[i].state \in {"pending", "failed"} /\ row[i].attempts < MaxAttempts
     /\ row'[i].state = "running"
  \/ row[i].state = "running" /\ row'[i].state \in {"succeeded", "errored", "failed"}

LEMMA EveryRunStep ==
  ASSUME RowsSound, [Next]_vars, NEW i \in Items
  PROVE  row' \in [Items -> RowType] /\ RunStep(i)
<1>t. /\ row \in [Items -> RowType] /\ PendingIsUnderCap
      /\ flush \in [Flushers -> FlushType] /\ drain \in DrainType
      /\ row[i] \in RowType
  BY DEF RowsSound, TypeOK
<1>s. {"succeeded", "errored", "failed", "pending", "running"} \subseteq RowStates
  BY DEF RowStates
<1>1. CASE row' = row
  BY <1>1, <1>t DEF RunStep
<1>2. ASSUME NEW S \in SUBSET Items, row' = Enqueued(S)
      PROVE  row' \in [Items -> RowType] /\ RunStep(i)
  <2>1. row' \in [Items -> RowType]
    BY <1>2, <1>t, RowWrites, Zenon
  <2>2. row'[i] = IF i \in S /\ row[i] = Absent THEN Queued ELSE row[i]
    BY <1>2 DEF Enqueued
  <2>3. QED
    BY <2>1, <2>2 DEF RunStep
<1>3. ASSUME NEW S \in SUBSET Items, NEW s \in {"succeeded", "errored", "failed"},
             row' = Completed(S, s)
      PROVE  row' \in [Items -> RowType] /\ RunStep(i)
  <2>1. row' \in [Items -> RowType]
    BY <1>3, <1>s, <1>t, RowWrites
  <2>2. row'[i] = IF i \in S \cap Pending THEN [row[i] EXCEPT !.state = s] ELSE row[i]
    BY <1>3 DEF Completed
  <2>3. i \in Pending => row[i].state = "pending" /\ [row[i] EXCEPT !.state = s].state = s
    BY <1>t DEF Pending, RowType
  <2>4. QED
    BY <2>1, <2>2, <2>3 DEF RunStep
<1>4. ASSUME NEW S \in SUBSET Items, row' = Failed(S)
      PROVE  row' \in [Items -> RowType] /\ RunStep(i)
  <2>1. row' \in [Items -> RowType]
    BY <1>4, <1>t, RowWrites, Zenon
  <2>2. CASE i \notin S \cap Pending
    <3>1. row'[i] = row[i]
      BY <1>4, <2>2 DEF Failed
    <3>2. QED
      BY <2>1, <3>1 DEF RunStep
  <2>3. CASE i \in S \cap Pending
    <3>1. row[i].state = "pending" /\ row[i].attempts \in Nat
      BY <2>3, <1>t DEF Pending, RowType
    <3>2. /\ row'[i].state = IF row[i].attempts + 1 >= MaxAttempts THEN "failed" ELSE "pending"
          /\ row'[i].attempts = row[i].attempts + 1
      BY <1>4, <2>3 DEF Failed
    <3>3. QED
      BY <2>1, <3>1, <3>2, SettingsAssumption DEF RunStep
  <2>4. QED
    BY <2>2, <2>3
<1>5. ASSUME NEW f \in Flushers, DropUnemittable(f) \/ FinishSlice(f)
      PROVE  row' \in [Items -> RowType] /\ RunStep(i)
  <2>1. flush[f].batch \in SUBSET Items /\ flush[f].gone \in SUBSET Items
        /\ flush[f].verdict \in {"succeeded", "errored", "failed"}
    BY <1>t DEF FlushType, Verdicts
  <2>2. Unemittable(f) \in SUBSET Items
    BY <2>1 DEF Unemittable
  <2>3. CASE DropUnemittable(f)
    BY <2>2, <2>3, <1>3 DEF DropUnemittable
  <2>4. CASE FinishSlice(f) /\ flush[f].verdict = "failed"
    BY <2>1, <2>4, <1>4 DEF FinishSlice
  <2>5. CASE FinishSlice(f) /\ flush[f].verdict # "failed"
    <3>1. row' = Completed(flush[f].batch, flush[f].verdict)
      BY <2>5 DEF FinishSlice
    <3>2. QED
      BY <2>1, <3>1, <1>3, Zenon
  <2>6. QED
    BY <1>5, <2>3, <2>4, <2>5
<1>6. ASSUME DrainStart PROVE row' \in [Items -> RowType] /\ RunStep(i)
  <2>1. ASSUME NEW j \in Items
        PROVE  /\ [row[j] EXCEPT !.state = "failed"] \in RowType
               /\ [row[j] EXCEPT !.state = "failed"].state = "failed"
    <3>1. row[j] \in RowType
      BY <1>t
    <3>2. QED
      BY <3>1, <1>s DEF RowType
  <2>2. row' = [j \in Items |-> IF row[j].state = "running"
                                THEN [row[j] EXCEPT !.state = "failed"] ELSE row[j]]
    BY <1>6 DEF DrainStart
  <2>3. row' \in [Items -> RowType]
    BY <2>1, <2>2, <1>t
  <2>4. QED
    BY <2>1, <2>2, <2>3 DEF RunStep
<1>7. ASSUME NEW j \in Items, DrainClaim(j) PROVE row' \in [Items -> RowType] /\ RunStep(i)
  <2>1. row[j] \in RowType /\ row[j].attempts < MaxAttempts
        /\ row[j].state \in {"pending", "failed"}
    BY <1>7, <1>t DEF DrainClaim, DrainType, RowType, RowStates
  <2> DEFINE q == [row[j] EXCEPT !.state = "running", !.attempts = @ + 1]
  <2>2. q \in RowType /\ q.state = "running"
    <3>1. "running" \in RowStates
      BY <1>s
    <3>2. q \in RowType
      BY <2>1, <3>1, RowTypes, Zenon
    <3>3. QED
      BY <2>1, <3>2 DEF RowType
  <2>3. row' = [row EXCEPT ![j] = q]
    BY <1>7, <1>t DEF DrainClaim
  <2> HIDE DEF q
  <2>4. QED
    BY <1>t, <2>1, <2>2, <2>3 DEF RunStep
<1>8. ASSUME NEW v \in Verdicts, DrainFinish(v) PROVE row' \in [Items -> RowType] /\ RunStep(i)
  <2>1. row' = [j \in Items |-> IF j \in drain.run THEN [row[j] EXCEPT !.state = v] ELSE row[j]]
    BY <1>8 DEF DrainFinish
  <2>2. ASSUME NEW j \in Items
        PROVE  [row[j] EXCEPT !.state = v] \in RowType /\ [row[j] EXCEPT !.state = v].state = v
    <3>1. row[j] \in RowType /\ v \in RowStates
      BY <1>t DEF Verdicts, RowStates
    <3>2. QED
      BY <3>1 DEF RowType
  <2>3. row' \in [Items -> RowType]
    BY <2>1, <2>2, <1>t
  <2>4. i \in drain.run => row[i].state = "running"
    BY <1>8 DEF RowsSound, DrainHolds, DrainFinish
  <2>5. QED
    BY <2>1, <2>2, <2>3, <2>4 DEF RunStep, Verdicts
<1>9. QED
  BY <1>1, <1>2, <1>5, <1>6, <1>7, <1>8, RowWriters, Zenon

LEMMA WindowTypeStep ==
  ASSUME TypeOK, [Next]_vars
  PROVE  window' \in WindowType
<1>t. /\ window \in WindowType /\ feeder \in [Feeders -> FeederType]
  BY DEF TypeOK
<1>1. ASSUME NEW w \in Feeders, OpenForHead(w) \/ \E S \in SUBSET Items : Advance(w, S)
      PROVE  window' \in WindowType
  <2>1. \/ window' = window
        \/ RoomToClose(feeder[w].now) /\ window' = Opened(feeder[w].now)
    BY <1>1 DEF OpenForHead, Advance
  <2>2. feeder[w].now \in Times
    BY <1>t DEF FeederType
  <2>3. QED
    BY <2>1, <2>2, <1>t, WindowTypes, Zenon
<1>2. ASSUME NEW f \in Flushers, FinishSlice(f) \/ CloseEmpty(f) PROVE window' \in WindowType
  BY <1>2, <1>t, WindowTypes DEF FinishSlice, CloseEmpty
<1>3. ASSUME NEW c \in {"digest", "instant", "gone"}, Edit(c) PROVE window' \in WindowType
  BY <1>3, <1>t, WindowTypes DEF Edit, WindowAfterEdit
<1>4. QED
  BY <1>1, <1>2, <1>3, <1>t, WindowWriters

LEMMA FeederTypeStep ==
  ASSUME TypeOK, [Next]_vars
  PROVE  feeder' \in [Feeders -> FeederType]
<1>t. feeder \in [Feeders -> FeederType] /\ clock \in Times /\ cadence \in {"digest", "instant", "gone"}
  BY DEF TypeOK
<1>1. ASSUME NEW w \in Feeders, FeedStep(w) PROVE feeder' \in [Feeders -> FeederType]
  <2> DEFINE o == feeder[w]
  <2>0. o \in FeederType
    BY <1>t
  <2>1. PICK q \in FeederType : feeder' = [feeder EXCEPT ![w] = q] \/ feeder' = feeder
    <3>1. CASE FeedStart(w)
      <4>1. feeder' = [feeder EXCEPT ![w] = [o EXCEPT !.pc = "started", !.now = clock]]
        BY <3>1, <1>t DEF FeedStart
      <4>2. [o EXCEPT !.pc = "started", !.now = clock] \in FeederType
        BY <2>0, <1>t, FeederTypes, Zenon
      <4>3. QED
        BY <4>1, <4>2, Zenon
    <3>2. CASE FeedResolve(w)
      <4>1. feeder' = [feeder EXCEPT ![w] = [o EXCEPT !.pc = "resolved", !.cadence = cadence]]
            /\ cadence \in {"digest", "instant"}
        BY <3>2, <1>t DEF FeedResolve
      <4>2. [o EXCEPT !.pc = "resolved", !.cadence = cadence] \in FeederType
        BY <4>1, <2>0, FeederTypes, Zenon
      <4>3. QED
        BY <4>1, <4>2, Zenon
    <3>3. CASE OpenForHead(w)
      <4>1. feeder' = [feeder EXCEPT ![w] = [o EXCEPT !.pc = "opened"]]
        BY <3>3, <1>t DEF OpenForHead
      <4>2. [o EXCEPT !.pc = "opened"] \in FeederType
        BY <2>0, FeederTypes, Zenon
      <4>3. QED
        BY <4>1, <4>2, Zenon
    <3>4. CASE \E S \in SUBSET Items : EnqueueHead(w, S)
      BY <3>4, <2>0 DEF EnqueueHead
    <3>5. CASE \E S \in SUBSET Items : Advance(w, S)
      <4>1. feeder' = [feeder EXCEPT ![w] = [o EXCEPT !.pc = "started"]]
        BY <3>5, <1>t DEF Advance
      <4>2. [o EXCEPT !.pc = "started"] \in FeederType
        BY <2>0, FeederTypes, Zenon
      <4>3. QED
        BY <4>1, <4>2, Zenon
    <3>6. CASE FeedEnd(w)
      <4>1. IdleFeeder \in FeederType
        BY <2>0, FeederTypes, Zenon
      <4>2. QED
        BY <3>6, <4>1, Zenon DEF FeedEnd
    <3>7. QED
      BY <1>1, <3>1, <3>2, <3>3, <3>4, <3>5, <3>6, Zenon DEF FeedStep
  <2>2. QED
    BY <2>1, <1>t
<1>2. QED
  BY <1>1, <1>t, FeederWriters

LEMMA FlushTypeStep ==
  ASSUME TypeOK, [Next]_vars
  PROVE  flush' \in [Flushers -> FlushType]
<1>t. flush \in [Flushers -> FlushType]
  BY DEF TypeOK
<1>1. ASSUME NEW f \in Flushers, FlushStep(f) \/ FlushError(f) \/ FlushCrash(f)
      PROVE  flush' \in [Flushers -> FlushType]
  <2> DEFINE o == flush[f]
  <2>0. o \in FlushType /\ o.batch \in SUBSET Items /\ IdleFlush \in FlushType
    BY <1>t, FlushTypes DEF FlushType
  <2>h. /\ {"slicing", "gathered", "ready", "emitted", "closing", "leaving"} \subseteq Holding
        /\ "due" \in {"idle", "due"} \cup Holding
    BY DEF Holding
  <2>1. PICK q \in FlushType : flush' = [flush EXCEPT ![f] = q]
    <3>1. ASSUME NEW pc \in {"idle", "due"} \cup Holding, flush' = [flush EXCEPT ![f].pc = pc]
          PROVE  \E q \in FlushType : flush' = [flush EXCEPT ![f] = q]
      <4>1. flush' = [flush EXCEPT ![f] = [o EXCEPT !.pc = pc]]
        BY <3>1, <1>t
      <4>2. [o EXCEPT !.pc = pc] \in FlushType
        BY <2>0, FlushTypes, Zenon
      <4>3. QED
        BY <4>1, <4>2, Zenon
    <3>2. CASE FlushStart(f) \/ TakeFence(f) \/ CloseEmpty(f)
      BY <3>1, <3>2, <2>h DEF FlushStart, TakeFence, CloseEmpty
    <3>3. CASE SkipWindow(f) \/ Leave(f) \/ FlushCrash(f)
      BY <3>3, <2>0 DEF SkipWindow, Leave, FlushCrash
    <3>4. CASE Gather(f)
      <4>1. PICK S \in SUBSET Items : \E G \in SUBSET S :
              flush' = [flush EXCEPT ![f].batch = S, ![f].gone = G,
                                     ![f].pc = IF S = {} THEN "closing" ELSE "gathered"]
        BY <3>4 DEF Gather
      <4>2. PICK G \in SUBSET Items :
              flush' = [flush EXCEPT ![f].batch = S, ![f].gone = G,
                                     ![f].pc = IF S = {} THEN "closing" ELSE "gathered"]
        BY <4>1
      <4>3. PICK pc \in Holding :
              flush' = [flush EXCEPT ![f].batch = S, ![f].gone = G, ![f].pc = pc]
        BY <4>2, <2>h
      <4>4. flush' = [flush EXCEPT ![f] = [o EXCEPT !.batch = S, !.gone = G, !.pc = pc]]
        BY <4>3, <1>t
      <4>5. [o EXCEPT !.batch = S, !.gone = G, !.pc = pc] \in FlushType
        BY <2>0, FlushTypes, Zenon
      <4>6. QED
        BY <4>4, <4>5, Zenon
    <3>5. CASE DropUnemittable(f)
      <4> DEFINE left == o.batch \ Unemittable(f)
                 pc == IF left = {} THEN "closing" ELSE "ready"
      <4>1. flush' = [flush EXCEPT ![f].batch = left, ![f].gone = {}, ![f].pc = pc]
        BY <3>5 DEF DropUnemittable
      <4>2. left \in SUBSET Items /\ {} \in SUBSET Items /\ pc \in Holding
        BY <2>0, <2>h
      <4> HIDE DEF left, pc
      <4>3. flush' = [flush EXCEPT ![f] = [o EXCEPT !.batch = left, !.gone = {}, !.pc = pc]]
        BY <4>1, <1>t
      <4>4. [o EXCEPT !.batch = left, !.gone = {}, !.pc = pc] \in FlushType
        BY <4>2, <2>0, FlushTypes, Zenon
      <4>5. QED
        BY <4>3, <4>4, Zenon
    <3>6. CASE \E v \in Verdicts : Emit(f, v)
      <4>1. PICK v \in Verdicts : flush' = [flush EXCEPT ![f].pc = "emitted", ![f].verdict = v]
        BY <3>6 DEF Emit
      <4>2. flush' = [flush EXCEPT ![f] = [o EXCEPT !.pc = "emitted", !.verdict = v]]
        BY <4>1, <1>t
      <4>3. "emitted" \in Holding
        BY <2>h
      <4>4. [o EXCEPT !.pc = "emitted", !.verdict = v] \in FlushType
        BY <4>3, <2>0, FlushTypes, Zenon
      <4>5. QED
        BY <4>2, <4>4, Zenon
    <3>7. CASE FinishSlice(f)
      <4>1. PICK pc \in {"leaving", "slicing"} :
              flush' = [flush EXCEPT ![f].batch = {}, ![f].pc = pc]
        BY <3>7 DEF FinishSlice
      <4>2. flush' = [flush EXCEPT ![f] = [o EXCEPT !.batch = {}, !.pc = pc]]
        BY <4>1, <1>t
      <4>3. pc \in Holding /\ {} \in SUBSET Items
        BY <2>h
      <4>4. [o EXCEPT !.batch = {}, !.pc = pc] \in FlushType
        BY <4>3, <2>0, FlushTypes, Zenon
      <4>5. QED
        BY <4>2, <4>4, Zenon
    <3>8. CASE FlushError(f)
      <4>1. flush' = [flush EXCEPT ![f] = [o EXCEPT !.pc = "leaving", !.batch = {}, !.gone = {}]]
        BY <3>8, <1>t DEF FlushError
      <4>2. "leaving" \in Holding /\ {} \in SUBSET Items
        BY <2>h
      <4>3. [o EXCEPT !.pc = "leaving", !.batch = {}, !.gone = {}] \in FlushType
        BY <4>2, <2>0, FlushTypes, Zenon
      <4>4. QED
        BY <4>1, <4>3, Zenon
    <3>9. QED
      BY <1>1, <3>2, <3>3, <3>4, <3>5, <3>6, <3>7, <3>8, Zenon DEF FlushStep
  <2>2. QED
    BY <2>1, <1>t
<1>2. QED
  BY <1>1, <1>t, FlushWriters

LEMMA DrainStepTypes ==
  ASSUME TypeOK, DrainHolds, [Next]_vars, row' \in [Items -> RowType],
         \A i \in Items : RunStep(i)
  PROVE  drain' \in DrainType /\ DrainHolds'
<1>t. drain \in DrainType /\ row \in [Items -> RowType]
  BY DEF TypeOK
<1>i. IdleDrain \in DrainType
  BY DEF IdleDrain, DrainType
<1>1. ASSUME drain' = drain, ~\E v \in Verdicts : DrainFinish(v), ~DrainStart
      PROVE  drain' \in DrainType /\ DrainHolds'
  <2>1. ASSUME NEW i \in Items, row[i].state = "running" PROVE row'[i] = row[i]
    <3>1. CASE row' = row
      BY <3>1
    <3>2. ASSUME NEW S \in SUBSET Items, row' = Enqueued(S) PROVE row'[i] = row[i]
      BY <2>1, <3>2 DEF Enqueued, Absent
    <3>3. ASSUME NEW f \in Flushers, DropUnemittable(f) \/ FinishSlice(f)
          PROVE  row'[i] = row[i]
      BY <2>1, <3>3 DEF DropUnemittable, FinishSlice, Completed, Failed, Pending
    <3>4. ASSUME NEW j \in Items, DrainClaim(j) PROVE FALSE
      <4>1. drain.pc = "draining" /\ drain'.pc = "judging"
        BY <3>4, <1>t DEF DrainClaim, DrainType
      <4>2. QED
        BY <4>1, <1>1
    <3>5. QED
      BY <1>1, <3>1, <3>2, <3>3, <3>4, RowWriters, Zenon
  <2>2. drain.run \subseteq Items
    BY <1>t DEF DrainType
  <2>3. QED
    BY <1>1, <1>t, <2>1, <2>2 DEF DrainHolds
<1>2. ASSUME DrainStart PROVE drain' \in DrainType /\ DrainHolds'
  <2> DEFINE reaped == [i \in Items |-> IF row[i].state = "running"
                                        THEN [row[i] EXCEPT !.state = "failed"] ELSE row[i]]
             seen == [i \in Items |-> IF DueToDrain(reaped[i]) THEN reaped[i].state ELSE "none"]
  <2>1. drain' = [drain EXCEPT !.pc = "draining", !.seen = seen]
    BY <1>2, Zenon DEF DrainStart
  <2>2. seen \in [Items -> {"none", "pending", "failed"}]
    <3>1. ASSUME NEW r PROVE (IF DueToDrain(r) THEN r.state ELSE "none") \in {"none", "pending", "failed"}
      BY DEF DueToDrain
    <3> HIDE DEF reaped
    <3>2. QED
      BY <3>1
  <2> HIDE DEF seen
  <2>3. QED
    BY <2>1, <2>2, <1>t DEF DrainType, DrainHolds
<1>3. ASSUME NEW j \in Items, DrainClaim(j) PROVE drain' \in DrainType /\ DrainHolds'
  <2>1. drain' = [drain EXCEPT !.pc = "judging", !.run = {j}, !.seen[j] = "none"]
    BY <1>3 DEF DrainClaim
  <2>2. drain' \in DrainType /\ drain'.run = {j}
    BY <2>1, <1>t DEF DrainType
  <2>3. row'[j].state = "running"
    BY <1>3, <1>t DEF DrainClaim, RowType
  <2>4. QED
    BY <2>2, <2>3 DEF DrainHolds
<1>4. ASSUME NEW j \in Items, DrainSkip(j) PROVE drain' \in DrainType /\ DrainHolds'
  <2>1. drain' = [drain EXCEPT !.seen[j] = "none"] /\ drain.pc = "draining"
    BY <1>4 DEF DrainSkip
  <2>2. drain' \in DrainType /\ drain'.pc = "draining"
    BY <2>1, <1>t DEF DrainType
  <2>3. QED
    BY <2>2 DEF DrainHolds
<1>5. ASSUME NEW v \in Verdicts, DrainFinish(v) PROVE drain' \in DrainType /\ DrainHolds'
  BY <1>5, <1>t DEF DrainFinish, DrainType, DrainHolds
<1>6. ASSUME DrainEnd \/ DrainCrash PROVE drain' \in DrainType /\ DrainHolds'
  <2>1. drain' = IdleDrain
    BY <1>6 DEF DrainEnd, DrainCrash
  <2>2. QED
    BY <2>1, <1>i DEF DrainHolds, IdleDrain
<1>7. QED
  BY <1>1, <1>2, <1>3, <1>4, <1>5, <1>6, DrainWriters, Zenon DEF DrainStep

LEMMA OtherTypesStep ==
  ASSUME TypeOK, [Next]_vars
  PROVE  /\ cadence' \in {"digest", "instant", "gone"}
         /\ successors' \subseteq Items
         /\ fence' \in Flushers \cup {Nobody}
         /\ emits' \in [Items -> Nat]
         /\ clock' \in Times
         /\ spent' \in SpentType
<1>t. /\ cadence \in {"digest", "instant", "gone"}
      /\ successors \subseteq Items
      /\ fence \in Flushers \cup {Nobody}
      /\ flush \in [Flushers -> FlushType]
      /\ drain \in DrainType
      /\ emits \in [Items -> Nat]
      /\ clock \in Times
      /\ spent \in SpentType
  BY DEF TypeOK
<1> DEFINE Kept == UNCHANGED <<cadence, successors, fence, emits, clock, spent>>
           Goal == /\ cadence' \in {"digest", "instant", "gone"}
                   /\ successors' \subseteq Items
                   /\ fence' \in Flushers \cup {Nobody}
                   /\ emits' \in [Items -> Nat]
                   /\ clock' \in Times
                   /\ spent' \in SpentType
<1>k. Kept => Goal
  BY <1>t
<1>1. ASSUME NEW w \in Feeders, FeedStep(w) PROVE Goal
  <2>1. Kept
    BY <1>1 DEF FeedStep, FeedStart, FeedResolve, OpenForHead, EnqueueHead, Advance, FeedEnd
  <2>2. QED
    BY <2>1, <1>k
<1>2. ASSUME NEW f \in Flushers,
             \/ FlushStart(f) \/ TakeFence(f) \/ SkipWindow(f) \/ Gather(f)
             \/ DropUnemittable(f) \/ CloseEmpty(f) \/ Leave(f)
      PROVE  Goal
  <2>1. /\ UNCHANGED <<cadence, successors, emits, clock, spent>>
        /\ fence' \in {fence, f, Nobody}
    BY <1>2 DEF FlushStart, TakeFence, SkipWindow, Gather, DropUnemittable, CloseEmpty, Leave
  <2>2. QED
    BY <2>1, <1>t
<1>3. ASSUME NEW f \in Flushers, NEW v \in Verdicts, Emit(f, v) PROVE Goal
  <2>1. UNCHANGED <<cadence, successors, fence, clock, spent>>
    BY <1>3 DEF Emit
  <2>2. emits' \in [Items -> Nat]
    BY <1>3, <1>t DEF Emit
  <2>3. QED
    BY <2>1, <2>2, <1>t
<1>4. ASSUME NEW f \in Flushers, FinishSlice(f) PROVE Goal
  <2>1. UNCHANGED <<cadence, fence, emits, clock, spent>>
    BY <1>4 DEF FinishSlice
  <2>2. successors' \subseteq Items
    BY <1>4, <1>t DEF FinishSlice, AdvancedBy, FlushType
  <2>3. QED
    BY <2>1, <2>2, <1>t
<1>5. ASSUME NEW f \in Flushers, FlushError(f) \/ FlushCrash(f) PROVE Goal
  <2>1. UNCHANGED <<cadence, successors, fence, emits, clock>>
    BY <1>5 DEF FlushError, FlushCrash
  <2>2. spent.faults < MaxFaults /\ spent' = [spent EXCEPT !.faults = @ + 1]
    BY <1>5 DEF FlushError, FlushCrash
  <2>3. spent' \in SpentType
    BY <2>2, <1>t, SpentTypes, Zenon
  <2>4. QED
    BY <2>1, <2>3, <1>t
<1>6. ASSUME NEW v \in Verdicts, DrainFinish(v) PROVE Goal
  <2>1. UNCHANGED <<cadence, fence, emits, clock, spent>>
    BY <1>6 DEF DrainFinish
  <2>2. successors' \subseteq Items
    BY <1>6, <1>t DEF DrainFinish, DrainType
  <2>3. QED
    BY <2>1, <2>2, <1>t
<1>7. ASSUME DrainStart \/ (\E i \in Items : DrainClaim(i) \/ DrainSkip(i)) \/ DrainEnd PROVE Goal
  <2>1. Kept
    BY <1>7 DEF DrainStart, DrainClaim, DrainSkip, DrainEnd
  <2>2. QED
    BY <2>1, <1>k
<1>8. ASSUME DrainCrash PROVE Goal
  <2>1. UNCHANGED <<cadence, successors, fence, emits, clock>>
    BY <1>8 DEF DrainCrash
  <2>2. spent.faults < MaxFaults /\ spent' = [spent EXCEPT !.faults = @ + 1]
    BY <1>8 DEF DrainCrash
  <2>3. spent' \in SpentType
    BY <2>2, <1>t, SpentTypes, Zenon
  <2>4. QED
    BY <2>1, <2>3, <1>t
<1>9. ASSUME FenceExpires \/ FenceLapses PROVE Goal
  <2>1. UNCHANGED <<cadence, successors, emits, clock>> /\ fence' = Nobody
    BY <1>9 DEF FenceExpires, FenceLapses
  <2>2. \/ spent' = spent
        \/ spent.lapses < MaxLapses /\ spent' = [spent EXCEPT !.lapses = @ + 1]
    BY <1>9 DEF FenceExpires, FenceLapses
  <2>3. spent' \in SpentType
    BY <2>2, <1>t, SpentTypes, Zenon
  <2>4. QED
    BY <2>1, <2>3, <1>t
<1>10. ASSUME NEW S \in SUBSET Items, Backfill(S) PROVE Goal
  <2>1. UNCHANGED <<cadence, successors, fence, emits, clock>>
    BY <1>10 DEF Backfill
  <2>2. spent.backfills < MaxBackfills /\ spent' = [spent EXCEPT !.backfills = @ + 1]
    BY <1>10 DEF Backfill
  <2>3. spent' \in SpentType
    BY <2>2, <1>t, SpentTypes, Zenon
  <2>4. QED
    BY <2>1, <2>3, <1>t
<1>11. ASSUME NEW c \in {"digest", "instant", "gone"}, Edit(c) PROVE Goal
  <2>1. UNCHANGED <<successors, fence, emits, clock>> /\ cadence' = c
    BY <1>11 DEF Edit
  <2>2. spent.edits < MaxEdits /\ spent' = [spent EXCEPT !.edits = @ + 1]
    BY <1>11 DEF Edit
  <2>3. spent' \in SpentType
    BY <2>2, <1>t, SpentTypes, Zenon
  <2>4. QED
    BY <2>1, <2>3, <1>t
<1>12. ASSUME Tick PROVE Goal
  <2>1. UNCHANGED <<cadence, successors, fence, emits, spent>>
    BY <1>12 DEF Tick
  <2>2. clock' \in Times
    BY <1>12, <1>t, BoundsAssumption DEF Tick, Times
  <2>3. QED
    BY <2>1, <2>2, <1>t
<1>13. ASSUME UNCHANGED vars PROVE Goal
  <2>1. Kept
    BY <1>13 DEF vars
  <2>2. QED
    BY <2>1, <1>k
<1> HIDE DEF Goal
<1>14. Goal
  BY <1>1, <1>2, <1>3, <1>4, <1>5, <1>6, <1>7, <1>8, <1>9, <1>10, <1>11, <1>12, <1>13, Zenon
  DEF Next, FlushStep, DrainStep
<1>15. QED
  BY <1>14 DEF Goal

LEMMA RowsSoundStep == RowsSound /\ [Next]_vars => RowsSound'
<1> SUFFICES ASSUME RowsSound, [Next]_vars PROVE RowsSound'
  OBVIOUS
<1>t. TypeOK /\ PendingIsUnderCap /\ DrainHolds
  BY DEF RowsSound
<1>1. \A i \in Items : row' \in [Items -> RowType] /\ RunStep(i)
  BY EveryRunStep
<1>2. row' \in [Items -> RowType]
  <2>1. CASE Items = {}
    <3>1. ASSUME NEW S \in SUBSET Items, row' = Enqueued(S) PROVE row' \in [Items -> RowType]
      BY <2>1, <3>1 DEF Enqueued
    <3>2. ASSUME NEW f \in Flushers, DropUnemittable(f) PROVE row' \in [Items -> RowType]
      BY <2>1, <3>2 DEF DropUnemittable, Completed
    <3>3. ASSUME NEW f \in Flushers, FinishSlice(f) PROVE row' \in [Items -> RowType]
      <4>1. row' = Failed(flush[f].batch) \/ row' = Completed(flush[f].batch, flush[f].verdict)
        BY <3>3 DEF FinishSlice
      <4>2. QED
        BY <2>1, <4>1 DEF Completed, Failed
    <3>4. ASSUME DrainStart PROVE row' \in [Items -> RowType]
      BY <2>1, <3>4 DEF DrainStart
    <3>5. ASSUME NEW v \in Verdicts, DrainFinish(v) PROVE row' \in [Items -> RowType]
      BY <2>1, <3>5 DEF DrainFinish
    <3>6. row \in [Items -> RowType]
      BY <1>t DEF TypeOK
    <3>7. ~\E i \in Items : DrainClaim(i)
      BY <2>1
    <3>8. QED
      BY <3>1, <3>2, <3>3, <3>4, <3>5, <3>6, <3>7, RowWriters, Zenon
  <2>2. QED
    BY <2>1, <1>1
<1>3. TypeOK'
  <2>1. drain' \in DrainType
    BY <1>t, <1>1, <1>2, DrainStepTypes
  <2>2. QED
    BY <1>t, <1>2, <2>1, WindowTypeStep, FeederTypeStep, FlushTypeStep, OtherTypesStep, Zenon
    DEF TypeOK
<1>4. PendingIsUnderCap'
  <2>1. ASSUME NEW i \in Items, row'[i].state = "pending" PROVE row'[i].attempts < MaxAttempts
    <3>1. RunStep(i) /\ row[i] \in RowType
      BY <1>1, <1>t DEF TypeOK
    <3>2. CASE row'[i] = row[i]
      BY <3>2, <2>1, <1>t DEF PendingIsUnderCap, Pending
    <3>3. CASE row'[i] = Queued
      BY <3>3, SettingsAssumption DEF Queued
    <3>4. CASE row[i].attempts + 1 < MaxAttempts /\ row'[i].attempts = row[i].attempts + 1
      BY <3>4
    <3>5. QED
      BY <2>1, <3>1, <3>2, <3>3, <3>4 DEF RunStep
  <2>2. QED
    BY <2>1 DEF PendingIsUnderCap, Pending
<1>5. DrainHolds'
  BY <1>t, <1>1, <1>2, DrainStepTypes
<1>6. QED
  BY <1>3, <1>4, <1>5 DEF RowsSound

LEMMA InitRowsSound == Init => RowsSound
<1> SUFFICES ASSUME Init PROVE RowsSound
  OBVIOUS
<1>0. 0 \in Times /\ 0 \in 0 .. MaxAttempts
  BY BoundsAssumption, SettingsAssumption DEF Times
<1>1. Absent \in RowType /\ NoWindow \in WindowType /\ IdleFeeder \in FeederType
      /\ IdleFlush \in FlushType /\ IdleDrain \in DrainType
  BY <1>0 DEF Absent, RowType, RowStates, NoWindow, WindowType, IdleFeeder, FeederType,
              IdleFlush, FlushType, Verdicts, IdleDrain, DrainType
<1>2. spent \in SpentType
  BY BoundsAssumption DEF Init, SpentType
<1>3. /\ row \in [Items -> RowType] /\ feeder \in [Feeders -> FeederType]
      /\ flush \in [Flushers -> FlushType] /\ emits \in [Items -> Nat]
  BY <1>1 DEF Init
<1>4. /\ cadence \in {"digest", "instant", "gone"} /\ successors \subseteq Items
      /\ fence \in Flushers \cup {Nobody} /\ clock \in Times
      /\ window \in WindowType /\ drain \in DrainType
  BY <1>0, <1>1 DEF Init
<1>5. TypeOK
  BY <1>2, <1>3, <1>4, Zenon DEF TypeOK
<1>6. PendingIsUnderCap /\ DrainHolds
  BY DEF Init, PendingIsUnderCap, Pending, Absent, DrainHolds, IdleDrain
<1>7. QED
  BY <1>5, <1>6 DEF RowsSound

LEMMA RowsSoundHolds == Spec => []RowsSound
<1>1. QED
  BY InitRowsSound, RowsSoundStep, PTL DEF Spec

\* Every variable keeps its type, whatever flushes, drains, edits, lapses and
\* faults come together.
THEOREM TypeCorrect == Spec => []TypeOK
<1>1. RowsSound => TypeOK
  BY DEF RowsSound
<1>2. QED
  BY <1>1, RowsSoundHolds, PTL

\* fail_batch never leaves a pending run at the attempts cap, where neither the
\* drain nor a claim would take it.
THEOREM PendingStaysUnderCap == Spec => []PendingIsUnderCap
<1>1. RowsSound => PendingIsUnderCap
  BY DEF RowsSound
<1>2. QED
  BY <1>1, RowsSoundHolds, PTL

\* No flush that outlived its lock, no drain pass that claimed before an edit
\* and no backfill rewrites a run that has succeeded, errored or failed for good.
THEOREM FinalIsFrozen == Spec => FinalIsForever
<1>1. ASSUME RowsSound, [Next]_vars, NEW i \in Items, Settled(i) PROVE row'[i] = row[i]
  <2>1. RunStep(i)
    BY <1>1, EveryRunStep
  <2>2. row[i] \in RowType
    BY <1>1 DEF RowsSound, TypeOK
  <2>3. QED
    BY <1>1, <2>1, <2>2, SettingsAssumption DEF RunStep, Settled, Absent, RowType
<1>2. RowsSound /\ [Next]_vars => [\A i \in Items : Settled(i) => row'[i] = row[i]]_vars
  BY <1>1
<1>3. QED
  BY <1>2, RowsSoundHolds, PTL DEF Spec, FinalIsForever

-----------------------------------------------------------------------------
(* An action that nobody edits and no backfill targets.                    *)

Unedited == spent.edits = 0 /\ spent.backfills = 0

\* Everyone who has read the action's config still agrees with it.
ConfigKept ==
  /\ cadence # "gone"
  /\ \A w \in Feeders :
       feeder[w].pc \in {"resolved", "opened"} => feeder[w].cadence = cadence

\* An instant action has no window and no flush.
InstantUnwindowed ==
  cadence = "instant" => window = NoWindow /\ \A f \in Flushers : flush[f].pc = "idle"

\* A digest has its window row before its first run, so that no drain pass ever
\* sees, let alone claims, a run of it.
DigestWindowed ==
  cadence = "digest" =>
    /\ window.open => window.row
    /\ window.row \/ \A i \in Items : row[i] = Absent
    /\ \A w \in Feeders : feeder[w].pc = "opened" => window.row
    /\ drain.pc # "judging"
    /\ \A i \in Items : row[i].state # "running" /\ drain.seen[i] = "none"

\* A completion opens the window in the transaction that inserts the runs.
Covered == ~IsHead => NoOrphan

Undisturbed == Unedited => ConfigKept /\ InstantUnwindowed /\ DigestWindowed /\ Covered

\* While no flush lock lapses, whoever is inside a flush holds the lock.
FlushExcludes ==
  spent.lapses = 0 => \A f \in Flushers : flush[f].pc \in Holding => fence = f

Calm == Unedited /\ spent.lapses = 0

\* What a flush has gathered is still pending when it writes.
BatchHeld ==
  Calm => \A f \in Flushers :
            flush[f].pc \in {"gathered", "ready", "emitted"} => flush[f].batch \subseteq Pending

ChainExact == Calm => AdvancesIffSucceeded

CalmInv == RowsSound /\ Undisturbed /\ FlushExcludes /\ BatchHeld /\ ChainExact

LEMMA UneditedStep ==
  ASSUME RowsSound, [Next]_vars
  PROVE  /\ Unedited' => Unedited /\ UNCHANGED cadence
                         /\ (~\E S \in SUBSET Items : Backfill(S))
                         /\ (~\E c \in {"digest", "instant", "gone"} : Edit(c))
         /\ spent'.lapses = 0 => spent.lapses = 0 /\ ~FenceLapses
<1>t. spent.edits \in Nat /\ spent.backfills \in Nat /\ spent.lapses \in Nat /\ spent \in SpentType
  BY BoundsAssumption DEF RowsSound, TypeOK, SpentType
<1>1. ASSUME UNCHANGED <<cadence, spent>>, ~\E S \in SUBSET Items : Backfill(S),
             ~\E c \in {"digest", "instant", "gone"} : Edit(c), ~FenceLapses
      PROVE  /\ Unedited' => Unedited /\ UNCHANGED cadence
                             /\ (~\E S \in SUBSET Items : Backfill(S))
                             /\ (~\E c \in {"digest", "instant", "gone"} : Edit(c))
             /\ spent'.lapses = 0 => spent.lapses = 0 /\ ~FenceLapses
  BY <1>1 DEF Unedited
<1>2. ASSUME UNCHANGED cadence, spent' = [spent EXCEPT !.faults = @ + 1]
      PROVE  /\ Unedited' => Unedited /\ UNCHANGED cadence
                             /\ (~\E S \in SUBSET Items : Backfill(S))
                             /\ (~\E c \in {"digest", "instant", "gone"} : Edit(c))
             /\ spent'.lapses = 0 => spent.lapses = 0 /\ ~FenceLapses
  <2>1. /\ spent'.edits = spent.edits /\ spent'.backfills = spent.backfills
        /\ spent'.lapses = spent.lapses
    BY <1>2, <1>t DEF SpentType
  <2>2. (\E S \in SUBSET Items : Backfill(S)) => spent'.backfills = spent.backfills + 1
    BY <1>t DEF Backfill, SpentType
  <2>3. (\E c \in {"digest", "instant", "gone"} : Edit(c)) => spent'.edits = spent.edits + 1
    BY <1>t DEF Edit, SpentType
  <2>4. FenceLapses => spent'.lapses = spent.lapses + 1
    BY <1>t DEF FenceLapses, SpentType
  <2>5. QED
    BY <1>2, <1>t, <2>1, <2>2, <2>3, <2>4 DEF Unedited
<1>3. ASSUME NEW S \in SUBSET Items, Backfill(S)
      PROVE  ~Unedited' /\ (spent'.lapses = 0 => spent.lapses = 0 /\ ~FenceLapses)
  BY <1>3, <1>t DEF Backfill, SpentType, Unedited, FenceLapses
<1>4. ASSUME NEW c \in {"digest", "instant", "gone"}, Edit(c)
      PROVE  ~Unedited' /\ (spent'.lapses = 0 => spent.lapses = 0 /\ ~FenceLapses)
  BY <1>4, <1>t DEF Edit, SpentType, Unedited, FenceLapses
<1>5. ASSUME FenceLapses
      PROVE  /\ Unedited' => Unedited /\ UNCHANGED cadence
                             /\ (~\E S \in SUBSET Items : Backfill(S))
                             /\ (~\E c \in {"digest", "instant", "gone"} : Edit(c))
             /\ spent'.lapses # 0
  <2>1. /\ spent'.edits = spent.edits /\ spent'.backfills = spent.backfills
        /\ spent'.lapses = spent.lapses + 1 /\ UNCHANGED cadence
    BY <1>5, <1>t DEF FenceLapses, SpentType
  <2>2. (\E S \in SUBSET Items : Backfill(S)) => spent'.backfills = spent.backfills + 1
    BY <1>t DEF Backfill, SpentType
  <2>3. (\E c \in {"digest", "instant", "gone"} : Edit(c)) => spent'.edits = spent.edits + 1
    BY <1>t DEF Edit, SpentType
  <2>4. QED
    BY <1>t, <2>1, <2>2, <2>3 DEF Unedited
<1>6. \/ UNCHANGED <<cadence, spent>>
      \/ UNCHANGED cadence /\ spent' = [spent EXCEPT !.faults = @ + 1]
      \/ FenceLapses
      \/ \E S \in SUBSET Items : Backfill(S)
      \/ \E c \in {"digest", "instant", "gone"} : Edit(c)
  <2>1. ASSUME NEW w \in Feeders, FeedStep(w) PROVE UNCHANGED <<cadence, spent>>
    BY <2>1 DEF FeedStep, FeedStart, FeedResolve, OpenForHead, EnqueueHead, Advance, FeedEnd
  <2>2. ASSUME NEW f \in Flushers, FlushStep(f) PROVE UNCHANGED <<cadence, spent>>
    BY <2>2 DEF FlushStep, FlushStart, TakeFence, SkipWindow, Gather, DropUnemittable, Emit,
                FinishSlice, CloseEmpty, Leave
  <2>3. ASSUME NEW f \in Flushers, FlushError(f) \/ FlushCrash(f) \/ DrainCrash
        PROVE  UNCHANGED cadence /\ spent' = [spent EXCEPT !.faults = @ + 1]
    BY <2>3 DEF FlushError, FlushCrash, DrainCrash
  <2>4. ASSUME DrainCrash PROVE UNCHANGED cadence /\ spent' = [spent EXCEPT !.faults = @ + 1]
    BY <2>4 DEF DrainCrash
  <2>5. ASSUME DrainStep \/ FenceExpires \/ Tick \/ UNCHANGED vars PROVE UNCHANGED <<cadence, spent>>
    BY <2>5 DEF DrainStep, DrainStart, DrainClaim, DrainSkip, DrainFinish, DrainEnd, FenceExpires,
                Tick, vars
  <2>6. QED
    BY <2>1, <2>2, <2>3, <2>4, <2>5, Zenon DEF Next
<1>7. QED
  BY <1>1, <1>2, <1>3, <1>4, <1>5, <1>6

\* How a run comes to be pending, running or succeeded.
LEMMA RunOrigins ==
  ASSUME RowsSound, [Next]_vars, NEW i \in Items
  PROVE  /\ \/ row[i] # Absent
            \/ row'[i] = Absent
            \/ \E w \in Feeders, S \in SUBSET Items : EnqueueHead(w, S) \/ Advance(w, S)
            \/ \E S \in SUBSET Items : Backfill(S)
         /\ row'[i].state = "running" => row[i].state = "running" \/ DrainClaim(i)
         /\ row'[i].state = "succeeded" =>
              \/ row[i].state = "succeeded"
              \/ \E f \in Flushers : FinishSlice(f)
              \/ \E v \in Verdicts : DrainFinish(v)
<1>t. /\ row \in [Items -> RowType] /\ row[i] \in RowType /\ drain \in DrainType
      /\ DrainHolds
  BY DEF RowsSound, TypeOK
<1>a. Absent.state = "absent" /\ Queued.state = "pending"
  BY DEF Absent, Queued
<1> DEFINE Arrives == \/ \E w \in Feeders, S \in SUBSET Items : EnqueueHead(w, S) \/ Advance(w, S)
                      \/ \E S \in SUBSET Items : Backfill(S)
           Goal == /\ row[i] # Absent \/ row'[i] = Absent \/ Arrives
                   /\ row'[i].state = "running" => row[i].state = "running" \/ DrainClaim(i)
                   /\ row'[i].state = "succeeded" =>
                        \/ row[i].state = "succeeded"
                        \/ \E f \in Flushers : FinishSlice(f)
                        \/ \E v \in Verdicts : DrainFinish(v)
<1>1. ASSUME row'[i] = row[i] PROVE Goal
  BY <1>1
<1>2. ASSUME NEW S \in SUBSET Items, row' = Enqueued(S), Arrives PROVE Goal
  BY <1>2, <1>a DEF Enqueued
<1>3. ASSUME NEW f \in Flushers, DropUnemittable(f) PROVE Goal
  <2>1. \/ row'[i] = row[i]
        \/ row[i].state = "pending" /\ row'[i] = [row[i] EXCEPT !.state = "errored"]
    BY <1>3 DEF DropUnemittable, Completed, Pending
  <2>2. [row[i] EXCEPT !.state = "errored"].state = "errored"
    BY <1>t DEF RowType
  <2>3. QED
    BY <2>1, <2>2, <1>1, <1>a
<1>4. ASSUME NEW f \in Flushers, FinishSlice(f) PROVE Goal
  <2>1. row'[i] = row[i] \/ row[i].state = "pending"
    BY <1>4 DEF FinishSlice, Completed, Failed, Pending
  <2>2. row[i].state = "pending" => row'[i].state # "running"
    <3>1. RunStep(i)
      BY EveryRunStep
    <3>2. flush[f].verdict \in {"succeeded", "errored", "failed"}
      BY DEF RowsSound, TypeOK, FlushType, Verdicts
    <3>3. CASE flush[f].verdict = "failed"
      BY <1>4, <3>3 DEF FinishSlice, Failed
    <3>4. CASE flush[f].verdict # "failed"
      <4>1. \/ row'[i] = row[i]
            \/ row'[i] = [row[i] EXCEPT !.state = flush[f].verdict]
        BY <1>4, <3>4 DEF FinishSlice, Completed
      <4>2. QED
        BY <4>1, <3>2, <1>t DEF RowType
    <3>5. QED
      BY <3>3, <3>4
  <2>3. QED
    BY <1>4, <2>1, <2>2, <1>a
<1>5. ASSUME DrainStart PROVE Goal
  <2>1. \/ row'[i] = row[i]
        \/ row[i].state = "running" /\ row'[i] = [row[i] EXCEPT !.state = "failed"]
    BY <1>5 DEF DrainStart
  <2>2. [row[i] EXCEPT !.state = "failed"].state = "failed"
    BY <1>t DEF RowType
  <2>3. QED
    BY <2>1, <2>2, <1>1, <1>a
<1>6. ASSUME NEW j \in Items, DrainClaim(j) PROVE Goal
  <2>1. row[j].state \in {"pending", "failed"}
    BY <1>6, <1>t DEF DrainClaim, DrainType, RowType, RowStates
  <2>2. j # i => row'[i] = row[i]
    BY <1>6, <1>t DEF DrainClaim
  <2>3. row'[j].state = "running"
    BY <1>6, <1>t DEF DrainClaim, RowType
  <2>4. QED
    BY <1>1, <1>6, <2>1, <2>2, <2>3, <1>a
<1>7. ASSUME NEW v \in Verdicts, DrainFinish(v) PROVE Goal
  <2>1. \/ row'[i] = row[i]
        \/ row[i].state = "running" /\ row'[i] = [row[i] EXCEPT !.state = v]
    BY <1>7, <1>t DEF DrainFinish, DrainHolds
  <2>2. QED
    BY <1>7, <2>1, <1>a
<1>8. \/ row' = row
      \/ Arrives /\ \E S \in SUBSET Items : row' = Enqueued(S)
      \/ \E f \in Flushers : DropUnemittable(f) \/ FinishSlice(f)
      \/ DrainStart
      \/ \E j \in Items : DrainClaim(j)
      \/ \E v \in Verdicts : DrainFinish(v)
  <2>1. ASSUME NEW w \in Feeders, FeedStep(w)
        PROVE  row' = row \/ (Arrives /\ \E S \in SUBSET Items : row' = Enqueued(S))
    BY <2>1 DEF FeedStep, FeedStart, FeedResolve, OpenForHead, EnqueueHead, Advance, FeedEnd
  <2>2. ASSUME NEW f \in Flushers, FlushStep(f) \/ FlushError(f) \/ FlushCrash(f)
        PROVE  row' = row \/ DropUnemittable(f) \/ FinishSlice(f)
    BY <2>2 DEF FlushStep, FlushStart, TakeFence, SkipWindow, Gather, Emit, CloseEmpty, Leave,
                FlushError, FlushCrash
  <2>3. ASSUME DrainStep \/ DrainCrash
        PROVE  \/ row' = row \/ DrainStart
               \/ \E j \in Items : DrainClaim(j)
               \/ \E v \in Verdicts : DrainFinish(v)
    BY <2>3 DEF DrainStep, DrainSkip, DrainEnd, DrainCrash
  <2>4. ASSUME FenceExpires \/ FenceLapses \/ Tick \/ UNCHANGED vars PROVE row' = row
    BY <2>4 DEF FenceExpires, FenceLapses, Tick, vars
  <2>5. ASSUME NEW c \in {"digest", "instant", "gone"}, Edit(c) PROVE row' = row
    BY <2>5 DEF Edit
  <2>6. ASSUME NEW S \in SUBSET Items, Backfill(S)
        PROVE  Arrives /\ \E T \in SUBSET Items : row' = Enqueued(T)
    BY <2>6 DEF Backfill
  <2>7. QED
    BY <2>1, <2>2, <2>3, <2>4, <2>5, <2>6, Zenon DEF Next
<1>9. Goal
  BY <1>1, <1>2, <1>3, <1>4, <1>5, <1>6, <1>7, <1>8
<1>10. QED
  BY <1>9

LEMMA UndisturbedStep ==
  ASSUME RowsSound, Undisturbed, [Next]_vars, Unedited'
  PROVE  ConfigKept' /\ InstantUnwindowed' /\ DigestWindowed' /\ Covered'
<1>u. /\ Unedited /\ cadence' = cadence
      /\ ~\E S \in SUBSET Items : Backfill(S)
      /\ ~\E c \in {"digest", "instant", "gone"} : Edit(c)
  BY UneditedStep
<1>h. ConfigKept /\ InstantUnwindowed /\ DigestWindowed /\ Covered
  BY <1>u DEF Undisturbed
<1>t. /\ feeder \in [Feeders -> FeederType] /\ flush \in [Flushers -> FlushType]
      /\ drain \in DrainType /\ row \in [Items -> RowType]
      /\ cadence \in {"digest", "instant", "gone"}
  BY DEF RowsSound, TypeOK
<1>o. \A ts : window.row \/ ~window.open => Opened(ts).row /\ Opened(ts).open
  BY DEF Opened
<1>1. ConfigKept'
  <2>1. ASSUME NEW w \in Feeders, FeedStep(w) PROVE ConfigKept'
    <3>1. \A v \in Feeders \ {w} : feeder'[v] = feeder[v]
      BY <2>1, <1>t DEF FeedStep, FeedStart, FeedResolve, OpenForHead, EnqueueHead, Advance, FeedEnd
    <3>2. \/ feeder'[w].pc \in {"idle", "started"}
          \/ feeder'[w].cadence = cadence
      <4>1. CASE FeedResolve(w)
        BY <4>1, <1>t DEF FeedResolve, FeederType
      <4>2. CASE OpenForHead(w)
        BY <4>2, <1>t, <1>h DEF OpenForHead, FeederType, ConfigKept
      <4>3. CASE \E S \in SUBSET Items : EnqueueHead(w, S)
        BY <4>3, <1>h DEF EnqueueHead, ConfigKept
      <4>4. CASE FeedStart(w) \/ FeedEnd(w) \/ \E S \in SUBSET Items : Advance(w, S)
        BY <4>4, <1>t DEF FeedStart, FeedEnd, IdleFeeder, Advance, FeederType
      <4>5. QED
        BY <2>1, <4>1, <4>2, <4>3, <4>4 DEF FeedStep
    <3>3. QED
      BY <3>1, <3>2, <1>u, <1>h DEF ConfigKept
  <2>2. CASE UNCHANGED feeder
    BY <2>2, <1>u, <1>h DEF ConfigKept
  <2>3. QED
    BY <2>1, <2>2, FeederWriters
<1>2. InstantUnwindowed'
  <2> SUFFICES ASSUME cadence = "instant"
               PROVE  window' = NoWindow /\ \A f \in Flushers : flush'[f].pc = "idle"
    BY <1>u DEF InstantUnwindowed
  <2>1. window = NoWindow /\ \A f \in Flushers : flush[f].pc = "idle"
    BY <1>h DEF InstantUnwindowed
  <2>2. window' = window
    <3>1. ASSUME NEW w \in Feeders, OpenForHead(w) PROVE FALSE
      BY <3>1, <1>h DEF OpenForHead, ConfigKept
    <3>2. ASSUME NEW w \in Feeders, NEW S \in SUBSET Items, Advance(w, S) PROVE window' = window
      BY <3>2, <1>h DEF Advance, ConfigKept
    <3>3. ASSUME NEW f \in Flushers, FinishSlice(f) \/ CloseEmpty(f) PROVE FALSE
      BY <3>3, <2>1 DEF FinishSlice, CloseEmpty
    <3>4. QED
      BY <3>1, <3>2, <3>3, <1>u, WindowWriters
  <2>3. ASSUME NEW f \in Flushers, FlushStep(f) \/ FlushError(f) \/ FlushCrash(f) PROVE FALSE
    BY <2>1, <2>3 DEF FlushStep, FlushStart, TakeFence, SkipWindow, Gather, DropUnemittable, Emit,
                      FinishSlice, CloseEmpty, Leave, FlushError, FlushCrash, Holding, NoWindow
  <2>4. QED
    BY <2>1, <2>2, <2>3, FlushWriters
<1>3. DigestWindowed'
  <2> SUFFICES ASSUME cadence = "digest"
               PROVE  /\ window'.open => window'.row
                      /\ window'.row \/ \A i \in Items : row'[i] = Absent
                      /\ \A w \in Feeders : feeder'[w].pc = "opened" => window'.row
                      /\ drain'.pc # "judging"
                      /\ \A i \in Items : row'[i].state # "running" /\ drain'.seen[i] = "none"
    BY <1>u DEF DigestWindowed
  <2>d. /\ window.open => window.row
        /\ window.row \/ \A i \in Items : row[i] = Absent
        /\ \A w \in Feeders : feeder[w].pc = "opened" => window.row
        /\ drain.pc # "judging"
        /\ \A i \in Items : row[i].state # "running" /\ drain.seen[i] = "none"
    BY <1>h DEF DigestWindowed
  <2>1. (window.row => window'.row) /\ (window'.open => window'.row)
    <3>1. ASSUME NEW w \in Feeders, OpenForHead(w) \/ \E S \in SUBSET Items : Advance(w, S)
          PROVE  window' = window \/ (window'.row /\ window'.open)
      BY <3>1, <2>d, <1>o DEF OpenForHead, Advance
    <3>2. ASSUME NEW f \in Flushers, FinishSlice(f) \/ CloseEmpty(f)
          PROVE  window' = window \/ (window'.row /\ ~window'.open)
      BY <3>2 DEF FinishSlice, CloseEmpty, Closed, Shut
    <3>3. QED
      BY <2>d, <3>1, <3>2, <1>u, WindowWriters
  <2>2. ASSUME NEW w \in Feeders, NEW S \in SUBSET Items, EnqueueHead(w, S) \/ Advance(w, S)
        PROVE  window'.row
    <3>1. CASE EnqueueHead(w, S)
      BY <3>1, <2>d, <1>h DEF EnqueueHead, ConfigKept
    <3>2. CASE Advance(w, S)
      BY <3>2, <2>d, <1>o, <1>h DEF Advance, ConfigKept
    <3>3. QED
      BY <2>2, <3>1, <3>2
  <2>3. window'.row \/ \A i \in Items : row'[i] = Absent
    BY <2>1, <2>2, <2>d, <1>u, RunOrigins
  <2>4. \A w \in Feeders : feeder'[w].pc = "opened" => window'.row
    <3>1. ASSUME NEW w \in Feeders, NEW v \in Feeders, FeedStep(w), feeder'[v].pc = "opened"
          PROVE  feeder[v].pc = "opened" \/ OpenForHead(w)
      BY <3>1, <1>t DEF FeedStep, FeedStart, FeedResolve, EnqueueHead, Advance, FeedEnd,
                        FeederType, IdleFeeder
    <3>2. ASSUME NEW w \in Feeders, OpenForHead(w) PROVE window'.row
      BY <3>2, <2>d, <1>o DEF OpenForHead
    <3>3. QED
      BY <3>1, <3>2, <2>1, <2>d, FeederWriters
  <2>5. ~\E i \in Items : DrainClaim(i)
    BY <2>d, <1>t DEF DrainClaim, RowType, RowStates
  <2>6. \A i \in Items : row'[i].state # "running"
    BY <2>d, <2>5, RunOrigins
  <2>7. drain'.pc # "judging" /\ \A i \in Items : drain'.seen[i] = "none"
    <3>1. ASSUME DrainStart PROVE drain'.pc # "judging" /\ \A i \in Items : drain'.seen[i] = "none"
      <4> DEFINE reaped == [i \in Items |-> IF row[i].state = "running"
                                            THEN [row[i] EXCEPT !.state = "failed"] ELSE row[i]]
                 seen == [i \in Items |-> IF DueToDrain(reaped[i]) THEN reaped[i].state ELSE "none"]
      <4>1. drain' = [drain EXCEPT !.pc = "draining", !.seen = seen]
        BY <3>1, Zenon DEF DrainStart
      <4>2. ASSUME NEW i \in Items PROVE seen[i] = "none"
        <5>1. reaped[i] = row[i]
          BY <2>d
        <5>2. ~DueToDrain(row[i])
          BY <2>d DEF DueToDrain, Absent
        <5>3. QED
          BY <5>1, <5>2
      <4> HIDE DEF seen
      <4>3. drain'.pc = "draining" /\ drain'.seen = seen
        BY <4>1, <1>t DEF DrainType
      <4>4. QED
        BY <4>2, <4>3
    <3>2. ASSUME NEW j \in Items, DrainSkip(j) PROVE FALSE
      BY <3>2, <2>d DEF DrainSkip
    <3>3. ASSUME NEW v \in Verdicts, DrainFinish(v) PROVE FALSE
      BY <3>3, <2>d DEF DrainFinish
    <3>4. ASSUME DrainEnd \/ DrainCrash
          PROVE  drain'.pc # "judging" /\ \A i \in Items : drain'.seen[i] = "none"
      BY <3>4 DEF DrainEnd, DrainCrash, IdleDrain
    <3>5. QED
      BY <3>1, <3>2, <3>3, <3>4, <2>5, <2>d, DrainWriters DEF DrainStep
  <2>8. QED
    BY <2>1, <2>3, <2>4, <2>6, <2>7
<1>4. Covered'
  <2> SUFFICES ASSUME ~IsHead, NEW i \in Items, row'[i].state = "pending", window'.row
               PROVE  window'.open
    BY DEF Covered, NoOrphan, Pending
  <2>1. cadence = "digest"
    BY <1>2, <1>u, <1>t, <1>h DEF InstantUnwindowed, NoWindow, ConfigKept
  <2>2. ASSUME NEW w \in Feeders, NEW S \in SUBSET Items, EnqueueHead(w, S) \/ Advance(w, S)
        PROVE  window'.open
    BY <2>1, <2>2, <1>h, <1>o DEF EnqueueHead, Advance, ConfigKept, DigestWindowed
  <2>3. CASE row[i].state = "pending"
    <3>1. row[i] # Absent
      BY <2>3 DEF Absent
    <3>2. window.row
      BY <3>1, <2>1, <1>h DEF DigestWindowed
    <3>3. window.open
      BY <2>3, <3>2, <1>h DEF Covered, NoOrphan, Pending
    <3>4. ASSUME NEW f \in Flushers, FinishSlice(f) PROVE window' = window
      <4>1. ~Drained(row')
        BY DEF Drained
      <4>2. window' = Closed(row')
        BY <3>4 DEF FinishSlice
      <4>3. QED
        BY <4>1, <4>2 DEF Closed
    <3>5. ASSUME NEW f \in Flushers, CloseEmpty(f) PROVE window' = window
      BY <3>5, <2>3 DEF CloseEmpty, Closed, Drained
    <3>6. ASSUME NEW w \in Feeders, OpenForHead(w) PROVE FALSE
      BY <3>6 DEF OpenForHead
    <3>7. QED
      BY <3>3, <3>4, <3>5, <3>6, <2>2, <1>u, WindowWriters
  <2>4. CASE row[i].state # "pending"
    <3>1. RunStep(i)
      BY EveryRunStep
    <3>2. row[i] = Absent /\ row'[i] # Absent
      BY <2>4, <3>1, <1>t DEF RunStep, Absent, RowType
    <3>3. QED
      BY <3>2, <2>2, <1>u, RunOrigins
  <2>5. QED
    BY <2>3, <2>4
<1>5. QED
  BY <1>1, <1>2, <1>3, <1>4

LEMMA FlushExcludesStep ==
  ASSUME RowsSound, FlushExcludes, [Next]_vars, spent'.lapses = 0
  PROVE  FlushExcludes'
<1>l. spent.lapses = 0 /\ ~FenceLapses
  BY UneditedStep
<1>h. \A f \in Flushers : flush[f].pc \in Holding => fence = f
  BY <1>l DEF FlushExcludes
<1>t. flush \in [Flushers -> FlushType] /\ fence \in Flushers \cup {Nobody}
  BY DEF RowsSound, TypeOK
<1>1. ASSUME NEW f \in Flushers, TakeFence(f) PROVE \A g \in Flushers : flush'[g].pc \in Holding => fence' = g
  <2>1. \A g \in Flushers : flush[g].pc \notin Holding
    BY <1>1, <1>h, NobodyAssumption DEF TakeFence, MayFlush
  <2>2. fence' = f /\ \A g \in Flushers \ {f} : flush'[g] = flush[g]
    BY <1>1, <1>t DEF TakeFence
  <2>3. QED
    BY <2>1, <2>2
<1>2. ASSUME NEW f \in Flushers, Leave(f) PROVE \A g \in Flushers : flush'[g].pc \in Holding => fence' = g
  <2>1. flush[f].pc \in Holding
    BY <1>2 DEF Leave, Holding
  <2>2. \A g \in Flushers : flush[g].pc \in Holding => g = f
    BY <2>1, <1>h
  <2>3. flush'[f].pc = "idle" /\ \A g \in Flushers \ {f} : flush'[g] = flush[g]
    BY <1>2, <1>t DEF Leave, IdleFlush
  <2>4. QED
    BY <2>2, <2>3 DEF Holding
<1>3. ASSUME NEW f \in Flushers,
             \/ FlushStart(f) \/ SkipWindow(f) \/ Gather(f) \/ DropUnemittable(f)
             \/ (\E v \in Verdicts : Emit(f, v)) \/ FinishSlice(f) \/ CloseEmpty(f)
             \/ FlushError(f) \/ FlushCrash(f)
      PROVE  \A g \in Flushers : flush'[g].pc \in Holding => fence' = g
  <2>1. fence' = fence /\ \A g \in Flushers \ {f} : flush'[g] = flush[g]
    BY <1>3, <1>t DEF FlushStart, SkipWindow, Gather, DropUnemittable, Emit, FinishSlice, CloseEmpty,
                      FlushError, FlushCrash
  <2>2. CASE FlushStart(f) \/ SkipWindow(f) \/ FlushCrash(f)
    <3>1. flush'[f].pc \in {"due", "idle"}
      BY <2>2, <1>t DEF FlushStart, SkipWindow, FlushCrash, FlushType, IdleFlush
    <3>2. QED
      BY <2>1, <3>1, <1>h DEF Holding
  <2>3. CASE \/ Gather(f) \/ DropUnemittable(f) \/ (\E v \in Verdicts : Emit(f, v))
             \/ FinishSlice(f) \/ CloseEmpty(f) \/ FlushError(f)
    <3>1. flush[f].pc \in Holding
      BY <2>3 DEF Gather, DropUnemittable, Emit, FinishSlice, CloseEmpty, FlushError, Holding
    <3>2. QED
      BY <2>1, <3>1, <1>h
  <2>4. QED
    BY <1>3, <2>2, <2>3
<1>4. CASE FenceExpires
  <2>1. \A f \in Flushers : flush[f].pc \notin Holding
    BY <1>4, <1>h, NobodyAssumption DEF FenceExpires, HolderAlive
  <2>2. QED
    BY <1>4, <2>1 DEF FenceExpires, FlushExcludes
<1>5. ASSUME UNCHANGED <<flush, fence>> PROVE FlushExcludes'
  BY <1>5, <1>h DEF FlushExcludes
<1>6. ASSUME NEW w \in Feeders, FeedStep(w) PROVE UNCHANGED <<flush, fence>>
  BY <1>6 DEF FeedStep, FeedStart, FeedResolve, OpenForHead, EnqueueHead, Advance, FeedEnd
<1>7. ASSUME DrainStep \/ DrainCrash \/ Tick \/ UNCHANGED vars PROVE UNCHANGED <<flush, fence>>
  BY <1>7 DEF DrainStep, DrainStart, DrainClaim, DrainSkip, DrainFinish, DrainEnd, DrainCrash, Tick,
              vars
<1>8. ASSUME \/ \E S \in SUBSET Items : Backfill(S)
             \/ \E c \in {"digest", "instant", "gone"} : Edit(c)
      PROVE  UNCHANGED <<flush, fence>>
  BY <1>8 DEF Backfill, Edit
<1>9. ASSUME NEW f \in Flushers, FlushStep(f) \/ FlushError(f) \/ FlushCrash(f) PROVE FlushExcludes'
  BY <1>1, <1>2, <1>3, <1>9, Zenon DEF FlushStep, FlushExcludes
<1>10. QED
  BY <1>l, <1>4, <1>5, <1>6, <1>7, <1>8, <1>9, Zenon DEF Next

LEMMA BatchHeldStep ==
  ASSUME RowsSound, Undisturbed, FlushExcludes, BatchHeld, [Next]_vars, Calm'
  PROVE  \A f \in Flushers :
           flush'[f].pc \in {"gathered", "ready", "emitted"} => flush'[f].batch \subseteq Pending'
<1>c. /\ Calm /\ cadence' = cadence
      /\ ~\E S \in SUBSET Items : Backfill(S)
  BY UneditedStep DEF Calm
<1>h. /\ ConfigKept /\ InstantUnwindowed /\ DigestWindowed
      /\ \A f \in Flushers : flush[f].pc \in Holding => fence = f
      /\ \A f \in Flushers :
           flush[f].pc \in {"gathered", "ready", "emitted"} => flush[f].batch \subseteq Pending
  BY <1>c DEF Calm, Undisturbed, FlushExcludes, BatchHeld
<1>t. /\ flush \in [Flushers -> FlushType] /\ drain \in DrainType
      /\ row \in [Items -> RowType] /\ cadence \in {"digest", "instant", "gone"}
  BY DEF RowsSound, TypeOK
<1> SUFFICES ASSUME NEW f \in Flushers, flush'[f].pc \in {"gathered", "ready", "emitted"}
             PROVE  flush'[f].batch \subseteq Pending'
  OBVIOUS
<1>1. CASE Gather(f)
  <2>1. PICK S \in SUBSET Items : IsBatch(S) /\ flush'[f].batch = S
    BY <1>1, <1>t DEF Gather, FlushType
  <2>2. UNCHANGED row
    BY <1>1 DEF Gather
  <2>3. QED
    BY <2>1, <2>2 DEF IsBatch, Pending
<1>2. CASE DropUnemittable(f)
  <2> DEFINE left == flush[f].batch \ Unemittable(f)
  <2>1. flush[f].batch \subseteq Pending
    BY <1>2, <1>h DEF DropUnemittable
  <2>2. flush'[f].batch = left
    BY <1>2, <1>t DEF DropUnemittable, FlushType
  <2>3. \A i \in left : i \in Items /\ row'[i] = row[i]
    BY <1>2, <2>1 DEF DropUnemittable, Completed, Pending
  <2>4. QED
    BY <2>1, <2>2, <2>3 DEF Pending
<1>3. ASSUME NEW v \in Verdicts, Emit(f, v) PROVE flush'[f].batch \subseteq Pending'
  <2>1. flush[f].batch \subseteq Pending /\ UNCHANGED row
    BY <1>3, <1>h DEF Emit
  <2>2. flush'[f].batch = flush[f].batch
    BY <1>3, <1>t DEF Emit, FlushType
  <2>3. QED
    BY <2>1, <2>2 DEF Pending
<1>4. ASSUME \/ FlushStart(f) \/ TakeFence(f) \/ SkipWindow(f) \/ FinishSlice(f) \/ CloseEmpty(f)
             \/ Leave(f) \/ FlushError(f) \/ FlushCrash(f)
      PROVE  FALSE
  BY <1>4, <1>t DEF FlushStart, TakeFence, SkipWindow, FinishSlice, CloseEmpty, Leave, FlushError,
                    FlushCrash, FlushType, IdleFlush
<1>5. ASSUME flush'[f] = flush[f],
             ~\E g \in Flushers \ {f} : DropUnemittable(g) \/ FinishSlice(g)
      PROVE  flush'[f].batch \subseteq Pending'
  <2>1. flush[f].batch \subseteq Pending /\ flush[f].pc \in Holding
    BY <1>5, <1>h DEF Holding
  <2>2. cadence = "digest"
    BY <2>1, <1>h, <1>t DEF InstantUnwindowed, ConfigKept, Holding
  <2>3. /\ drain.pc # "judging"
        /\ \A i \in Items : row[i].state # "running" /\ drain.seen[i] = "none"
    BY <2>2, <1>h DEF DigestWindowed
  <2>4. ASSUME NEW i \in Pending PROVE row'[i] = row[i]
    <3>0. i \in Items /\ row[i].state = "pending" /\ row[i] # Absent
      BY DEF Pending, Absent
    <3>1. ASSUME NEW S \in SUBSET Items, row' = Enqueued(S) PROVE row'[i] = row[i]
      BY <3>0, <3>1 DEF Enqueued
    <3>2. ASSUME DropUnemittable(f) \/ FinishSlice(f) PROVE FALSE
      BY <3>2, <1>4, <1>5, <1>t DEF DropUnemittable, FlushType
    <3>3. ASSUME DrainStart PROVE row'[i] = row[i]
      BY <3>0, <3>3 DEF DrainStart
    <3>4. ASSUME NEW j \in Items, DrainClaim(j) PROVE FALSE
      BY <3>4, <2>3, <1>t DEF DrainClaim, RowType, RowStates
    <3>5. ASSUME NEW v \in Verdicts, DrainFinish(v) PROVE FALSE
      BY <3>5, <2>3 DEF DrainFinish
    <3>6. QED
      BY <1>5, <3>1, <3>2, <3>3, <3>4, <3>5, RowWriters
  <2>5. QED
    BY <1>5, <2>1, <2>4 DEF Pending
<1>6. ASSUME NEW g \in Flushers \ {f}, FlushStep(g) \/ FlushError(g) \/ FlushCrash(g)
      PROVE  flush'[f].batch \subseteq Pending'
  <2>1. flush'[f] = flush[f]
    BY <1>6, <1>t DEF FlushStep, FlushStart, TakeFence, SkipWindow, Gather, DropUnemittable, Emit,
                      FinishSlice, CloseEmpty, Leave, FlushError, FlushCrash
  <2>2. flush[f].pc \in Holding
    BY <2>1 DEF Holding
  <2>3. \A k \in Flushers \ {f} : flush[k].pc \notin Holding
    BY <2>2, <1>h
  <2>4. ~\E k \in Flushers \ {f} : DropUnemittable(k) \/ FinishSlice(k)
    BY <2>3 DEF DropUnemittable, FinishSlice, Holding
  <2>5. QED
    BY <2>1, <2>4, <1>5
<1>7. ASSUME UNCHANGED flush PROVE flush'[f].batch \subseteq Pending'
  <2>1. flush[f].pc \in Holding
    BY <1>7 DEF Holding
  <2>2. \A k \in Flushers \ {f} : flush[k].pc \notin Holding
    BY <2>1, <1>h
  <2>3. ~\E k \in Flushers \ {f} : DropUnemittable(k) \/ FinishSlice(k)
    BY <2>2 DEF DropUnemittable, FinishSlice, Holding
  <2>4. QED
    BY <1>5, <1>7, <2>3
<1>8. ASSUME FlushStep(f) \/ FlushError(f) \/ FlushCrash(f)
      PROVE  flush'[f].batch \subseteq Pending'
  BY <1>1, <1>2, <1>3, <1>4, <1>8, Zenon DEF FlushStep
<1>9. QED
  BY <1>6, <1>7, <1>8, FlushWriters

LEMMA ChainExactStep ==
  ASSUME RowsSound, BatchHeld, ChainExact, [Next]_vars, Calm'
  PROVE  AdvancesIffSucceeded'
<1>c. Calm
  BY UneditedStep DEF Calm
<1>h. /\ \A f \in Flushers :
           flush[f].pc \in {"gathered", "ready", "emitted"} => flush[f].batch \subseteq Pending
      /\ \A i \in Items : i \in successors <=> row[i].state = "succeeded"
  BY <1>c DEF BatchHeld, ChainExact, AdvancesIffSucceeded
<1>t. /\ flush \in [Flushers -> FlushType] /\ drain \in DrainType
      /\ row \in [Items -> RowType] /\ DrainHolds
  BY DEF RowsSound, TypeOK
<1>1. ASSUME NEW f \in Flushers, FinishSlice(f) PROVE AdvancesIffSucceeded'
  <2> SUFFICES ASSUME NEW i \in Items PROVE i \in successors' <=> row'[i].state = "succeeded"
    BY DEF AdvancesIffSucceeded
  <2>1. flush[f].batch \subseteq Pending /\ flush[f].verdict \in {"succeeded", "errored", "failed"}
    BY <1>1, <1>h, <1>t DEF FinishSlice, FlushType, Verdicts
  <2>2. successors' = successors \cup AdvancedBy(f)
    BY <1>1 DEF FinishSlice
  <2>3. CASE i \notin flush[f].batch
    <3>1. row'[i] = row[i]
      BY <1>1, <2>3 DEF FinishSlice, Completed, Failed
    <3>2. QED
      BY <2>2, <2>3, <3>1, <1>h DEF AdvancedBy
  <2>4. CASE i \in flush[f].batch
    <3>1. row[i].state = "pending" /\ i \notin successors /\ i \in flush[f].batch \cap Pending
      BY <2>1, <2>4, <1>h DEF Pending
    <3>2. CASE flush[f].verdict = "failed"
      <4>1. row'[i].state \in {"failed", "pending"}
        BY <1>1, <3>1, <3>2 DEF FinishSlice, Failed
      <4>2. QED
        BY <2>2, <3>1, <3>2, <4>1 DEF AdvancedBy
    <3>3. CASE flush[f].verdict # "failed"
      <4>1. row'[i] = [row[i] EXCEPT !.state = flush[f].verdict]
        BY <1>1, <3>1, <3>3 DEF FinishSlice, Completed
      <4>2. row'[i].state = flush[f].verdict
        BY <4>1, <1>t DEF RowType
      <4>3. QED
        BY <2>2, <2>4, <3>1, <4>2 DEF AdvancedBy
    <3>4. QED
      BY <3>2, <3>3
  <2>5. QED
    BY <2>3, <2>4
<1>2. ASSUME NEW v \in Verdicts, DrainFinish(v) PROVE AdvancesIffSucceeded'
  <2> SUFFICES ASSUME NEW i \in Items PROVE i \in successors' <=> row'[i].state = "succeeded"
    BY DEF AdvancesIffSucceeded
  <2>1. successors' = IF v = "succeeded" THEN successors \cup drain.run ELSE successors
    BY <1>2 DEF DrainFinish
  <2>2. CASE i \notin drain.run
    <3>1. row'[i] = row[i]
      BY <1>2, <2>2 DEF DrainFinish
    <3>2. QED
      BY <2>1, <2>2, <3>1, <1>h
  <2>3. CASE i \in drain.run
    <3>1. row[i].state = "running" /\ i \notin successors
      BY <1>2, <2>3, <1>h, <1>t DEF DrainFinish, DrainHolds
    <3>2. row'[i] = [row[i] EXCEPT !.state = v]
      BY <1>2, <2>3 DEF DrainFinish
    <3>3. row'[i].state = v
      BY <3>2, <1>t DEF RowType
    <3>4. QED
      BY <2>1, <2>3, <3>1, <3>3
  <2>4. QED
    BY <2>2, <2>3
<1>3. ASSUME ~\E f \in Flushers : FinishSlice(f), ~\E v \in Verdicts : DrainFinish(v)
      PROVE  AdvancesIffSucceeded'
  <2>1. successors' = successors
    <3>1. ASSUME NEW w \in Feeders, FeedStep(w) PROVE successors' = successors
      BY <3>1 DEF FeedStep, FeedStart, FeedResolve, OpenForHead, EnqueueHead, Advance, FeedEnd
    <3>2. ASSUME NEW f \in Flushers, FlushStep(f) \/ FlushError(f) \/ FlushCrash(f)
          PROVE  successors' = successors
      BY <1>3, <3>2 DEF FlushStep, FlushStart, TakeFence, SkipWindow, Gather, DropUnemittable, Emit,
                        CloseEmpty, Leave, FlushError, FlushCrash
    <3>3. ASSUME DrainStep \/ DrainCrash PROVE successors' = successors
      BY <1>3, <3>3 DEF DrainStep, DrainStart, DrainClaim, DrainSkip, DrainEnd, DrainCrash
    <3>4. ASSUME FenceExpires \/ FenceLapses \/ Tick \/ UNCHANGED vars PROVE successors' = successors
      BY <3>4 DEF FenceExpires, FenceLapses, Tick, vars
    <3>5. ASSUME \/ \E S \in SUBSET Items : Backfill(S)
                 \/ \E c \in {"digest", "instant", "gone"} : Edit(c)
          PROVE  successors' = successors
      BY <3>5 DEF Backfill, Edit
    <3>6. QED
      BY <3>1, <3>2, <3>3, <3>4, <3>5, Zenon DEF Next
  <2>2. ASSUME NEW i \in Items PROVE row'[i].state = "succeeded" <=> row[i].state = "succeeded"
    <3>1. row'[i].state = "succeeded" => row[i].state = "succeeded"
      BY <1>3, RunOrigins
    <3>2. RunStep(i)
      BY EveryRunStep
    <3>3. QED
      BY <3>1, <3>2, <1>t DEF RunStep, Absent
  <2>3. QED
    BY <2>1, <2>2, <1>h DEF AdvancesIffSucceeded
<1>4. QED
  BY <1>1, <1>2, <1>3

LEMMA CalmInvHolds == Spec => []CalmInv
<1>1. Init => CalmInv
  <2> SUFFICES ASSUME Init PROVE CalmInv
    OBVIOUS
  <2>1. RowsSound
    BY InitRowsSound
  <2>2. /\ cadence \in {"digest", "instant"} /\ window = NoWindow /\ successors = {}
        /\ \A i \in Items : row[i] = Absent /\ drain.seen[i] = "none"
        /\ \A w \in Feeders : feeder[w].pc = "idle"
        /\ \A f \in Flushers : flush[f].pc = "idle"
        /\ drain.pc = "idle"
    BY DEF Init, IdleFeeder, IdleFlush, IdleDrain
  <2>3. Undisturbed
    BY <2>2 DEF Undisturbed, ConfigKept, InstantUnwindowed, DigestWindowed, Covered, NoOrphan,
                Pending, Absent, NoWindow
  <2>4. FlushExcludes /\ BatchHeld /\ ChainExact
    BY <2>2 DEF FlushExcludes, BatchHeld, ChainExact, AdvancesIffSucceeded, Absent, Holding
  <2>5. QED
    BY <2>1, <2>3, <2>4 DEF CalmInv
<1>2. CalmInv /\ [Next]_vars => CalmInv'
  <2> SUFFICES ASSUME CalmInv, [Next]_vars PROVE CalmInv'
    OBVIOUS
  <2>0. RowsSound /\ Undisturbed /\ FlushExcludes /\ BatchHeld /\ ChainExact
    BY DEF CalmInv
  <2>1. RowsSound'
    BY <2>0, RowsSoundStep
  <2>2. Undisturbed'
    BY <2>0, UndisturbedStep DEF Undisturbed
  <2>3. FlushExcludes'
    <3>1. CASE spent'.lapses = 0
      BY <2>0, <3>1, FlushExcludesStep
    <3>2. CASE spent'.lapses # 0
      BY <3>2 DEF FlushExcludes
    <3>3. QED
      BY <3>1, <3>2
  <2>4. BatchHeld'
    BY <2>0, BatchHeldStep DEF BatchHeld
  <2>5. ChainExact'
    BY <2>0, ChainExactStep DEF ChainExact
  <2>6. QED
    BY <2>1, <2>2, <2>3, <2>4, <2>5 DEF CalmInv
<1>3. QED
  BY <1>1, <1>2, PTL DEF Spec

\* "Either way: no orphan": of an action fed by its predecessor, and neither
\* edited nor backfilled, no pending run is left under a closed window, however
\* flushes overlap, lapse and die.
THEOREM NoRunOrphaned == Spec => [](Unedited /\ ~IsHead => NoOrphan)
<1>1. CalmInv => (Unedited /\ ~IsHead => NoOrphan)
  BY DEF CalmInv, Undisturbed, Covered
<1>2. QED
  BY <1>1, CalmInvHolds, PTL

\* The drain, which tells a digest by the existence of its window row alone,
\* claims no run of a digest as long as nobody edits or backfills it.
THEOREM DrainLeavesDigests == Spec /\ []Unedited => DrainSkipsDigests
<1>1. CalmInv /\ Unedited /\ Unedited' /\ [Next]_vars
        => [\A i \in Items : row[i].state # "running" /\ row'[i].state = "running"
                             => cadence # "digest"]_vars
  <2> SUFFICES ASSUME CalmInv, Unedited, [Next]_vars, NEW i \in Items,
                      row[i].state # "running", row'[i].state = "running", cadence = "digest"
               PROVE  FALSE
    OBVIOUS
  <2>1. DrainClaim(i)
    BY RunOrigins DEF CalmInv
  <2>2. drain.seen[i] = "none" /\ row[i] \in RowType
    BY DEF CalmInv, Undisturbed, DigestWindowed, RowsSound, TypeOK
  <2>3. QED
    BY <2>1, <2>2 DEF DrainClaim, RowType, RowStates
<1>2. QED
  BY <1>1, CalmInvHolds, PTL DEF Spec, DrainSkipsDigests

\* The chain advances exactly on success, as long as no flush lock lapses and
\* nobody edits or backfills the action: what a flush has gathered is still
\* pending when it writes, although it emitted outside any transaction.
THEOREM ChainAdvancesExactly == Spec => [](Calm => AdvancesIffSucceeded)
<1>1. CalmInv => (Calm => AdvancesIffSucceeded)
  BY DEF CalmInv, ChainExact
<1>2. QED
  BY <1>1, CalmInvHolds, PTL
-----------------------------------------------------------------------------
(* Emissions stay bounded.  An emission of a run that is still pending has  *)
(* burned an attempt, died with its flush, or is not written yet; and what  *)
(* is still to be emitted of a run is in the hands of the flushes that      *)
(* gathered it, of which there is one more than locks have lapsed.          *)

\* The flushes that are inside without the lock.
Loose == {f \in Flushers : flush[f].pc \in Holding /\ f # fence}

\* The flushes that will emit i, and those that have and not written it.
Yet(i) == {f \in Flushers : flush[f].pc \in {"gathered", "ready"} /\ i \in flush[f].batch}
Out(i) == {f \in Flushers : flush[f].pc = "emitted" /\ i \in flush[f].batch}

LooseBound == IsFiniteSet(Loose) /\ Cardinality(Loose) <= spent.lapses

BatchQueued == \A f \in Flushers : \A i \in flush[f].batch : row[i].state # "absent"

Burned ==
  \A i \in Items :
    row[i].state \in {"absent", "pending"} =>
      emits[i] <= row[i].attempts + Cardinality(Out(i)) + spent.faults

LeftBound ==
  \A i \in Items :
    emits[i] + Cardinality(Yet(i)) <= MaxAttempts + spent.faults + spent.lapses

EmitInv == RowsSound /\ LooseBound /\ BatchQueued /\ Burned /\ LeftBound

\* Two sets that share nothing, within a third and one more.
LEMMA Shared ==
  ASSUME NEW L, IsFiniteSet(L), NEW k, NEW Y, NEW O, Y \cap O = {}, Y \cup O \subseteq L \cup {k}
  PROVE  /\ IsFiniteSet(Y) /\ IsFiniteSet(O)
         /\ Cardinality(Y) + Cardinality(O) <= Cardinality(L) + 1
<1> DEFINE U == L \cup {k}
           W == Y \cup O
<1>1. IsFiniteSet(U) /\ (Cardinality(U) = Cardinality(L) \/ Cardinality(U) = Cardinality(L) + 1)
  BY FS_AddElement
<1>2. IsFiniteSet(W) /\ Cardinality(W) <= Cardinality(U)
  <2> HIDE DEF U, W
  <2>1. W \subseteq U
    BY DEF U, W
  <2>2. QED
    BY <1>1, <2>1, FS_Subset
<1>3. IsFiniteSet(Y) /\ IsFiniteSet(O)
  <2>1. Y \subseteq W /\ O \subseteq W
    OBVIOUS
  <2> HIDE DEF W
  <2>2. QED
    BY <1>2, <2>1, FS_Subset
<1>4. Cardinality(W) = Cardinality(Y) + Cardinality(O) - Cardinality(Y \cap O)
  BY <1>3, FS_Union
<1>5. Cardinality(Y \cap O) = 0
  BY FS_EmptySet
<1>6. /\ Cardinality(W) \in Nat /\ Cardinality(U) \in Nat /\ Cardinality(L) \in Nat
      /\ Cardinality(Y) \in Nat /\ Cardinality(O) \in Nat
  BY <1>1, <1>2, <1>3, FS_CardinalityType
<1> HIDE DEF U, W
<1>7. QED
  BY <1>1, <1>2, <1>3, <1>4, <1>5, <1>6

LEMMA Smaller ==
  ASSUME NEW S, IsFiniteSet(S), NEW T, T \subseteq S
  PROVE  /\ IsFiniteSet(T) /\ Cardinality(T) <= Cardinality(S)
         /\ Cardinality(S) \in Nat /\ Cardinality(T) \in Nat
<1>1. IsFiniteSet(T) /\ Cardinality(T) <= Cardinality(S)
  BY FS_Subset
<1>2. QED
  BY <1>1, FS_CardinalityType

LEMMA OneMore ==
  ASSUME NEW S, IsFiniteSet(S), NEW x, NEW T, T \subseteq S \cup {x}
  PROVE  /\ IsFiniteSet(T) /\ Cardinality(T) <= Cardinality(S) + 1
         /\ Cardinality(S) \in Nat /\ Cardinality(T) \in Nat
<1> DEFINE U == S \cup {x}
<1>1. IsFiniteSet(U) /\ (Cardinality(U) = Cardinality(S) \/ Cardinality(U) = Cardinality(S) + 1)
  BY FS_AddElement
<1>2. Cardinality(S) \in Nat
  BY FS_CardinalityType
<1>3. T \subseteq U
  OBVIOUS
<1> HIDE DEF U
<1>4. /\ IsFiniteSet(T) /\ Cardinality(T) <= Cardinality(U)
      /\ Cardinality(U) \in Nat /\ Cardinality(T) \in Nat
  BY <1>1, <1>3, Smaller
<1>5. QED
  BY <1>1, <1>2, <1>4

LEMMA OneLess ==
  ASSUME NEW S, IsFiniteSet(S), NEW x \in S, NEW T, T \subseteq S \ {x}
  PROVE  Cardinality(T) + 1 <= Cardinality(S)
<1> DEFINE U == S \ {x}
<1>1. /\ IsFiniteSet(U) /\ Cardinality(U) = Cardinality(S) - 1
      /\ Cardinality(S) \in Nat
  BY FS_RemoveElement, FS_CardinalityType
<1>2. T \subseteq U
  OBVIOUS
<1> HIDE DEF U
<1>3. Cardinality(T) <= Cardinality(U) /\ Cardinality(T) \in Nat /\ Cardinality(U) \in Nat
  BY <1>1, <1>2, Smaller
<1>4. QED
  BY <1>1, <1>3

-----------------------------------------------------------------------------
\* A flush moves alone.
LEMMA FlushOthers ==
  ASSUME TypeOK, NEW f \in Flushers, FlushStep(f) \/ FlushError(f) \/ FlushCrash(f)
  PROVE  \A g \in Flushers \ {f} : flush'[g] = flush[g]
<1>1. flush \in [Flushers -> FlushType]
  BY DEF TypeOK
<1>2. QED
  BY <1>1 DEF FlushStep, FlushStart, TakeFence, SkipWindow, Gather, DropUnemittable, Emit,
              FinishSlice, CloseEmpty, Leave, FlushError, FlushCrash

\* What is used up stays used up.
LEMMA SpentMoves ==
  ASSUME TypeOK, [Next]_vars
  PROVE  /\ spent.faults \in Nat /\ spent.lapses \in Nat
         /\ spent'.faults \in Nat /\ spent'.lapses \in Nat
         /\ spent'.faults >= spent.faults /\ spent'.lapses >= spent.lapses
<1>t. spent \in SpentType /\ spent.faults \in Nat /\ spent.lapses \in Nat
  BY BoundsAssumption DEF TypeOK, SpentType
<1> DEFINE Goal == /\ spent'.faults = spent.faults \/ spent'.faults = spent.faults + 1
                   /\ spent'.lapses = spent.lapses \/ spent'.lapses = spent.lapses + 1
<1>1. ASSUME spent' = spent PROVE Goal
  BY <1>1
<1>2. ASSUME NEW w \in Feeders, FeedStep(w) PROVE spent' = spent
  BY <1>2 DEF FeedStep, FeedStart, FeedResolve, OpenForHead, EnqueueHead, Advance, FeedEnd
<1>3. ASSUME NEW f \in Flushers, FlushStep(f) PROVE spent' = spent
  BY <1>3 DEF FlushStep, FlushStart, TakeFence, SkipWindow, Gather, DropUnemittable, Emit,
              FinishSlice, CloseEmpty, Leave
<1>4. ASSUME DrainStep \/ FenceExpires \/ Tick \/ UNCHANGED vars PROVE Goal
  <2>1. spent' = spent
    BY <1>4 DEF DrainStep, DrainStart, DrainClaim, DrainSkip, DrainFinish, DrainEnd, FenceExpires,
                Tick, vars
  <2>2. QED
    BY <2>1, <1>1
<1>5. ASSUME \/ \E f \in Flushers : FlushError(f) \/ FlushCrash(f)
             \/ DrainCrash
      PROVE  Goal
  <2>1. spent' = [spent EXCEPT !.faults = @ + 1]
    BY <1>5 DEF FlushError, FlushCrash, DrainCrash
  <2>2. QED
    BY <2>1, <1>t DEF SpentType
<1>6. ASSUME FenceLapses PROVE Goal
  <2>1. spent' = [spent EXCEPT !.lapses = @ + 1]
    BY <1>6 DEF FenceLapses
  <2>2. QED
    BY <2>1, <1>t DEF SpentType
<1>7. ASSUME \/ \E S \in SUBSET Items : Backfill(S)
             \/ \E c \in {"digest", "instant", "gone"} : Edit(c)
      PROVE  Goal
  <2>1. \/ spent' = [spent EXCEPT !.backfills = @ + 1]
        \/ spent' = [spent EXCEPT !.edits = @ + 1]
    BY <1>7 DEF Backfill, Edit
  <2>2. QED
    BY <2>1, <1>t DEF SpentType
<1>8. Goal
  <2> HIDE DEF Goal
  <2>1. QED
    BY <1>1, <1>2, <1>3, <1>4, <1>5, <1>6, <1>7, Zenon DEF Next
<1>9. QED
  BY <1>8, <1>t

\* Only an emission counts.
LEMMA EmitMoves ==
  ASSUME [Next]_vars
  PROVE  emits' = emits \/ \E f \in Flushers, v \in Verdicts : Emit(f, v)
<1>1. ASSUME NEW w \in Feeders, FeedStep(w) PROVE emits' = emits
  BY <1>1 DEF FeedStep, FeedStart, FeedResolve, OpenForHead, EnqueueHead, Advance, FeedEnd
<1>2. ASSUME NEW f \in Flushers, FlushStep(f) \/ FlushError(f) \/ FlushCrash(f)
      PROVE  emits' = emits \/ \E v \in Verdicts : Emit(f, v)
  BY <1>2 DEF FlushStep, FlushStart, TakeFence, SkipWindow, Gather, DropUnemittable,
              FinishSlice, CloseEmpty, Leave, FlushError, FlushCrash
<1>3. ASSUME DrainStep \/ DrainCrash \/ FenceExpires \/ FenceLapses \/ Tick \/ UNCHANGED vars
      PROVE  emits' = emits
  BY <1>3 DEF DrainStep, DrainStart, DrainClaim, DrainSkip, DrainFinish, DrainEnd, DrainCrash,
              FenceExpires, FenceLapses, Tick, vars
<1>4. ASSUME \/ \E S \in SUBSET Items : Backfill(S)
             \/ \E c \in {"digest", "instant", "gone"} : Edit(c)
      PROVE  emits' = emits
  BY <1>4 DEF Backfill, Edit
<1>5. QED
  BY <1>1, <1>2, <1>3, <1>4, Zenon DEF Next

\* An emission is written by the slice's end, or lost with a fault.
LEMMA OutMoves ==
  ASSUME TypeOK, [Next]_vars, NEW i, NEW f \in Out(i)
  PROVE  f \in Out(i)' \/ FinishSlice(f) \/ FlushError(f) \/ FlushCrash(f)
<1>1. f \in Flushers /\ flush[f].pc = "emitted"
  BY DEF Out
<1>2. ASSUME flush'[f] = flush[f] PROVE f \in Out(i)'
  BY <1>2 DEF Out
<1>3. ASSUME FlushStep(f) PROVE FinishSlice(f)
  BY <1>1, <1>3 DEF FlushStep, FlushStart, TakeFence, SkipWindow, Gather, DropUnemittable, Emit,
                    CloseEmpty, Leave
<1>4. QED
  BY <1>1, <1>2, <1>3, FlushWriters, FlushOthers

\* What a flush is to emit, it gathered while it was pending.
LEMMA YetMoves ==
  ASSUME TypeOK, [Next]_vars, NEW i, NEW f \in Yet(i)'
  PROVE  /\ f \in Yet(i) \/ (Gather(f) /\ i \in Pending)
         /\ \A v \in Verdicts : ~Emit(f, v)
<1>t. flush \in [Flushers -> FlushType] /\ f \in Flushers
      /\ flush'[f].pc \in {"gathered", "ready"} /\ i \in flush'[f].batch
  BY DEF TypeOK, Yet
<1>1. ASSUME flush'[f] = flush[f] PROVE f \in Yet(i)
  BY <1>1, <1>t DEF Yet
<1>2. ASSUME Gather(f) PROVE i \in Pending
  <2>1. PICK S \in SUBSET Items : IsBatch(S) /\ flush'[f].batch = S
    BY <1>2, <1>t DEF Gather, FlushType
  <2>2. QED
    BY <2>1, <1>t DEF IsBatch
<1>3. ASSUME DropUnemittable(f) PROVE f \in Yet(i)
  <2>1. flush[f].pc = "gathered" /\ flush'[f].batch = flush[f].batch \ Unemittable(f)
    BY <1>3, <1>t DEF DropUnemittable, FlushType
  <2>2. QED
    BY <2>1, <1>t DEF Yet
<1>4. ASSUME \/ FlushStart(f) \/ TakeFence(f) \/ SkipWindow(f) \/ (\E v \in Verdicts : Emit(f, v))
             \/ FinishSlice(f) \/ CloseEmpty(f) \/ Leave(f) \/ FlushError(f) \/ FlushCrash(f)
      PROVE  FALSE
  <2>1. flush'[f].pc \notin {"gathered", "ready"}
    BY <1>4, <1>t DEF FlushStart, TakeFence, SkipWindow, Emit, FinishSlice, CloseEmpty, Leave,
                      FlushError, FlushCrash, FlushType, IdleFlush
  <2>2. QED
    BY <2>1, <1>t
<1>5. ASSUME FlushStep(f) \/ FlushError(f) \/ FlushCrash(f)
      PROVE  f \in Yet(i) \/ (Gather(f) /\ i \in Pending)
  BY <1>2, <1>3, <1>4, <1>5 DEF FlushStep
<1>6. f \in Yet(i) \/ (Gather(f) /\ i \in Pending)
  BY <1>1, <1>5, <1>t, FlushWriters, FlushOthers
<1>7. QED
  BY <1>4, <1>6

-----------------------------------------------------------------------------
LEMMA LooseStep ==
  ASSUME TypeOK, LooseBound, [Next]_vars
  PROVE  LooseBound'
<1>t. /\ flush \in [Flushers -> FlushType] /\ fence \in Flushers \cup {Nobody}
      /\ IsFiniteSet(Loose) /\ Cardinality(Loose) <= spent.lapses
      /\ spent \in SpentType
  BY DEF TypeOK, LooseBound
<1>n. /\ spent.lapses \in Nat /\ spent'.lapses \in Nat /\ spent'.lapses >= spent.lapses
  BY SpentMoves
<1>s. ASSUME Loose' \subseteq Loose PROVE LooseBound'
  <2>1. /\ IsFiniteSet(Loose') /\ Cardinality(Loose') <= Cardinality(Loose)
        /\ Cardinality(Loose) \in Nat /\ Cardinality(Loose') \in Nat
    BY <1>s, <1>t, Smaller
  <2>2. QED
    BY <2>1, <1>t, <1>n DEF LooseBound
<1>1. CASE FenceLapses
  <2>1. Loose' \subseteq Loose \cup {fence}
    BY <1>1 DEF FenceLapses, Loose
  <2>2. /\ IsFiniteSet(Loose') /\ Cardinality(Loose') <= Cardinality(Loose) + 1
        /\ Cardinality(Loose) \in Nat /\ Cardinality(Loose') \in Nat
    BY <2>1, <1>t, OneMore
  <2>3. spent'.lapses = spent.lapses + 1
    BY <1>1, <1>t DEF FenceLapses, SpentType
  <2>4. QED
    BY <2>2, <2>3, <1>t, <1>n DEF LooseBound
<1>2. CASE FenceExpires
  <2>1. Loose' \subseteq Loose
    BY <1>2, <1>t DEF FenceExpires, HolderAlive, Loose
  <2>2. QED
    BY <2>1, <1>s
<1>3. ASSUME NEW f \in Flushers, TakeFence(f) PROVE LooseBound'
  <2>1. fence = Nobody /\ fence' = f /\ \A g \in Flushers \ {f} : flush'[g] = flush[g]
    BY <1>3, <1>t DEF TakeFence, MayFlush
  <2>2. Loose' \subseteq Loose
    BY <2>1, NobodyAssumption DEF Loose
  <2>3. QED
    BY <2>2, <1>s
<1>4. ASSUME NEW f \in Flushers, Leave(f) PROVE LooseBound'
  <2>1. /\ fence' = fence \/ fence = f
        /\ flush'[f].pc = "idle"
        /\ \A g \in Flushers \ {f} : flush'[g] = flush[g]
    BY <1>4, <1>t DEF Leave, IdleFlush
  <2>2. "idle" \notin Holding
    BY DEF Holding
  <2>3. Loose' \subseteq Loose
    BY <2>1, <2>2 DEF Loose
  <2>4. QED
    BY <2>3, <1>s
<1>5. ASSUME NEW f \in Flushers,
             \/ FlushStart(f) \/ SkipWindow(f) \/ Gather(f) \/ DropUnemittable(f)
             \/ (\E v \in Verdicts : Emit(f, v)) \/ FinishSlice(f) \/ CloseEmpty(f)
             \/ FlushError(f) \/ FlushCrash(f)
      PROVE  LooseBound'
  <2>1. fence' = fence /\ \A g \in Flushers \ {f} : flush'[g] = flush[g]
    BY <1>5, <1>t DEF FlushStart, SkipWindow, Gather, DropUnemittable, Emit, FinishSlice,
                      CloseEmpty, FlushError, FlushCrash
  <2>2. flush'[f].pc \in Holding => flush[f].pc \in Holding
    <3>1. CASE FlushStart(f) \/ SkipWindow(f) \/ FlushCrash(f)
      <4>1. flush'[f].pc \in {"due", "idle"}
        BY <3>1, <1>t DEF FlushStart, SkipWindow, FlushCrash, FlushType, IdleFlush
      <4>2. QED
        BY <4>1 DEF Holding
    <3>2. CASE \/ Gather(f) \/ DropUnemittable(f) \/ (\E v \in Verdicts : Emit(f, v))
               \/ FinishSlice(f) \/ CloseEmpty(f) \/ FlushError(f)
      BY <3>2 DEF Gather, DropUnemittable, Emit, FinishSlice, CloseEmpty, FlushError, Holding
    <3>3. QED
      BY <1>5, <3>1, <3>2
  <2>3. Loose' \subseteq Loose
    BY <2>1, <2>2 DEF Loose
  <2>4. QED
    BY <2>3, <1>s
<1>6. ASSUME UNCHANGED <<flush, fence>> PROVE LooseBound'
  <2>1. Loose' = Loose
    BY <1>6 DEF Loose
  <2>2. QED
    BY <2>1, <1>s
<1>7. ASSUME NEW w \in Feeders, FeedStep(w) PROVE UNCHANGED <<flush, fence>>
  BY <1>7 DEF FeedStep, FeedStart, FeedResolve, OpenForHead, EnqueueHead, Advance, FeedEnd
<1>8. ASSUME DrainStep \/ DrainCrash \/ Tick \/ UNCHANGED vars PROVE UNCHANGED <<flush, fence>>
  BY <1>8 DEF DrainStep, DrainStart, DrainClaim, DrainSkip, DrainFinish, DrainEnd, DrainCrash, Tick,
              vars
<1>9. ASSUME \/ \E S \in SUBSET Items : Backfill(S)
             \/ \E c \in {"digest", "instant", "gone"} : Edit(c)
      PROVE  UNCHANGED <<flush, fence>>
  BY <1>9 DEF Backfill, Edit
<1>10. ASSUME NEW f \in Flushers, FlushStep(f) \/ FlushError(f) \/ FlushCrash(f) PROVE LooseBound'
  BY <1>3, <1>4, <1>5, <1>10, Zenon DEF FlushStep
<1>11. QED
  BY <1>1, <1>2, <1>6, <1>7, <1>8, <1>9, <1>10, Zenon DEF Next

LEMMA BatchQueuedStep ==
  ASSUME RowsSound, BatchQueued, [Next]_vars
  PROVE  BatchQueued'
<1>t. flush \in [Flushers -> FlushType] /\ TypeOK
  BY DEF RowsSound, TypeOK
<1>q. ASSUME NEW i \in Items, row[i].state # "absent" PROVE row'[i].state # "absent"
  <2>1. RunStep(i)
    BY EveryRunStep
  <2>2. QED
    BY <2>1, <1>q DEF RunStep, Absent, Queued
<1>1. ASSUME NEW f \in Flushers, NEW i \in flush'[f].batch
      PROVE  i \in flush[f].batch \/ i \in Pending
  <2>1. CASE Gather(f)
    <3>1. PICK S \in SUBSET Items : IsBatch(S) /\ flush'[f].batch = S
      BY <2>1, <1>t DEF Gather, FlushType
    <3>2. QED
      BY <3>1, <1>1 DEF IsBatch
  <2>2. CASE DropUnemittable(f)
    BY <2>2, <1>1, <1>t DEF DropUnemittable, FlushType
  <2>3. ASSUME \/ FlushStart(f) \/ TakeFence(f) \/ SkipWindow(f) \/ (\E v \in Verdicts : Emit(f, v))
               \/ FinishSlice(f) \/ CloseEmpty(f) \/ Leave(f) \/ FlushError(f) \/ FlushCrash(f)
        PROVE  flush'[f].batch = flush[f].batch \/ flush'[f].batch = {}
    BY <2>3, <1>t DEF FlushStart, TakeFence, SkipWindow, Emit, FinishSlice, CloseEmpty, Leave,
                      FlushError, FlushCrash, FlushType, IdleFlush
  <2>4. CASE flush'[f] = flush[f]
    BY <2>4, <1>1
  <2>5. CASE FlushStep(f) \/ FlushError(f) \/ FlushCrash(f)
    BY <2>1, <2>2, <2>3, <2>5, <1>1 DEF FlushStep
  <2>6. QED
    BY <2>4, <2>5, <1>t, FlushWriters, FlushOthers
<1>2. ASSUME NEW f \in Flushers, NEW i \in flush'[f].batch PROVE row'[i].state # "absent"
  <2>1. i \in Items /\ row[i].state # "absent"
    <3>1. CASE i \in flush[f].batch
      BY <3>1, <1>t DEF BatchQueued, FlushType
    <3>2. CASE i \in Pending
      BY <3>2 DEF Pending
    <3>3. QED
      BY <1>1, <1>2, <3>1, <3>2
  <2>2. QED
    BY <2>1, <1>q
<1>3. QED
  BY <1>2 DEF BatchQueued

\* The flushes concerned with an item are the holder's and the loose ones.
LEMMA Concerned ==
  ASSUME LooseBound, NEW i
  PROVE  /\ IsFiniteSet(Yet(i)) /\ IsFiniteSet(Out(i))
         /\ Cardinality(Yet(i)) \in Nat /\ Cardinality(Out(i)) \in Nat
<1>1. Yet(i) \cap Out(i) = {}
  BY DEF Yet, Out
<1>2. Yet(i) \cup Out(i) \subseteq Loose \cup {fence}
  BY DEF Yet, Out, Loose, Holding
<1>3. IsFiniteSet(Yet(i)) /\ IsFiniteSet(Out(i))
  BY <1>1, <1>2, Shared DEF LooseBound
<1>4. QED
  BY <1>3, FS_CardinalityType

LEMMA BurnedStep ==
  ASSUME EmitInv, [Next]_vars
  PROVE  Burned'
<1>t. /\ RowsSound /\ TypeOK /\ LooseBound /\ BatchQueued /\ Burned
      /\ row \in [Items -> RowType] /\ flush \in [Flushers -> FlushType]
      /\ emits \in [Items -> Nat] /\ spent \in SpentType
  BY DEF EmitInv, RowsSound, TypeOK
<1> SUFFICES ASSUME NEW i \in Items, row'[i].state \in {"absent", "pending"}
             PROVE  emits'[i] <= row'[i].attempts + Cardinality(Out(i)') + spent'.faults
  BY DEF Burned
<1>r. /\ row[i].state \in {"absent", "pending"} /\ row'[i].attempts >= row[i].attempts
      /\ row[i].attempts \in Nat /\ row'[i].attempts \in Nat
  <2>1. RunStep(i) /\ row' \in [Items -> RowType]
    BY <1>t, EveryRunStep
  <2>2. row[i].attempts \in Nat /\ row'[i].attempts \in Nat
    BY <2>1, <1>t, SettingsAssumption DEF RowType
  <2>3. row[i].state \in {"absent", "pending"} /\ row'[i].attempts >= row[i].attempts
    BY <2>1, <2>2 DEF RunStep, Absent, Queued
  <2>4. QED
    BY <2>2, <2>3
<1>h. emits[i] <= row[i].attempts + Cardinality(Out(i)) + spent.faults
  BY <1>r, <1>t DEF Burned
<1>n. /\ spent.faults \in Nat /\ spent'.faults \in Nat /\ spent'.faults >= spent.faults
      /\ emits[i] \in Nat
  BY <1>t, SpentMoves
<1>f. /\ IsFiniteSet(Out(i)) /\ Cardinality(Out(i)) \in Nat
      /\ IsFiniteSet(Out(i)') /\ Cardinality(Out(i)') \in Nat
  <2>1. LooseBound'
    BY <1>t, LooseStep
  <2>2. /\ Yet(i)' \cap Out(i)' = {}
        /\ Yet(i)' \cup Out(i)' \subseteq Loose' \cup {fence'}
    BY DEF Yet, Out, Loose, Holding
  <2>3. IsFiniteSet(Out(i)')
    BY <2>1, <2>2, Shared DEF LooseBound
  <2>4. QED
    BY <2>3, <1>t, Concerned, FS_CardinalityType
<1>1. ASSUME NEW f \in Flushers, NEW v \in Verdicts, Emit(f, v), i \in flush[f].batch
      PROVE  emits'[i] <= row'[i].attempts + Cardinality(Out(i)') + spent'.faults
  <2>1. emits'[i] = emits[i] + 1
    BY <1>1, <1>t DEF Emit
  <2>2. f \notin Out(i) /\ f \in Out(i)'
    BY <1>1, <1>t DEF Emit, Out, FlushType
  <2>3. Out(i) \subseteq Out(i)' \ {f}
    <3>1. FlushStep(f)
      BY <1>1 DEF FlushStep
    <3>2. \A g \in Flushers \ {f} : flush'[g] = flush[g]
      BY <3>1, <1>t, FlushOthers
    <3>3. QED
      BY <3>2, <2>2 DEF Out
  <2>4. Cardinality(Out(i)) + 1 <= Cardinality(Out(i)')
    BY <2>2, <2>3, <1>f, OneLess
  <2>5. QED
    BY <2>1, <2>4, <1>r, <1>h, <1>n, <1>f
<1>2. ASSUME NEW f \in Flushers, FinishSlice(f), f \in Out(i)
      PROVE  emits'[i] <= row'[i].attempts + Cardinality(Out(i)') + spent'.faults
  <2>1. emits' = emits /\ i \in flush[f].batch
    BY <1>2 DEF FinishSlice, Out
  <2>2. row[i].state = "pending"
    BY <2>1, <1>r, <1>t, <1>2 DEF BatchQueued
  <2>3. row'[i].attempts = row[i].attempts + 1
    <3>1. CASE flush[f].verdict = "failed"
      <4>1. row' = Failed(flush[f].batch)
        BY <1>2, <3>1 DEF FinishSlice
      <4>2. QED
        BY <4>1, <2>1, <2>2 DEF Failed, Pending
    <3>2. CASE flush[f].verdict # "failed"
      <4>1. PICK v \in {"succeeded", "errored"} : v = flush[f].verdict
        BY <3>2, <1>2, <1>t DEF FlushType, Verdicts
      <4>2. row' = Completed(flush[f].batch, v)
        BY <1>2, <4>1 DEF FinishSlice
      <4>3. row'[i].state = v
        BY <4>2, <2>1, <2>2, <1>t DEF Completed, Pending, RowType
      <4>4. QED
        BY <4>3
    <3>3. QED
      BY <3>1, <3>2
  <2>4. Out(i) \subseteq Out(i)' \cup {f}
    <3>1. FlushStep(f)
      BY <1>2 DEF FlushStep
    <3>2. \A g \in Flushers \ {f} : flush'[g] = flush[g]
      BY <3>1, <1>t, FlushOthers
    <3>3. QED
      BY <3>2 DEF Out
  <2>5. Cardinality(Out(i)) <= Cardinality(Out(i)') + 1
    BY <2>4, <1>f, OneMore
  <2>6. QED
    BY <2>1, <2>3, <2>5, <1>r, <1>h, <1>n, <1>f
<1>3. ASSUME NEW f \in Flushers, FlushError(f) \/ FlushCrash(f)
      PROVE  emits'[i] <= row'[i].attempts + Cardinality(Out(i)') + spent'.faults
  <2>1. emits' = emits /\ spent'.faults = spent.faults + 1
    BY <1>3, <1>t DEF FlushError, FlushCrash, SpentType
  <2>2. Out(i) \subseteq Out(i)' \cup {f}
    <3>1. \A g \in Flushers \ {f} : flush'[g] = flush[g]
      BY <1>3, <1>t, FlushOthers
    <3>2. QED
      BY <3>1 DEF Out
  <2>3. Cardinality(Out(i)) <= Cardinality(Out(i)') + 1
    BY <2>2, <1>f, OneMore
  <2>4. QED
    BY <2>1, <2>3, <1>r, <1>h, <1>n, <1>f
<1>4. ASSUME ~\E f \in Out(i) : FinishSlice(f),
             ~\E f \in Flushers : FlushError(f) \/ FlushCrash(f),
             ~\E f \in Flushers, v \in Verdicts : Emit(f, v) /\ i \in flush[f].batch
      PROVE  emits'[i] <= row'[i].attempts + Cardinality(Out(i)') + spent'.faults
  <2>1. Out(i) \subseteq Out(i)'
    <3>1. Out(i) \subseteq Flushers
      BY DEF Out
    <3>2. QED
      BY <3>1, <1>4, <1>t, OutMoves
  <2>2. Cardinality(Out(i)) <= Cardinality(Out(i)')
    BY <2>1, <1>f, Smaller
  <2>3. emits'[i] = emits[i]
    <3>1. ASSUME NEW f \in Flushers, NEW v \in Verdicts, Emit(f, v) PROVE emits'[i] = emits[i]
      BY <3>1, <1>4 DEF Emit
    <3>2. QED
      BY <3>1, EmitMoves
  <2>4. QED
    BY <2>2, <2>3, <1>r, <1>h, <1>n, <1>f
<1>5. QED
  <2>1. Out(i) \subseteq Flushers
    BY DEF Out
  <2>2. QED
    BY <2>1, <1>1, <1>2, <1>3, <1>4, Zenon

LEMMA LeftStep ==
  ASSUME EmitInv, [Next]_vars
  PROVE  LeftBound'
<1>t. /\ RowsSound /\ TypeOK /\ LooseBound /\ Burned /\ LeftBound /\ PendingIsUnderCap
      /\ row \in [Items -> RowType] /\ flush \in [Flushers -> FlushType]
      /\ emits \in [Items -> Nat]
  BY DEF EmitInv, RowsSound, TypeOK
<1> SUFFICES ASSUME NEW i \in Items
             PROVE  emits'[i] + Cardinality(Yet(i)') <= MaxAttempts + spent'.faults + spent'.lapses
  BY DEF LeftBound
<1>h. emits[i] + Cardinality(Yet(i)) <= MaxAttempts + spent.faults + spent.lapses
  BY <1>t DEF LeftBound
<1>n. /\ spent.faults \in Nat /\ spent'.faults \in Nat /\ spent'.faults >= spent.faults
      /\ spent.lapses \in Nat /\ spent'.lapses \in Nat /\ spent'.lapses >= spent.lapses
      /\ emits[i] \in Nat /\ MaxAttempts \in Nat
  BY <1>t, SpentMoves, SettingsAssumption
<1>f. /\ IsFiniteSet(Yet(i)) /\ IsFiniteSet(Yet(i)')
      /\ Cardinality(Yet(i)) \in Nat /\ Cardinality(Out(i)) \in Nat
      /\ Cardinality(Yet(i)') \in Nat /\ Cardinality(Out(i)') \in Nat
      /\ Cardinality(Yet(i)') + Cardinality(Out(i)') <= 1 + spent'.lapses
  <2>1. LooseBound'
    BY <1>t, LooseStep
  <2>2. /\ Yet(i)' \cap Out(i)' = {}
        /\ Yet(i)' \cup Out(i)' \subseteq Loose' \cup {fence'}
    BY DEF Yet, Out, Loose, Holding
  <2>3. /\ IsFiniteSet(Yet(i)') /\ IsFiniteSet(Out(i)')
        /\ Cardinality(Yet(i)') + Cardinality(Out(i)') <= Cardinality(Loose') + 1
    BY <2>1, <2>2, Shared DEF LooseBound
  <2>4. /\ Cardinality(Yet(i)') \in Nat /\ Cardinality(Out(i)') \in Nat
        /\ Cardinality(Loose') \in Nat /\ Cardinality(Loose') <= spent'.lapses
    BY <2>1, <2>3, FS_CardinalityType DEF LooseBound
  <2>5. QED
    BY <2>3, <2>4, <1>n, <1>t, Concerned
\* A run is gathered while it is pending, and so under the cap.
<1>1. ASSUME NEW f \in Flushers, Gather(f), i \in Pending
      PROVE  emits'[i] + Cardinality(Yet(i)') <= MaxAttempts + spent'.faults + spent'.lapses
  <2>1. UNCHANGED <<row, emits, spent>>
    BY <1>1 DEF Gather
  <2>2. row[i].attempts < MaxAttempts /\ row[i].attempts \in Nat
    BY <1>1, <1>t, SettingsAssumption DEF PendingIsUnderCap, RowType
  <2>3. row[i].state = "pending"
    BY <1>1 DEF Pending
  <2>4. emits[i] <= row[i].attempts + Cardinality(Out(i)) + spent.faults
    BY <2>3, <1>t DEF Burned
  <2>5. Cardinality(Out(i)) <= Cardinality(Out(i)')
    <3>1. Out(i) \subseteq Out(i)'
      <4>1. flush[f].pc = "slicing" /\ FlushStep(f)
        BY <1>1 DEF Gather, FlushStep
      <4>2. \A g \in Flushers \ {f} : flush'[g] = flush[g]
        BY <4>1, <1>t, FlushOthers
      <4>3. QED
        BY <4>1, <4>2 DEF Out
    <3>2. IsFiniteSet(Out(i)')
      <4>1. LooseBound'
        BY <1>t, LooseStep
      <4>2. Out(i)' \subseteq Loose' \cup {fence'}
        BY DEF Out, Loose, Holding
      <4>3. QED
        BY <4>1, <4>2, OneMore DEF LooseBound
    <3>3. QED
      BY <3>1, <3>2, Smaller
  <2>6. QED
    BY <2>1, <2>2, <2>4, <2>5, <1>n, <1>f
<1>2. ASSUME NEW f \in Flushers, NEW v \in Verdicts, Emit(f, v), i \in flush[f].batch
      PROVE  emits'[i] + Cardinality(Yet(i)') <= MaxAttempts + spent'.faults + spent'.lapses
  <2>1. emits'[i] = emits[i] + 1
    BY <1>2, <1>t DEF Emit
  <2>2. f \in Yet(i)
    BY <1>2 DEF Emit, Yet
  <2>3. Yet(i)' \subseteq Yet(i) \ {f}
    <3>1. FlushStep(f)
      BY <1>2 DEF FlushStep
    <3>2. \A g \in Flushers \ {f} : flush'[g] = flush[g]
      BY <3>1, <1>t, FlushOthers
    <3>3. f \notin Yet(i)'
      BY <1>2, <1>t, YetMoves
    <3>4. QED
      BY <3>2, <3>3 DEF Yet
  <2>4. Cardinality(Yet(i)') + 1 <= Cardinality(Yet(i))
    BY <2>2, <2>3, <1>f, OneLess
  <2>5. QED
    BY <2>1, <2>4, <1>h, <1>n, <1>f
<1>3. ASSUME ~(i \in Pending /\ \E f \in Flushers : Gather(f)),
             ~\E f \in Flushers, v \in Verdicts : Emit(f, v) /\ i \in flush[f].batch
      PROVE  emits'[i] + Cardinality(Yet(i)') <= MaxAttempts + spent'.faults + spent'.lapses
  <2>1. Yet(i)' \subseteq Yet(i)
    <3>1. Yet(i)' \subseteq Flushers
      BY DEF Yet
    <3>2. QED
      BY <3>1, <1>3, <1>t, YetMoves
  <2>2. Cardinality(Yet(i)') <= Cardinality(Yet(i))
    BY <2>1, <1>f, Smaller
  <2>3. emits'[i] = emits[i]
    <3>1. ASSUME NEW f \in Flushers, NEW v \in Verdicts, Emit(f, v) PROVE emits'[i] = emits[i]
      BY <3>1, <1>3 DEF Emit
    <3>2. QED
      BY <3>1, EmitMoves
  <2>4. QED
    BY <2>2, <2>3, <1>h, <1>n, <1>f
<1>4. QED
  BY <1>1, <1>2, <1>3, Zenon

LEMMA EmitInvHolds == Spec => []EmitInv
<1>1. Init => EmitInv
  <2> SUFFICES ASSUME Init PROVE EmitInv
    OBVIOUS
  <2>1. \A f \in Flushers : flush[f].pc = "idle" /\ flush[f].batch = {}
    BY DEF Init, IdleFlush
  <2>2. Loose = {} /\ \A i : Yet(i) = {} /\ Out(i) = {}
    BY <2>1 DEF Loose, Yet, Out, Holding
  <2>3. /\ spent.faults = 0 /\ spent.lapses = 0 /\ MaxAttempts \in Nat
        /\ \A i \in Items : emits[i] = 0 /\ row[i].attempts = 0
    BY SettingsAssumption DEF Init, Absent
  <2>4. IsFiniteSet({}) /\ Cardinality({}) = 0
    BY FS_EmptySet
  <2>5. LooseBound
    BY <2>2, <2>3, <2>4 DEF LooseBound
  <2>6. Burned /\ LeftBound
    <3>1. ASSUME NEW i \in Items
          PROVE  /\ emits[i] <= row[i].attempts + Cardinality(Out(i)) + spent.faults
                 /\ emits[i] + Cardinality(Yet(i)) <= MaxAttempts + spent.faults + spent.lapses
      <4>1. Cardinality(Out(i)) = 0 /\ Cardinality(Yet(i)) = 0
        BY <2>2, <2>4
      <4>2. QED
        BY <4>1, <2>3
    <3>2. QED
      BY <3>1 DEF Burned, LeftBound
  <2>7. QED
    BY <2>1, <2>5, <2>6, InitRowsSound DEF EmitInv, BatchQueued
<1>2. EmitInv /\ [Next]_vars => EmitInv'
  <2> SUFFICES ASSUME EmitInv, [Next]_vars PROVE EmitInv'
    OBVIOUS
  <2>1. RowsSound /\ TypeOK /\ LooseBound /\ BatchQueued
    BY DEF EmitInv, RowsSound
  <2>2. RowsSound' /\ LooseBound' /\ BatchQueued'
    BY <2>1, RowsSoundStep, LooseStep, BatchQueuedStep
  <2>3. Burned' /\ LeftBound'
    BY BurnedStep, LeftStep
  <2>4. QED
    BY <2>2, <2>3 DEF EmitInv
<1>3. QED
  BY <1>1, <1>2, PTL DEF Spec

\* An item is emitted at most once per attempt its run may burn, plus once per
\* crash or failed commit and once per flush lock that lapsed, for any number
\* of flushes, slices, edits and drain claims in between.
THEOREM EmissionsStayBounded == Spec => []EmissionsBounded
<1>1. EmitInv => EmissionsBounded
  <2>1. ASSUME EmitInv, NEW i \in Items
        PROVE  emits[i] <= MaxAttempts + spent.faults + spent.lapses
    <3>1. /\ emits[i] + Cardinality(Yet(i)) <= MaxAttempts + spent.faults + spent.lapses
          /\ Cardinality(Yet(i)) \in Nat
      BY <2>1, Concerned DEF EmitInv, LeftBound
    <3>2. /\ emits[i] \in Nat /\ MaxAttempts \in Nat
          /\ spent.faults \in Nat /\ spent.lapses \in Nat
      BY <2>1, SettingsAssumption, BoundsAssumption DEF EmitInv, RowsSound, TypeOK, SpentType
    <3>3. QED
      BY <3>1, <3>2
  <2>2. QED
    BY <2>1 DEF EmissionsBounded
<1>2. QED
  BY <1>1, EmitInvHolds, PTL
=============================================================================
