--------------------------- MODULE RunQueueProofs ---------------------------
(***************************************************************************)
(* Proofs about RunQueue, for every chain, item set, number of passes and  *)
(* threads, attempts cap, stale timeout and bound.  The inductive          *)
(* invariant is QueueInv; what it adds to the properties is ExecOK, what a *)
(* live executor may rely on about the run it holds, and AbsentOK.         *)
(***************************************************************************)
EXTENDS RunQueueRefinement, FiniteSetTheorems, TLAPS

(* An executor at work holds a run whose row exists and has burned an      *)
(* attempt; its verdict is one its action can give; a recorded call has    *)
(* its delivery row.                                                       *)
ExecOK ==
  \A e \in Executors : exec[e].pc # "free" =>
    /\ exec[e].run \in Runs
    /\ row[exec[e].run].state # "absent"
    /\ exec[e].pc \in {"resolved", "recorded"} =>
         /\ exec[e].verdict \in Verdicts
         /\ exec[e].verdict = "succeeded" /\ exec[e].run[1] \in Outbound => exec[e].outbound
    /\ exec[e].pc = "recorded" => exec[e].outbound /\ deliveries[exec[e].run] > 0

(* A row in state absent is the empty record. *)
AbsentOK == \A r \in Runs : row[r].state = "absent" => row[r] = Absent

QueueInv ==
  /\ TypeOK
  /\ ExecOK
  /\ AbsentOK
  /\ AdvancesIffSucceeded
  /\ CompletedIffFinal
  /\ SuccessIsAudited

USE ChainLengthAssumption, MaxAttemptsAssumption, StaleAfterAssumption,
    BoundsAssumption

-----------------------------------------------------------------------------
(* The initial state: no rows, no passes.                                  *)
LEMMA InitInv == Init => QueueInv
<1> SUFFICES ASSUME Init PROVE QueueInv
  OBVIOUS
<1> USE DEF Init
<1>1. TypeOK
  BY DEF TypeOK, RowType, PassType, ExecType, Absent, IdlePass, Free,
         RowStates, CleanTerminal, Claimable, Verdicts, Times
<1>2. ExecOK
  BY DEF ExecOK, Free
<1>3. AbsentOK
  BY DEF AbsentOK
<1>4. \A r \in Runs : r[1] < ChainLength => Next1(r) \in Runs
  BY DEF Runs, Ranks, Next1
<1>5. AdvancesIffSucceeded
  BY <1>4 DEF AdvancesIffSucceeded, Absent
<1>6. CompletedIffFinal
  BY DEF CompletedIffFinal, Settled, IsFinal, CleanTerminal, Absent, AttemptsLeft
<1>7. SuccessIsAudited
  BY DEF SuccessIsAudited, Absent
<1> QED BY <1>1, <1>2, <1>3, <1>5, <1>6, <1>7 DEF QueueInv

-----------------------------------------------------------------------------
(* A new row is a row. *)
LEMMA NewRowType == \A ts \in Times : NewRow(ts) \in RowType
<1>1. Absent \in RowType
  BY DEF Absent, RowType, RowStates, Times
<1> QED BY <1>1 DEF NewRow, RowType, RowStates

(* A step of the queue keeps the types. *)
LEMMA TypeStep == ASSUME TypeOK, ExecOK, [Next]_vars PROVE TypeOK'
<1> USE DEF TypeOK, Times
<1>1. ASSUME NEW S \in SUBSET Items, Enqueue(S) PROVE TypeOK'
  BY <1>1, NewRowType DEF Enqueue
<1>2. ASSUME NEW p \in Passes, StartPass(p) PROVE TypeOK'
  <2>1. row' \in [Runs -> RowType]
    <3>1. \A r \in Runs, b \in BOOLEAN :
            [row[r] EXCEPT !.state = "failed", !.completed = b] \in RowType
      BY DEF RowType, RowStates
    <3>2. \A r \in Runs : IsFinal("failed", row[r].attempts) \in BOOLEAN
      BY Zenon DEF IsFinal
    <3> QED BY <1>2, <3>1, <3>2 DEF StartPass
  <2>2. pass' \in [Passes -> PassType]
    BY <1>2 DEF StartPass, PassType
  <2> QED BY <1>2, <2>1, <2>2 DEF StartPass
<1>3. ASSUME NEW p \in Passes, OpenCursor(p) PROVE TypeOK'
  BY <1>3 DEF OpenCursor, Due, PassType, Claimable
<1>4. ASSUME NEW p \in Passes, NEW r \in Runs, SkipCandidate(p, r) PROVE TypeOK'
  BY <1>4 DEF SkipCandidate, PassType
<1>5. ASSUME NEW p \in Passes, EndPass(p) PROVE TypeOK'
  BY <1>5 DEF EndPass, PassType, IdlePass
<1>6. ASSUME NEW p \in Passes, Crash(p) PROVE TypeOK'
  <2>1. Free \in ExecType
    BY DEF Free, ExecType
  <2>2. exec' \in [Executors -> ExecType]
    BY <1>6, <2>1 DEF Crash
  <2>3. pass' \in [Passes -> PassType]
    BY <1>6 DEF Crash, PassType, IdlePass
  <2> QED BY <1>6, <2>2, <2>3 DEF Crash, FaultAllowed
<1>7. ASSUME NEW e \in Executors, NEW r \in Runs, Claim(e, r) PROVE TypeOK'
  <2>1. e[1] \in Passes
    BY DEF Executors
  <2>2. row' \in [Runs -> RowType]
    <3>1. row[r].attempts + 1 \in 0 .. MaxAttempts /\ pass[e[1]].now \in Times
      BY <1>7, <2>1 DEF Claim, AttemptsLeft, PassType, RowType
    <3>2. Claimed(r, pass[e[1]].now) \in RowType
      BY <3>1 DEF Claimed, RowType, RowStates
    <3> QED BY <1>7, <3>2 DEF Claim
  <2>3. pass' \in [Passes -> PassType]
    BY <1>7, <2>1 DEF Claim, PassType
  <2>4. exec' \in [Executors -> ExecType]
    <3>1. row[r].attempts + 1 \in 0 .. MaxAttempts
      BY <1>7 DEF Claim, AttemptsLeft, RowType
    <3>2. \A n \in 0 .. MaxAttempts : Claiming(r, n) \in ExecType
      BY DEF Claiming, ExecType
    <3> QED BY <1>7, <3>1, <3>2 DEF Claim
  <2> QED BY <1>7, <2>2, <2>3, <2>4 DEF Claim
<1>8. ASSUME NEW e \in Executors, Refresh(e) PROVE TypeOK'
  <2>1. exec[e].run \in Runs
    BY <1>8 DEF Refresh, ExecOK
  <2>2. row[exec[e].run].attempts \in 0 .. MaxAttempts
    BY <2>1 DEF RowType
  <2>3. [exec[e] EXCEPT !.pc = "held", !.attempts = row[exec[e].run].attempts] \in ExecType
    BY <2>2 DEF ExecType
  <2>4. exec' \in [Executors -> ExecType]
    BY <1>8, <2>3 DEF Refresh
  <2> QED BY <1>8, <2>4 DEF Refresh
<1>9. ASSUME NEW e \in Executors, NEW v \in Verdicts, NEW out \in BOOLEAN, Resolve(e, v, out)
      PROVE TypeOK'
  <2>1. [exec[e] EXCEPT !.pc = "resolved", !.verdict = v, !.outbound = out] \in ExecType
    BY DEF ExecType
  <2>3. exec' \in [Executors -> ExecType]
    BY <1>9, <2>1 DEF Resolve
  <2>2. calls' \in [Runs -> Nat]
    BY <1>9 DEF Resolve, ExecOK
  <2> QED BY <1>9, <2>3, <2>2 DEF Resolve
<1>10. ASSUME NEW e \in Executors, Record(e) PROVE TypeOK'
  BY <1>10 DEF Record, ExecOK, ExecType
<1>11. ASSUME NEW e \in Executors, Commit(e) PROVE TypeOK'
  <2>1. e[1] \in Passes
    BY DEF Executors
  <2>2. exec[e].verdict \in RowStates
    BY <1>11 DEF Commit, ReadyToComplete, ExecOK, Verdicts, RowStates, CleanTerminal
  <2>3. NewRow(pass[e[1]].now) \in RowType
    BY <2>1, NewRowType DEF PassType
  <2>4. IsFinal(exec[e].verdict, exec[e].attempts) \in BOOLEAN
    BY Zenon DEF IsFinal
  <2>5. row' \in [Runs -> RowType]
    BY <1>11, <2>2, <2>3, <2>4 DEF Commit, RowType
  <2>6. exec' \in [Executors -> ExecType]
    BY <1>11 DEF Commit, ExecType, Free
  <2> QED BY <1>11, <2>5, <2>6 DEF Commit
<1>12. ASSUME NEW e \in Executors, LoseClaim(e) PROVE TypeOK'
  BY <1>12 DEF LoseClaim, ExecType, Free
<1>13. ASSUME NEW e \in Executors, DrainError(e) PROVE TypeOK'
  BY <1>13 DEF DrainError, FaultAllowed, ExecType, Free
<1>14. CASE Tick
  BY <1>14 DEF Tick
<1>15. CASE UNCHANGED vars
  BY <1>15 DEF vars
<1> QED
  BY <1>1, <1>2, <1>3, <1>4, <1>5, <1>6, <1>7, <1>8, <1>9, <1>10, <1>11,
     <1>12, <1>13, <1>14, <1>15 DEF Next, PassStep, ExecStep

-----------------------------------------------------------------------------
(* Only the trigger, the reaper, a claim and a commit write rows. *)
LEMMA RowWriters ==
  ASSUME [Next]_vars
  PROVE  \/ row' = row
         \/ \E S \in SUBSET Items : Enqueue(S)
         \/ \E p \in Passes : StartPass(p)
         \/ \E e \in Executors, r \in Runs : Claim(e, r)
         \/ \E e \in Executors : Commit(e)
BY DEF Next, PassStep, ExecStep, OpenCursor, SkipCandidate, EndPass, Crash,
       Refresh, Resolve, Record, LoseClaim, DrainError, Tick, vars

(* What each writer does to one row: it queues an absent one, reaps or     *)
(* commits a running one, or claims a claimable one with attempts left.    *)
LEMMA RowChange ==
  ASSUME TypeOK, ExecOK, [Next]_vars, NEW r \in Runs, row'[r] # row[r]
  PROVE  \/ row[r] = Absent /\ row'[r].state = "pending" /\ ~row'[r].completed
            /\ row'[r].attempts = 0
         \/ row[r].state = "running" /\ row'[r].attempts = row[r].attempts
            /\ row'[r].state \in Verdicts
            /\ row'[r].completed = IsFinal(row'[r].state, row[r].attempts)
         \/ row[r].state \in Claimable /\ row[r].attempts < MaxAttempts
            /\ row'[r].state = "running" /\ row'[r].completed = row[r].completed
            /\ row'[r].attempts = row[r].attempts + 1
<1> USE DEF TypeOK
<1>1. \A ts : NewRow(ts).state = "pending" /\ ~NewRow(ts).completed /\ NewRow(ts).attempts = 0
  BY DEF NewRow, Absent
<1>2. ASSUME NEW S \in SUBSET Items, Enqueue(S)
      PROVE row[r] = Absent /\ row'[r].state = "pending" /\ ~row'[r].completed
            /\ row'[r].attempts = 0
  BY <1>1, <1>2 DEF Enqueue
<1>3. ASSUME NEW p \in Passes, StartPass(p)
      PROVE row[r].state = "running" /\ row'[r].attempts = row[r].attempts
            /\ row'[r].state \in Verdicts
            /\ row'[r].completed = IsFinal(row'[r].state, row[r].attempts)
  BY <1>3 DEF StartPass, Stale, RowType, Verdicts
<1>4. ASSUME NEW e \in Executors, NEW q \in Runs, Claim(e, q)
      PROVE row[r].state \in Claimable /\ row[r].attempts < MaxAttempts
            /\ row'[r].state = "running" /\ row'[r].completed = row[r].completed
            /\ row'[r].attempts = row[r].attempts + 1
  <2>1. q = r
    BY <1>4 DEF Claim
  <2>2. e[1] \in Passes
    BY DEF Executors
  <2>3. row[q].state \in Claimable
    BY <1>4, <2>2 DEF Claim, NextCandidate, PassType
  <2> QED BY <1>4, <2>1, <2>3 DEF Claim, RowType, Claimed, AttemptsLeft
<1>5. ASSUME NEW e \in Executors, Commit(e)
      PROVE \/ row[r] = Absent /\ row'[r].state = "pending" /\ ~row'[r].completed
               /\ row'[r].attempts = 0
            \/ row[r].state = "running" /\ row'[r].attempts = row[r].attempts
               /\ row'[r].state \in Verdicts
               /\ row'[r].completed = IsFinal(row'[r].state, row[r].attempts)
  <2>1. exec[e].run \in Runs /\ exec[e].verdict \in Verdicts
    BY <1>5 DEF Commit, ReadyToComplete, ExecOK
  <2>2. CASE r = exec[e].run
    BY <1>5, <2>1, <2>2 DEF Commit, HoldsClaim, RowType
  <2>3. CASE r # exec[e].run
    BY <1>1, <1>5, <2>3 DEF Commit
  <2> QED BY <2>2, <2>3
<1> QED BY <1>2, <1>3, <1>4, <1>5, RowWriters

(* FinalIsForever: a settled row is never written again; every writer      *)
(* needs a row that is absent, running, or claimable with attempts left.   *)
LEMMA FinalStep == ASSUME TypeOK, ExecOK, [Next]_vars
                   PROVE  \A r \in Runs : Settled(r) => row'[r] = row[r]
<1> SUFFICES ASSUME NEW r \in Runs, Settled(r), row'[r] # row[r] PROVE FALSE
  OBVIOUS
<1>1. row[r].attempts \in 0 .. MaxAttempts
  BY DEF TypeOK, RowType
<1>2. row[r].state \in CleanTerminal \cup {"failed"}
  BY DEF Settled, IsFinal, AttemptsLeft
<1> QED BY <1>1, <1>2, RowChange DEF Settled, IsFinal, CleanTerminal, Claimable, Absent, AttemptsLeft

(* Settled is completion_ts's rule. *)
LEMMA SettledIsFinal ==
  ASSUME TypeOK, NEW r \in Runs
  PROVE  Settled(r) <=> IsFinal(row[r].state, row[r].attempts)
BY DEF TypeOK, RowType, Settled, IsFinal, AttemptsLeft

(* completed_at and finality are written together. *)
LEMMA CompletedStep == ASSUME TypeOK, ExecOK, CompletedIffFinal, [Next]_vars
                       PROVE  CompletedIffFinal'
<1> SUFFICES ASSUME NEW r \in Runs PROVE (row[r].completed <=> Settled(r))'
  BY DEF CompletedIffFinal
<1>1. row[r].attempts \in 0 .. MaxAttempts /\ row[r].completed \in BOOLEAN
  BY DEF TypeOK, RowType
<1>2. row[r].completed <=> Settled(r)
  BY DEF CompletedIffFinal
<1>3. CASE row'[r] = row[r]
  BY <1>2, <1>3 DEF Settled, AttemptsLeft
<1>4. CASE row'[r] # row[r]
  <2>1. CASE row[r] = Absent /\ row'[r].state = "pending" /\ ~row'[r].completed
    BY <2>1 DEF Settled, IsFinal, CleanTerminal, AttemptsLeft
  <2>2. CASE /\ row'[r].attempts = row[r].attempts
             /\ row'[r].completed = IsFinal(row'[r].state, row[r].attempts)
    <3>1. IsFinal(row'[r].state, row[r].attempts) <=> Settled(r)'
      BY <1>1, <2>2 DEF Settled, IsFinal, AttemptsLeft
    <3> QED BY <2>2, <3>1, Zenon
  <2>3. CASE /\ row[r].state \in Claimable /\ row[r].attempts < MaxAttempts
             /\ row'[r].state = "running" /\ row'[r].completed = row[r].completed
    <3>1. ~Settled(r)
      BY <1>1, <2>3 DEF Settled, IsFinal, CleanTerminal, Claimable, AttemptsLeft
    <3>2. ~Settled(r)'
      BY <2>3 DEF Settled, IsFinal, CleanTerminal, AttemptsLeft
    <3> QED BY <1>2, <2>3, <3>1, <3>2
  <2> QED BY <1>4, <2>1, <2>2, <2>3, RowChange
<1> QED BY <1>3, <1>4

(* No writer leaves a half-empty row behind, and none deletes one.         *)
LEMMA AbsentStep == ASSUME TypeOK, ExecOK, AbsentOK, [Next]_vars
                    PROVE  /\ AbsentOK'
                           /\ \A r \in Runs : row[r].state # "absent" => row'[r].state # "absent"
                           /\ \A r \in Runs : row'[r] = Absent => row[r] = Absent
<1>1. ASSUME NEW r \in Runs, row'[r] # row[r]
      PROVE row'[r].state # "absent"
  BY <1>1, RowChange DEF Verdicts
<1>2. Absent.state = "absent"
  BY DEF Absent
<1> QED BY <1>1, <1>2 DEF AbsentOK

(* Successor bookkeeping: a row and its successor change together only     *)
(* when the row succeeds.                                                  *)
LEMMA AdvanceStep ==
  ASSUME TypeOK, ExecOK, AbsentOK, AdvancesIffSucceeded, [Next]_vars
  PROVE  AdvancesIffSucceeded'
<1> DEFINE Agrees(r) == row[Next1(r)] # Absent <=> row[r].state = "succeeded"
<1> SUFFICES ASSUME NEW r \in Runs, r[1] < ChainLength PROVE Agrees(r)'
  BY DEF AdvancesIffSucceeded
<1>1. Next1(r) \in Runs /\ Next1(r) # r /\ Next1(r)[1] # 1
  BY DEF Runs, Ranks, Next1
<1>2. Agrees(r)
  BY DEF AdvancesIffSucceeded
<1>3. Absent.state = "absent"
  BY DEF Absent
<1>4. ASSUME NEW S \in SUBSET Items, Enqueue(S) PROVE Agrees(r)'
  <2>1. row'[Next1(r)] = row[Next1(r)]
    BY <1>1, <1>4 DEF Enqueue
  <2>2. row'[r].state = "succeeded" <=> row[r].state = "succeeded"
    BY <1>3, <1>4 DEF Enqueue, NewRow, Absent
  <2> QED BY <1>2, <2>1, <2>2
<1>5. ASSUME NEW p \in Passes, StartPass(p) PROVE Agrees(r)'
  <2>1. row'[r].state = "succeeded" <=> row[r].state = "succeeded"
    BY <1>5 DEF StartPass, Stale, TypeOK, RowType
  <2>2. row'[Next1(r)] = Absent <=> row[Next1(r)] = Absent
    BY <1>1, <1>3, <1>5 DEF StartPass, Stale, TypeOK, RowType
  <2> QED BY <1>2, <2>1, <2>2
<1>6. ASSUME NEW e \in Executors, NEW q \in Runs, Claim(e, q) PROVE Agrees(r)'
  <2>1. e[1] \in Passes
    BY DEF Executors
  <2>2. row[q].state \in Claimable /\ row'[q].state = "running"
    BY <1>6, <2>1 DEF Claim, NextCandidate, TypeOK, PassType, RowType, Claimed
  <2>3. \A x \in Runs : x # q => row'[x] = row[x]
    BY <1>6 DEF Claim, TypeOK
  <2>4. \A x \in Runs : row'[x] = Absent <=> row[x] = Absent
    BY <1>3, <2>2, <2>3 DEF Claimable
  <2>5. row'[r].state = "succeeded" <=> row[r].state = "succeeded"
    BY <2>2, <2>3 DEF Claimable
  <2> QED BY <1>1, <1>2, <2>4, <2>5
<1>7. ASSUME NEW e \in Executors, Commit(e) PROVE Agrees(r)'
  <2> DEFINE h == exec[e].run
             v == exec[e].verdict
  <2>1. h \in Runs /\ row[h].state = "running" /\ v \in Verdicts
    BY <1>7 DEF Commit, ReadyToComplete, HoldsClaim, ExecOK
  <2>2. row'[h].state = v
    BY <1>7, <2>1 DEF Commit, TypeOK, RowType
  <2>3. row'[h] # Absent /\ row[h] # Absent
    BY <1>3, <2>1, <2>2 DEF Verdicts
  <2>4. \A ts : NewRow(ts).state = "pending" /\ NewRow(ts) # Absent
    BY DEF NewRow, Absent
  <2>5. CASE r = h
    <3>1. row[Next1(r)] = Absent
      BY <1>2, <2>1, <2>5
    <3>2. row'[Next1(r)] = IF v = "succeeded" THEN NewRow(pass[e[1]].now) ELSE row[Next1(r)]
      BY <1>1, <1>7, <2>5, <3>1 DEF Commit
    <3> QED BY <2>2, <2>4, <2>5, <3>1, <3>2
  <2>6. CASE r # h
    <3>1. Next1(r) # Next1(h)
      BY <2>1, <2>6 DEF Next1, Runs, Ranks
    <3>2. row'[Next1(r)] = Absent <=> row[Next1(r)] = Absent
      BY <1>1, <1>7, <2>3, <3>1 DEF Commit
    <3>3. row'[r] = row[r] \/ (row[r] = Absent /\ row'[r].state = "pending")
      BY <1>7, <2>4, <2>6 DEF Commit
    <3>4. row'[r].state = "succeeded" <=> row[r].state = "succeeded"
      BY <1>3, <3>3
    <3> QED BY <1>2, <3>2, <3>4
  <2> QED BY <2>5, <2>6
<1>8. CASE row' = row
  BY <1>2, <1>8
<1> QED BY <1>4, <1>5, <1>6, <1>7, <1>8, RowWriters

(* Delivery rows are never taken away. *)
LEMMA DeliveriesGrow ==
  ASSUME TypeOK, [Next]_vars
  PROVE  \A r \in Runs : deliveries[r] > 0 => deliveries'[r] > 0
<1>1. ASSUME NEW e \in Executors, Record(e)
      PROVE \A r \in Runs : deliveries[r] > 0 => deliveries'[r] > 0
  <2>1. deliveries \in [Runs -> Nat]
    BY DEF TypeOK
  <2>2. deliveries' = [deliveries EXCEPT ![exec[e].run] = @ + 1]
    BY <1>1 DEF Record
  <2> QED BY <2>1, <2>2
<1>2. deliveries' = deliveries \/ \E e \in Executors : Record(e)
  BY DEF Next, PassStep, ExecStep, Enqueue, StartPass, OpenCursor, SkipCandidate,
         EndPass, Crash, Claim, Refresh, Resolve, Commit, LoseClaim, DrainError,
         Tick, vars
<1>3. CASE deliveries' = deliveries
  BY <1>3 DEF TypeOK
<1> QED BY <1>1, <1>2, <1>3

(* The executors' invariant: rows are never deleted under an executor, and *)
(* delivery rows only accumulate.                                          *)
LEMMA ExecStepInv ==
  ASSUME TypeOK, ExecOK, AbsentOK, [Next]_vars
  PROVE  ExecOK'
<1> USE DEF TypeOK
<1> DEFINE Good(e) == exec[e].pc # "free" =>
             /\ exec[e].run \in Runs
             /\ row[exec[e].run].state # "absent"
             /\ exec[e].pc \in {"resolved", "recorded"} =>
                  /\ exec[e].verdict \in Verdicts
                  /\ exec[e].verdict = "succeeded" /\ exec[e].run[1] \in Outbound
                       => exec[e].outbound
             /\ exec[e].pc = "recorded" => exec[e].outbound /\ deliveries[exec[e].run] > 0
<1>1. \A r \in Runs : row[r].state # "absent" => row'[r].state # "absent"
  BY AbsentStep
<1>2. \A r \in Runs : deliveries[r] > 0 => deliveries'[r] > 0
  BY DeliveriesGrow
<1>3. \A d \in Executors : exec'[d] = exec[d] => Good(d)'
  BY <1>1, <1>2 DEF ExecOK
<1>4. \A d \in Executors : exec'[d].pc = "free" => Good(d)'
  OBVIOUS
<1>5. Free.pc = "free"
  BY DEF Free
<1>6. ASSUME NEW p \in Passes, Crash(p) PROVE \A d \in Executors : Good(d)'
  BY <1>3, <1>4, <1>5, <1>6 DEF Crash
<1>7. ASSUME NEW e \in Executors, NEW r \in Runs, Claim(e, r)
      PROVE \A d \in Executors : Good(d)'
  <2>1. row'[r].state # "absent"
    BY <1>7 DEF Claim, RowType, Claimed
  <2>2. exec'[e].pc = "claimed" /\ exec'[e].run = r
    BY <1>7 DEF Claim, Claiming
  <2>3. Good(e)'
    BY <2>1, <2>2
  <2>4. \A d \in Executors : d # e => exec'[d] = exec[d]
    BY <1>7 DEF Claim
  <2> QED BY <1>3, <2>3, <2>4
<1>8. ASSUME NEW e \in Executors, Refresh(e) PROVE \A d \in Executors : Good(d)'
  <2>1. exec'[e].pc = "held" /\ exec'[e].run = exec[e].run
    BY <1>8 DEF Refresh, ExecType
  <2>2. Good(e)'
    BY <1>1, <1>8, <2>1 DEF Refresh, ExecOK
  <2>3. \A d \in Executors : d # e => exec'[d] = exec[d]
    BY <1>8 DEF Refresh
  <2> QED BY <1>3, <2>2, <2>3
<1>9. ASSUME NEW e \in Executors, NEW v \in Verdicts, NEW out \in BOOLEAN, Resolve(e, v, out)
      PROVE \A d \in Executors : Good(d)'
  <2>1. /\ exec'[e].pc = "resolved" /\ exec'[e].run = exec[e].run
        /\ exec'[e].verdict = v /\ exec'[e].outbound = out
    BY <1>9 DEF Resolve, ExecType
  <2>2. exec[e].run \in Runs /\ row'[exec[e].run].state # "absent"
    BY <1>1, <1>9 DEF Resolve, ExecOK
  <2>3. v = "succeeded" /\ exec[e].run[1] \in Outbound => out
    BY <1>9 DEF Resolve
  <2>4. Good(e)'
    BY <2>1, <2>2, <2>3
  <2>5. \A d \in Executors : d # e => exec'[d] = exec[d]
    BY <1>9 DEF Resolve
  <2> QED BY <1>3, <2>4, <2>5
<1>10. ASSUME NEW e \in Executors, Record(e) PROVE \A d \in Executors : Good(d)'
  <2>1. /\ exec'[e].pc = "recorded" /\ exec'[e].run = exec[e].run
        /\ exec'[e].verdict = exec[e].verdict /\ exec'[e].outbound = exec[e].outbound
    BY <1>10 DEF Record, ExecType
  <2>2. exec[e].run \in Runs /\ row'[exec[e].run].state # "absent" /\ Good(e)
    BY <1>1, <1>10 DEF Record, ExecOK
  <2>3. exec[e].outbound /\ deliveries'[exec[e].run] > 0
    BY <1>10, <2>2 DEF Record
  <2>4. Good(e)'
    BY <1>10, <2>1, <2>2, <2>3 DEF Record
  <2>5. \A d \in Executors : d # e => exec'[d] = exec[d]
    BY <1>10 DEF Record
  <2> QED BY <1>3, <2>4, <2>5
<1>11. ASSUME NEW e \in Executors, Commit(e) \/ LoseClaim(e) \/ DrainError(e)
       PROVE \A d \in Executors : Good(d)'
  <2>1. exec' = [exec EXCEPT ![e] = Free]
    BY <1>11 DEF Commit, LoseClaim, DrainError
  <2>2. \A d \in Executors : exec'[d] = exec[d] \/ exec'[d].pc = "free"
    BY <1>5, <2>1
  <2> QED BY <1>3, <1>4, <2>2
<1>12. CASE exec' = exec
  BY <1>3, <1>12 DEF ExecOK
<1>13. (\A d \in Executors : Good(d)') => ExecOK'
  BY DEF ExecOK
<1>14. ASSUME NEW e \in Executors, ExecStep(e) PROVE ExecOK'
  BY <1>7, <1>8, <1>9, <1>10, <1>11, <1>13, <1>14 DEF ExecStep
<1>15. ASSUME NEW p \in Passes, PassStep(p) PROVE exec' = exec
  BY <1>15 DEF PassStep, StartPass, OpenCursor, SkipCandidate, EndPass
<1>16. ASSUME UNCHANGED vars \/ Tick \/ \E S \in SUBSET Items : Enqueue(S)
       PROVE  exec' = exec
  BY <1>16 DEF Enqueue, Tick, vars
<1>17. ASSUME NEW e \in Executors, DrainError(e) PROVE ExecOK'
  BY <1>11, <1>13, <1>17
<1>18. ASSUME NEW p \in Passes, Crash(p) PROVE ExecOK'
  BY <1>6, <1>13, <1>18
<1>19. CASE exec' = exec
  BY <1>12, <1>13, <1>19
<1> HIDE DEF Good
<1> QED BY <1>14, <1>15, <1>16, <1>17, <1>18, <1>19 DEF Next

(* A SUCCEEDED outbound run was committed by an executor that had recorded *)
(* its call, and delivery rows only accumulate.                            *)
LEMMA AuditStep ==
  ASSUME TypeOK, ExecOK, SuccessIsAudited, [Next]_vars
  PROVE  SuccessIsAudited'
<1> USE DEF TypeOK
<1> SUFFICES ASSUME NEW r \in Runs, r[1] \in Outbound, row'[r].state = "succeeded"
             PROVE  deliveries'[r] > 0
  BY DEF SuccessIsAudited
<1>1. deliveries[r] > 0 => deliveries'[r] > 0
  BY DeliveriesGrow
<1>2. CASE row[r].state = "succeeded"
  BY <1>1, <1>2 DEF SuccessIsAudited
<1>3. CASE row[r].state # "succeeded"
  <2>1. row'[r] # row[r]
    BY <1>3
  <2>2. PICK e \in Executors : Commit(e)
    <3>1. \A S \in SUBSET Items : ~Enqueue(S)
      BY <2>1 DEF Enqueue, NewRow, Absent
    <3>2. ASSUME NEW p \in Passes, StartPass(p) PROVE FALSE
      <4>1. row'[r] = row[r] \/ row'[r].state = "failed"
        BY <3>2 DEF StartPass, RowType
      <4> QED BY <2>1, <4>1
    <3>3. ASSUME NEW e \in Executors, NEW q \in Runs, Claim(e, q) PROVE FALSE
      <4>1. Claimed(q, pass[e[1]].now).state = "running"
        BY DEF Claimed, RowType
      <4>2. row'[r] = row[r] \/ row'[r] = Claimed(q, pass[e[1]].now)
        BY <3>3 DEF Claim
      <4> QED BY <2>1, <4>1, <4>2
    <3> QED BY <2>1, <3>1, <3>2, <3>3, RowWriters
  <2>3. r = exec[e].run
    BY <2>1, <2>2 DEF Commit, NewRow, Absent
  <2>4. exec[e].verdict = "succeeded"
    BY <2>2, <2>3 DEF Commit, RowType
  <2>5. exec[e].pc = "recorded"
    BY <2>2, <2>3, <2>4 DEF Commit, ReadyToComplete, ExecOK
  <2>6. deliveries[r] > 0
    BY <2>3, <2>5 DEF ExecOK
  <2> QED BY <1>1, <2>6
<1> QED BY <1>2, <1>3

-----------------------------------------------------------------------------
(* The invariant is inductive. *)
LEMMA StepInv == QueueInv /\ [Next]_vars => QueueInv'
BY TypeStep, ExecStepInv, AbsentStep, AdvanceStep, CompletedStep, AuditStep DEF QueueInv

THEOREM QueueInvariant == Spec => []QueueInv
BY InitInv, StepInv, PTL DEF Spec

(* Every variable of the run queue keeps its type. *)
THEOREM TypeCorrect == Spec => []TypeOK
BY QueueInvariant, PTL DEF QueueInv

(* The successor's row exists exactly when the predecessor succeeded.      *)
THEOREM ChainAdvance == Spec => []AdvancesIffSucceeded
BY QueueInvariant, PTL DEF QueueInv

(* completed_at is set exactly on final rows. *)
THEOREM CompletionStamp == Spec => []CompletedIffFinal
BY QueueInvariant, PTL DEF QueueInv

(* A run of an outbound action that succeeded has a delivery row. *)
THEOREM AuditedSuccess == Spec => []SuccessIsAudited
BY QueueInvariant, PTL DEF QueueInv

(* No final row is ever written again. *)
THEOREM FinalRowsFrozen == Spec => FinalIsForever
<1>1. QueueInv /\ [Next]_vars => [\A r \in Runs : Settled(r) => row'[r] = row[r]]_vars
  BY FinalStep DEF QueueInv
<1> QED BY <1>1, QueueInvariant, PTL DEF Spec, FinalIsForever

-----------------------------------------------------------------------------
(* The attempts cap bounds the calls.  Each claim burns an attempt that    *)
(* pays for at most one call, so the executors that have claimed and not   *)
(* yet resolved count against the attempts, and those that have called and *)
(* not yet recorded against the calls.                                     *)

Unspent(r) == {e \in Executors : exec[e].run = r /\ exec[e].pc \in {"claimed", "held"}}

Unrecorded(r) ==
  {e \in Executors : exec[e].run = r /\ exec[e].pc = "resolved" /\ exec[e].outbound}

CallBudget ==
  \A r \in Runs :
    /\ calls[r] + Cardinality(Unspent(r)) <= row[r].attempts
    /\ deliveries[r] + Cardinality(Unrecorded(r)) <= calls[r]

LEMMA FiniteExecutors ==
  \A U \in SUBSET Executors : IsFiniteSet(U) /\ Cardinality(U) \in Nat
<1>1. IsFiniteSet(Executors)
  BY FiniteAssumption, FS_Product DEF Executors
<1> QED BY <1>1, FS_Subset, FS_CardinalityType

LEMMA SubsetCount ==
  ASSUME NEW U \in SUBSET Executors, NEW V \in SUBSET U
  PROVE  Cardinality(V) <= Cardinality(U)
BY FiniteExecutors, FS_Subset

LEMMA AddCount ==
  ASSUME NEW U \in SUBSET Executors, NEW e \in Executors, e \notin U
  PROVE  Cardinality(U \cup {e}) = Cardinality(U) + 1
BY FiniteExecutors, FS_AddElement

LEMMA RemoveCount ==
  ASSUME NEW U \in SUBSET Executors, NEW e \in U
  PROVE  Cardinality(U \ {e}) = Cardinality(U) - 1
BY FiniteExecutors, FS_RemoveElement

(* Attempts only grow. *)
LEMMA AttemptsGrow ==
  ASSUME TypeOK, ExecOK, [Next]_vars, NEW r \in Runs
  PROVE  row'[r].attempts \in Nat /\ row[r].attempts \in Nat
         /\ row'[r].attempts >= row[r].attempts
<1>1. row[r].attempts \in Nat /\ row'[r].attempts \in Nat
  BY TypeStep DEF TypeOK, RowType
<1>2. CASE row'[r] # row[r]
  BY <1>1, <1>2, RowChange DEF Absent
<1>3. CASE row'[r] = row[r]
  BY <1>1, <1>3
<1> QED BY <1>1, <1>2, <1>3

LEMMA BudgetStep == ASSUME TypeOK, ExecOK, CallBudget, [Next]_vars PROVE CallBudget'
<1> USE DEF TypeOK
<1> SUFFICES ASSUME NEW r \in Runs
             PROVE  /\ calls'[r] + Cardinality(Unspent(r)') <= row'[r].attempts
                    /\ deliveries'[r] + Cardinality(Unrecorded(r)') <= calls'[r]
  BY DEF CallBudget
<1> DEFINE U == Unspent(r)
           W == Unrecorded(r)
<1>1. U \in SUBSET Executors /\ W \in SUBSET Executors
      /\ U' \in SUBSET Executors /\ W' \in SUBSET Executors
  BY DEF Unspent, Unrecorded
<1>2. Cardinality(U) \in Nat /\ Cardinality(W) \in Nat
      /\ Cardinality(U') \in Nat /\ Cardinality(W') \in Nat
  BY <1>1, FiniteExecutors
<1>3. calls[r] + Cardinality(U) <= row[r].attempts
      /\ deliveries[r] + Cardinality(W) <= calls[r]
  BY DEF CallBudget
<1>4. calls[r] \in Nat /\ deliveries[r] \in Nat
  OBVIOUS
<1>5. row'[r].attempts \in Nat /\ row[r].attempts \in Nat
      /\ row'[r].attempts >= row[r].attempts
  BY AttemptsGrow
<1>6. ASSUME U' \in SUBSET U, W' \in SUBSET W, UNCHANGED <<calls, deliveries>>
      PROVE  /\ calls'[r] + Cardinality(U') <= row'[r].attempts
             /\ deliveries'[r] + Cardinality(W') <= calls'[r]
  <2>1. Cardinality(U') <= Cardinality(U) /\ Cardinality(W') <= Cardinality(W)
    BY <1>1, <1>6, SubsetCount
  <2> HIDE DEF U, W
  <2> QED BY <1>2, <1>3, <1>4, <1>5, <1>6, <2>1
<1>7. ASSUME NEW e \in Executors, NEW q \in Runs, Claim(e, q)
      PROVE  /\ calls'[r] + Cardinality(U') <= row'[r].attempts
             /\ deliveries'[r] + Cardinality(W') <= calls'[r]
  <2>1. exec'[e].pc = "claimed" /\ exec'[e].run = q /\ exec[e].pc = "free"
        /\ \A d \in Executors : d # e => exec'[d] = exec[d]
    BY <1>7 DEF Claim, Claiming
  <2>2. W' = W
    BY <2>1 DEF Unrecorded
  <2>3. CASE q = r
    <3>1. U' = U \cup {e} /\ e \notin U
      BY <2>1, <2>3 DEF Unspent
    <3>2. Cardinality(U') = Cardinality(U) + 1
      BY <1>1, <3>1, AddCount
    <3>3. row'[r].attempts = row[r].attempts + 1
      BY <1>7, <2>3 DEF Claim, RowType, Claimed
    <3>4. UNCHANGED <<calls, deliveries>>
      BY <1>7 DEF Claim
    <3> HIDE DEF U, W
    <3> QED BY <1>2, <1>3, <1>4, <1>5, <2>2, <3>2, <3>3, <3>4
  <2>4. CASE q # r
    <3>1. U' = U
      BY <2>1, <2>4 DEF Unspent
    <3>2. UNCHANGED <<calls, deliveries>>
      BY <1>7 DEF Claim
    <3> HIDE DEF U, W
    <3> QED BY <1>6, <2>2, <3>1, <3>2
  <2> QED BY <2>3, <2>4
<1>8. ASSUME NEW e \in Executors, NEW v \in Verdicts, NEW out \in BOOLEAN, Resolve(e, v, out)
      PROVE  /\ calls'[r] + Cardinality(U') <= row'[r].attempts
             /\ deliveries'[r] + Cardinality(W') <= calls'[r]
  <2>1. /\ exec[e].pc = "held" /\ exec'[e].pc = "resolved"
        /\ exec'[e].run = exec[e].run /\ exec'[e].outbound = out
        /\ \A d \in Executors : d # e => exec'[d] = exec[d]
    BY <1>8 DEF Resolve, ExecType
  <2>2. deliveries' = deliveries
    BY <1>8 DEF Resolve
  <2>3. CASE exec[e].run = r
    <3>1. U' = U \ {e} /\ e \in U
      BY <2>1, <2>3 DEF Unspent
    <3>2. Cardinality(U') = Cardinality(U) - 1
      BY <1>1, <3>1, RemoveCount
    <3>3. CASE out
      <4>1. W' = W \cup {e} /\ e \notin W
        BY <2>1, <2>3, <3>3 DEF Unrecorded
      <4>2. Cardinality(W') = Cardinality(W) + 1
        BY <1>1, <4>1, AddCount
      <4>3. calls'[r] = calls[r] + 1
        BY <1>8, <2>3, <3>3 DEF Resolve
      <4> HIDE DEF U, W
      <4> QED BY <1>2, <1>3, <1>4, <1>5, <2>2, <3>2, <4>2, <4>3
    <3>4. CASE ~out
      <4>1. W' = W
        BY <2>1, <3>4 DEF Unrecorded
      <4>2. calls'[r] = calls[r]
        BY <1>8, <2>3, <3>4 DEF Resolve
      <4> HIDE DEF U, W
      <4> QED BY <1>2, <1>3, <1>4, <1>5, <2>2, <3>2, <4>1, <4>2
    <3> QED BY <3>3, <3>4
  <2>4. CASE exec[e].run # r
    <3>1. U' = U /\ W' = W
      BY <2>1, <2>4 DEF Unspent, Unrecorded
    <3>2. calls'[r] = calls[r]
      BY <1>8, <2>4 DEF Resolve
    <3> HIDE DEF U, W
    <3> QED BY <1>2, <1>3, <1>4, <1>5, <2>2, <3>1, <3>2
  <2> QED BY <2>3, <2>4
<1>9. ASSUME NEW e \in Executors, Record(e)
      PROVE  /\ calls'[r] + Cardinality(U') <= row'[r].attempts
             /\ deliveries'[r] + Cardinality(W') <= calls'[r]
  <2>1. /\ exec[e].pc = "resolved" /\ exec[e].outbound
        /\ exec'[e].pc = "recorded" /\ exec'[e].run = exec[e].run
        /\ \A d \in Executors : d # e => exec'[d] = exec[d]
    BY <1>9 DEF Record, ExecType
  <2>2. U' = U
    BY <2>1 DEF Unspent
  <2>3. calls' = calls
    BY <1>9 DEF Record
  <2>4. CASE exec[e].run = r
    <3>1. W' = W \ {e} /\ e \in W
      BY <2>1, <2>4 DEF Unrecorded
    <3>2. Cardinality(W') = Cardinality(W) - 1
      BY <1>1, <3>1, RemoveCount
    <3>3. deliveries'[r] = deliveries[r] + 1
      BY <1>9, <2>4 DEF Record
    <3> HIDE DEF U, W
    <3> QED BY <1>2, <1>3, <1>4, <1>5, <2>2, <2>3, <3>2, <3>3
  <2>5. CASE exec[e].run # r
    <3>1. W' = W
      BY <2>1, <2>5 DEF Unrecorded
    <3>2. deliveries'[r] = deliveries[r]
      BY <1>9, <2>5 DEF Record
    <3> HIDE DEF U, W
    <3> QED BY <1>2, <1>3, <1>4, <1>5, <2>2, <2>3, <3>1, <3>2
  <2> QED BY <2>4, <2>5
<1>10. ASSUME NEW e \in Executors, Refresh(e) PROVE U' \in SUBSET U /\ W' \in SUBSET W
  <2>1. exec[e].pc = "claimed" /\ exec'[e].pc = "held" /\ exec'[e].run = exec[e].run
        /\ \A d \in Executors : d # e => exec'[d] = exec[d]
    BY <1>10 DEF Refresh, ExecType
  <2> QED BY <2>1 DEF Unspent, Unrecorded
<1>11. ASSUME \A d \in Executors : exec'[d] = exec[d] \/ exec'[d].pc = "free"
       PROVE  U' \in SUBSET U /\ W' \in SUBSET W
  BY <1>11 DEF Unspent, Unrecorded
<1>12. ASSUME NEW e \in Executors, Commit(e) \/ LoseClaim(e) \/ DrainError(e)
       PROVE  \A d \in Executors : exec'[d] = exec[d] \/ exec'[d].pc = "free"
  BY <1>12 DEF Commit, LoseClaim, DrainError, Free
<1>13. ASSUME NEW p \in Passes, Crash(p)
       PROVE  \A d \in Executors : exec'[d] = exec[d] \/ exec'[d].pc = "free"
  BY <1>13 DEF Crash, Free
<1>14. \/ UNCHANGED <<calls, deliveries>>
       \/ \E e \in Executors : Record(e)
       \/ \E e \in Executors, v \in Verdicts, out \in BOOLEAN : Resolve(e, v, out)
  BY DEF Next, PassStep, ExecStep, Enqueue, StartPass, OpenCursor, SkipCandidate,
         EndPass, Crash, Claim, Refresh, Commit, LoseClaim, DrainError, Tick, vars
<1>15. \/ exec' = exec
       \/ \E p \in Passes : Crash(p)
       \/ \E e \in Executors : ExecStep(e) \/ DrainError(e)
  BY DEF Next, PassStep, Enqueue, StartPass, OpenCursor, SkipCandidate, EndPass, Tick, vars
<1> HIDE DEF U, W
<1>16. CASE UNCHANGED <<calls, deliveries>> /\ ~\E e \in Executors, q \in Runs : Claim(e, q)
  <2>1. \/ U' \in SUBSET U /\ W' \in SUBSET W
        \/ \E e \in Executors : Record(e)
        \/ \E e \in Executors, v \in Verdicts, out \in BOOLEAN : Resolve(e, v, out)
    BY <1>10, <1>11, <1>12, <1>13, <1>15, <1>16 DEF ExecStep
  <2> QED BY <1>6, <1>8, <1>9, <1>16, <2>1 DEF U, W
<1> QED BY <1>7, <1>8, <1>9, <1>14, <1>16 DEF U, W

(* No run makes more outbound calls than attempts it burned, nor has more  *)
(* delivery rows than calls, however often it is reaped and re-claimed.    *)
THEOREM BoundedCalls == Spec => []CallsWithinAttempts
<1>1. Init => CallBudget
  <2> SUFFICES ASSUME Init, NEW r \in Runs
               PROVE  /\ calls[r] + Cardinality(Unspent(r)) <= row[r].attempts
                      /\ deliveries[r] + Cardinality(Unrecorded(r)) <= calls[r]
    BY DEF CallBudget
  <2>1. Unspent(r) = {} /\ Unrecorded(r) = {}
    BY DEF Init, Unspent, Unrecorded, Free
  <2>2. Cardinality(Unspent(r)) = 0 /\ Cardinality(Unrecorded(r)) = 0
    BY <2>1, FS_EmptySet
  <2>3. calls[r] = 0 /\ deliveries[r] = 0 /\ row[r].attempts = 0
    BY DEF Init, Absent
  <2> QED BY <2>2, <2>3
<1>2. QueueInv /\ CallBudget /\ [Next]_vars => CallBudget'
  BY BudgetStep DEF QueueInv
<1>3. QueueInv /\ CallBudget => CallsWithinAttempts
  <2> SUFFICES ASSUME QueueInv, CallBudget, NEW r \in Runs
               PROVE  calls[r] <= row[r].attempts /\ deliveries[r] <= calls[r]
    BY DEF CallsWithinAttempts
  <2>1. Cardinality(Unspent(r)) \in Nat /\ Cardinality(Unrecorded(r)) \in Nat
    BY FiniteExecutors DEF Unspent, Unrecorded
  <2>2. calls[r] \in Nat /\ deliveries[r] \in Nat /\ row[r].attempts \in Nat
    BY DEF QueueInv, TypeOK, RowType
  <2> QED BY <2>1, <2>2 DEF CallBudget
<1> QED BY <1>1, <1>2, <1>3, QueueInvariant, PTL DEF Spec
-----------------------------------------------------------------------------
(* The queue implements ChainJourney.  Rows are never deleted and final    *)
(* rows are frozen, so only the step that makes a row final settles its    *)
(* run, and the successor's row appears in the very step in which its      *)
(* predecessor succeeds.                                                   *)

(* The journey's runs are the queue's. *)
LEMMA SameRuns == Journey!Runs = Runs
BY DEF Journey!Runs, Journey!Ranks, Runs, Ranks

LEMMA JourneyInit == Init => Journey!JInit
BY SameRuns DEF Init, Journey!JInit, queuedBar, resultBar, Absent, Settled, IsFinal,
       CleanTerminal, AttemptsLeft

(* Steps that leave the rows alone leave the journey alone. *)
LEMMA RowStutter == row' = row => UNCHANGED Journey!jvars
BY DEF Journey!jvars, queuedBar, resultBar, Settled, AttemptsLeft

(* The trigger's insert is Enter. *)
LEMMA EnqueueEnters ==
  ASSUME QueueInv, NEW S \in SUBSET Items, Enqueue(S)
  PROVE  Journey!Enter(S)
<1>1. \A ts : NewRow(ts) # Absent /\ NewRow(ts).state = "pending"
  BY DEF NewRow, Absent
<1>2. \A i \in Items : <<1, i>> \in Runs
  BY DEF Runs, Ranks
<1>3. queuedBar' = queuedBar \cup {<<1, i>> : i \in S}
  <2>1. ASSUME NEW r \in Runs PROVE row'[r] # Absent <=> (row[r] # Absent \/ (r[1] = 1 /\ r[2] \in S))
    BY <1>1 DEF Enqueue
  <2>2. \A r \in Runs : (r[1] = 1 /\ r[2] \in S) <=> r \in {<<1, i>> : i \in S}
    BY DEF Runs
  <2> QED BY <1>2, <2>1, <2>2 DEF queuedBar
<1>4. \A r \in Runs : (~Settled(r) /\ row[r] = Absent) \/ row'[r] = row[r]
  BY DEF Enqueue, Settled, IsFinal, Absent, CleanTerminal, AttemptsLeft
<1>5. \A r \in Runs : row'[r] = row[r] \/ row'[r].state = "pending"
  BY <1>1 DEF Enqueue
<1>6. resultBar' = resultBar
  BY <1>4, <1>5 DEF resultBar, Settled, IsFinal, CleanTerminal, AttemptsLeft
<1> QED BY <1>3, <1>6 DEF Journey!Enter

(* The reaper gives up the runs it finds on their last attempt. *)
LEMMA ReapGivesUp ==
  ASSUME QueueInv, NEW p \in Passes, StartPass(p)
  PROVE  Journey!JNext \/ UNCHANGED Journey!jvars
<1> USE DEF QueueInv, TypeOK
<1> DEFINE R == {r \in Runs : Stale(r, clock) /\ row[r].attempts >= MaxAttempts}
<1>1. \A r \in Runs : /\ row'[r].state = IF Stale(r, clock) THEN "failed" ELSE row[r].state
                      /\ row'[r].attempts = row[r].attempts
  BY DEF StartPass, RowType
<1>2. \A r \in Runs : row'[r] # Absent <=> row[r] # Absent
  <2>1. Absent.state = "absent"
    BY DEF Absent
  <2>2. \A r \in Runs : Stale(r, clock) => row[r].state = "running" /\ row'[r].state = "failed"
    BY <1>1 DEF Stale
  <2>3. \A r \in Runs : ~Stale(r, clock) => row'[r] = row[r]
    BY DEF StartPass
  <2> QED BY <2>1, <2>2, <2>3
<1>3. queuedBar' = queuedBar
  BY <1>2 DEF queuedBar
<1>4. \A r \in Runs : Stale(r, clock) => ~Settled(r) /\ row[r] # Absent
  BY DEF Stale, Settled, IsFinal, CleanTerminal, Absent, AttemptsLeft
<1>5. \A r \in Runs : resultBar'[r] = IF r \in R THEN "failed" ELSE resultBar[r]
  <2> TAKE r \in Runs
  <2>1. CASE Stale(r, clock)
    <3>1. row[r].attempts \in Nat
      BY DEF RowType
    <3> QED BY <1>1, <1>4, <2>1, <3>1 DEF resultBar, Settled, CleanTerminal, AttemptsLeft
  <2>2. CASE ~Stale(r, clock)
    BY <1>1, <2>2 DEF resultBar, Settled, AttemptsLeft
  <2> QED BY <2>1, <2>2
<1>6. resultBar' = [r \in Runs |-> IF r \in R THEN "failed" ELSE resultBar[r]]
  BY <1>5 DEF resultBar
<1>7. CASE R = {}
  <2>1. resultBar' = resultBar
    BY <1>6, <1>7 DEF resultBar
  <2> QED BY <1>3, <2>1 DEF Journey!jvars
<1>8. CASE R # {}
  <2>1. \A r \in R : r \in queuedBar /\ resultBar[r] = "none"
    BY <1>4 DEF queuedBar, resultBar
  <2>2. Journey!GiveUp(R)
    BY <1>3, <1>6, <1>8, <2>1, SameRuns DEF Journey!GiveUp
  <2> QED BY <2>2, SameRuns DEF Journey!JNext
<1> QED BY <1>7, <1>8

(* A claim queues and settles nothing. *)
LEMMA ClaimStutters ==
  ASSUME QueueInv, [Next]_vars, NEW e \in Executors, NEW q \in Runs, Claim(e, q)
  PROVE  UNCHANGED Journey!jvars
<1> USE DEF QueueInv, TypeOK
<1>1. e[1] \in Passes
  BY DEF Executors
<1>2. row[q].state \in Claimable /\ row[q].attempts < MaxAttempts /\ row'[q].state = "running"
  BY <1>1 DEF Claim, NextCandidate, PassType, RowType, Claimed, AttemptsLeft
<1>3. \A r \in Runs : r # q => row'[r] = row[r]
  BY DEF Claim
<1>4. row[q].attempts \in Nat
  BY DEF RowType
<1>5. ~Settled(q) /\ ~Settled(q)' /\ row[q] # Absent /\ row'[q] # Absent
  BY <1>2, <1>4 DEF Settled, IsFinal, CleanTerminal, Claimable, Absent, AttemptsLeft
<1>6. \A r \in Runs : resultBar'[r] = resultBar[r]
  BY <1>3, <1>5 DEF resultBar, Settled, AttemptsLeft
<1>7. queuedBar' = queuedBar
  BY <1>3, <1>5 DEF queuedBar
<1> QED BY <1>6, <1>7 DEF Journey!jvars, resultBar

(* A commit settles its run, or leaves a retryable failure behind.         *)
LEMMA CommitSettles ==
  ASSUME QueueInv, NEW e \in Executors, Commit(e)
  PROVE  Journey!JNext \/ UNCHANGED Journey!jvars
<1> USE DEF QueueInv, TypeOK
<1> DEFINE h == exec[e].run
           v == exec[e].verdict
<1>1. h \in Runs /\ row[h].state = "running" /\ v \in Verdicts
      /\ exec[e].attempts = row[h].attempts
  BY DEF Commit, ReadyToComplete, HoldsClaim, ExecOK
<1>2. row'[h].state = v /\ row'[h].attempts = row[h].attempts
  BY <1>1 DEF Commit, RowType
<1>3. row[h] # Absent /\ row'[h] # Absent
  BY <1>1, <1>2 DEF Absent, Verdicts
<1>4. \A ts : NewRow(ts).state = "pending" /\ NewRow(ts) # Absent
  BY DEF NewRow, Absent
<1>5. ~Settled(h) /\ resultBar[h] = "none" /\ h \in queuedBar
  BY <1>1, <1>3 DEF Settled, IsFinal, CleanTerminal, resultBar, queuedBar, AttemptsLeft
<1>6. \A r \in Runs : r # h => row'[r] = row[r] \/ (row[r] = Absent /\ row'[r].state = "pending")
  BY <1>4 DEF Commit
<1>7. \A r \in Runs : r # h => resultBar'[r] = resultBar[r]
  BY <1>6 DEF resultBar, Settled, CleanTerminal, Absent, AttemptsLeft
<1>8. resultBar'[h] = IF IsFinal(v, row[h].attempts) THEN v ELSE "none"
  <2>1. \A r \in Runs : row[r].attempts \in Nat
    BY DEF RowType
  <2>2. \A r \in Runs : row'[r].attempts = row[r].attempts =>
          (Settled(r)' <=> IsFinal(row'[r].state, row[r].attempts))
    BY <2>1 DEF Settled, IsFinal, AttemptsLeft
  <2> QED BY <1>1, <1>2, <2>2 DEF resultBar
<1>9. \A r \in Runs : row'[r] # Absent <=>
        (row[r] # Absent \/ (v = "succeeded" /\ r = Next1(h)))
  BY <1>3, <1>4 DEF Commit
<1>10. CASE IsFinal(v, row[h].attempts)
  <2>1. resultBar' = [resultBar EXCEPT ![h] = v]
    BY <1>1, <1>7, <1>8, <1>10 DEF resultBar
  <2>2. Next1(h) \in Runs <=> h[1] < ChainLength
    BY <1>1 DEF Next1, Runs, Ranks
  <2>3. queuedBar' = IF v = "succeeded" /\ h[1] < ChainLength
                     THEN queuedBar \cup {Next1(h)} ELSE queuedBar
    BY <1>9, <2>2 DEF queuedBar
  <2>4. v \in Journey!Results
    BY <1>1 DEF Verdicts, Journey!Results
  <2>5. Journey!Settle(h, v)
    BY <1>5, <2>1, <2>3 DEF Journey!Settle, Next1
  <2> QED BY <1>1, <2>4, <2>5, SameRuns DEF Journey!JNext
<1>11. CASE ~IsFinal(v, row[h].attempts)
  <2>1. v # "succeeded"
    BY <1>11 DEF IsFinal, CleanTerminal
  <2>2. queuedBar' = queuedBar
    BY <1>9, <2>1 DEF queuedBar
  <2>3. \A r \in Runs : resultBar'[r] = resultBar[r]
    BY <1>5, <1>7, <1>8, <1>11
  <2>4. resultBar' = resultBar
    BY <2>3 DEF resultBar
  <2> QED BY <2>2, <2>4 DEF Journey!jvars
<1> QED BY <1>10, <1>11

LEMMA JourneyStep == QueueInv /\ [Next]_vars => [Journey!JNext]_(Journey!jvars)
<1> SUFFICES ASSUME QueueInv, [Next]_vars
             PROVE  Journey!JNext \/ UNCHANGED Journey!jvars
  OBVIOUS
<1>1. ASSUME NEW S \in SUBSET Items, Enqueue(S) PROVE Journey!JNext
  BY <1>1, EnqueueEnters DEF Journey!JNext
<1> QED BY <1>1, ReapGivesUp, ClaimStutters, CommitSettles, RowStutter, RowWriters

(* The run queue implements the journey: every run is settled once and for *)
(* good, and only a success queues the next rank.                          *)
THEOREM QueueImplementsJourney == Spec => ImplementsJourney
<1>1. Spec => [][Journey!JNext]_(Journey!jvars)
  BY JourneyStep, QueueInvariant, PTL DEF Spec
<1> QED BY <1>1, JourneyInit, PTL DEF Spec, ImplementsJourney, Journey!JSpec
=============================================================================
