--------------------------- MODULE BackfillProofs ---------------------------
(***************************************************************************)
(* Backfill for any chain, items, passes, attempts and faults: its types,  *)
(* that completed_at marks exactly the final jobs, that a final job stays  *)
(* as it is, that no run the job queued is deleted by a retry of it, that  *)
(* a done job has left no item without its run of the target, and that a   *)
(* done replace has left new runs only.                                    *)
(***************************************************************************)
EXTENDS Backfill, TLAPS

-----------------------------------------------------------------------------
(* Types.                                                                  *)

LEMMA IdlePassType == IdlePass \in PassType
BY SettingsAssumption DEF IdlePass, PassType, Actions, Target

LEMMA RunTypes ==
  ASSUME NEW r \in RowType
  PROVE  /\ Absent \in RowType
         /\ Queued(TRUE) \in RowType /\ Queued(r.fresh) \in RowType
         /\ [r EXCEPT !.state = "succeeded"] \in RowType
         /\ [r EXCEPT !.state = "dropped"] \in RowType
<1>1. r.fresh \in BOOLEAN /\ TRUE \in BOOLEAN
  BY DEF RowType
<1>2. ASSUME NEW b \in BOOLEAN PROVE Queued(b) \in RowType
  BY DEF Queued, RowType
<1>3. [r EXCEPT !.state = "succeeded"] \in RowType /\ [r EXCEPT !.state = "dropped"] \in RowType
  BY DEF RowType
<1>4. Absent \in RowType
  BY DEF Absent, RowType
<1>5. QED
  BY <1>1, <1>2, <1>3, <1>4, Zenon

\* The rows a job's writes make of it.
LEMMA JobTypes ==
  ASSUME NEW j \in JobType
  PROVE  /\ \A b \in BOOLEAN : [j EXCEPT !.state = "failed", !.completed = b] \in JobType
         /\ \A b \in BOOLEAN : [j EXCEPT !.old = b] \in JobType
         /\ [j EXCEPT !.marker = TRUE] \in JobType
         /\ [j EXCEPT !.state = "done", !.completed = TRUE] \in JobType
         /\ [j EXCEPT !.state = "failed", !.attempts = MaxAttempts, !.completed = TRUE] \in JobType
<1>1. ASSUME NEW b \in BOOLEAN
      PROVE  [j EXCEPT !.state = "failed", !.completed = b] \in JobType
  BY DEF JobType
<1>2. ASSUME NEW b \in BOOLEAN PROVE [j EXCEPT !.old = b] \in JobType
  BY DEF JobType
<1>3. [j EXCEPT !.marker = TRUE] \in JobType
  BY DEF JobType
<1>4. [j EXCEPT !.state = "done", !.completed = TRUE] \in JobType
  BY DEF JobType
<1>5. [j EXCEPT !.state = "failed", !.attempts = MaxAttempts, !.completed = TRUE] \in JobType
  <2>1. MaxAttempts \in 0 .. MaxAttempts
    BY SettingsAssumption
  <2>2. ASSUME NEW k \in 0 .. MaxAttempts
        PROVE  [j EXCEPT !.state = "failed", !.attempts = k, !.completed = TRUE] \in JobType
    BY DEF JobType
  <2>3. QED
    BY <2>1, <2>2, Zenon
<1>6. QED
  BY <1>1, <1>2, <1>3, <1>4, <1>5, Zenon

LEMMA ClaimedType ==
  ASSUME NEW j \in JobType, j.attempts < MaxAttempts, NEW b \in BOOLEAN
  PROVE  [j EXCEPT !.state = "running", !.attempts = @ + 1, !.old = b] \in JobType
<1>1. j.attempts + 1 \in 0 .. MaxAttempts
  BY SettingsAssumption DEF JobType
<1>2. QED
  BY <1>1 DEF JobType

LEMMA InitTypeOK == Init => TypeOK
<1> SUFFICES ASSUME Init PROVE TypeOK
  OBVIOUS
<1>1. job \in JobType
  <2>1. PICK r \in BOOLEAN :
          job = [state |-> "pending", attempts |-> 0, replace |-> r, marker |-> FALSE,
                 completed |-> FALSE, old |-> FALSE]
    BY DEF Init
  <2>2. QED
    BY <2>1, SettingsAssumption DEF JobType
<1>2. row \in [Actions -> [Items -> RowType]]
  <2>1. ASSUME NEW s \in {"absent", "inflight", "succeeded", "dropped"}
        PROVE  [state |-> s, fresh |-> FALSE] \in RowType
    BY DEF RowType
  <2>2. {[state |-> s, fresh |-> FALSE] : s \in {"absent", "inflight", "succeeded", "dropped"}}
          \subseteq RowType
    BY <2>1
  <2>3. QED
    BY <2>2 DEF Init
<1>3. pass \in [Passes -> PassType]
  BY IdlePassType DEF Init
<1>4. exist \subseteq Items /\ busy \subseteq Items
  BY DEF Init
<1>5. target \in BOOLEAN /\ overlap \in BOOLEAN
  BY Zenon DEF Init
<1>6. faults \in 0 .. MaxFaults
  BY BoundsAssumption DEF Init
<1>7. QED
  BY <1>1, <1>2, <1>3, <1>4, <1>5, <1>6, Zenon DEF TypeOK

\* What a pass's own steps make of its locals.
LEMMA PassTypes ==
  ASSUME NEW q \in PassType
  PROVE  /\ \A k \in 0 .. MaxAttempts, b \in BOOLEAN :
              [q EXCEPT !.pc = "resolve", !.stamp = k, !.marker = b] \in PassType
         /\ \A pc \in {"delete", "enqueue"}, S \in SUBSET Items, b \in BOOLEAN :
              [q EXCEPT !.pc = pc, !.todo = S, !.marker = b] \in PassType
         /\ \A pc \in {"delete", "stamp"}, a \in Actions :
              [q EXCEPT !.pc = pc, !.cursor = a] \in PassType
         /\ \A S \in SUBSET Items :
              /\ [q EXCEPT !.pc = "enqueue", !.todo = S] \in PassType
              /\ [q EXCEPT !.todo = S] \in PassType
         /\ \A b \in BOOLEAN : [q EXCEPT !.old = b] \in PassType
<1>1. ASSUME NEW k \in 0 .. MaxAttempts, NEW b \in BOOLEAN
      PROVE  [q EXCEPT !.pc = "resolve", !.stamp = k, !.marker = b] \in PassType
  BY DEF PassType
<1>2. ASSUME NEW pc \in {"delete", "enqueue"}, NEW S \in SUBSET Items, NEW b \in BOOLEAN
      PROVE  [q EXCEPT !.pc = pc, !.todo = S, !.marker = b] \in PassType
  BY DEF PassType
<1>3. ASSUME NEW pc \in {"delete", "stamp"}, NEW a \in Actions
      PROVE  [q EXCEPT !.pc = pc, !.cursor = a] \in PassType
  BY DEF PassType
<1>4. ASSUME NEW S \in SUBSET Items
      PROVE  /\ [q EXCEPT !.pc = "enqueue", !.todo = S] \in PassType
             /\ [q EXCEPT !.todo = S] \in PassType
  BY DEF PassType
<1>5. ASSUME NEW b \in BOOLEAN PROVE [q EXCEPT !.old = b] \in PassType
  BY DEF PassType
<1>6. QED
  BY <1>1, <1>2, <1>3, <1>4, <1>5, Zenon

\* The steps of a pass write its locals only.
LEMMA PassWrites ==
  ASSUME NEW f \in [Passes -> PassType], NEW p \in Passes
  PROVE  /\ \A q \in PassType : [f EXCEPT ![p] = q] \in [Passes -> PassType]
         /\ \A k \in 0 .. MaxAttempts, b \in BOOLEAN :
              [f EXCEPT ![p].pc = "resolve", ![p].stamp = k, ![p].marker = b]
                \in [Passes -> PassType]
         /\ \A pc \in {"delete", "enqueue"}, S \in SUBSET Items, b \in BOOLEAN :
              [f EXCEPT ![p].pc = pc, ![p].todo = S, ![p].marker = b] \in [Passes -> PassType]
         /\ \A pc \in {"delete", "stamp"}, a \in Actions :
              [f EXCEPT ![p].pc = pc, ![p].cursor = a] \in [Passes -> PassType]
         /\ \A S \in SUBSET Items :
              /\ [f EXCEPT ![p].pc = "enqueue", ![p].todo = S] \in [Passes -> PassType]
              /\ [f EXCEPT ![p].todo = S] \in [Passes -> PassType]
<1> DEFINE q0 == f[p]
<1>1. q0 \in PassType
  OBVIOUS
<1>2. ASSUME NEW q \in PassType PROVE [f EXCEPT ![p] = q] \in [Passes -> PassType]
  OBVIOUS
<1>3. ASSUME NEW k \in 0 .. MaxAttempts, NEW b \in BOOLEAN
      PROVE  [f EXCEPT ![p].pc = "resolve", ![p].stamp = k, ![p].marker = b]
               \in [Passes -> PassType]
  <2>1. [q0 EXCEPT !.pc = "resolve", !.stamp = k, !.marker = b] \in PassType
    BY <1>1, PassTypes, Zenon
  <2>2. QED
    BY <2>1
<1>4. ASSUME NEW pc \in {"delete", "enqueue"}, NEW S \in SUBSET Items, NEW b \in BOOLEAN
      PROVE  [f EXCEPT ![p].pc = pc, ![p].todo = S, ![p].marker = b] \in [Passes -> PassType]
  <2>1. [q0 EXCEPT !.pc = pc, !.todo = S, !.marker = b] \in PassType
    BY <1>1, PassTypes, Zenon
  <2>2. QED
    BY <2>1
<1>5. ASSUME NEW pc \in {"delete", "stamp"}, NEW a \in Actions
      PROVE  [f EXCEPT ![p].pc = pc, ![p].cursor = a] \in [Passes -> PassType]
  <2>1. [q0 EXCEPT !.pc = pc, !.cursor = a] \in PassType
    BY <1>1, PassTypes, Zenon
  <2>2. QED
    BY <2>1
<1>6. ASSUME NEW S \in SUBSET Items
      PROVE  /\ [f EXCEPT ![p].pc = "enqueue", ![p].todo = S] \in [Passes -> PassType]
             /\ [f EXCEPT ![p].todo = S] \in [Passes -> PassType]
  <2>1. /\ [q0 EXCEPT !.pc = "enqueue", !.todo = S] \in PassType
        /\ [q0 EXCEPT !.todo = S] \in PassType
    BY <1>1, PassTypes, Zenon
  <2>2. QED
    BY <2>1
<1>7. QED
  BY <1>2, <1>3, <1>4, <1>5, <1>6, Zenon

\* One run is written.
LEMMA RunWrites ==
  ASSUME NEW f \in [Actions -> [Items -> RowType]], NEW a \in Actions, NEW i \in Items
  PROVE  /\ \A q \in RowType : [f EXCEPT ![a][i] = q] \in [Actions -> [Items -> RowType]]
         /\ \A s \in {"absent", "inflight", "succeeded", "dropped"} :
              [f EXCEPT ![a][i].state = s] \in [Actions -> [Items -> RowType]]
<1>1. ASSUME NEW q \in RowType PROVE [f EXCEPT ![a][i] = q] \in [Actions -> [Items -> RowType]]
  OBVIOUS
<1>2. ASSUME NEW s \in {"absent", "inflight", "succeeded", "dropped"}
      PROVE  [f EXCEPT ![a][i].state = s] \in [Actions -> [Items -> RowType]]
  BY DEF RowType
<1>3. QED
  BY <1>1, <1>2

-----------------------------------------------------------------------------
LEMMA ReapedType == TypeOK => Reaped \in JobType
<1> SUFFICES ASSUME TypeOK PROVE Reaped \in JobType
  OBVIOUS
<1>1. job \in JobType /\ Exhausted(job) \in BOOLEAN
  BY DEF TypeOK, Exhausted
<1>2. [job EXCEPT !.state = "failed", !.completed = Exhausted(job)] \in JobType
  BY <1>1, JobTypes, Zenon
<1>3. QED
  BY <1>1, <1>2 DEF Reaped

LEMMA TypeStep == TypeOK /\ [Next]_vars => TypeOK'
<1> SUFFICES ASSUME TypeOK, [Next]_vars PROVE TypeOK'
  OBVIOUS
<1>t. /\ job \in JobType /\ pass \in [Passes -> PassType]
      /\ row \in [Actions -> [Items -> RowType]] /\ exist \subseteq Items
      /\ target \in BOOLEAN /\ faults \in 0 .. MaxFaults /\ overlap \in BOOLEAN
      /\ busy \subseteq Items
  BY Zenon DEF TypeOK
<1>i. \A p \in Passes : [pass EXCEPT ![p] = IdlePass] \in [Passes -> PassType]
  BY <1>t, IdlePassType
<1>1. ASSUME NEW p \in Passes, StartPass(p) PROVE TypeOK'
  <2>1. Reaped \in JobType
    BY ReapedType
  <2>2. job' \in JobType
    BY <1>1, <2>1 DEF StartPass
  <2>3. ASSUME Claimable(Reaped)
        PROVE  [IdlePass EXCEPT !.pc = "claim", !.seen = Reaped.state] \in PassType
    <3>1. Reaped.state \in {"pending", "failed"}
      BY <2>3 DEF Claimable
    <3>2. ASSUME NEW q \in PassType, NEW s \in {"pending", "failed"}
          PROVE  [q EXCEPT !.pc = "claim", !.seen = s] \in PassType
      BY DEF PassType
    <3>3. QED
      BY <3>1, <3>2, IdlePassType, Zenon
  <2>4. pass' \in [Passes -> PassType]
    <3>1. CASE Claimable(Reaped)
      <4>1. pass' = [pass EXCEPT ![p] = [IdlePass EXCEPT !.pc = "claim", !.seen = Reaped.state]]
        BY <1>1, <3>1 DEF StartPass
      <4>2. QED
        BY <4>1, <3>1, <2>3, <1>t, PassWrites, Zenon
    <3>2. CASE ~Claimable(Reaped)
      <4>1. pass' = [pass EXCEPT ![p] = IdlePass]
        BY <1>1, <3>2 DEF StartPass
      <4>2. QED
        BY <4>1, <1>i
    <3>3. QED
      BY <3>1, <3>2
  <2>5. overlap' \in BOOLEAN
    BY <1>1, Zenon DEF StartPass
  <2>6. UNCHANGED <<row, exist, target, faults, busy>>
    BY <1>1 DEF StartPass
  <2>7. QED
    BY <1>t, <2>2, <2>4, <2>5, <2>6, Zenon DEF TypeOK
<1>2. ASSUME NEW p \in Passes, Claim(p) PROVE TypeOK'
  <2>1. pass[p].old \in BOOLEAN /\ job.attempts < MaxAttempts
    BY <1>2, <1>t DEF Claim, Claimable, PassType
  <2>2. job' \in JobType
    BY <1>2, <2>1, <1>t, ClaimedType DEF Claim
  <2>3. [IdlePass EXCEPT !.pc = "refresh"] \in PassType
    BY IdlePassType DEF PassType
  <2>4. pass' \in [Passes -> PassType]
    BY <1>2, <1>t, <2>3 DEF Claim
  <2>5. QED
    BY <1>2, <1>t, <2>2, <2>4 DEF Claim, TypeOK
<1>3. ASSUME NEW p \in Passes, LoseClaim(p) PROVE TypeOK'
  BY <1>3, <1>t, <1>i DEF LoseClaim, TypeOK
<1>4. ASSUME NEW p \in Passes, Refresh(p) PROVE TypeOK'
  <2>1. job.attempts \in 0 .. MaxAttempts /\ job.marker \in BOOLEAN
    BY <1>t DEF JobType
  <2>2. pass' \in [Passes -> PassType]
    <3>1. \A k \in 0 .. MaxAttempts, b \in BOOLEAN :
            [pass EXCEPT ![p].pc = "resolve", ![p].stamp = k, ![p].marker = b]
              \in [Passes -> PassType]
      BY <1>t, PassWrites, Zenon
    <3>2. pass' = [pass EXCEPT ![p].pc = "resolve", ![p].stamp = job.attempts,
                               ![p].marker = job.marker]
      BY <1>4 DEF Refresh
    <3>3. QED
      BY <2>1, <3>1, <3>2, Zenon
  <2>3. QED
    BY <1>4, <1>t, <2>2 DEF Refresh, TypeOK
<1>5. ASSUME NEW p \in Passes, Fail(p) PROVE TypeOK'
  <2>1. job' \in JobType
    BY <1>5, <1>t, JobTypes DEF Fail
  <2>2. pass' \in [Passes -> PassType]
    BY <1>5, <1>i DEF Fail
  <2>3. QED
    BY <1>5, <1>t, <2>1, <2>2 DEF Fail, TypeOK
<1>6. ASSUME NEW p \in Passes, Resolve(p) PROVE TypeOK'
  <2>1. pass' \in [Passes -> PassType]
    <3>1. CASE Deletes(p)
      <4>1. pass' = [pass EXCEPT ![p].pc = "delete", ![p].todo = {}, ![p].marker = FALSE]
        BY <1>6, <3>1 DEF Resolve
      <4>2. {} \in SUBSET Items /\ FALSE \in BOOLEAN /\ "delete" \in {"delete", "enqueue"}
        OBVIOUS
      <4>3. QED
        BY <4>1, <4>2, <1>t, PassWrites, Zenon
    <3>2. CASE ~Deletes(p)
      <4>1. pass' = [pass EXCEPT ![p].pc = "enqueue", ![p].todo = Items, ![p].marker = FALSE]
        BY <1>6, <3>2 DEF Resolve
      <4>2. Items \in SUBSET Items /\ FALSE \in BOOLEAN /\ "enqueue" \in {"delete", "enqueue"}
        OBVIOUS
      <4>3. QED
        BY <4>1, <4>2, <1>t, PassWrites, Zenon
    <3>3. QED
      BY <3>1, <3>2
  <2>2. busy' \subseteq Items
    BY <1>6, <1>t DEF Resolve
  <2>3. QED
    BY <1>6, <1>t, <2>1, <2>2 DEF Resolve, TypeOK
<1>7. ASSUME NEW p \in Passes, Delete(p) PROVE TypeOK'
  <2> DEFINE a == pass[p].cursor
  <2>1. a \in Actions
    BY <1>t DEF PassType
  <2>2. row' \in [Actions -> [Items -> RowType]]
    <3>1. Absent \in RowType
      BY DEF Absent, RowType
    <3> DEFINE column == [i \in Items |->
                 IF i \in exist /\ Deletable(a, i) THEN Absent ELSE row[a][i]]
    <3>2. column \in [Items -> RowType]
      BY <2>1, <3>1, <1>t
    <3>3. row' = [row EXCEPT ![a] = column]
      BY <1>7 DEF Delete
    <3> HIDE DEF column
    <3>4. QED
      BY <3>2, <3>3, <2>1, <1>t
  <2>3. pass' \in [Passes -> PassType]
    <3>1. CASE IsTail(a)
      <4>1. pass' = [pass EXCEPT ![p].pc = "stamp", ![p].cursor = Target]
        BY <1>7, <3>1 DEF Delete
      <4>2. Target \in Actions /\ "stamp" \in {"delete", "stamp"}
        BY SettingsAssumption DEF Target, Actions
      <4>3. QED
        BY <4>1, <4>2, <1>t, PassWrites, Zenon
    <3>2. CASE ~IsTail(a)
      <4>1. pass' = [pass EXCEPT ![p].pc = "delete", ![p].cursor = a + 1]
        BY <1>7, <3>2 DEF Delete
      <4>2. a + 1 \in Actions
        BY <2>1, <3>2, SettingsAssumption DEF IsTail, Actions
      <4>3. "delete" \in {"delete", "stamp"}
        OBVIOUS
      <4>4. QED
        BY <4>1, <4>2, <4>3, <1>t, PassWrites, Zenon
    <3>3. QED
      BY <3>1, <3>2
  <2>4. QED
    BY <1>7, <1>t, <2>2, <2>3 DEF Delete, TypeOK
<1>8. ASSUME NEW p \in Passes, Stamp(p) PROVE TypeOK'
  <2>1. job' \in JobType
    BY <1>8, <1>t, JobTypes DEF Stamp
  <2>2. Items \in SUBSET Items
    OBVIOUS
  <2>3. pass' \in [Passes -> PassType]
    BY <1>8, <2>2, <1>t, PassWrites, Zenon DEF Stamp
  <2>4. QED
    BY <1>8, <1>t, <2>1, <2>3 DEF Stamp, TypeOK
<1>9. ASSUME NEW p \in Passes, NEW i \in Items, EnqueueChunk(p, i) PROVE TypeOK'
  <2>1. Target \in Actions /\ TRUE \in BOOLEAN
    BY SettingsAssumption DEF Target, Actions
  <2>2. row[Target][i] \in RowType
    BY <2>1, <1>t
  <2>3. Queued(TRUE) \in RowType
    BY <2>2, RunTypes, Zenon
  <2>4. row' \in [Actions -> [Items -> RowType]]
    BY <1>9, <2>1, <2>3, <1>t DEF EnqueueChunk
  <2>5. pass[p].todo \ {i} \in SUBSET Items
    BY <1>t DEF PassType
  <2>6. pass' \in [Passes -> PassType]
    BY <1>9, <2>5, <1>t, PassWrites, Zenon DEF EnqueueChunk
  <2>7. QED
    BY <1>9, <1>t, <2>4, <2>6 DEF EnqueueChunk, TypeOK
<1>10. ASSUME NEW p \in Passes, Finish(p) PROVE TypeOK'
  <2>1. job' \in JobType
    BY <1>10, <1>t, JobTypes DEF Finish
  <2>2. pass' \in [Passes -> PassType]
    BY <1>10, <1>i DEF Finish
  <2>3. QED
    BY <1>10, <1>t, <2>1, <2>2 DEF Finish, TypeOK
<1>11. ASSUME NEW p \in Passes, Die(p) PROVE TypeOK'
  <2>1. faults' \in 0 .. MaxFaults
    BY <1>11, <1>t, BoundsAssumption DEF Die
  <2>2. pass' \in [Passes -> PassType]
    BY <1>11, <1>i DEF Die
  <2>3. QED
    BY <1>11, <1>t, <2>1, <2>2 DEF Die, TypeOK
<1>12. ASSUME NEW a \in Actions, NEW i \in Items, Succeed(a, i) PROVE TypeOK'
  <2> DEFINE r == [row EXCEPT ![a][i].state = "succeeded"]
  <2>1. r \in [Actions -> [Items -> RowType]]
    BY <1>t, RunWrites, Zenon
  <2>2. CASE ~IsTail(a) /\ row[a + 1][i] = Absent
    <3>1. a + 1 \in Actions
      BY <2>2, SettingsAssumption DEF IsTail, Actions
    <3>2. Queued(row[a][i].fresh) \in RowType
      BY <1>t, RunTypes
    <3>3. row' = [r EXCEPT ![a + 1][i] = Queued(row[a][i].fresh)]
      BY <1>12, <2>2 DEF Succeed
    <3> HIDE DEF r
    <3>4. row' \in [Actions -> [Items -> RowType]]
      BY <2>1, <3>1, <3>2, <3>3, RunWrites, Zenon
    <3>5. QED
      BY <1>12, <1>t, <3>4 DEF Succeed, TypeOK
  <2>3. CASE ~(~IsTail(a) /\ row[a + 1][i] = Absent)
    <3>1. row' = r
      BY <1>12, <2>3 DEF Succeed
    <3> HIDE DEF r
    <3>2. QED
      BY <1>12, <1>t, <2>1, <3>1 DEF Succeed, TypeOK
  <2>4. QED
    BY <2>2, <2>3
<1>13. ASSUME NEW a \in Actions, NEW i \in Items, Drop(a, i) PROVE TypeOK'
  <2>1. row' \in [Actions -> [Items -> RowType]]
    BY <1>13, <1>t, RunWrites DEF Drop
  <2>2. QED
    BY <1>13, <1>t, <2>1 DEF Drop, TypeOK
<1>14. ASSUME NEW i \in Items, Prune(i) PROVE TypeOK'
  BY <1>14, <1>t DEF Prune, TypeOK
<1>15. ASSUME RemoveTarget PROVE TypeOK'
  BY <1>15, <1>t DEF RemoveTarget, TypeOK
<1>16. ASSUME Age PROVE TypeOK'
  <2>1. ASSUME NEW p \in Passes
        PROVE  [pass[p] EXCEPT !.old = pass[p].pc = "claim"] \in PassType
    <3>1. pass[p] \in PassType /\ (pass[p].pc = "claim") \in BOOLEAN
      BY <1>t
    <3>2. QED
      BY <3>1, PassTypes, Zenon
  <2>2. pass' \in [Passes -> PassType]
    BY <1>16, <2>1 DEF Age
  <2>3. (job.state = "running") \in BOOLEAN
    OBVIOUS
  <2>4. job' \in JobType
    BY <1>16, <2>3, <1>t, JobTypes, Zenon DEF Age
  <2>5. QED
    BY <1>16, <1>t, <2>2, <2>4 DEF Age, TypeOK
<1>17. CASE UNCHANGED vars
  BY <1>17, <1>t DEF vars, TypeOK
<1>18. QED
  BY <1>1, <1>2, <1>3, <1>4, <1>5, <1>6, <1>7, <1>8, <1>9, <1>10, <1>11, <1>12, <1>13,
     <1>14, <1>15, <1>16, <1>17, Zenon DEF Next, Work

\* The types hold for any chain, items, passes, attempts and faults; in
\* particular no claim takes the attempts past the cap.
THEOREM TypeCorrect == Spec => []TypeOK
<1>1. QED
  BY InitTypeOK, TypeStep, PTL DEF Spec

-----------------------------------------------------------------------------
(* Final jobs.  Every write of a pass that works is guarded by the claim   *)
(* and so finds the job RUNNING; a claim finds it under the cap.           *)

JobSound == TypeOK /\ CompletedIffFinal

LEMMA JobStep ==
  ASSUME JobSound, [Next]_vars
  PROVE  /\ CompletedIffFinal'
         /\ Final => job' = [job EXCEPT !.old = job'.old]
<1>t. job \in JobType /\ (job.completed <=> Final) /\ MaxAttempts \in Nat \ {0}
  BY SettingsAssumption DEF JobSound, TypeOK, CompletedIffFinal
<1>s. ASSUME job' = job
      PROVE  /\ CompletedIffFinal'
             /\ Final => job' = [job EXCEPT !.old = job'.old]
  <2>1. (job'.completed <=> Final')
    BY <1>s, <1>t DEF Final
  <2>2. job = [job EXCEPT !.old = job.old]
    BY <1>t DEF JobType
  <2>3. QED
    BY <1>s, <2>1, <2>2 DEF CompletedIffFinal
<1>1. ASSUME NEW p \in Passes, StartPass(p)
      PROVE  CompletedIffFinal' /\ (Final => job' = [job EXCEPT !.old = job'.old])
  <2>1. CASE ~(job.state = "running" /\ job.old)
    <3>1. job' = job
      BY <1>1, <2>1 DEF StartPass, Reaped
    <3>2. QED
      BY <3>1, <1>s
  <2>2. CASE job.state = "running" /\ job.old
    <3>1. job' = [job EXCEPT !.state = "failed", !.completed = Exhausted(job)]
      BY <1>1, <2>2 DEF StartPass, Reaped
    <3>2. /\ job'.state = "failed" /\ job'.attempts = job.attempts
          /\ job'.completed <=> job.attempts >= MaxAttempts
      BY <3>1, <1>t DEF JobType, Exhausted
    <3>3. job.attempts >= MaxAttempts <=> job.attempts = MaxAttempts
      BY <1>t DEF JobType
    <3>4. CompletedIffFinal'
      BY <3>2, <3>3 DEF CompletedIffFinal, Final
    <3>5. ~Final
      BY <2>2 DEF Final
    <3>6. QED
      BY <3>4, <3>5
  <2>3. QED
    BY <2>1, <2>2
<1>2. ASSUME NEW p \in Passes, Claim(p)
      PROVE  CompletedIffFinal' /\ (Final => job' = [job EXCEPT !.old = job'.old])
  <2>1. ~Final
    BY <1>2, <1>t DEF Claim, Claimable, Final, JobType
  <2>2. job'.state = "running" /\ job'.completed = job.completed
    BY <1>2, <1>t DEF Claim, JobType
  <2>3. ~Final' /\ ~job'.completed
    BY <2>1, <2>2, <1>t DEF Final
  <2>4. QED
    BY <2>1, <2>3 DEF CompletedIffFinal
<1>3. ASSUME NEW p \in Passes, Fail(p) \/ Finish(p)
      PROVE  CompletedIffFinal' /\ (Final => job' = [job EXCEPT !.old = job'.old])
  <2>1. CASE ~HoldsClaim(p)
    BY <1>3, <2>1, <1>s DEF Fail, Finish
  <2>2. CASE HoldsClaim(p)
    <3>1. ~Final
      BY <2>2 DEF HoldsClaim, Final
    <3>2. \/ job' = [job EXCEPT !.state = "failed", !.attempts = MaxAttempts, !.completed = TRUE]
          \/ job' = [job EXCEPT !.state = "done", !.completed = TRUE]
      BY <1>3, <2>2 DEF Fail, Finish
    <3>3. job'.completed /\ (job'.state = "done" \/
                             (job'.state = "failed" /\ job'.attempts = MaxAttempts))
      BY <3>2, <1>t DEF JobType
    <3>4. QED
      BY <3>1, <3>3 DEF CompletedIffFinal, Final
  <2>3. QED
    BY <2>1, <2>2
<1>4. ASSUME NEW p \in Passes, Stamp(p)
      PROVE  CompletedIffFinal' /\ (Final => job' = [job EXCEPT !.old = job'.old])
  <2>1. CASE ~HoldsClaim(p)
    BY <1>4, <2>1, <1>s DEF Stamp
  <2>2. CASE HoldsClaim(p)
    <3>1. ~Final
      BY <2>2 DEF HoldsClaim, Final
    <3>2. job'.state = "running" /\ job'.completed = job.completed
      BY <1>4, <2>2, <1>t DEF Stamp, HoldsClaim, JobType
    <3>3. ~Final' /\ ~job'.completed
      BY <3>1, <3>2, <1>t DEF Final
    <3>4. QED
      BY <3>1, <3>3 DEF CompletedIffFinal
  <2>3. QED
    BY <2>1, <2>2
<1>5. ASSUME Age
      PROVE  CompletedIffFinal' /\ (Final => job' = [job EXCEPT !.old = job'.old])
  <2>1. job' = [job EXCEPT !.old = job.state = "running"]
    BY <1>5 DEF Age
  <2>2. /\ job'.state = job.state /\ job'.attempts = job.attempts
        /\ job'.completed = job.completed /\ job' = [job EXCEPT !.old = job'.old]
    BY <2>1, <1>t DEF JobType
  <2>3. QED
    BY <2>2, <1>t DEF CompletedIffFinal, Final
<1>6. ASSUME NEW p \in Passes,
             \/ LoseClaim(p) \/ Refresh(p) \/ Resolve(p) \/ Delete(p) \/ Die(p)
             \/ \E i \in Items : EnqueueChunk(p, i)
      PROVE  CompletedIffFinal' /\ (Final => job' = [job EXCEPT !.old = job'.old])
  <2>1. job' = job
    BY <1>6 DEF LoseClaim, Refresh, Resolve, Delete, Die, EnqueueChunk
  <2>2. QED
    BY <2>1, <1>s
<1>7. ASSUME \/ \E a \in Actions, i \in Items : Succeed(a, i) \/ Drop(a, i)
             \/ \E i \in Items : Prune(i)
             \/ RemoveTarget \/ UNCHANGED vars
      PROVE  CompletedIffFinal' /\ (Final => job' = [job EXCEPT !.old = job'.old])
  <2>1. job' = job
    BY <1>7 DEF Succeed, Drop, Prune, RemoveTarget, vars
  <2>2. QED
    BY <2>1, <1>s
<1>8. QED
  BY <1>1, <1>2, <1>3, <1>4, <1>5, <1>6, <1>7, Zenon DEF Next, Work

LEMMA JobSoundHolds == Spec => []JobSound
<1>1. Init => JobSound
  <2> SUFFICES ASSUME Init PROVE JobSound
    OBVIOUS
  <2>1. job.state = "pending" /\ ~job.completed
    BY DEF Init
  <2>2. QED
    BY <2>1, InitTypeOK DEF JobSound, CompletedIffFinal, Final
<1>2. JobSound /\ [Next]_vars => JobSound'
  BY JobStep, TypeStep DEF JobSound
<1>3. QED
  BY <1>1, <1>2, PTL DEF Spec

\* completed_at is set on exactly the jobs that are DONE or failed for good,
\* whoever wrote last: a reaper, a pass that finished or one that gave up.
THEOREM CompletedMarksFinal == Spec => []CompletedIffFinal
<1>1. JobSound => CompletedIffFinal
  BY DEF JobSound
<1>2. QED
  BY <1>1, JobSoundHolds, PTL

\* No pass, however stale its claim, rewrites a job that has ended.
THEOREM FinalIsFrozen == Spec => FinalIsForever
<1>1. JobSound /\ [Next]_vars => [Final => job' = [job EXCEPT !.old = job'.old]]_vars
  BY JobStep
<1>2. QED
  BY <1>1, JobSoundHolds, PTL DEF Spec, FinalIsForever

-----------------------------------------------------------------------------
(* Delete-once.  While no live attempt has been reaped there is one pass at *)
(* work, it holds the claim, and what it decides from the marker it read is *)
(* still true of the row when it acts.                                      *)

SomeFresh == \E a \in Actions, i \in Items : row[a][i].fresh

\* The pass at work holds the job.
InCharge ==
  \A p \in Passes : Working(p) =>
    /\ job.state = "running"
    /\ pass[p].pc # "refresh" => pass[p].stamp = job.attempts

AtWorkAlone == \A p, q \in Passes : Working(p) /\ Working(q) => p = q

\* Nothing is regenerated before the delete has been stamped.
MarkedFirst == job.replace /\ SomeFresh => job.marker

\* Where a pass stands tells what the row says.
MarkerKnown ==
  \A p \in Passes :
    /\ pass[p].pc = "resolve" => (pass[p].marker <=> job.marker)
    /\ pass[p].pc \in {"delete", "stamp"} => job.replace /\ ~job.marker
    /\ pass[p].pc = "enqueue" => (job.replace => job.marker)

OneDelete == ~overlap => InCharge /\ AtWorkAlone /\ MarkedFirst /\ MarkerKnown

\* Only the enqueue makes the first fresh run: a delete takes runs away and an
\* advance hands freshness on.
LEMMA FreshFromEnqueue ==
  ASSUME TypeOK, [Next]_vars, SomeFresh'
  PROVE  SomeFresh \/ \E p \in Passes, i \in Items : EnqueueChunk(p, i)
<1>t. row \in [Actions -> [Items -> RowType]]
  BY DEF TypeOK
<1>1. ASSUME UNCHANGED row PROVE SomeFresh
  BY <1>1 DEF SomeFresh
<1>2. ASSUME NEW p \in Passes, Delete(p) PROVE SomeFresh
  <2>1. PICK b \in Actions, i \in Items : row'[b][i].fresh
    BY Zenon DEF SomeFresh
  <2>2. row'[b][i] = row[b][i] \/ row'[b][i] = Absent
    BY <1>2, <1>t DEF Delete
  <2>3. ~Absent.fresh
    BY DEF Absent
  <2>4. QED
    BY <2>1, <2>2, <2>3 DEF SomeFresh
<1>3. ASSUME NEW a \in Actions, NEW i \in Items, Drop(a, i) PROVE SomeFresh
  <2>1. PICK b \in Actions, k \in Items : row'[b][k].fresh
    BY Zenon DEF SomeFresh
  <2>2. row'[b][k].fresh = row[b][k].fresh
    BY <1>3, <1>t DEF Drop, RowType
  <2>3. QED
    BY <2>1, <2>2 DEF SomeFresh
<1>4. ASSUME NEW a \in Actions, NEW i \in Items, Succeed(a, i) PROVE SomeFresh
  <2> DEFINE r == [row EXCEPT ![a][i].state = "succeeded"]
  <2>1. PICK b \in Actions, k \in Items : row'[b][k].fresh
    BY Zenon DEF SomeFresh
  <2>2. r[b][k].fresh = row[b][k].fresh
    BY <1>t DEF RowType
  <2>3. r \in [Actions -> [Items -> RowType]]
    BY <1>t, RunWrites, Zenon
  <2>4. row' = r \/ row' = [r EXCEPT ![a + 1][i] = Queued(row[a][i].fresh)]
    BY <1>4 DEF Succeed
  <2> HIDE DEF r
  <2>5. row'[b][k] = r[b][k] \/ row'[b][k] = Queued(row[a][i].fresh)
    BY <2>3, <2>4
  <2>6. CASE row'[b][k] = r[b][k]
    BY <2>1, <2>2, <2>6 DEF SomeFresh
  <2>7. CASE row'[b][k] = Queued(row[a][i].fresh)
    <3>1. row[a][i].fresh
      BY <2>1, <2>7 DEF Queued
    <3>2. QED
      BY <3>1 DEF SomeFresh
  <2>8. QED
    BY <2>5, <2>6, <2>7
<1>5. ASSUME NEW p \in Passes,
             \/ StartPass(p) \/ Claim(p) \/ LoseClaim(p) \/ Refresh(p) \/ Fail(p)
             \/ Resolve(p) \/ Stamp(p) \/ Finish(p) \/ Die(p)
      PROVE  UNCHANGED row
  BY <1>5 DEF StartPass, Claim, LoseClaim, Refresh, Fail, Resolve, Stamp, Finish, Die
<1>6. ASSUME (\E i \in Items : Prune(i)) \/ RemoveTarget \/ Age \/ UNCHANGED vars
      PROVE  UNCHANGED row
  BY <1>6 DEF Prune, RemoveTarget, Age, vars
<1>7. QED
  BY <1>1, <1>2, <1>3, <1>4, <1>5, <1>6, Zenon DEF Next, Work

LEMMA OneDeleteStep ==
  ASSUME TypeOK, OneDelete, [Next]_vars, ~overlap'
  PROVE  InCharge' /\ AtWorkAlone' /\ MarkedFirst' /\ MarkerKnown'
<1>o. ~overlap
  <2>1. overlap => overlap'
    BY DEF Next, Work, StartPass, Claim, LoseClaim, Refresh, Fail, Resolve, Delete, Stamp,
           EnqueueChunk, Finish, Die, Succeed, Drop, Prune, RemoveTarget, Age, vars
  <2>2. QED
    BY <2>1
<1>h. InCharge /\ AtWorkAlone /\ MarkedFirst /\ MarkerKnown
  BY <1>o DEF OneDelete
<1>t. /\ job \in JobType /\ pass \in [Passes -> PassType]
  BY DEF TypeOK
<1>f. ASSUME ~\E p \in Passes, i \in Items : EnqueueChunk(p, i),
             job'.replace = job.replace, job.marker => job'.marker
      PROVE  MarkedFirst'
  <2>1. SomeFresh' => SomeFresh
    BY <1>f, FreshFromEnqueue
  <2>2. QED
    BY <1>f, <1>h, <2>1 DEF MarkedFirst
<1>i. IdlePass.pc = "idle"
  BY DEF IdlePass
<1>1. ASSUME NEW p \in Passes, StartPass(p)
      PROVE  InCharge' /\ AtWorkAlone' /\ MarkedFirst' /\ MarkerKnown'
  <2>1. /\ pass'[p].pc \in {"idle", "claim"}
        /\ \A q \in Passes \ {p} : pass'[q] = pass[q]
        /\ ~Working(p)
    BY <1>1, <1>t, <1>i DEF StartPass, IdlePass, Working
  <2>2. job' = job \/ \A q \in Passes : ~Working(q)
    BY <1>1, <1>o DEF StartPass
  <2>3. job'.replace = job.replace /\ job'.marker = job.marker
    BY <1>1, <1>t DEF StartPass, Reaped, JobType
  <2>4. MarkedFirst'
    BY <2>3, <1>h, FreshFromEnqueue, <1>1 DEF MarkedFirst, StartPass, EnqueueChunk, SomeFresh
  <2>5. InCharge' /\ AtWorkAlone' /\ MarkerKnown'
    BY <2>1, <2>2, <2>3, <1>h DEF InCharge, AtWorkAlone, MarkerKnown, Working
  <2>6. QED
    BY <2>4, <2>5
<1>2. ASSUME NEW p \in Passes, Claim(p)
      PROVE  InCharge' /\ AtWorkAlone' /\ MarkedFirst' /\ MarkerKnown'
  <2>1. job.state # "running"
    BY <1>2 DEF Claim, Claimable
  <2>2. \A q \in Passes : ~Working(q)
    BY <2>1, <1>h DEF InCharge
  <2>3. job'.state = "running" /\ job'.replace = job.replace /\ job'.marker = job.marker
    BY <1>2, <1>t DEF Claim, JobType
  <2>4. /\ pass'[p].pc = "refresh"
        /\ \A q \in Passes \ {p} : pass'[q] = pass[q]
    BY <1>2, <1>t DEF Claim, IdlePass
  <2>5. MarkedFirst'
    BY <2>3, <1>h, <1>2 DEF MarkedFirst, Claim, SomeFresh
  <2>6. QED
    BY <2>2, <2>3, <2>4, <2>5 DEF InCharge, AtWorkAlone, MarkerKnown, Working
<1>3. ASSUME NEW p \in Passes, Refresh(p)
      PROVE  InCharge' /\ AtWorkAlone' /\ MarkedFirst' /\ MarkerKnown'
  <2>1. /\ Working(p) /\ UNCHANGED <<job, row>>
    BY <1>3 DEF Refresh, Working
  <2>2. /\ pass'[p].pc = "resolve" /\ pass'[p].stamp = job.attempts
        /\ pass'[p].marker <=> job.marker
        /\ \A q \in Passes \ {p} : pass'[q] = pass[q]
    BY <1>3, <1>t DEF Refresh, PassType, JobType
  <2>3. MarkedFirst'
    BY <2>1, <1>h DEF MarkedFirst, SomeFresh
  <2>4. QED
    BY <2>1, <2>2, <2>3, <1>h DEF InCharge, AtWorkAlone, MarkerKnown, Working
<1>4. ASSUME NEW p \in Passes, Fail(p) \/ Finish(p)
      PROVE  InCharge' /\ AtWorkAlone' /\ MarkedFirst' /\ MarkerKnown'
  <2>1. Working(p) /\ pass' = [pass EXCEPT ![p] = IdlePass] /\ UNCHANGED row
    BY <1>4 DEF Fail, Finish, Working
  <2>2. /\ pass'[p].pc = "idle" /\ \A q \in Passes \ {p} : pass'[q] = pass[q]
    BY <2>1, <1>t, <1>i
  <2>3. \A q \in Passes : ~Working(q)'
    BY <2>1, <2>2, <1>h DEF AtWorkAlone, Working
  <2>4. job'.replace = job.replace /\ job'.marker = job.marker
    BY <1>4, <1>t DEF Fail, Finish, JobType
  <2>5. MarkedFirst'
    BY <2>1, <2>4, <1>h DEF MarkedFirst, SomeFresh
  <2>6. QED
    BY <2>3, <2>5 DEF InCharge, AtWorkAlone, MarkerKnown, Working
<1>5. ASSUME NEW p \in Passes, Resolve(p)
      PROVE  InCharge' /\ AtWorkAlone' /\ MarkedFirst' /\ MarkerKnown'
  <2>1. /\ Working(p) /\ UNCHANGED <<job, row>> /\ pass[p].pc = "resolve"
    BY <1>5 DEF Resolve, Working
  <2>2. /\ pass'[p].pc = IF Deletes(p) THEN "delete" ELSE "enqueue"
        /\ pass'[p].stamp = pass[p].stamp
        /\ \A q \in Passes \ {p} : pass'[q] = pass[q]
    BY <1>5, <1>t DEF Resolve, PassType
  <2>3. /\ Deletes(p) => job.replace /\ ~job.marker
        /\ ~Deletes(p) => (job.replace => job.marker)
    BY <2>1, <1>h DEF Deletes, MarkerKnown
  <2>4. MarkedFirst'
    BY <2>1, <1>h DEF MarkedFirst, SomeFresh
  <2>5. QED
    BY <2>1, <2>2, <2>3, <2>4, <1>h DEF InCharge, AtWorkAlone, MarkerKnown, Working
<1>6. ASSUME NEW p \in Passes, Delete(p)
      PROVE  InCharge' /\ AtWorkAlone' /\ MarkedFirst' /\ MarkerKnown'
  <2>1. /\ Working(p) /\ UNCHANGED job /\ pass[p].pc = "delete"
    BY <1>6 DEF Delete, Working
  <2>2. /\ pass'[p].pc \in {"delete", "stamp"}
        /\ pass'[p].stamp = pass[p].stamp
        /\ \A q \in Passes \ {p} : pass'[q] = pass[q]
    BY <1>6, <1>t DEF Delete, PassType
  <2>3. MarkedFirst'
    <3>1. ~\E q \in Passes, i \in Items : EnqueueChunk(q, i)
      <4>1. ASSUME NEW q \in Passes, NEW i \in Items, EnqueueChunk(q, i) PROVE FALSE
        <5>1. pass[q].pc = "enqueue" /\ pass'[q].pc = "enqueue"
          BY <4>1, <1>t DEF EnqueueChunk, PassType
        <5>2. Working(q)
          BY <5>1 DEF Working
        <5>3. q = p
          BY <2>1, <5>2, <1>h DEF AtWorkAlone
        <5>4. QED
          BY <2>1, <5>1, <5>3
      <4>2. QED
        BY <4>1
    <3>2. QED
      BY <2>1, <3>1, <1>f
  <2>4. QED
    BY <2>1, <2>2, <2>3, <1>h DEF InCharge, AtWorkAlone, MarkerKnown, Working
<1>7. ASSUME NEW p \in Passes, Stamp(p)
      PROVE  InCharge' /\ AtWorkAlone' /\ MarkedFirst' /\ MarkerKnown'
  <2>1. /\ Working(p) /\ pass[p].pc = "stamp" /\ UNCHANGED row
    BY <1>7 DEF Stamp, Working
  <2>2. /\ pass'[p].pc = "enqueue"
        /\ pass'[p].stamp = pass[p].stamp
        /\ \A q \in Passes \ {p} : pass'[q] = pass[q]
    BY <1>7, <1>t DEF Stamp, PassType
  <2>3. HoldsClaim(p)
    BY <2>1, <1>h DEF InCharge, HoldsClaim
  <2>4. /\ job'.marker /\ job'.replace = job.replace /\ job'.state = job.state
        /\ job'.attempts = job.attempts
    BY <1>7, <2>3, <1>t DEF Stamp, JobType
  <2>5. MarkedFirst'
    BY <2>4 DEF MarkedFirst
  <2>6. \A q \in Passes : Working(q) => q = p
    BY <2>1, <1>h DEF AtWorkAlone
  <2>7. QED
    BY <2>1, <2>2, <2>4, <2>5, <2>6, <1>h DEF InCharge, AtWorkAlone, MarkerKnown, Working
<1>8. ASSUME NEW p \in Passes, NEW i \in Items, EnqueueChunk(p, i)
      PROVE  InCharge' /\ AtWorkAlone' /\ MarkedFirst' /\ MarkerKnown'
  <2>1. /\ Working(p) /\ pass[p].pc = "enqueue" /\ UNCHANGED job
    BY <1>8 DEF EnqueueChunk, Working
  <2>2. /\ pass'[p].pc = "enqueue"
        /\ pass'[p].stamp = pass[p].stamp
        /\ \A q \in Passes \ {p} : pass'[q] = pass[q]
    BY <1>8, <1>t DEF EnqueueChunk, PassType
  <2>3. job.replace => job.marker
    BY <2>1, <1>h DEF MarkerKnown
  <2>4. MarkedFirst'
    BY <2>1, <2>3 DEF MarkedFirst
  <2>5. QED
    BY <2>1, <2>2, <2>3, <2>4, <1>h DEF InCharge, AtWorkAlone, MarkerKnown, Working
<1>9. ASSUME NEW p \in Passes, LoseClaim(p) \/ Die(p)
      PROVE  InCharge' /\ AtWorkAlone' /\ MarkedFirst' /\ MarkerKnown'
  <2>1. pass' = [pass EXCEPT ![p] = IdlePass] /\ UNCHANGED <<job, row>>
    BY <1>9 DEF LoseClaim, Die
  <2>2. /\ pass'[p].pc = "idle" /\ \A q \in Passes \ {p} : pass'[q] = pass[q]
    BY <2>1, <1>t, <1>i
  <2>3. MarkedFirst'
    BY <2>1, <1>h DEF MarkedFirst, SomeFresh
  <2>4. QED
    BY <2>1, <2>2, <2>3, <1>h DEF InCharge, AtWorkAlone, MarkerKnown, Working
<1>10. ASSUME Age
       PROVE  InCharge' /\ AtWorkAlone' /\ MarkedFirst' /\ MarkerKnown'
  <2>1. /\ job'.state = job.state /\ job'.attempts = job.attempts
        /\ job'.replace = job.replace /\ job'.marker = job.marker /\ UNCHANGED row
    BY <1>10, <1>t DEF Age, JobType
  <2>2. \A q \in Passes : /\ pass'[q].pc = pass[q].pc
                          /\ pass'[q].stamp = pass[q].stamp
                          /\ pass'[q].marker = pass[q].marker
    BY <1>10, <1>t DEF Age, PassType
  <2>3. MarkedFirst'
    BY <2>1, <1>h DEF MarkedFirst, SomeFresh
  <2>4. QED
    BY <2>1, <2>2, <2>3, <1>h DEF InCharge, AtWorkAlone, MarkerKnown, Working
<1>11. ASSUME \/ \E a \in Actions, i \in Items : Succeed(a, i) \/ Drop(a, i)
              \/ \E i \in Items : Prune(i)
              \/ RemoveTarget \/ UNCHANGED vars
       PROVE  InCharge' /\ AtWorkAlone' /\ MarkedFirst' /\ MarkerKnown'
  <2>1. UNCHANGED <<job, pass>>
    BY <1>11 DEF Succeed, Drop, Prune, RemoveTarget, vars
  <2>2. InCharge' /\ AtWorkAlone' /\ MarkerKnown'
    BY <2>1, <1>h DEF InCharge, AtWorkAlone, MarkerKnown, Working
  <2>3. ~\E p \in Passes, i \in Items : EnqueueChunk(p, i)
    <3>1. ASSUME NEW p \in Passes, NEW i \in Items, EnqueueChunk(p, i) PROVE FALSE
      <4>1. i \in pass[p].todo
        BY <3>1 DEF EnqueueChunk, Ahead
      <4>2. pass' = [pass EXCEPT ![p].todo = @ \ {i}]
        BY <3>1 DEF EnqueueChunk
      <4>3. pass'[p].todo = pass[p].todo \ {i}
        BY <4>2, <1>t DEF PassType
      <4>4. QED
        BY <4>1, <4>3, <2>1
    <3>2. QED
      BY <3>1
  <2>4. MarkedFirst'
    BY <2>1, <2>3, <1>f
  <2>5. QED
    BY <2>2, <2>4
<1>12. QED
  BY <1>1, <1>2, <1>3, <1>4, <1>5, <1>6, <1>7, <1>8, <1>9, <1>10, <1>11, Zenon DEF Next, Work

LEMMA OneDeleteHolds == Spec => [](TypeOK /\ OneDelete)
<1>1. Init => TypeOK /\ OneDelete
  <2> SUFFICES ASSUME Init PROVE TypeOK /\ OneDelete
    OBVIOUS
  <2>1. TypeOK
    BY InitTypeOK
  <2>2. \A p \in Passes : pass[p].pc = "idle"
    BY DEF Init, IdlePass
  <2>3. ~SomeFresh
    BY DEF Init, Chained, SomeFresh
  <2>4. QED
    BY <2>1, <2>2, <2>3
       DEF OneDelete, InCharge, AtWorkAlone, MarkedFirst, MarkerKnown, Working
<1>2. TypeOK /\ OneDelete /\ [Next]_vars => (TypeOK /\ OneDelete)'
  <2> SUFFICES ASSUME TypeOK, OneDelete, [Next]_vars PROVE (TypeOK /\ OneDelete)'
    OBVIOUS
  <2>1. TypeOK'
    BY TypeStep
  <2>2. ~overlap' => InCharge' /\ AtWorkAlone' /\ MarkedFirst' /\ MarkerKnown'
    BY OneDeleteStep
  <2>3. QED
    BY <2>1, <2>2 DEF OneDelete
<1>3. QED
  BY <1>1, <1>2, PTL DEF Spec

\* A run that this job queued, or that followed from one, is never deleted,
\* however often the job's attempts die around the delete and its stamp: only
\* a reaper that took a live attempt for a dead one can bring that about.
THEOREM RegeneratedRunsStay == Spec => FreshRunsKept
<1>1. ASSUME TypeOK, OneDelete, [Next]_vars, NEW a \in Actions, NEW i \in Items,
             row[a][i].fresh, row'[a][i] = Absent, ~overlap
      PROVE  FALSE
  <2>t. row \in [Actions -> [Items -> RowType]]
    BY <1>1 DEF TypeOK
  <2>f. row'[a][i] # row[a][i]
    BY <1>1 DEF Absent
  <2>1. ASSUME NEW p \in Passes, Delete(p) PROVE FALSE
    <3>1. job.replace /\ ~job.marker
      BY <1>1, <2>1 DEF OneDelete, MarkerKnown, Delete
    <3>2. job.marker
      BY <1>1, <3>1 DEF OneDelete, MarkedFirst, SomeFresh
    <3>3. QED
      BY <3>1, <3>2
  <2>2. ASSUME NEW p \in Passes, NEW k \in Items, EnqueueChunk(p, k) PROVE FALSE
    <3>1. row'[a][i] = row[a][i] \/ row'[a][i] = Queued(TRUE)
      BY <2>2, <2>t DEF EnqueueChunk
    <3>2. Queued(TRUE) # Absent
      BY DEF Queued, Absent
    <3>3. QED
      BY <1>1, <2>f, <3>1, <3>2
  <2>3. ASSUME NEW b \in Actions, NEW k \in Items, Drop(b, k) PROVE FALSE
    <3>1. row'[a][i].fresh = row[a][i].fresh
      BY <2>3, <2>t DEF Drop, RowType
    <3>2. QED
      BY <3>1, <1>1 DEF Absent
  <2>4. ASSUME NEW b \in Actions, NEW k \in Items, Succeed(b, k) PROVE FALSE
    <3> DEFINE r == [row EXCEPT ![b][k].state = "succeeded"]
    <3>1. r[a][i].fresh
      BY <1>1, <2>t DEF RowType
    <3>2. r \in [Actions -> [Items -> RowType]]
      BY <2>t, RunWrites, Zenon
    <3>3. row' = r \/ row' = [r EXCEPT ![b + 1][k] = Queued(row[b][k].fresh)]
      BY <2>4 DEF Succeed
    <3> HIDE DEF r
    <3>4. row'[a][i] = r[a][i] \/ row'[a][i] = Queued(row[b][k].fresh)
      BY <3>2, <3>3
    <3>5. Queued(row[b][k].fresh) # Absent
      BY DEF Queued, Absent
    <3>6. ~Absent.fresh
      BY DEF Absent
    <3>7. QED
      BY <1>1, <3>1, <3>4, <3>5, <3>6
  <2>5. ASSUME NEW p \in Passes,
               \/ StartPass(p) \/ Claim(p) \/ LoseClaim(p) \/ Refresh(p) \/ Fail(p)
               \/ Resolve(p) \/ Stamp(p) \/ Finish(p) \/ Die(p)
        PROVE  FALSE
    <3>1. UNCHANGED row
      BY <2>5 DEF StartPass, Claim, LoseClaim, Refresh, Fail, Resolve, Stamp, Finish, Die
    <3>2. QED
      BY <3>1, <2>f
  <2>6. ASSUME (\E k \in Items : Prune(k)) \/ RemoveTarget \/ Age \/ UNCHANGED vars
        PROVE  FALSE
    <3>1. UNCHANGED row
      BY <2>6 DEF Prune, RemoveTarget, Age, vars
    <3>2. QED
      BY <3>1, <2>f
  <2>7. QED
    BY <1>1, <2>1, <2>2, <2>3, <2>4, <2>5, <2>6, Zenon DEF Next, Work
<1>2. TypeOK /\ OneDelete /\ [Next]_vars
        => [\A a \in Actions, i \in Items :
              row[a][i].fresh /\ row'[a][i] = Absent => overlap]_vars
  BY <1>1
<1>3. QED
  BY <1>2, OneDeleteHolds, PTL DEF Spec, FreshRunsKept
-----------------------------------------------------------------------------
(* A done job is complete.  An item of the source has its run of the target *)
(* or some pass will still come to it: one that deletes, or one that has    *)
(* the item ahead of it.  Only a death takes that pass away; then it was    *)
(* alone and the job is not done, unless a live attempt was reaped.         *)

Covers(q, i) ==
  \/ pass[q].pc \in {"delete", "stamp"}
  \/ pass[q].pc = "enqueue" /\ i \in pass[q].todo

Served(i) == row[Target][i] # Absent \/ \E q \in Passes : Covers(q, i)

\* What a pass has behind it is served, and so is all of a done job.
Complete ==
  ~(overlap /\ faults > 0) =>
    /\ \A p \in Passes : pass[p].pc = "enqueue" => \A i \in exist \ pass[p].todo : Served(i)
    /\ job.state = "done" => \A i \in exist : Served(i)

\* A run is there until a delete takes it.
LEMMA RowsStay ==
  ASSUME TypeOK, [Next]_vars, NEW a \in Actions, NEW i \in Items,
         row[a][i] # Absent, ~\E p \in Passes : Delete(p)
  PROVE  row'[a][i] # Absent
<1>t. row \in [Actions -> [Items -> RowType]]
  BY DEF TypeOK
<1>q. \A b : Queued(b) # Absent
  BY DEF Queued, Absent
<1>1. ASSUME NEW p \in Passes, NEW k \in Items, EnqueueChunk(p, k) PROVE row'[a][i] # Absent
  <2>1. row'[a][i] = row[a][i] \/ row'[a][i] = Queued(TRUE)
    BY <1>1, <1>t DEF EnqueueChunk
  <2>2. QED
    BY <2>1, <1>q
<1>2. ASSUME NEW b \in Actions, NEW k \in Items, Drop(b, k) PROVE row'[a][i] # Absent
  <2>1. row'[a][i] = row[a][i] \/ row'[a][i].state = "dropped"
    BY <1>2, <1>t DEF Drop, RowType
  <2>2. QED
    BY <2>1 DEF Absent
<1>3. ASSUME NEW b \in Actions, NEW k \in Items, Succeed(b, k) PROVE row'[a][i] # Absent
  <2> DEFINE r == [row EXCEPT ![b][k].state = "succeeded"]
  <2>1. r[a][i] = row[a][i] \/ r[a][i].state = "succeeded"
    BY <1>t DEF RowType
  <2>2. r \in [Actions -> [Items -> RowType]]
    BY <1>t, RunWrites, Zenon
  <2>3. row' = r \/ row' = [r EXCEPT ![b + 1][k] = Queued(row[b][k].fresh)]
    BY <1>3 DEF Succeed
  <2> HIDE DEF r
  <2>4. row'[a][i] = r[a][i] \/ row'[a][i] = Queued(row[b][k].fresh)
    BY <2>2, <2>3
  <2>5. r[a][i] # Absent
    BY <2>1 DEF Absent
  <2>6. QED
    BY <2>4, <2>5, <1>q
<1>4. ASSUME NEW p \in Passes,
             \/ StartPass(p) \/ Claim(p) \/ LoseClaim(p) \/ Refresh(p) \/ Fail(p)
             \/ Resolve(p) \/ Stamp(p) \/ Finish(p) \/ Die(p)
      PROVE  UNCHANGED row
  BY <1>4 DEF StartPass, Claim, LoseClaim, Refresh, Fail, Resolve, Stamp, Finish, Die
<1>5. ASSUME (\E k \in Items : Prune(k)) \/ RemoveTarget \/ Age \/ UNCHANGED vars
      PROVE  UNCHANGED row
  BY <1>5 DEF Prune, RemoveTarget, Age, vars
<1>6. QED
  BY <1>1, <1>2, <1>3, <1>4, <1>5, Zenon DEF Next, Work

\* Retention only removes items, and the histories only grow.
LEMMA Monotone ==
  ASSUME TypeOK, [Next]_vars
  PROVE  /\ exist' \subseteq exist
         /\ overlap => overlap'
         /\ faults' >= faults
         /\ busy \subseteq busy'
<1>1. exist' \subseteq exist
  BY DEF Next, Work, StartPass, Claim, LoseClaim, Refresh, Fail, Resolve, Delete, Stamp,
         EnqueueChunk, Finish, Die, Succeed, Drop, Prune, RemoveTarget, Age, vars
<1>5. overlap => overlap'
  BY DEF Next, Work, StartPass, Claim, LoseClaim, Refresh, Fail, Resolve, Delete, Stamp,
         EnqueueChunk, Finish, Die, Succeed, Drop, Prune, RemoveTarget, Age, vars
<1>6. busy \subseteq busy'
  BY DEF Next, Work, StartPass, Claim, LoseClaim, Refresh, Fail, Resolve, Delete, Stamp,
         EnqueueChunk, Finish, Die, Succeed, Drop, Prune, RemoveTarget, Age, vars
<1>2. faults' = faults \/ faults' = faults + 1
  BY DEF Next, Work, StartPass, Claim, LoseClaim, Refresh, Fail, Resolve, Delete, Stamp,
         EnqueueChunk, Finish, Die, Succeed, Drop, Prune, RemoveTarget, Age, vars
<1>3. faults \in Nat
  BY BoundsAssumption DEF TypeOK
<1>4. faults' >= faults
  BY <1>2, <1>3
<1>7. QED
  BY <1>1, <1>4, <1>5, <1>6, Zenon

LEMMA CompleteStep ==
  ASSUME TypeOK, OneDelete, Complete, [Next]_vars
  PROVE  Complete'
<1> SUFFICES ASSUME ~(overlap' /\ faults' > 0)
             PROVE  /\ \A p \in Passes : pass'[p].pc = "enqueue" =>
                         \A i \in exist' \ pass'[p].todo : Served(i)'
                    /\ job'.state = "done" => \A i \in exist' : Served(i)'
  BY DEF Complete
<1>t. /\ job \in JobType /\ pass \in [Passes -> PassType] /\ exist \subseteq Items
      /\ row \in [Actions -> [Items -> RowType]] /\ faults \in Nat
      /\ Target \in Actions
  BY BoundsAssumption, SettingsAssumption DEF TypeOK, Target, Actions
<1>m. exist' \subseteq exist /\ (overlap => overlap') /\ faults' >= faults
  BY Monotone
<1>h. /\ \A p \in Passes : pass[p].pc = "enqueue" => \A i \in exist \ pass[p].todo : Served(i)
      /\ job.state = "done" => \A i \in exist : Served(i)
  <2>1. ~(overlap /\ faults > 0)
    <3>1. faults > 0 => faults' > 0
      <4>1. faults' \in Nat
        BY TypeStep, BoundsAssumption DEF TypeOK
      <4>2. QED
        BY <1>t, <1>m, <4>1
    <3>2. QED
      BY <1>m, <3>1
  <2>2. QED
    BY <2>1 DEF Complete
\* What has to be shown of a step.
<1>g. ASSUME \A i \in exist' : Served(i) => Served(i)',
             \A q \in Passes : pass'[q].pc = "enqueue" =>
                 \/ /\ pass[q].pc = "enqueue"
                    /\ \A i \in exist' \ pass'[q].todo : i \in pass[q].todo => Served(i)'
                 \/ exist' \subseteq pass'[q].todo,
             job'.state = "done" => job.state = "done" \/ \A i \in exist' : Served(i)'
      PROVE  /\ \A p \in Passes : pass'[p].pc = "enqueue" =>
                  \A i \in exist' \ pass'[p].todo : Served(i)'
             /\ job'.state = "done" => \A i \in exist' : Served(i)'
  <2>1. ASSUME NEW p \in Passes, pass'[p].pc = "enqueue", NEW i \in exist' \ pass'[p].todo
        PROVE  Served(i)'
    <3>1. PICK now, later : now = pass[p].todo /\ later = pass'[p].todo
      OBVIOUS
    <3>2. CASE pass[p].pc = "enqueue" /\ i \notin now
      BY <3>1, <3>2, <2>1, <1>g, <1>h, <1>m
    <3>3. CASE ~(pass[p].pc = "enqueue" /\ i \notin now)
      BY <3>1, <3>3, <2>1, <1>g
    <3>4. QED
      BY <3>2, <3>3
  <2>2. ASSUME job'.state = "done", NEW i \in exist' PROVE Served(i)'
    BY <2>2, <1>g, <1>h, <1>m
  <2>3. QED
    BY <2>1, <2>2
\* A run stays, and so does a pass that has it ahead.
<1>s. ASSUME ~\E p \in Passes : Delete(p),
             \A q \in Passes, i \in exist' :
                Covers(q, i) => Covers(q, i)' \/ row'[Target][i] # Absent
      PROVE  \A i \in exist' : Served(i) => Served(i)'
  <2>1. ASSUME NEW i \in exist', row[Target][i] # Absent PROVE row'[Target][i] # Absent
    BY <2>1, <1>s, <1>t, <1>m, RowsStay
  <2>2. QED
    BY <2>1, <1>s DEF Served
<1>d. ASSUME NEW p \in Passes, ~Delete(p),
             \A q \in Passes \ {p} : pass'[q] = pass[q]
      PROVE  ~\E q \in Passes : Delete(q)
  <2>1. ASSUME NEW q \in Passes, Delete(q) PROVE pass'[q] # pass[q]
    <3>1. PICK c \in Actions : c = pass[q].cursor
      BY <1>t DEF PassType
    <3>2. CASE IsTail(c)
      <4>1. pass'[q].pc = "stamp" /\ pass[q].pc = "delete"
        BY <2>1, <3>1, <3>2, <1>t DEF Delete, PassType
      <4>2. QED
        BY <4>1
    <3>3. CASE ~IsTail(c)
      <4>1. pass'[q].cursor = c + 1
        BY <2>1, <3>1, <3>3, <1>t DEF Delete, PassType
      <4>2. c + 1 # c
        BY DEF Actions
      <4>3. QED
        BY <4>1, <4>2, <3>1
    <3>4. QED
      BY <3>2, <3>3
  <2>2. QED
    BY <2>1, <1>d
<1>1. ASSUME NEW p \in Passes,
             \/ StartPass(p) \/ Claim(p) \/ LoseClaim(p) \/ Refresh(p) \/ Fail(p)
      PROVE  /\ \A q \in Passes : pass'[q].pc = "enqueue" =>
                  \A i \in exist' \ pass'[q].todo : Served(i)'
             /\ job'.state = "done" => \A i \in exist' : Served(i)'
  <2>1. /\ \A q \in Passes \ {p} : pass'[q] = pass[q]
        /\ pass'[p].pc \in {"idle", "claim", "refresh", "resolve"}
        /\ pass[p].pc \in {"idle", "claim", "refresh", "resolve"}
    <3>1. CASE StartPass(p)
      <4>1. PICK q \in {IdlePass, [IdlePass EXCEPT !.pc = "claim", !.seen = Reaped.state]} :
              pass' = [pass EXCEPT ![p] = q]
        BY <3>1 DEF StartPass
      <4>2. q.pc \in {"idle", "claim"}
        <5>1. \A s : [IdlePass EXCEPT !.pc = "claim", !.seen = s].pc = "claim"
          BY DEF IdlePass
        <5>2. IdlePass.pc = "idle"
          BY DEF IdlePass
        <5>3. QED
          BY <4>1, <5>1, <5>2
      <4>3. QED
        BY <3>1, <4>1, <4>2, <1>t DEF StartPass
    <3>2. CASE Claim(p)
      BY <3>2, <1>t DEF Claim, IdlePass
    <3>3. CASE LoseClaim(p) \/ Fail(p)
      BY <3>3, <1>t DEF LoseClaim, Fail, IdlePass
    <3>4. CASE Refresh(p)
      BY <3>4, <1>t DEF Refresh, PassType
    <3>5. QED
      BY <1>1, <3>1, <3>2, <3>3, <3>4
  <2>2. ~Delete(p)
    BY <2>1 DEF Delete
  <2>3. \A q \in Passes, i \in exist' : Covers(q, i) => Covers(q, i)'
    BY <2>1 DEF Covers
  <2>4. job'.state = "done" => job.state = "done"
    BY <1>1, <1>t DEF StartPass, Claim, LoseClaim, Refresh, Fail, Reaped, JobType
  <2>5. \A i \in exist' : Served(i) => Served(i)'
    BY <2>1, <2>2, <2>3, <1>d, <1>s
  <2>6. \A q \in Passes : pass'[q].pc = "enqueue" => pass[q].pc = "enqueue" /\ pass'[q] = pass[q]
    BY <2>1
  <2>7. \A q \in Passes : pass'[q].pc = "enqueue" =>
          /\ pass[q].pc = "enqueue"
          /\ \A i \in exist' \ pass'[q].todo : i \in pass[q].todo => Served(i)'
    BY <2>6
  <2>8. QED
    BY <2>4, <2>5, <2>7, <1>g
<1>2. ASSUME NEW p \in Passes, Resolve(p) \/ Stamp(p)
      PROVE  /\ \A q \in Passes : pass'[q].pc = "enqueue" =>
                  \A i \in exist' \ pass'[q].todo : Served(i)'
             /\ job'.state = "done" => \A i \in exist' : Served(i)'
  <2>1. /\ \A q \in Passes \ {p} : pass'[q] = pass[q]
        /\ \/ pass'[p].pc = "delete" /\ pass[p].pc = "resolve"
           \/ pass'[p].pc = "enqueue" /\ pass'[p].todo = Items
        /\ pass[p].pc \in {"resolve", "stamp"}
    <3>1. CASE Resolve(p)
      BY <3>1, <1>t DEF Resolve, PassType
    <3>2. CASE Stamp(p)
      BY <3>2, <1>t DEF Stamp, PassType
    <3>3. QED
      BY <1>2, <3>1, <3>2
  <2>2. ~Delete(p)
    BY <2>1 DEF Delete
  <2>3. \A q \in Passes, i \in exist' : Covers(q, i) => Covers(q, i)'
    BY <2>1, <1>t, <1>m DEF Covers
  <2>4. job'.state = "done" => job.state = "done"
    BY <1>2, <1>t DEF Resolve, Stamp, JobType
  <2>5. \A i \in exist' : Served(i) => Served(i)'
    BY <2>1, <2>2, <2>3, <1>d, <1>s
  <2>6. \A q \in Passes : pass'[q].pc = "enqueue" =>
          \/ /\ pass[q].pc = "enqueue"
             /\ \A i \in exist' \ pass'[q].todo : i \in pass[q].todo => Served(i)'
          \/ exist' \subseteq pass'[q].todo
    <3>1. \A q \in Passes \ {p} : pass'[q].todo = pass[q].todo
      BY <2>1
    <3>2. QED
      BY <2>1, <3>1, <1>t, <1>m
  <2>7. QED
    BY <2>4, <2>5, <2>6, <1>g
<1>3. ASSUME NEW p \in Passes, Delete(p)
      PROVE  /\ \A q \in Passes : pass'[q].pc = "enqueue" =>
                  \A i \in exist' \ pass'[q].todo : Served(i)'
             /\ job'.state = "done" => \A i \in exist' : Served(i)'
  <2>1. pass'[p].pc \in {"delete", "stamp"}
    BY <1>3, <1>t DEF Delete, PassType
  <2>2. \A i : Served(i)'
    BY <2>1 DEF Served, Covers
  <2>3. QED
    BY <2>2
<1>4. ASSUME NEW p \in Passes, NEW k \in Items, EnqueueChunk(p, k)
      PROVE  /\ \A q \in Passes : pass'[q].pc = "enqueue" =>
                  \A i \in exist' \ pass'[q].todo : Served(i)'
             /\ job'.state = "done" => \A i \in exist' : Served(i)'
  <2>1. /\ \A q \in Passes \ {p} : pass'[q] = pass[q]
        /\ pass[p].pc = "enqueue" /\ pass'[p].pc = "enqueue"
        /\ pass'[p].todo = pass[p].todo \ {k}
    BY <1>4, <1>t DEF EnqueueChunk, PassType
  <2>2. ~Delete(p) /\ job' = job
    BY <2>1, <1>4 DEF Delete, EnqueueChunk
  <2>3. row'[Target][k] # Absent
    BY <1>4, <1>t DEF EnqueueChunk, Queued, Absent
  <2>4. \A q \in Passes, i \in exist' :
          Covers(q, i) => Covers(q, i)' \/ row'[Target][i] # Absent
    BY <2>1, <2>3 DEF Covers
  <2>5. \A i \in exist' : Served(i) => Served(i)'
    BY <2>1, <2>2, <2>4, <1>d, <1>s
  <2>6. Served(k)'
    BY <2>3 DEF Served
  <2>7. \A q \in Passes : pass'[q].pc = "enqueue" =>
          /\ pass[q].pc = "enqueue"
          /\ \A i \in exist' \ pass'[q].todo : i \in pass[q].todo => Served(i)'
    <3>1. \A q \in Passes \ {p} : pass'[q].todo = pass[q].todo
      BY <2>1
    <3>2. QED
      BY <2>1, <2>6, <3>1
  <2>8. QED
    BY <2>2, <2>5, <2>7, <1>g
<1>5. ASSUME NEW p \in Passes, Finish(p)
      PROVE  /\ \A q \in Passes : pass'[q].pc = "enqueue" =>
                  \A i \in exist' \ pass'[q].todo : Served(i)'
             /\ job'.state = "done" => \A i \in exist' : Served(i)'
  <2>1. /\ \A q \in Passes \ {p} : pass'[q] = pass[q]
        /\ pass[p].pc = "enqueue" /\ pass'[p].pc = "idle"
        /\ \A i \in exist : i \notin pass[p].todo
    BY <1>5, <1>t DEF Finish, IdlePass, Ahead
  <2>2. ~Delete(p)
    BY <2>1 DEF Delete
  <2>3. \A q \in Passes, i \in exist' : Covers(q, i) => Covers(q, i)'
    BY <2>1, <1>m DEF Covers
  <2>4. \A i \in exist' : Served(i) => Served(i)'
    BY <2>1, <2>2, <2>3, <1>d, <1>s
  <2>5. \A i \in exist' : Served(i)'
    BY <2>1, <2>4, <1>h, <1>m
  <2>6. QED
    BY <2>5
<1>6. ASSUME NEW p \in Passes, Die(p)
      PROVE  /\ \A q \in Passes : pass'[q].pc = "enqueue" =>
                  \A i \in exist' \ pass'[q].todo : Served(i)'
             /\ job'.state = "done" => \A i \in exist' : Served(i)'
  <2>1. ~overlap
    BY <1>6, <1>t, <1>m DEF Die
  <2>2. InCharge /\ AtWorkAlone
    BY <2>1 DEF OneDelete
  <2>3. Working(p) /\ pass' = [pass EXCEPT ![p] = IdlePass] /\ job' = job
    BY <1>6 DEF Die
  <2>4. job'.state = "running"
    BY <2>2, <2>3 DEF InCharge
  <2>5. pass'[p].pc = "idle" /\ \A q \in Passes \ {p} : pass'[q].pc = pass[q].pc
    BY <2>3, <1>t DEF IdlePass
  <2>6. \A q \in Passes : pass'[q].pc # "enqueue"
    BY <2>2, <2>3, <2>5 DEF AtWorkAlone, Working
  <2>7. QED
    BY <2>4, <2>6
<1>7. ASSUME \/ \E a \in Actions, i \in Items : Succeed(a, i) \/ Drop(a, i)
             \/ \E i \in Items : Prune(i)
             \/ RemoveTarget \/ Age \/ UNCHANGED vars
      PROVE  /\ \A q \in Passes : pass'[q].pc = "enqueue" =>
                  \A i \in exist' \ pass'[q].todo : Served(i)'
             /\ job'.state = "done" => \A i \in exist' : Served(i)'
  <2>1. \A q \in Passes : /\ pass'[q].pc = pass[q].pc
                          /\ pass'[q].todo = pass[q].todo
                          /\ pass'[q].cursor = pass[q].cursor
    <3>1. CASE Age
      BY <3>1, <1>t DEF Age, PassType
    <3>2. CASE ~Age
      BY <3>2, <1>7 DEF Succeed, Drop, Prune, RemoveTarget, vars
    <3>3. QED
      BY <3>1, <3>2
  <2>2. ~\E q \in Passes : Delete(q)
    <3>1. ASSUME NEW q \in Passes, Delete(q) PROVE FALSE
      <4>1. PICK c \in Actions : c = pass[q].cursor
        BY <1>t DEF PassType
      <4>2. c + 1 # c
        BY DEF Actions
      <4>3. pass[q].pc = "delete" /\ (pass'[q].pc = "stamp" \/ pass'[q].cursor = c + 1)
        BY <3>1, <4>1, <1>t DEF Delete, PassType
      <4>4. QED
        BY <2>1, <4>1, <4>2, <4>3
    <3>2. QED
      BY <3>1
  <2>3. \A q \in Passes, i \in exist' : Covers(q, i) => Covers(q, i)'
    BY <2>1 DEF Covers
  <2>4. job'.state = job.state
    BY <1>7, <1>t DEF Succeed, Drop, Prune, RemoveTarget, Age, vars, JobType
  <2>5. \A i \in exist' : Served(i) => Served(i)'
    BY <2>2, <2>3, <1>s
  <2>6. \A q \in Passes : pass'[q].pc = "enqueue" =>
          /\ pass[q].pc = "enqueue"
          /\ \A i \in exist' \ pass'[q].todo : i \in pass[q].todo => Served(i)'
    BY <2>1
  <2>7. QED
    BY <2>4, <2>5, <2>6, <1>g
<1>8. QED
  BY <1>1, <1>2, <1>3, <1>4, <1>5, <1>6, <1>7, Zenon DEF Next, Work

LEMMA CompleteHolds == Spec => []Complete
<1>1. Init => Complete
  <2>1. ASSUME Init PROVE Complete
    <3>1. (\A p \in Passes : pass[p].pc = "idle") /\ job.state = "pending"
      BY <2>1 DEF Init, IdlePass
    <3>2. QED
      BY <3>1 DEF Complete
  <2>2. QED
    BY <2>1
<1>2. TypeOK /\ OneDelete /\ Complete /\ [Next]_vars => Complete'
  BY CompleteStep
<1>3. QED
  BY <1>1, <1>2, OneDeleteHolds, PTL DEF Spec

\* A job is DONE only when every item retention has left has its run of the
\* target, whatever died, was pruned or ran beside it; only the death of an
\* attempt in a job that was reaped while one lived may undo that.
THEOREM DoneMeansComplete == Spec => []DoneIsComplete
<1>1. Complete => DoneIsComplete
  <2>1. ASSUME Complete, job.state = "done", Quiet, ~(overlap /\ faults > 0), NEW i \in exist
        PROVE  row[Target][i] # Absent
    <3>1. Served(i)
      BY <2>1 DEF Complete
    <3>2. \A q \in Passes : ~Covers(q, i)
      BY <2>1 DEF Quiet, Working, Covers
    <3>3. QED
      BY <3>1, <3>2 DEF Served
  <2>2. QED
    BY <2>1 DEF DoneIsComplete
<1>2. QED
  BY <1>1, CompleteHolds, PTL

-----------------------------------------------------------------------------
(* A replace regenerates.  While no live attempt has been reaped, the items *)
(* idle when a delete phase began stay idle through it, for nothing is      *)
(* queued meanwhile: the phase leaves none of their runs, and what is       *)
(* queued after the stamp is this job's.                                    *)

\* A run that is absent carries no freshness.
Proper == \A a \in Actions, i \in Items : row[a][i].state = "absent" => row[a][i] = Absent

\* How far the delete phase has come.
Wiped ==
  \A p \in Passes :
    /\ pass[p].pc \in {"refresh", "resolve"} => pass[p].cursor = Target
    /\ pass[p].pc \in {"delete", "stamp"} =>
         \A i \in exist \ busy :
           /\ Idle(i)
           /\ \A a \in Actions : pass[p].pc = "stamp" \/ a < pass[p].cursor => row[a][i] = Absent

\* After the stamp there are new runs only, and no gap after a success.
Anew ==
  job.marker => \A i \in exist \ busy, a \in Actions :
    /\ row[a][i] # Absent => row[a][i].fresh
    /\ a # ChainLength /\ row[a][i].state = "succeeded" => row[a + 1][i] # Absent

DoneMarked == job.replace /\ job.state = "done" => job.marker

Replaced == ~overlap => Wiped /\ Anew /\ DoneMarked

\* What a step makes of one run.
LEMMA RowMoves ==
  ASSUME TypeOK, [Next]_vars, NEW a \in Actions, NEW i \in Items
  PROVE  \/ row'[a][i] = row[a][i]
         \/ row'[a][i] = Absent /\ \E p \in Passes : Delete(p)
         \/ row'[a][i] = Queued(TRUE)
         \/ /\ InFlight(a, i) /\ row'[a][i].state = "dropped"
            /\ row[a][i].fresh => row'[a][i].fresh
         \/ /\ InFlight(a, i) /\ row'[a][i].state = "succeeded"
            /\ row[a][i].fresh => row'[a][i].fresh
            /\ a # ChainLength => row'[a + 1][i] # Absent
         \/ \E b \in Actions : InFlight(b, i) /\ row'[a][i] = Queued(row[b][i].fresh)
<1>t. row \in [Actions -> [Items -> RowType]]
  BY DEF TypeOK
<1>1. ASSUME NEW p \in Passes, NEW k \in Items, EnqueueChunk(p, k)
      PROVE  row'[a][i] = row[a][i] \/ row'[a][i] = Queued(TRUE)
  BY <1>1, <1>t DEF EnqueueChunk
<1>2. ASSUME NEW p \in Passes, Delete(p)
      PROVE  row'[a][i] = row[a][i] \/ row'[a][i] = Absent
  BY <1>2, <1>t DEF Delete
<1>3. ASSUME NEW b \in Actions, NEW k \in Items, Drop(b, k)
      PROVE  \/ row'[a][i] = row[a][i]
             \/ /\ InFlight(a, i) /\ row'[a][i].state = "dropped"
                /\ row[a][i].fresh => row'[a][i].fresh
  <2>1. row' = [row EXCEPT ![b][k].state = "dropped"] /\ InFlight(b, k)
    BY <1>3 DEF Drop
  <2>2. CASE a = b /\ i = k
    BY <2>1, <2>2, <1>t DEF RowType
  <2>3. CASE ~(a = b /\ i = k)
    BY <2>1, <2>3, <1>t
  <2>4. QED
    BY <2>2, <2>3
<1>4. ASSUME NEW b \in Actions, NEW k \in Items, Succeed(b, k)
      PROVE  \/ row'[a][i] = row[a][i]
             \/ /\ InFlight(a, i) /\ row'[a][i].state = "succeeded"
                /\ row[a][i].fresh => row'[a][i].fresh
                /\ a # ChainLength => row'[a + 1][i] # Absent
             \/ InFlight(b, i) /\ row'[a][i] = Queued(row[b][i].fresh)
  <2> DEFINE r == [row EXCEPT ![b][k].state = "succeeded"]
  <2>1. r \in [Actions -> [Items -> RowType]]
    BY <1>t, RunWrites, Zenon
  <2>2. InFlight(b, k)
    BY <1>4 DEF Succeed
  <2>3. /\ r[b][k].state = "succeeded" /\ (row[b][k].fresh => r[b][k].fresh)
        /\ \A c \in Actions, j \in Items : ~(c = b /\ j = k) => r[c][j] = row[c][j]
    BY <1>t DEF RowType
  <2>4. CASE ~IsTail(b) /\ row[b + 1][k] = Absent
    <3>1. row' = [r EXCEPT ![b + 1][k] = Queued(row[b][k].fresh)]
      BY <1>4, <2>4 DEF Succeed
    <3>2. b + 1 \in Actions /\ b + 1 # b
      BY <2>4, SettingsAssumption DEF IsTail, Actions
    <3> HIDE DEF r
    <3>3. /\ row'[b + 1][k] = Queued(row[b][k].fresh)
          /\ \A c \in Actions, j \in Items : ~(c = b + 1 /\ j = k) => row'[c][j] = r[c][j]
      BY <2>1, <3>1, <3>2
    <3>4. Queued(row[b][k].fresh) # Absent
      BY DEF Queued, Absent
    <3>5. CASE a = b + 1 /\ i = k
      BY <3>3, <3>5, <2>2
    <3>6. CASE a = b /\ i = k
      BY <3>2, <3>3, <3>4, <3>6, <2>2, <2>3
    <3>7. CASE ~(a = b + 1 /\ i = k) /\ ~(a = b /\ i = k)
      BY <3>3, <3>7, <2>3
    <3>8. QED
      BY <3>5, <3>6, <3>7
  <2>5. CASE ~(~IsTail(b) /\ row[b + 1][k] = Absent)
    <3>1. row' = r
      BY <1>4, <2>5 DEF Succeed
    <3> HIDE DEF r
    <3>2. CASE a = b /\ i = k
      <4>1. a # ChainLength => row'[a + 1][i] # Absent
        <5>1. ASSUME a # ChainLength PROVE row'[a + 1][i] # Absent
          <6>1. a + 1 \in Actions /\ a + 1 # a
            BY <5>1, SettingsAssumption DEF Actions
          <6>2. row'[a + 1][i] = row[a + 1][i]
            BY <3>1, <3>2, <2>3, <6>1
          <6>3. QED
            BY <6>2, <5>1, <3>2, <2>5 DEF IsTail
        <5>2. QED
          BY <5>1
      <4>2. QED
        BY <4>1, <3>1, <3>2, <2>2, <2>3
    <3>3. CASE ~(a = b /\ i = k)
      BY <3>1, <3>3, <2>3
    <3>4. QED
      BY <3>2, <3>3
  <2>6. QED
    BY <2>4, <2>5
<1>5. ASSUME NEW p \in Passes,
             \/ StartPass(p) \/ Claim(p) \/ LoseClaim(p) \/ Refresh(p) \/ Fail(p)
             \/ Resolve(p) \/ Stamp(p) \/ Finish(p) \/ Die(p)
      PROVE  row' = row
  BY <1>5 DEF StartPass, Claim, LoseClaim, Refresh, Fail, Resolve, Stamp, Finish, Die
<1>6. ASSUME (\E k \in Items : Prune(k)) \/ RemoveTarget \/ Age \/ UNCHANGED vars
      PROVE  row' = row
  BY <1>6 DEF Prune, RemoveTarget, Age, vars
<1>7. QED
  BY <1>1, <1>2, <1>3, <1>4, <1>5, <1>6, Zenon DEF Next, Work

LEMMA ProperStep ==
  ASSUME TypeOK, Proper, [Next]_vars
  PROVE  Proper'
<1>1. ASSUME NEW a \in Actions, NEW i \in Items, row'[a][i].state = "absent"
      PROVE  row'[a][i] = Absent
  <2>1. row'[a][i] = row[a][i] \/ row'[a][i] = Absent \/ row'[a][i].state # "absent"
    <3>1. \A b : Queued(b).state # "absent"
      BY DEF Queued
    <3>2. \/ row'[a][i] = row[a][i] \/ row'[a][i] = Absent
          \/ row'[a][i].state = "dropped" \/ row'[a][i].state = "succeeded"
          \/ \E b : row'[a][i] = Queued(b)
      BY RowMoves, Zenon
    <3>3. QED
      BY <3>1, <3>2
  <2>2. QED
    BY <2>1, <1>1 DEF Proper
<1>2. QED
  BY <1>1 DEF Proper

-----------------------------------------------------------------------------
LEMMA WipedStep ==
  ASSUME TypeOK, OneDelete, Proper, Wiped, ~overlap, [Next]_vars
  PROVE  Wiped'
<1>t. /\ pass \in [Passes -> PassType] /\ row \in [Actions -> [Items -> RowType]]
      /\ exist \subseteq Items
  BY DEF TypeOK
<1>a. AtWorkAlone
  BY DEF OneDelete
<1>m. exist' \subseteq exist /\ busy \subseteq busy'
  BY Monotone
\* Passes that keep their place keep what they have wiped.
<1>s. ASSUME NEW q \in Passes, pass'[q].pc = pass[q].pc, pass'[q].cursor = pass[q].cursor,
             \A i \in exist' \ busy', a \in Actions :
               pass[q].pc \in {"delete", "stamp"} => row'[a][i] = row[a][i]
      PROVE  /\ pass'[q].pc \in {"refresh", "resolve"} => pass'[q].cursor = Target
             /\ pass'[q].pc \in {"delete", "stamp"} =>
                  \A i \in exist' \ busy' :
                    /\ Idle(i)'
                    /\ \A a \in Actions :
                         pass'[q].pc = "stamp" \/ a < pass'[q].cursor => row'[a][i] = Absent
  <2>1. pass'[q].pc \in {"refresh", "resolve"} => pass'[q].cursor = Target
    BY <1>s DEF Wiped
  <2>2. ASSUME pass'[q].pc \in {"delete", "stamp"}, NEW i \in exist' \ busy'
        PROVE  /\ Idle(i)'
               /\ \A a \in Actions :
                    pass'[q].pc = "stamp" \/ a < pass'[q].cursor => row'[a][i] = Absent
    <3>1. /\ i \in exist \ busy /\ pass[q].pc \in {"delete", "stamp"}
          /\ \A a \in Actions : row'[a][i] = row[a][i]
      BY <2>2, <1>s, <1>m
    <3>2. /\ Idle(i)
          /\ \A a \in Actions : pass[q].pc = "stamp" \/ a < pass[q].cursor => row[a][i] = Absent
      BY <3>1 DEF Wiped
    <3>3. QED
      BY <3>1, <3>2, <1>s DEF Idle, InFlight
  <2>3. QED
    BY <2>1, <2>2
<1>1. ASSUME NEW p \in Passes,
             \/ StartPass(p) \/ Claim(p) \/ LoseClaim(p) \/ Refresh(p) \/ Fail(p)
             \/ Stamp(p) \/ Finish(p) \/ Die(p)
      PROVE  Wiped'
  <2>1. row' = row
    BY <1>1 DEF StartPass, Claim, LoseClaim, Refresh, Fail, Stamp, Finish, Die
  <2>2. /\ \A q \in Passes \ {p} : pass'[q] = pass[q]
        /\ \/ pass'[p].pc \in {"idle", "claim", "enqueue"}
           \/ pass'[p].pc \in {"refresh", "resolve"} /\ pass'[p].cursor = Target
    <3>1. CASE StartPass(p)
      <4>1. PICK q \in {IdlePass, [IdlePass EXCEPT !.pc = "claim", !.seen = Reaped.state]} :
              pass' = [pass EXCEPT ![p] = q]
        BY <3>1 DEF StartPass
      <4>2. \A s : [IdlePass EXCEPT !.pc = "claim", !.seen = s].pc = "claim"
        BY DEF IdlePass
      <4>3. IdlePass.pc = "idle"
        BY DEF IdlePass
      <4>4. q.pc \in {"idle", "claim"}
        BY <4>1, <4>2, <4>3
      <4>5. QED
        BY <4>1, <4>4, <1>t
    <3>2. CASE Claim(p)
      BY <3>2, <1>t DEF Claim, IdlePass
    <3>3. CASE LoseClaim(p) \/ Fail(p) \/ Finish(p) \/ Die(p)
      BY <3>3, <1>t DEF LoseClaim, Fail, Finish, Die, IdlePass
    <3>4. CASE Refresh(p)
      <4>1. pass[p].cursor = Target
        BY <3>4 DEF Wiped, Refresh
      <4>2. QED
        BY <3>4, <4>1, <1>t DEF Refresh, PassType
    <3>5. CASE Stamp(p)
      BY <3>5, <1>t DEF Stamp, PassType
    <3>6. QED
      BY <1>1, <3>1, <3>2, <3>3, <3>4, <3>5
  <2>3. ASSUME NEW q \in Passes \ {p}
        PROVE  /\ pass'[q].pc \in {"refresh", "resolve"} => pass'[q].cursor = Target
               /\ pass'[q].pc \in {"delete", "stamp"} =>
                    \A i \in exist' \ busy' :
                      /\ Idle(i)'
                      /\ \A a \in Actions :
                           pass'[q].pc = "stamp" \/ a < pass'[q].cursor => row'[a][i] = Absent
    BY <2>1, <2>2, <1>s
  <2>4. QED
    BY <2>2, <2>3 DEF Wiped
<1>2. ASSUME NEW p \in Passes, Resolve(p) PROVE Wiped'
  <2>1. row' = row /\ pass[p].pc = "resolve"
    BY <1>2 DEF Resolve
  <2>2. /\ \A q \in Passes \ {p} : pass'[q] = pass[q]
        /\ pass'[p].pc = IF Deletes(p) THEN "delete" ELSE "enqueue"
        /\ pass'[p].cursor = Target
    <3>1. pass[p].cursor = Target
      BY <2>1 DEF Wiped
    <3>2. QED
      BY <1>2, <3>1, <1>t DEF Resolve, PassType
  <2>3. ASSUME NEW q \in Passes \ {p}
        PROVE  /\ pass'[q].pc \in {"refresh", "resolve"} => pass'[q].cursor = Target
               /\ pass'[q].pc \in {"delete", "stamp"} =>
                    \A i \in exist' \ busy' :
                      /\ Idle(i)'
                      /\ \A a \in Actions :
                           pass'[q].pc = "stamp" \/ a < pass'[q].cursor => row'[a][i] = Absent
    BY <2>1, <2>2, <1>s
  <2>4. ASSUME Deletes(p), NEW i \in exist' \ busy' PROVE Idle(i)'
    <3>1. i \in Items /\ busy' = busy \cup {k \in Items : \E a \in Actions : InFlight(a, k)}
      BY <2>4, <1>2, <1>t, <1>m DEF Resolve
    <3>2. \A a \in Actions : ~InFlight(a, i)
      BY <3>1, <2>4
    <3>3. QED
      BY <3>2, <2>1 DEF Idle, InFlight
  <2>5. \A a \in Actions : ~(a < Target)
    BY DEF Actions, Target
  <2>6. /\ pass'[p].pc \in {"refresh", "resolve"} => pass'[p].cursor = Target
        /\ pass'[p].pc \in {"delete", "stamp"} =>
             \A i \in exist' \ busy' :
               /\ Idle(i)'
               /\ \A a \in Actions :
                    pass'[p].pc = "stamp" \/ a < pass'[p].cursor => row'[a][i] = Absent
    BY <2>2, <2>4, <2>5
  <2>7. QED
    BY <2>3, <2>6 DEF Wiped
<1>3. ASSUME NEW p \in Passes, Delete(p) PROVE Wiped'
  <2> DEFINE a0 == pass[p].cursor
  <2>1. /\ pass[p].pc = "delete" /\ Working(p) /\ a0 \in Actions
        /\ exist' = exist /\ busy' = busy
    BY <1>3, <1>t DEF Delete, Working, PassType
  <2>2. /\ \A q \in Passes \ {p} : pass'[q] = pass[q]
        /\ \/ IsTail(a0) /\ pass'[p].pc = "stamp"
           \/ pass'[p].pc = "delete" /\ pass'[p].cursor = a0 + 1
    BY <1>3, <1>t DEF Delete, PassType
  <2>3. \A q \in Passes \ {p} : ~Working(q)
    BY <2>1, <1>a DEF AtWorkAlone
  <2>4. ASSUME NEW i \in exist \ busy
        PROVE  Idle(i)' /\ \A a \in Actions : a < a0 \/ a = a0 => row'[a][i] = Absent
    <3>1. Idle(i) /\ \A a \in Actions : a < a0 => row[a][i] = Absent
      BY <2>1, <2>4 DEF Wiped
    <3>2. \A a \in Actions : a # a0 => row'[a][i] = row[a][i]
      BY <1>3, <2>1, <1>t DEF Delete
    <3>3. row'[a0][i] = Absent
      <4>1. row[a0][i].state \in {"absent", "succeeded", "dropped"}
        BY <2>1, <3>1, <1>t DEF Idle, InFlight, RowType
      <4>2. Deletable(a0, i) \/ row[a0][i] = Absent
        BY <2>1, <4>1, <1>t DEF Deletable, Proper
      <4>3. row'[a0][i] = IF i \in exist /\ Deletable(a0, i) THEN Absent ELSE row[a0][i]
        BY <1>3, <2>1, <1>t DEF Delete
      <4>4. QED
        BY <4>2, <4>3
    <3>4. Absent.state = "absent"
      BY DEF Absent
    <3>5. \A a \in Actions : row'[a][i] = Absent \/ row'[a][i] = row[a][i]
      BY <3>2, <3>3
    <3>6. Idle(i)'
      BY <3>1, <3>4, <3>5 DEF Idle, InFlight
    <3>7. \A a \in Actions : a < a0 => row'[a][i] = Absent
      <4>1. \A a \in Actions : a < a0 => a # a0
        BY <2>1 DEF Actions
      <4>2. QED
        BY <3>1, <3>2, <4>1
    <3>8. QED
      BY <3>3, <3>6, <3>7
  <2> HIDE DEF a0
  <2>5. /\ IsTail(a0) => \A a \in Actions : a < a0 \/ a = a0
        /\ \A a \in Actions : a < a0 + 1 => a < a0 \/ a = a0
    BY <2>1, SettingsAssumption DEF IsTail, Actions
  <2>6. /\ pass'[p].pc \notin {"refresh", "resolve"}
        /\ \A i \in exist' \ busy' :
             /\ Idle(i)'
             /\ \A a \in Actions :
                  pass'[p].pc = "stamp" \/ a < pass'[p].cursor => row'[a][i] = Absent
    <3>1. ASSUME NEW i \in exist' \ busy', NEW a \in Actions,
                 pass'[p].pc = "stamp" \/ a < pass'[p].cursor
          PROVE  row'[a][i] = Absent
      <4>1. a < a0 \/ a = a0
        BY <2>2, <2>5, <3>1
      <4>2. QED
        BY <4>1, <3>1, <2>1, <2>4
    <3>2. QED
      BY <3>1, <2>1, <2>2, <2>4
  <2>7. QED
    BY <2>2, <2>3, <2>6 DEF Wiped, Working
<1>4. ASSUME NEW p \in Passes, NEW k \in Items, EnqueueChunk(p, k) PROVE Wiped'
  <2>1. /\ pass[p].pc = "enqueue" /\ Working(p) /\ pass'[p].pc = "enqueue"
        /\ \A q \in Passes \ {p} : pass'[q] = pass[q]
    BY <1>4, <1>t DEF EnqueueChunk, Working, PassType
  <2>2. \A q \in Passes \ {p} : ~Working(q)
    BY <2>1, <1>a DEF AtWorkAlone
  <2>3. QED
    BY <2>1, <2>2 DEF Wiped, Working
<1>5. ASSUME \/ \E b \in Actions, k \in Items : Succeed(b, k) \/ Drop(b, k)
             \/ \E k \in Items : Prune(k)
             \/ RemoveTarget \/ Age \/ UNCHANGED vars
      PROVE  Wiped'
  <2>1. \A q \in Passes : pass'[q].pc = pass[q].pc /\ pass'[q].cursor = pass[q].cursor
    <3>1. CASE Age
      BY <3>1, <1>t DEF Age, PassType
    <3>2. CASE ~Age
      BY <3>2, <1>5 DEF Succeed, Drop, Prune, RemoveTarget, vars
    <3>3. QED
      BY <3>1, <3>2
  <2>2. ASSUME NEW q \in Passes, pass[q].pc \in {"delete", "stamp"},
               NEW i \in exist' \ busy', NEW a \in Actions
        PROVE  row'[a][i] = row[a][i]
    <3>1. i \in exist \ busy /\ i \in Items
      BY <2>2, <1>m, <1>t
    <3>2. \A b \in Actions : ~InFlight(b, i)
      BY <2>2, <3>1 DEF Wiped, Idle
    <3>3. CASE \E b \in Actions, k \in Items : Succeed(b, k) \/ Drop(b, k)
      <4>1. PICK b \in Actions, k \in Items : Succeed(b, k) \/ Drop(b, k)
        BY <3>3
      <4>2. k # i
        BY <4>1, <3>2 DEF Succeed, Drop
      <4>3. CASE Drop(b, k)
        BY <4>2, <4>3, <3>1, <1>t DEF Drop
      <4>4. CASE Succeed(b, k)
        <5> DEFINE r == [row EXCEPT ![b][k].state = "succeeded"]
        <5>1. r \in [Actions -> [Items -> RowType]]
          BY <1>t, RunWrites, Zenon
        <5>2. r[a][i] = row[a][i]
          BY <4>2, <3>1, <1>t
        <5>3. row' = r \/ row' = [r EXCEPT ![b + 1][k] = Queued(row[b][k].fresh)]
          BY <4>4 DEF Succeed
        <5> HIDE DEF r
        <5>4. QED
          BY <5>1, <5>2, <5>3, <4>2, <3>1
      <4>5. QED
        BY <4>1, <4>3, <4>4
    <3>4. CASE ~\E b \in Actions, k \in Items : Succeed(b, k) \/ Drop(b, k)
      BY <3>4, <1>5 DEF Prune, RemoveTarget, Age, vars
    <3>5. QED
      BY <3>3, <3>4
  <2>3. QED
    BY <2>1, <2>2, <1>s DEF Wiped
<1>6. QED
  BY <1>1, <1>2, <1>3, <1>4, <1>5, Zenon DEF Next, Work

\* Only the stamp sets the marker, only a finish makes a job done, and which
\* kind of job it is stays.
LEMMA JobMoves ==
  ASSUME TypeOK, [Next]_vars
  PROVE  /\ job'.replace <=> job.replace
         /\ job.marker => job'.marker
         /\ job'.marker => job.marker \/ \E p \in Passes : Stamp(p)
         /\ job'.state = "done" => job.state = "done" \/ \E p \in Passes : Finish(p)
<1>t. job \in JobType
  BY DEF TypeOK
<1>1. ASSUME NEW p \in Passes, StartPass(p)
      PROVE  /\ job'.replace = job.replace /\ job'.marker = job.marker
             /\ job'.state = "done" => job.state = "done"
  BY <1>1, <1>t DEF StartPass, Reaped, JobType
<1>2. ASSUME NEW p \in Passes, Claim(p) \/ Fail(p)
      PROVE  /\ job'.replace = job.replace /\ job'.marker = job.marker
             /\ job'.state = "done" => job.state = "done"
  BY <1>2, <1>t DEF Claim, Fail, JobType
<1>3. ASSUME NEW p \in Passes, Stamp(p)
      PROVE  /\ job'.replace = job.replace /\ (job.marker => job'.marker)
             /\ job'.state = "done" => job.state = "done"
  BY <1>3, <1>t DEF Stamp, JobType
<1>4. ASSUME NEW p \in Passes, Finish(p)
      PROVE  job'.replace = job.replace /\ job'.marker = job.marker
  BY <1>4, <1>t DEF Finish, JobType
<1>5. ASSUME Age
      PROVE  /\ job'.replace = job.replace /\ job'.marker = job.marker
             /\ job'.state = "done" => job.state = "done"
  BY <1>5, <1>t DEF Age, JobType
<1>6. ASSUME NEW p \in Passes,
             \/ LoseClaim(p) \/ Refresh(p) \/ Resolve(p) \/ Delete(p) \/ Die(p)
             \/ \E i \in Items : EnqueueChunk(p, i)
      PROVE  job' = job
  BY <1>6 DEF LoseClaim, Refresh, Resolve, Delete, Die, EnqueueChunk
<1>7. ASSUME \/ \E a \in Actions, i \in Items : Succeed(a, i) \/ Drop(a, i)
             \/ \E i \in Items : Prune(i)
             \/ RemoveTarget \/ UNCHANGED vars
      PROVE  job' = job
  BY <1>7 DEF Succeed, Drop, Prune, RemoveTarget, vars
<1>8. QED
  BY <1>1, <1>2, <1>3, <1>4, <1>5, <1>6, <1>7, Zenon DEF Next, Work

LEMMA AnewStep ==
  ASSUME TypeOK, OneDelete, Wiped, Anew, ~overlap, [Next]_vars
  PROVE  Anew'
<1>m. exist' \subseteq exist /\ busy \subseteq busy' /\ exist \subseteq Items
  BY Monotone DEF TypeOK
<1>1. ASSUME NEW p \in Passes, Stamp(p) PROVE Anew'
  <2>1. pass[p].pc = "stamp" /\ UNCHANGED <<row, exist, busy>>
    BY <1>1 DEF Stamp
  <2>2. \A i \in exist \ busy, a \in Actions : row[a][i] = Absent
    BY <2>1 DEF Wiped
  <2>3. Absent.state # "succeeded"
    BY DEF Absent
  <2>4. QED
    BY <2>1, <2>2, <2>3 DEF Anew
<1>2. ASSUME ~\E p \in Passes : Stamp(p) PROVE Anew'
  <2>1. SUFFICES ASSUME job'.marker, NEW i \in exist' \ busy', NEW a \in Actions
                 PROVE  /\ row'[a][i] # Absent => row'[a][i].fresh
                        /\ a # ChainLength /\ row'[a][i].state = "succeeded"
                             => row'[a + 1][i] # Absent
    BY DEF Anew
  <2>2. job.marker
    BY <1>2, <2>1, JobMoves
  <2>3. ~\E p \in Passes : Delete(p)
    BY <2>2 DEF OneDelete, MarkerKnown, Delete
  <2>4. i \in exist \ busy /\ i \in Items
    BY <2>1, <1>m
  <2>5. \A b \in Actions : row[b][i] # Absent => row[b][i].fresh
    BY <2>2, <2>4 DEF Anew
  <2>6. \A b \in Actions : InFlight(b, i) => row[b][i] # Absent
    BY DEF InFlight, Absent
  <2>7. \A b \in BOOLEAN : Queued(b).state # "succeeded" /\ Queued(b).fresh = b
    BY DEF Queued
  <2>8. \A b \in Actions : row[b][i].fresh \in BOOLEAN
    BY <2>4 DEF TypeOK, RowType
  <2>9. \/ row'[a][i] = row[a][i]
        \/ row'[a][i].fresh /\ row'[a][i].state # "succeeded"
        \/ row'[a][i].fresh /\ (a # ChainLength => row'[a + 1][i] # Absent)
    <3>1. \/ row'[a][i] = row[a][i]
          \/ row'[a][i] = Queued(TRUE)
          \/ /\ InFlight(a, i) /\ row'[a][i].state = "dropped"
             /\ row[a][i].fresh => row'[a][i].fresh
          \/ /\ InFlight(a, i) /\ row'[a][i].state = "succeeded"
             /\ row[a][i].fresh => row'[a][i].fresh
             /\ a # ChainLength => row'[a + 1][i] # Absent
          \/ \E b \in Actions : InFlight(b, i) /\ row'[a][i] = Queued(row[b][i].fresh)
      BY <2>3, <2>4, RowMoves
    <3>2. CASE row'[a][i] = Queued(TRUE)
      BY <3>2, <2>7
    <3>3. ASSUME NEW b \in Actions, InFlight(b, i), row'[a][i] = Queued(row[b][i].fresh)
          PROVE  row'[a][i].fresh /\ row'[a][i].state # "succeeded"
      <4>1. row[b][i].fresh
        BY <3>3, <2>5, <2>6
      <4>2. QED
        BY <4>1, <3>3, <2>7, <2>8
    <3>4. InFlight(a, i) => row[a][i].fresh
      BY <2>5, <2>6
    <3>5. QED
      BY <3>1, <3>2, <3>3, <3>4
  <2>10. a # ChainLength /\ row[a][i].state = "succeeded" => row'[a + 1][i] # Absent
    <3>1. ASSUME a # ChainLength, row[a][i].state = "succeeded" PROVE row'[a + 1][i] # Absent
      <4>1. a + 1 \in Actions
        BY <3>1, SettingsAssumption DEF Actions
      <4>2. row[a + 1][i] # Absent
        BY <3>1, <2>2, <2>4 DEF Anew
      <4>3. QED
        BY <4>1, <4>2, <2>3, <2>4, RowsStay
    <3>2. QED
      BY <3>1
  <2>11. QED
    BY <2>5, <2>9, <2>10
<1>3. QED
  BY <1>1, <1>2

LEMMA ReplacedHolds == Spec => [](Proper /\ Replaced)
<1>1. Init => Proper /\ Replaced
  <2> SUFFICES ASSUME Init PROVE Proper /\ Replaced
    OBVIOUS
  <2>1. (\A p \in Passes : pass[p].pc = "idle") /\ job.state = "pending" /\ ~job.marker
    BY DEF Init, IdlePass
  <2>2. Proper
    <3>1. ASSUME NEW a \in Actions, NEW i \in Items, row[a][i].state = "absent"
          PROVE  row[a][i] = Absent
      <4>1. row[a][i] \in {[state |-> s, fresh |-> FALSE] :
                             s \in {"absent", "inflight", "succeeded", "dropped"}}
        BY DEF Init
      <4>2. PICK s : row[a][i] = [state |-> s, fresh |-> FALSE]
        BY <4>1
      <4>3. QED
        BY <4>2, <3>1 DEF Absent
    <3>2. QED
      BY <3>1 DEF Proper
  <2>3. QED
    BY <2>1, <2>2 DEF Replaced, Wiped, Anew, DoneMarked
<1>2. TypeOK /\ OneDelete /\ Proper /\ Replaced /\ [Next]_vars => (Proper /\ Replaced)'
  <2> SUFFICES ASSUME TypeOK, OneDelete, Proper, Replaced, [Next]_vars
               PROVE  (Proper /\ Replaced)'
    OBVIOUS
  <2>1. Proper'
    BY ProperStep
  <2>2. ASSUME ~overlap' PROVE Wiped' /\ Anew' /\ DoneMarked'
    <3>1. ~overlap /\ Wiped /\ Anew /\ DoneMarked
      BY <2>2, Monotone DEF Replaced
    <3>2. Wiped' /\ Anew'
      BY <3>1, WipedStep, AnewStep
    <3>3. DoneMarked'
      <4>1. ASSUME NEW p \in Passes, Finish(p) PROVE job.replace => job.marker
        BY <4>1, <3>1 DEF OneDelete, MarkerKnown, Finish
      <4>2. QED
        BY <4>1, <3>1, JobMoves DEF DoneMarked
    <3>4. QED
      BY <3>2, <3>3
  <2>3. QED
    BY <2>1, <2>2 DEF Replaced
<1>3. QED
  BY <1>1, <1>2, OneDeleteHolds, PTL DEF Spec

\* When a replace is done, an item retention has left has new runs only, from
\* the target to where the chain ended for it, whatever died and was tried
\* again around the delete: provided the item had no run in flight when a
\* delete phase began and no live attempt was reaped.
THEOREM ReplaceRenewsChain == Spec => []ReplaceRegenerates
<1>1. Complete /\ Replaced => ReplaceRegenerates
  <2>1. ASSUME Complete, Replaced, job.replace, job.state = "done", Quiet, ~overlap,
               NEW i \in exist \ busy
        PROVE  Regenerated(i)
    <3>1. /\ \A a \in Actions : row[a][i] # Absent => row[a][i].fresh
          /\ \A a \in Actions : a # ChainLength /\ row[a][i].state = "succeeded" =>
                                  row[a + 1][i] # Absent
      BY <2>1 DEF Replaced, DoneMarked, Anew
    <3>2. row[Target][i] # Absent
      <4>1. Served(i)
        BY <2>1 DEF Complete
      <4>2. \A q \in Passes : ~Covers(q, i)
        BY <2>1 DEF Quiet, Working, Covers
      <4>3. QED
        BY <4>1, <4>2 DEF Served
    <3>3. Target \in Actions /\ \A a \in Actions \ {ChainLength} : a + 1 \in Actions
      BY SettingsAssumption DEF Target, Actions
    <3>4. QED
      BY <3>1, <3>2, <3>3 DEF Regenerated
  <2>2. QED
    BY <2>1 DEF ReplaceRegenerates
<1>2. QED
  BY <1>1, CompleteHolds, ReplacedHolds, PTL
=============================================================================
