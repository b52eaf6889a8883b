------------------------- MODULE OutboundMailProofs -------------------------
(***************************************************************************)
(* OutboundMail for any number of processes, mails and attempts and any    *)
(* bounds on faults and slips: its types, that a mail marked SENT went     *)
(* out, that final rows are frozen, that there is one pass at a time while *)
(* no lease ends under a live pass and at most one more for each that      *)
(* does, and that every copy of a mail beyond its first has a cause of its *)
(* own: a crash, a failed write, a send that raised after the server took  *)
(* the mail, or a claim reaped from a live pass.                           *)
(***************************************************************************)
EXTENDS OutboundMail, FiniteSetTheorems, TLAPS

USE DEF history, Stale

-----------------------------------------------------------------------------
(* Types.                                                                  *)

LEMMA RowTypes ==
  ASSUME NEW r \in MailType
  PROVE  /\ \A s \in {"absent", "pending", "sending", "sent", "failed"} :
              /\ [r EXCEPT !.state = s] \in MailType
              /\ [r EXCEPT !.state = s, !.old = FALSE] \in MailType
              /\ [r EXCEPT !.state = s, !.old = FALSE, !.later = TRUE] \in MailType
         /\ [r EXCEPT !.later = FALSE] \in MailType
         /\ \A b \in BOOLEAN : [r EXCEPT !.old = b] \in MailType
         /\ Reaped(r) \in MailType
BY DEF MailType, Reaped, Orphaned

LEMMA PassTypes ==
  ASSUME NEW o \in PassType
  PROVE  /\ NewPass \in PassType
         /\ \A S \in SUBSET Mails : [o EXCEPT !.pc = "next", !.todo = S] \in PassType
         /\ \A b \in BOOLEAN : [o EXCEPT !.old = b] \in PassType
<1>1. NewPass \in PassType
  <2>1. 0 \in 0 .. MaxAttempts
    BY AttemptsAssumption
  <2>2. QED
    BY <2>1 DEF PassType, NewPass
<1>2. ASSUME NEW S \in SUBSET Mails PROVE [o EXCEPT !.pc = "next", !.todo = S] \in PassType
  BY DEF PassType
<1>3. ASSUME NEW b \in BOOLEAN PROVE [o EXCEPT !.old = b] \in PassType
  BY DEF PassType
<1>4. QED
  BY <1>1, <1>2, <1>3

LEMMA NextMailTypes ==
  ASSUME NEW f \in [Procs -> PassType], NEW p \in Procs
  PROVE  [f EXCEPT ![p].pc = "next", ![p].at = {}, ![p].stamp = 0] \in [Procs -> PassType]
<1>1. ASSUME NEW k \in 0 .. MaxAttempts, NEW S \in SUBSET Mails
      PROVE  [f EXCEPT ![p].pc = "next", ![p].at = S, ![p].stamp = k] \in [Procs -> PassType]
  BY DEF PassType
<1>2. 0 \in 0 .. MaxAttempts /\ {} \in SUBSET Mails
  BY AttemptsAssumption
<1>3. QED
  BY <1>1, <1>2, Zenon

\* Steps of the lease's own actions, and of those that end the work.
LEMMA LeaseTypeStep ==
  ASSUME LeaseTypeOK,
         \/ \E p \in Procs : \/ Acquire(p) \/ Unwind(p) \/ Renew(p) \/ Interrupt(p) \/ GiveUp(p)
                             \/ Kill(p)
         \/ Expire \/ Lapse
  PROVE  LeaseTypeOK'
<1> USE TokenAssumption, LeaseBoundsAssumption DEF LeaseTypeOK
<1>1. ASSUME NEW p \in Procs, Acquire(p) PROVE LeaseTypeOK'
  BY <1>1 DEF Acquire
<1>2. ASSUME NEW p \in Procs, Join(p) PROVE LeaseTypeOK'
  BY <1>2 DEF Join
<1>3. ASSUME NEW p \in Procs, ReleaseGet(p) PROVE LeaseTypeOK'
  BY <1>3 DEF ReleaseGet
<1>4. ASSUME NEW p \in Procs, ReleaseDelete(p) PROVE LeaseTypeOK'
  BY <1>4 DEF ReleaseDelete
<1>5. ASSUME NEW p \in Procs, RenewGet(p) PROVE LeaseTypeOK'
  BY <1>5 DEF RenewGet
<1>6. ASSUME NEW p \in Procs, RenewSet(p) PROVE LeaseTypeOK'
  BY <1>6 DEF RenewSet
<1>7. ASSUME NEW p \in Procs, Exit(p) PROVE LeaseTypeOK'
  BY <1>7 DEF Exit
<1>8. ASSUME NEW p \in Procs, Interrupt(p) PROVE LeaseTypeOK'
  BY <1>8 DEF Interrupt, Slip
<1>9. ASSUME NEW p \in Procs, GiveUp(p) PROVE LeaseTypeOK'
  BY <1>9 DEF GiveUp, Slip
<1>10. ASSUME NEW p \in Procs, Kill(p) PROVE LeaseTypeOK'
  BY <1>10 DEF Kill, Fault
<1>11. CASE Expire
  BY <1>11 DEF Expire
<1>12. CASE Lapse
  BY <1>12 DEF Lapse, Slip
<1>13. QED
  BY <1>1, <1>2, <1>3, <1>4, <1>5, <1>6, <1>7, <1>8, <1>9, <1>10, <1>11, <1>12
  DEF Unwind, Renew

LEMMA InitTypeOK == Init => TypeOK
BY AttemptsAssumption, TokenAssumption, LeaseBoundsAssumption
DEF Init, LeaseInit, TypeOK, LeaseTypeOK, NoMail, MailType, NewPass, PassType

LEMMA TypeStep == TypeOK /\ [Next]_vars => TypeOK'
<1> SUFFICES ASSUME TypeOK, [Next]_vars PROVE TypeOK'
  OBVIOUS
<1> USE AttemptsAssumption, LeaseBoundsAssumption
<1>0. (\A p \in Procs : pass[p] \in PassType) /\ (\A m \in Mails : mail[m] \in MailType)
  BY DEF TypeOK
<1>1. ASSUME NEW m \in Mails, Enqueue(m) PROVE TypeOK'
  BY <1>1 DEF TypeOK, LeaseTypeOK, Enqueue, leaseVars, MailType
<1>2. ASSUME NEW p \in Procs, StartPass(p) PROVE TypeOK'
  <2>1. mail' \in [Mails -> MailType]
    BY <1>0, <1>2, RowTypes DEF StartPass
  <2>2. pass' \in [Procs -> PassType]
    <3>1. PICK S \in SUBSET Mails : pass' = [pass EXCEPT ![p].pc = "next", ![p].todo = S]
      BY <1>2 DEF StartPass
    <3>2. pass \in [Procs -> PassType]
      BY DEF TypeOK
    <3> DEFINE o == pass[p]
    <3>3. [o EXCEPT !.pc = "next", !.todo = S] \in PassType
      BY <1>0, PassTypes, Zenon
    <3>4. pass' = [pass EXCEPT ![p] = [o EXCEPT !.pc = "next", !.todo = S]]
      BY <3>1, <3>2
    <3> HIDE DEF o
    <3>5. QED
      BY <3>2, <3>3, <3>4
  <2>3. taken' \in [Mails -> Nat]
    BY <1>2 DEF TypeOK, StartPass
  <2>4. QED
    BY <1>2, <2>1, <2>2, <2>3 DEF TypeOK, LeaseTypeOK, StartPass, leaseVars
<1>3. ASSUME NEW p \in Procs, NEW m \in Mails, Claim(p, m) PROVE TypeOK'
  <2>1. [state |-> "sending", attempts |-> mail[m].attempts + 1, old |-> pass[p].old,
         later |-> FALSE] \in MailType
    BY <1>0, <1>3 DEF Claim, Claimable, AtCap, MailType, PassType
  <2>2. mail' \in [Mails -> MailType]
    BY <1>3, <2>1 DEF TypeOK, Claim
  <2>3. pass' \in [Procs -> PassType]
    BY <1>3 DEF TypeOK, Claim, PassType
  <2>4. QED
    BY <1>3, <2>2, <2>3 DEF TypeOK, LeaseTypeOK, Claim, leaseVars
<1>4. ASSUME NEW p \in Procs, NEW m \in Mails, Skip(p, m) PROVE TypeOK'
  BY <1>4 DEF TypeOK, LeaseTypeOK, Skip, leaseVars, PassType
<1>5. ASSUME NEW p \in Procs, NEW m \in Mails, Refresh(p, m) PROVE TypeOK'
  <2>1. mail[m].attempts \in 0 .. MaxAttempts
    BY <1>0 DEF MailType
  <2>2. PICK k \in 0 .. MaxAttempts : pass' = [pass EXCEPT ![p].pc = "send", ![p].stamp = k]
    BY <1>5, <2>1 DEF Refresh
  <2>3. pass \in [Procs -> PassType]
    BY DEF TypeOK
  <2> DEFINE o == pass[p]
  <2>4. [o EXCEPT !.pc = "send", !.stamp = k] \in PassType
    BY <1>0 DEF PassType
  <2>6. pass' = [pass EXCEPT ![p] = [o EXCEPT !.pc = "send", !.stamp = k]]
    BY <2>2, <2>3
  <2>7. pass' \in [Procs -> PassType]
    <3> HIDE DEF o
    <3>1. QED
      BY <2>3, <2>4, <2>6
  <2>5. QED
    BY <1>5, <2>7 DEF TypeOK, LeaseTypeOK, Refresh, leaseVars
<1>6. ASSUME NEW p \in Procs, NEW m \in Mails, NEW accepted \in BOOLEAN, NEW ok \in BOOLEAN,
             Send(p, m, accepted, ok)
      PROVE  TypeOK'
  <2>1. AfterSend(ok) \in {"sent", "failed"}
    BY DEF AfterSend
  <2>2. DEFINE after == AfterSend(ok)
  <2>3. pass' = [pass EXCEPT ![p].pc = after]
    BY <1>6 DEF Send
  <2>7. after \in {"sent", "failed"} /\ pass \in [Procs -> PassType]
    BY <2>1 DEF TypeOK
  <2> HIDE DEF after
  <2> DEFINE o == pass[p]
  <2>8. [o EXCEPT !.pc = after] \in PassType
    BY <1>0, <2>7 DEF PassType
  <2>9. pass' = [pass EXCEPT ![p] = [o EXCEPT !.pc = after]]
    BY <2>3, <2>7
  <2>4. pass' \in [Procs -> PassType]
    <3> HIDE DEF o
    <3>1. QED
      BY <2>7, <2>8, <2>9
  <2>5. delivered' \in [Mails -> Nat] /\ unsure' \in [Mails -> Nat]
    BY <1>6 DEF TypeOK, Send
  <2>6. QED
    BY <1>6, <2>4, <2>5 DEF TypeOK, LeaseTypeOK, Send, leaseVars
<1>7. ASSUME NEW p \in Procs, NextMail(p) PROVE pass' \in [Procs -> PassType]
  BY <1>7, NextMailTypes DEF TypeOK, NextMail
<1>8. ASSUME NEW p \in Procs, NEW m \in Mails, CompleteSent(p, m) PROVE TypeOK'
  <2>1. mail' \in [Mails -> MailType]
    BY <1>8 DEF TypeOK, CompleteSent, MailType
  <2>2. QED
    BY <1>7, <1>8, <2>1 DEF TypeOK, LeaseTypeOK, CompleteSent, leaseVars
<1>9. ASSUME NEW p \in Procs, CompleteRaises(p) PROVE TypeOK'
  BY <1>7, <1>9 DEF TypeOK, LeaseTypeOK, CompleteRaises, Fault
<1>10. ASSUME NEW p \in Procs, NEW m \in Mails, FailMail(p, m) PROVE TypeOK'
  <2>1. PICK r \in MailType : r = mail[m]
    BY <1>0
  <2>2. [r EXCEPT !.state = "pending", !.old = FALSE, !.later = TRUE] \in MailType
    BY <2>1, RowTypes
  <2>3. \/ mail' = [mail EXCEPT ![m].state = "failed", ![m].old = FALSE]
        \/ mail' = [mail EXCEPT ![m] = [r EXCEPT !.state = "pending", !.old = FALSE,
                                                 !.later = TRUE]]
        \/ mail' = mail
    BY <1>10, <2>1 DEF FailMail
  <2>4. mail' \in [Mails -> MailType]
    <3>1. CASE mail' = [mail EXCEPT ![m].state = "failed", ![m].old = FALSE]
      BY <3>1 DEF TypeOK, MailType
    <3>2. CASE mail' = [mail EXCEPT ![m] = [r EXCEPT !.state = "pending", !.old = FALSE,
                                                     !.later = TRUE]]
      BY <3>2, <2>2 DEF TypeOK
    <3>3. QED
      BY <2>3, <3>1, <3>2 DEF TypeOK
  <2>5. QED
    BY <1>7, <1>10, <2>4 DEF TypeOK, LeaseTypeOK, FailMail, leaseVars
<1>11. ASSUME NEW p \in Procs, EndPass(p) \/ Abort(p) PROVE TypeOK'
  <2>1. pass' \in [Procs -> PassType]
    BY <1>0, <1>11, PassTypes DEF TypeOK, EndPass, Abort
  <2>2. LeaseTypeOK'
    BY <1>11 DEF TypeOK, LeaseTypeOK, EndPass, Abort, EndWork, Fault
  <2>3. QED
    BY <1>11, <2>1, <2>2 DEF TypeOK, EndPass, Abort
<1>12. ASSUME NEW p \in Procs, KillPass(p) PROVE TypeOK'
  <2>1. pass' \in [Procs -> PassType]
    BY <1>0, <1>12, PassTypes DEF TypeOK, KillPass
  <2>2. QED
    BY <1>12, <2>1, LeaseTypeStep DEF TypeOK, KillPass
<1>13. CASE Age
  <2>1. ASSUME NEW m \in Mails PROVE mail'[m] \in MailType
    <3>1. PICK r \in MailType : r = mail[m]
      BY <1>0
    <3>2. \A b \in BOOLEAN : [r EXCEPT !.old = b] \in MailType
      BY RowTypes
    <3>3. mail'[m] = [r EXCEPT !.old = (r.state = "sending")]
      BY <1>13, <3>1, Zenon DEF Age
    <3>4. QED
      BY <3>2, <3>3, Zenon
  <2>2. ASSUME NEW p \in Procs PROVE pass'[p] \in PassType
    <3>1. PICK o \in PassType : o = pass[p]
      BY <1>0
    <3>2. \A b \in BOOLEAN : [o EXCEPT !.old = b] \in PassType
      BY PassTypes
    <3>3. pass'[p] = [o EXCEPT !.old = (Working(p) /\ o.pc # "reap")]
      BY <1>13, <3>1, Zenon DEF Age
    <3>4. QED
      BY <3>2, <3>3, Zenon
  <2>3. mail' = [m \in Mails |-> mail'[m]] /\ pass' = [p \in Procs |-> pass'[p]]
    BY <1>13, Zenon DEF Age
  <2>4. QED
    BY <1>13, <2>1, <2>2, <2>3 DEF TypeOK, LeaseTypeOK, Age, leaseVars
<1>14. ASSUME NEW m \in Mails, Backoff(m) PROVE TypeOK'
  BY <1>14 DEF TypeOK, LeaseTypeOK, Backoff, leaseVars, MailType
<1>15. ASSUME NEW p \in Procs, Unwind(p) \/ Acquire(p) \/ Renew(p) \/ Interrupt(p) \/ GiveUp(p),
              UNCHANGED mailVars
       PROVE TypeOK'
  BY <1>15, LeaseTypeStep DEF TypeOK, mailVars
<1>16. CASE (Expire \/ Lapse) /\ UNCHANGED mailVars
  BY <1>16, LeaseTypeStep DEF TypeOK, mailVars
<1>17. CASE UNCHANGED vars
  BY <1>17 DEF TypeOK, LeaseTypeOK, vars, leaseVars, mailVars
<1>18. QED
  BY <1>1, <1>2, <1>3, <1>4, <1>5, <1>6, <1>8, <1>9, <1>10, <1>11, <1>12, <1>13, <1>14, <1>15,
     <1>16, <1>17
  DEF Next, Run, Work

\* Every reachable state is well typed: attempts never pass the cap.
THEOREM TypeCorrect == Spec => []TypeOK
BY InitTypeOK, TypeStep, PTL DEF Spec

-----------------------------------------------------------------------------
(* Rows and passes.                                                        *)

\* Only a claimed row ages, only a waiting row has a backoff.
RowShape ==
  \A m \in Mails : /\ mail[m].old => mail[m].state = "sending"
                   /\ mail[m].later => mail[m].state = "pending"

\* handle() runs only in a pass that is at work, holds one row at a time, and none
\* before its loop and between two rows.
PassShape ==
  \A p \in Procs : /\ pass[p].pc # "reap" => Working(p)
                   /\ \A m, n \in pass[p].at : m = n
                   /\ pass[p].pc \in {"reap", "next"} => pass[p].at = {}

\* A pass past its send, and a row marked SENT, have a delivery behind them.
Delivered ==
  \A m \in Mails : /\ mail[m].state = "sent" => delivered[m] > 0
                   /\ \A p \in Procs : pass[p].pc = "sent" /\ m \in pass[p].at => delivered[m] > 0

\* Time changes the age of claims and passes, and nothing else of them.
LEMMA AgeRow ==
  ASSUME TypeOK, Age, NEW m \in Mails
  PROVE  /\ mail'[m].state = mail[m].state
         /\ mail'[m].attempts = mail[m].attempts
         /\ mail'[m].later = mail[m].later
         /\ mail'[m].old => mail[m].state = "sending"
<1>1. PICK r \in MailType : r = mail[m]
  BY DEF TypeOK
<1>2. mail'[m] = [r EXCEPT !.old = (r.state = "sending")]
  BY <1>1, Zenon DEF Age
<1>3. PICK b \in BOOLEAN : b = (r.state = "sending")
  BY Zenon
<1>4. mail'[m] = [r EXCEPT !.old = b]
  BY <1>2, <1>3, Zenon
<1>5. mail'[m].old = b
  BY <1>4 DEF MailType
<1>6. mail'[m].old => mail[m].state = "sending"
  BY <1>1, <1>3, <1>5, Zenon
<1>7. QED
  BY <1>1, <1>4, <1>6 DEF MailType

LEMMA AgePass ==
  ASSUME TypeOK, Age, NEW p \in Procs
  PROVE  /\ pass'[p].pc = pass[p].pc
         /\ pass'[p].at = pass[p].at
         /\ pass'[p].stamp = pass[p].stamp
<1>1. PICK o \in PassType : o = pass[p]
  BY DEF TypeOK
<1>2. pass'[p] = [o EXCEPT !.old = (Working(p) /\ o.pc # "reap")]
  BY <1>1, Zenon DEF Age
<1>3. PICK b \in BOOLEAN : b = (Working(p) /\ o.pc # "reap")
  BY Zenon
<1>4. pass'[p] = [o EXCEPT !.old = b]
  BY <1>2, <1>3, Zenon
<1>5. QED
  BY <1>1, <1>4 DEF PassType

\* fail() writes the claimed row or none.
LEMMA FailStep ==
  ASSUME TypeOK, NEW p \in Procs, NEW m \in Mails, FailMail(p, m)
  PROVE  /\ \A n \in Mails : n # m => mail'[n] = mail[n]
         /\ \/ mail'[m] = mail[m]
            \/ /\ mail[m].state = "sending"
               /\ mail'[m].state \in {"pending", "failed"} /\ ~mail'[m].old
               /\ mail'[m].later => mail[m].later \/ mail'[m].state = "pending"
<1>1. PICK r \in MailType : r = mail[m]
  BY DEF TypeOK
<1>2. \/ mail' = mail
      \/ /\ mail' = [mail EXCEPT ![m].state = "failed", ![m].old = FALSE]
         /\ r.state = "sending"
      \/ /\ mail' = [mail EXCEPT ![m] = [r EXCEPT !.state = "pending", !.old = FALSE,
                                                  !.later = TRUE]]
         /\ r.state = "sending"
  BY <1>1 DEF FailMail, HoldsClaim
<1>3. CASE mail' = [mail EXCEPT ![m].state = "failed", ![m].old = FALSE] /\ r.state = "sending"
  BY <1>1, <1>3 DEF TypeOK, MailType
<1>4. CASE /\ mail' = [mail EXCEPT ![m] = [r EXCEPT !.state = "pending", !.old = FALSE,
                                                    !.later = TRUE]]
           /\ r.state = "sending"
  <2>1. PICK q \in MailType : q = [r EXCEPT !.state = "pending", !.old = FALSE, !.later = TRUE]
    BY <1>1, RowTypes
  <2>2. mail' = [mail EXCEPT ![m] = q] /\ q.state = "pending" /\ ~q.old
    BY <1>4, <2>1 DEF MailType
  <2>3. QED
    BY <1>1, <1>4, <2>2 DEF TypeOK
<1>5. QED
  BY <1>1, <1>2, <1>3, <1>4

LEMMA RowShapeStep ==
  ASSUME TypeOK, RowShape, [Next]_vars
  PROVE  RowShape'
<1> USE DEF TypeOK, MailType, RowShape
<1>1. ASSUME UNCHANGED mail PROVE RowShape'
  BY <1>1
<1>2. ASSUME NEW m \in Mails, Enqueue(m) PROVE RowShape'
  BY <1>2 DEF Enqueue, NoMail
<1>3. ASSUME NEW p \in Procs, StartPass(p) PROVE RowShape'
  BY <1>3 DEF StartPass, Reaped, Orphaned
<1>4. ASSUME NEW p \in Procs, NEW m \in Mails, Claim(p, m) PROVE RowShape'
  BY <1>4 DEF Claim
<1>5. ASSUME NEW p \in Procs, NEW m \in Mails, CompleteSent(p, m) PROVE RowShape'
  BY <1>5 DEF CompleteSent, HoldsClaim
<1>6. ASSUME NEW p \in Procs, NEW m \in Mails, FailMail(p, m) PROVE RowShape'
  BY <1>6, FailStep
<1>7. CASE Age
  BY <1>7, AgeRow
<1>8. ASSUME NEW m \in Mails, Backoff(m) PROVE RowShape'
  BY <1>8 DEF Backoff
<1>9. ASSUME NEW p \in Procs, NEW m \in Mails, NEW accepted \in BOOLEAN, NEW ok \in BOOLEAN,
             Skip(p, m) \/ Refresh(p, m) \/ Send(p, m, accepted, ok)
      PROVE  RowShape'
  BY <1>1, <1>9 DEF Skip, Refresh, Send
<1>10. ASSUME NEW p \in Procs, CompleteRaises(p) \/ EndPass(p) \/ Abort(p) \/ KillPass(p)
       PROVE  RowShape'
  BY <1>1, <1>10 DEF CompleteRaises, EndPass, Abort, KillPass
<1>11. CASE UNCHANGED mailVars
  BY <1>1, <1>11 DEF mailVars
<1>12. QED
  BY <1>2, <1>3, <1>4, <1>5, <1>6, <1>7, <1>8, <1>9, <1>10, <1>11 DEF Next, Run, Work, vars

\* Nobody but p itself ends p's work.
LEMMA OthersWork ==
  ASSUME NEW p \in Procs, Working(p), LeaseTypeOK, proc'[p] # "work",
         \/ \E q \in Procs : \/ Acquire(q) \/ Unwind(q) \/ Renew(q) \/ Interrupt(q) \/ GiveUp(q)
         \/ Expire \/ Lapse
  PROVE  FALSE
<1> USE DEF LeaseTypeOK, Working
<1>1. ASSUME NEW q \in Procs, Acquire(q) \/ Join(q) \/ ReleaseGet(q) \/ ReleaseDelete(q) \/ Interrupt(q)
      PROVE  FALSE
  BY <1>1 DEF Acquire, Join, ReleaseGet, ReleaseDelete, Interrupt
<1>2. ASSUME NEW q \in Procs, Renew(q) \/ GiveUp(q) PROVE FALSE
  BY <1>2 DEF Renew, RenewGet, RenewSet, Exit, GiveUp
<1>3. CASE Expire \/ Lapse
  BY <1>3 DEF Expire, Lapse
<1>4. QED
  BY <1>1, <1>2, <1>3 DEF Unwind

LEMMA PassShapeStep ==
  ASSUME TypeOK, PassShape, [Next]_vars
  PROVE  PassShape'
<1> USE DEF TypeOK, PassType, PassShape
<1>1. ASSUME NEW p \in Procs, NEW m \in Mails, NEW accepted \in BOOLEAN, NEW ok \in BOOLEAN,
             \/ Claim(p, m) \/ Skip(p, m) \/ Refresh(p, m) \/ Send(p, m, accepted, ok)
             \/ CompleteSent(p, m) \/ FailMail(p, m)
      PROVE  PassShape'
  <2>1. UNCHANGED proc /\ Working(p)
    BY <1>1 DEF Claim, Skip, Refresh, Send, CompleteSent, FailMail, leaseVars
  <2>2. \A q \in Procs : q # p => pass'[q] = pass[q]
    BY <1>1 DEF Claim, Skip, Refresh, Send, CompleteSent, FailMail, NextMail
  <2>3. pass'[p].at \in {pass[p].at, {m}, {}}
    BY <1>1 DEF Claim, Skip, Refresh, Send, CompleteSent, FailMail, NextMail
  <2>4. pass'[p].pc \in {"reap", "next"} => pass'[p].at = {}
    BY <1>1 DEF Claim, Skip, Refresh, Send, AfterSend, CompleteSent, FailMail, NextMail
  <2>5. QED
    BY <2>1, <2>2, <2>3, <2>4 DEF Working
<1>2. ASSUME NEW p \in Procs, EndPass(p) \/ Abort(p) \/ KillPass(p) PROVE PassShape'
  <2>1. /\ pass' = [pass EXCEPT ![p] = NewPass]
        /\ proc' = [proc EXCEPT ![p] = "join"] \/ proc' = [proc EXCEPT ![p] = "idle"]
    BY <1>2 DEF EndPass, Abort, KillPass, Kill, EndWork
  <2>2. QED
    BY <2>1 DEF NewPass, Working, LeaseTypeOK
<1>3. CASE Age
  <2>1. UNCHANGED proc
    BY <1>3 DEF Age, leaseVars
  <2>2. QED
    BY <1>3, <2>1, AgePass DEF Working
<1>4. ASSUME NEW m \in Mails, Enqueue(m) \/ Backoff(m) PROVE PassShape'
  BY <1>4 DEF Enqueue, Backoff, leaseVars, Working
<1>5. ASSUME UNCHANGED mailVars,
             \/ \E q \in Procs : \/ Acquire(q) \/ Unwind(q) \/ Renew(q) \/ Interrupt(q) \/ GiveUp(q)
             \/ Expire \/ Lapse
      PROVE  PassShape'
  <2>1. ASSUME NEW p \in Procs, pass[p].pc # "reap" PROVE proc'[p] = "work"
    BY <1>5, <2>1, OthersWork
  <2>2. QED
    BY <1>5, <2>1 DEF mailVars, Working
<1>6. CASE UNCHANGED vars
  BY <1>6 DEF vars, mailVars, leaseVars, Working
<1>7. ASSUME NEW p \in Procs, StartPass(p) \/ CompleteRaises(p) PROVE PassShape'
  <2>1. UNCHANGED proc /\ Working(p) /\ (\A q \in Procs : q # p => pass'[q] = pass[q])
    BY <1>7 DEF StartPass, CompleteRaises, NextMail, leaseVars
  <2>2. pass'[p].at = {}
    BY <1>7 DEF StartPass, CompleteRaises, NextMail
  <2>3. QED
    BY <2>1, <2>2 DEF Working
<1>8. QED
  BY <1>1, <1>2, <1>3, <1>4, <1>5, <1>6, <1>7 DEF Next, Run, Work

LEMMA DeliveredStep ==
  ASSUME TypeOK, PassShape, Delivered, [Next]_vars
  PROVE  Delivered'
<1> USE DEF TypeOK, PassShape, Delivered
<1>1. ASSUME UNCHANGED mailVars PROVE Delivered'
  BY <1>1 DEF mailVars
<1>2. ASSUME NEW m \in Mails, Enqueue(m) PROVE Delivered'
  BY <1>2 DEF Enqueue, MailType
<1>3. ASSUME NEW p \in Procs, StartPass(p) PROVE Delivered'
  <2>1. \A m \in Mails : mail'[m].state = "sent" => mail[m].state = "sent"
    BY <1>3 DEF StartPass, Reaped, Orphaned, MailType
  <2>2. QED
    BY <1>3, <2>1 DEF StartPass, PassType
<1>4. ASSUME NEW p \in Procs, NEW m \in Mails, Claim(p, m) PROVE Delivered'
  BY <1>4 DEF Claim, PassType
<1>5. ASSUME NEW p \in Procs, NEW m \in Mails, Skip(p, m) \/ Refresh(p, m) PROVE Delivered'
  BY <1>5 DEF Skip, Refresh, PassType
<1>6. ASSUME NEW p \in Procs, NEW m \in Mails, NEW accepted \in BOOLEAN, NEW ok \in BOOLEAN,
             Send(p, m, accepted, ok)
      PROVE  Delivered'
  <2>1. CASE ok
    <3>1. delivered' = [delivered EXCEPT ![m] = @ + 1]
      BY <1>6, <2>1 DEF Send
    <3>2. \A n \in Mails : delivered'[n] >= delivered[n] /\ delivered'[m] > 0
      BY <3>1
    <3>3. \A q \in Procs : pass'[q].at = pass[q].at /\ (q # p => pass'[q] = pass[q])
      BY <1>6 DEF Send, PassType
    <3>4. UNCHANGED mail /\ m \in pass[p].at
      BY <1>6 DEF Send
    <3>5. ASSUME NEW n \in Mails, delivered[n] > 0 \/ n = m PROVE delivered'[n] > 0
      BY <3>1, <3>5
    <3>6. ASSUME NEW n \in Mails, NEW q \in Procs, pass'[q].pc = "sent", n \in pass'[q].at
          PROVE  delivered[n] > 0 \/ n = m
      <4>1. CASE q = p
        BY <3>3, <3>4, <3>6, <4>1
      <4>2. CASE q # p
        BY <3>3, <3>6, <4>2
      <4>3. QED
        BY <4>1, <4>2
    <3>7. QED
      BY <3>4, <3>5, <3>6
  <2>2. CASE ~ok
    <3>1. AfterSend(ok) = "failed" /\ UNCHANGED mail
      BY <1>6, <2>2 DEF Send, AfterSend
    <3>2. pass' = [pass EXCEPT ![p].pc = "failed"]
      BY <1>6, <3>1 DEF Send
    <3>3. \A n \in Mails : delivered[n] > 0 => delivered'[n] > 0
      BY <1>6 DEF Send
    <3>4. QED
      BY <3>1, <3>2, <3>3 DEF PassType
  <2>3. QED
    BY <2>1, <2>2
<1>7. ASSUME NEW p \in Procs, NextMail(p), UNCHANGED delivered,
             \A n \in Mails : mail'[n].state = "sent" => mail[n].state = "sent" \/ delivered[n] > 0
      PROVE  Delivered'
  BY <1>7 DEF NextMail, PassType
<1>8. ASSUME NEW p \in Procs, NEW m \in Mails, CompleteSent(p, m) PROVE Delivered'
  BY <1>7, <1>8 DEF CompleteSent, MailType
<1>9. ASSUME NEW p \in Procs, CompleteRaises(p) PROVE Delivered'
  BY <1>7, <1>9 DEF CompleteRaises
<1>10. ASSUME NEW p \in Procs, NEW m \in Mails, FailMail(p, m) PROVE Delivered'
  <2>1. \A n \in Mails : mail'[n].state = "sent" => mail[n].state = "sent"
    BY <1>10, FailStep
  <2>2. NextMail(p) /\ UNCHANGED delivered
    BY <1>10 DEF FailMail
  <2>3. QED
    BY <1>7, <2>1, <2>2
<1>11. ASSUME NEW p \in Procs, EndPass(p) \/ Abort(p) \/ KillPass(p) PROVE Delivered'
  BY <1>11 DEF EndPass, Abort, KillPass, NewPass
<1>12. CASE Age
  <2>1. UNCHANGED delivered
    BY <1>12 DEF Age
  <2>2. QED
    BY <1>12, <2>1, AgeRow, AgePass
<1>13. ASSUME NEW m \in Mails, Backoff(m) PROVE Delivered'
  BY <1>13 DEF Backoff, MailType
<1>14. QED
  BY <1>1, <1>2, <1>3, <1>4, <1>5, <1>6, <1>8, <1>9, <1>10, <1>11, <1>12, <1>13
  DEF Next, Run, Work, vars

LEMMA FinalStep ==
  ASSUME TypeOK, RowShape, [Next]_vars, NEW m \in Mails, Settled(m)
  PROVE  mail'[m] = mail[m]
<1> USE DEF TypeOK, Settled
<1>1. ASSUME UNCHANGED mail PROVE mail'[m] = mail[m]
  BY <1>1
<1>2. ASSUME NEW n \in Mails, Enqueue(n) PROVE mail'[m] = mail[m]
  BY <1>2 DEF Enqueue, NoMail
<1>3. ASSUME NEW p \in Procs, StartPass(p) PROVE mail'[m] = mail[m]
  BY <1>3 DEF StartPass, Reaped
<1>4. ASSUME NEW p \in Procs, NEW n \in Mails, Claim(p, n) PROVE mail'[m] = mail[m]
  BY <1>4 DEF Claim, Claimable
<1>5. ASSUME NEW p \in Procs, NEW n \in Mails, CompleteSent(p, n) PROVE mail'[m] = mail[m]
  BY <1>5 DEF CompleteSent, HoldsClaim
<1>6. ASSUME NEW p \in Procs, NEW n \in Mails, FailMail(p, n) PROVE mail'[m] = mail[m]
  BY <1>6, FailStep
<1>7. CASE Age
  <2>1. PICK r \in MailType : r = mail[m]
    OBVIOUS
  <2>2. r.old = FALSE
    BY <2>1 DEF RowShape, MailType
  <2>3. mail'[m] = [r EXCEPT !.old = (r.state = "sending")]
    BY <1>7, <2>1, Zenon DEF Age
  <2>4. (r.state = "sending") = FALSE
    BY <2>1
  <2>5. mail'[m] = [r EXCEPT !.old = FALSE]
    BY <2>3, <2>4, Zenon
  <2>6. QED
    BY <2>1, <2>2, <2>5 DEF MailType
<1>8. ASSUME NEW n \in Mails, Backoff(n) PROVE mail'[m] = mail[m]
  BY <1>8 DEF Backoff, RowShape
<1>9. ASSUME NEW p \in Procs, NEW n \in Mails, NEW accepted \in BOOLEAN, NEW ok \in BOOLEAN,
             Skip(p, n) \/ Refresh(p, n) \/ Send(p, n, accepted, ok)
      PROVE  mail'[m] = mail[m]
  BY <1>1, <1>9 DEF Skip, Refresh, Send
<1>10. ASSUME NEW p \in Procs, CompleteRaises(p) \/ EndPass(p) \/ Abort(p) \/ KillPass(p)
       PROVE  mail'[m] = mail[m]
  BY <1>1, <1>10 DEF CompleteRaises, EndPass, Abort, KillPass
<1>11. CASE UNCHANGED mailVars
  BY <1>1, <1>11 DEF mailVars
<1>12. QED
  BY <1>2, <1>3, <1>4, <1>5, <1>6, <1>7, <1>8, <1>9, <1>10, <1>11 DEF Next, Run, Work, vars

-----------------------------------------------------------------------------
(* One pass at a time.                                                     *)

\* While no lease has ended under a live pass: a pass that is not idle has the
\* key, and its thread keeps it.
LeaseHeld ==
  slips = 0 =>
    \A p \in Procs : /\ proc[p] # "idle" => key = p
                     /\ proc[p] = "idle" => key # p /\ renewer[p] = "off"
                     /\ proc[p] = "work" => renewer[p] # "off"
                     /\ proc[p] \in {"release", "delete"} => renewer[p] = "off"

\* ... and until then no reap has taken a row from a live pass.
NoneTaken == slips = 0 => \A m \in Mails : taken[m] = 0

LEMMA LeaseStep ==
  ASSUME TypeOK, LeaseHeld, [Next]_vars
  PROVE  LeaseHeld'
<1> SUFFICES ASSUME slips' = 0 PROVE LeaseHeld'
  BY DEF LeaseHeld
<1> USE TokenAssumption DEF TypeOK, LeaseTypeOK, LeaseHeld
<1>1. ASSUME UNCHANGED <<key, proc, renewer, slips>> PROVE LeaseHeld'
  BY <1>1
<1>2. ASSUME NEW p \in Procs, Acquire(p) PROVE LeaseHeld'
  BY <1>2 DEF Acquire, Takes
<1>3. ASSUME NEW p \in Procs, Join(p) PROVE LeaseHeld'
  BY <1>3 DEF Join, Joins
<1>4. ASSUME NEW p \in Procs, ReleaseGet(p) PROVE LeaseHeld'
  BY <1>4 DEF ReleaseGet, Owns
<1>5. ASSUME NEW p \in Procs, ReleaseDelete(p) PROVE LeaseHeld'
  BY <1>5 DEF ReleaseDelete
<1>6. ASSUME NEW p \in Procs, RenewGet(p) PROVE LeaseHeld'
  BY <1>6 DEF RenewGet, StillOurs
<1>7. ASSUME NEW p \in Procs, RenewSet(p) PROVE LeaseHeld'
  BY <1>7 DEF RenewSet, Working
<1>8. ASSUME NEW p \in Procs, Exit(p) PROVE LeaseHeld'
  BY <1>8 DEF Exit
<1>9. ASSUME NEW p \in Procs, Interrupt(p) \/ GiveUp(p) PROVE FALSE
  BY <1>9 DEF Interrupt, GiveUp, Slip
<1>10. CASE Lapse
  BY <1>10 DEF Lapse, Slip
<1>11. CASE Expire
  BY <1>11 DEF Expire, Working
<1>12. ASSUME NEW p \in Procs, KillPass(p) PROVE LeaseHeld'
  BY <1>12 DEF KillPass, Kill
<1>13. ASSUME NEW p \in Procs, EndPass(p) \/ Abort(p) PROVE LeaseHeld'
  BY <1>13 DEF EndPass, Abort, EndWork, Working
<1>14. ASSUME NEW p \in Procs, CompleteRaises(p) PROVE LeaseHeld'
  BY <1>14 DEF CompleteRaises
<1>15. ASSUME NEW p \in Procs, StartPass(p) PROVE LeaseHeld'
  BY <1>1, <1>15 DEF StartPass, leaseVars
<1>16. ASSUME NEW p \in Procs, NEW m \in Mails,
              \/ Claim(p, m) \/ Skip(p, m) \/ Refresh(p, m) \/ CompleteSent(p, m) \/ FailMail(p, m)
              \/ \E accepted, ok \in BOOLEAN : Send(p, m, accepted, ok)
       PROVE  LeaseHeld'
  BY <1>1, <1>16 DEF Claim, Skip, Refresh, Send, CompleteSent, FailMail, leaseVars
<1>17. ASSUME NEW m \in Mails, Enqueue(m) \/ Backoff(m) PROVE LeaseHeld'
  BY <1>1, <1>17 DEF Enqueue, Backoff, leaseVars
<1>18. CASE Age \/ UNCHANGED vars
  BY <1>1, <1>18 DEF Age, vars, leaseVars
<1>19. ASSUME NEW p \in Procs, Unwind(p) \/ Renew(p) PROVE LeaseHeld'
  BY <1>3, <1>4, <1>5, <1>6, <1>7, <1>8, <1>19 DEF Unwind, Renew
<1>20. ASSUME NEW p \in Procs, Work(p) PROVE LeaseHeld'
  BY <1>13, <1>15, <1>16, <1>20 DEF Work
<1>21. QED
  BY <1>2, <1>9, <1>10, <1>11, <1>12, <1>13, <1>14, <1>17, <1>18, <1>19, <1>20 DEF Next, Run

\* Of passes at work, or inside handle(), there is one.
LEMMA Alone ==
  ASSUME PassShape, LeaseHeld, slips = 0, NEW p \in Procs, NEW q \in Procs,
         Working(p) \/ pass[p].pc # "reap", Working(q) \/ pass[q].pc # "reap"
  PROVE  p = q
BY DEF PassShape, LeaseHeld, Working

\* Slips are never taken back.
LEMMA SlipsStay ==
  ASSUME TypeOK, [Next]_vars, slips' = 0
  PROVE  slips = 0
<1>1. ASSUME NEW p \in Procs, Interrupt(p) \/ GiveUp(p) PROVE FALSE
  BY <1>1 DEF Interrupt, GiveUp, Slip, TypeOK, LeaseTypeOK
<1>2. CASE Lapse
  BY <1>2 DEF Lapse, Slip, TypeOK, LeaseTypeOK
<1>3. CASE UNCHANGED slips
  BY <1>3
<1>4. QED
  <2>1. ASSUME NEW p \in Procs, Acquire(p) \/ Unwind(p) \/ Renew(p) \/ KillPass(p) PROVE UNCHANGED slips
    BY <2>1 DEF Acquire, Unwind, Join, ReleaseGet, ReleaseDelete, Renew, RenewGet, RenewSet, Exit, KillPass, Kill
  <2>2. ASSUME NEW p \in Procs, Work(p) PROVE UNCHANGED slips
    BY <2>2 DEF Work, StartPass, Claim, Skip, Refresh, Send, CompleteSent, FailMail, EndPass, leaseVars
  <2>3. ASSUME NEW p \in Procs, CompleteRaises(p) \/ Abort(p) PROVE UNCHANGED slips
    BY <2>3 DEF CompleteRaises, Abort
  <2>4. ASSUME NEW m \in Mails, Enqueue(m) \/ Backoff(m) PROVE UNCHANGED slips
    BY <2>4 DEF Enqueue, Backoff, leaseVars
  <2>5. CASE Expire \/ Age \/ UNCHANGED vars
    BY <2>5 DEF Expire, Age, vars, leaseVars
  <2>6. QED
    BY <1>1, <1>2, <1>3, <2>1, <2>2, <2>3, <2>4, <2>5 DEF Next, Run

\* Only a reap that starts beside a live pass can take a row from one.
LEMMA NoneTakenStep ==
  ASSUME TypeOK, PassShape, LeaseHeld, NoneTaken, [Next]_vars
  PROVE  NoneTaken'
<1> SUFFICES ASSUME slips' = 0 PROVE \A m \in Mails : taken'[m] = 0
  BY DEF NoneTaken
<1>0. slips = 0 /\ \A m \in Mails : taken[m] = 0
  BY SlipsStay DEF NoneTaken
<1>1. CASE UNCHANGED taken
  BY <1>0, <1>1
<1>2. ASSUME NEW p \in Procs, StartPass(p) PROVE \A m \in Mails : taken'[m] = 0
  <2>1. \A q \in Procs : pass[q].pc = "reap"
    BY <1>0, <1>2, Alone DEF StartPass
  <2>2. \A m \in Mails : ~Attended(m)
    BY <2>1 DEF Attended, PassShape
  <2>3. QED
    BY <1>0, <1>2, <2>2 DEF StartPass
<1>3. ASSUME NEW p \in Procs, Work(p) PROVE \A m \in Mails : taken'[m] = 0
  BY <1>1, <1>2, <1>3 DEF Work, Claim, Skip, Refresh, Send, CompleteSent, FailMail, EndPass
<1>4. QED
  BY <1>1, <1>3 DEF Next, Run, Enqueue, CompleteRaises, Abort, KillPass, Age, Backoff, mailVars, vars

-----------------------------------------------------------------------------
(* Copies.                                                                 *)

\* Passes that have the send of m before them, or a failure of it to write.
Sending(m) == {p \in Procs : m \in pass[p].at /\ pass[p].pc \in {"refresh", "send", "failed"}}

\* The row is due, or will be once it is stale, and no mishap need come first.
Free(m) ==
  \/ mail[m].state \in {"absent", "pending"}
  \/ mail[m].state = "sending" /\ ~Attended(m)

Owed(m) == IF Free(m) THEN 1 ELSE 0

\* What went out, may be going out, and may go out again: one copy, and one for
\* each mishap so far.
Tally(m) ==
  /\ IsFiniteSet(Sending(m))
  /\ delivered[m] + Cardinality(Sending(m)) + Owed(m) <= 1 + faults + unsure[m] + taken[m]

Copies == \A m \in Mails : Tally(m)

\* Fewer, and at least one fewer.
LEMMA Fewer ==
  ASSUME NEW S, IsFiniteSet(S), NEW T, T \subseteq S
  PROVE  IsFiniteSet(T) /\ Cardinality(T) <= Cardinality(S) /\ Cardinality(T) \in Nat
BY FS_Subset, FS_CardinalityType

LEMMA OneFewer ==
  ASSUME NEW S, IsFiniteSet(S), NEW x \in S, NEW T, T \subseteq S \ {x}
  PROVE  IsFiniteSet(T) /\ Cardinality(T) <= Cardinality(S) - 1 /\ Cardinality(T) \in Nat
<1>1. /\ IsFiniteSet(S \ {x}) /\ Cardinality(S \ {x}) = Cardinality(S) - 1
  BY FS_RemoveElement
<1>2. QED
  BY <1>1, Fewer

\* One more in.
LEMMA Addition ==
  ASSUME NEW S, IsFiniteSet(S), NEW y, NEW T, T \subseteq S \cup {y}
  PROVE  IsFiniteSet(T) /\ Cardinality(T) <= Cardinality(S) + 1
<1> DEFINE U == S \cup {y}
<1>1. /\ IsFiniteSet(U) /\ (Cardinality(U) = Cardinality(S) \/ Cardinality(U) = Cardinality(S) + 1)
  BY FS_AddElement
<1> HIDE DEF U
<1>2. IsFiniteSet(T) /\ Cardinality(T) <= Cardinality(U)
  <2>1. T \subseteq U
    BY DEF U
  <2>2. QED
    BY <1>1, <2>1, FS_Subset
<1>3. Cardinality(T) \in Nat /\ Cardinality(U) \in Nat /\ Cardinality(S) \in Nat
  BY <1>1, <1>2, FS_CardinalityType
<1>4. QED
  BY <1>1, <1>2, <1>3

LEMMA CopiesStep ==
  ASSUME TypeOK, PassShape, Copies, [Next]_vars
  PROVE  Copies'
<1> SUFFICES ASSUME NEW m \in Mails PROVE Tally(m)'
  BY DEF Copies
<1>0. /\ {delivered[m], unsure[m], taken[m], faults} \subseteq Nat
      /\ {delivered'[m], unsure'[m], taken'[m], faults'} \subseteq Nat
      /\ IsFiniteSet(Sending(m)) /\ Cardinality(Sending(m)) \in Nat
      /\ delivered[m] + Cardinality(Sending(m)) + Owed(m) <= 1 + faults + unsure[m] + taken[m]
  <2>1. TypeOK'
    BY TypeStep
  <2>2. Tally(m)
    BY DEF Copies
  <2>3. {delivered[m], unsure[m], taken[m], faults} \subseteq Nat
    BY LeaseBoundsAssumption DEF TypeOK, LeaseTypeOK
  <2>4. {delivered'[m], unsure'[m], taken'[m], faults'} \subseteq Nat
    BY <2>1, LeaseBoundsAssumption DEF TypeOK, LeaseTypeOK
  <2>5. QED
    BY <2>2, <2>3, <2>4, FS_CardinalityType DEF Tally
\* The ways a step may change the tally of m: not at all, ...
<1>1. ASSUME Sending(m)' \subseteq Sending(m), Free(m)' => Free(m), delivered'[m] = delivered[m],
             faults' >= faults, unsure'[m] >= unsure[m], taken'[m] >= taken[m]
      PROVE  Tally(m)'
  <2>1. IsFiniteSet(Sending(m)') /\ Cardinality(Sending(m)') <= Cardinality(Sending(m))
        /\ Cardinality(Sending(m)') \in Nat
    BY <1>0, <1>1, Fewer
  <2>2. QED
    BY <1>0, <1>1, <2>1 DEF Tally, Owed
\* ... a claim of the free row, ...
<1>2. ASSUME NEW p, Sending(m)' \subseteq Sending(m) \cup {p}, Free(m), ~Free(m)',
             UNCHANGED <<delivered, faults, unsure, taken>>
      PROVE  Tally(m)'
  <2>1. IsFiniteSet(Sending(m)') /\ Cardinality(Sending(m)') <= Cardinality(Sending(m)) + 1
    BY <1>0, <1>2, Addition
  <2>2. Cardinality(Sending(m)') \in Nat
    BY <2>1, FS_CardinalityType
  <2>3. QED
    BY <1>0, <1>2, <2>1, <2>2 DEF Tally, Owed
\* ... a delivery, or a failure to send, of a claim, ...
<1>3. ASSUME NEW p \in Sending(m), Sending(m)' \subseteq Sending(m) \ {p},
             \/ delivered'[m] = delivered[m]
             \/ delivered'[m] = delivered[m] + 1 /\ (Free(m)' => Free(m)),
             UNCHANGED <<faults, unsure, taken>>
      PROVE  Tally(m)'
  <2>1. IsFiniteSet(Sending(m)') /\ Cardinality(Sending(m)') <= Cardinality(Sending(m)) - 1
        /\ Cardinality(Sending(m)') \in Nat
    BY <1>0, <1>3, OneFewer
  <2>2. QED
    BY <1>0, <1>3, <2>1 DEF Tally, Owed
\* ... and the three mishaps.
<1>4. ASSUME Sending(m)' \subseteq Sending(m),
             \/ /\ delivered'[m] = delivered[m]
                /\ faults' + unsure'[m] + taken'[m] >= faults + unsure[m] + taken[m] + 1
             \/ /\ delivered'[m] = delivered[m] + 1 /\ (Free(m)' => Free(m))
                /\ unsure'[m] = unsure[m] + 1 /\ UNCHANGED <<faults, taken>>
      PROVE  Tally(m)'
  <2>1. IsFiniteSet(Sending(m)') /\ Cardinality(Sending(m)') <= Cardinality(Sending(m))
        /\ Cardinality(Sending(m)') \in Nat
    BY <1>0, <1>4, Fewer
  <2>2. QED
    BY <1>0, <1>4, <2>1 DEF Tally, Owed
\* What keeps the row's claim and those who attend it keeps it from being free.
<1>5. ASSUME mail'[m].state = mail[m].state, Attended(m) => Attended(m)'
      PROVE  Free(m)' => Free(m)
  BY <1>5 DEF Free
<1>6. ASSUME mail'[m].state = mail[m].state, mail'[m].attempts = mail[m].attempts,
             \A q \in Procs : /\ pass'[q].pc = pass[q].pc
                              /\ pass'[q].at = pass[q].at
                              /\ pass'[q].stamp = pass[q].stamp
      PROVE  Sending(m)' \subseteq Sending(m) /\ (Free(m)' => Free(m))
  <2>1. Attended(m) => Attended(m)'
    BY <1>6 DEF Attended, HoldsClaim
  <2>2. Sending(m)' \subseteq Sending(m)
    BY <1>6 DEF Sending
  <2>3. QED
    BY <1>5, <1>6, <2>1, <2>2
<1>7. ASSUME UNCHANGED mailVars, faults' >= faults PROVE Tally(m)'
  BY <1>0, <1>1, <1>6, <1>7 DEF mailVars
<1>8. ASSUME NEW n \in Mails, Enqueue(n) PROVE Tally(m)'
  <2>1. \/ UNCHANGED <<mail[m], pass>>
        \/ mail[m].state = "absent" /\ UNCHANGED pass
    BY <1>8 DEF Enqueue, NoMail, TypeOK
  <2>2. Sending(m)' \subseteq Sending(m)
    BY <2>1 DEF Sending
  <2>3. Free(m)' => Free(m)
    BY <1>6, <2>1 DEF Free
  <2>4. QED
    BY <1>0, <1>1, <1>8, <2>2, <2>3 DEF Enqueue, leaseVars
<1>9. ASSUME NEW p \in Procs, StartPass(p) PROVE Tally(m)'
  <2>1. /\ \A q \in Procs : q # p => pass'[q] = pass[q]
        /\ pass[p].pc = "reap" /\ pass[p].at = {} /\ pass'[p].at = {}
        /\ mail'[m] = Reaped(mail[m])
        /\ taken'[m] = IF Stale(mail[m]) /\ Attended(m) THEN taken[m] + 1 ELSE taken[m]
        /\ UNCHANGED <<delivered, unsure, faults>>
    BY <1>9 DEF StartPass, leaseVars, TypeOK, PassShape
  <2>2. Sending(m)' \subseteq Sending(m)
    BY <2>1 DEF Sending
  <2>3. CASE Stale(mail[m]) /\ Attended(m)
    BY <1>0, <1>4, <2>1, <2>2, <2>3
  <2>4. CASE Stale(mail[m]) /\ ~Attended(m)
    BY <1>0, <1>1, <2>1, <2>2, <2>4 DEF Free
  <2>5. CASE ~Stale(mail[m])
    <3>1. mail'[m] = mail[m] /\ taken'[m] = taken[m]
      BY <2>1, <2>5 DEF Reaped
    <3>2. Attended(m) => Attended(m)'
      BY <2>1, <3>1 DEF Attended, HoldsClaim
    <3>3. QED
      BY <1>0, <1>1, <1>5, <2>1, <2>2, <3>1, <3>2
  <2>6. QED
    BY <2>3, <2>4, <2>5
<1>10. ASSUME NEW p \in Procs, NEW n \in Mails, Claim(p, n) PROVE Tally(m)'
  <2>1. /\ \A q \in Procs : q # p => pass'[q] = pass[q]
        /\ pass[p].at = {} /\ pass'[p].pc = "refresh" /\ pass'[p].at = {n}
        /\ \A k \in Mails : k # n => mail'[k] = mail[k]
        /\ mail[n].state = "pending" /\ mail'[n].state = "sending"
        /\ UNCHANGED <<delivered, unsure, taken, faults>>
    BY <1>10 DEF Claim, Claimable, leaseVars, TypeOK, PassType, PassShape
  <2>2. CASE n = m
    <3>1. Attended(m)'
      BY <2>1, <2>2 DEF Attended
    <3>2. Free(m) /\ ~Free(m)'
      BY <2>1, <2>2, <3>1 DEF Free
    <3>3. Sending(m)' \subseteq Sending(m) \cup {p}
      BY <2>1 DEF Sending
    <3>4. QED
      BY <1>2, <2>1, <3>2, <3>3
  <2>3. CASE n # m
    <3>1. Sending(m)' \subseteq Sending(m)
      BY <2>1, <2>3 DEF Sending
    <3>2. Attended(m) => Attended(m)'
      BY <2>1, <2>3 DEF Attended, HoldsClaim
    <3>3. QED
      BY <1>0, <1>1, <1>5, <2>1, <2>3, <3>1, <3>2
  <2>4. QED
    BY <2>2, <2>3
<1>11. ASSUME NEW p \in Procs, NEW n \in Mails, Skip(p, n) PROVE Tally(m)'
  <2>1. /\ \A q \in Procs : /\ pass'[q].pc = pass[q].pc
                            /\ pass'[q].at = pass[q].at
                            /\ pass'[q].stamp = pass[q].stamp
        /\ UNCHANGED <<mail, delivered, unsure, taken, faults>>
    BY <1>11 DEF Skip, leaseVars, TypeOK, PassType
  <2>2. QED
    BY <1>0, <1>1, <1>6, <2>1
<1>12. ASSUME NEW p \in Procs, NEW n \in Mails, Refresh(p, n) PROVE Tally(m)'
  <2>1. /\ \A q \in Procs : q # p => pass'[q] = pass[q]
        /\ pass[p].pc = "refresh" /\ n \in pass[p].at
        /\ pass'[p].at = pass[p].at /\ pass'[p].stamp = mail[n].attempts
        /\ UNCHANGED <<mail, delivered, unsure, taken, faults>>
    BY <1>12 DEF Refresh, leaseVars, TypeOK, PassType
  <2>2. m \in pass[p].at => m = n
    BY <2>1 DEF PassShape
  <2>3. Sending(m)' \subseteq Sending(m)
    BY <2>1 DEF Sending
  <2>4. mail[m].state = "sending" => (Attended(m) => Attended(m)')
    BY <2>1, <2>2 DEF Attended, HoldsClaim
  <2>5. Free(m)' => Free(m)
    BY <2>1, <2>4 DEF Free
  <2>6. QED
    BY <1>0, <1>1, <2>1, <2>3, <2>5
<1>13. ASSUME NEW p \in Procs, NEW n \in Mails, NEW accepted \in BOOLEAN, NEW ok \in BOOLEAN,
              Send(p, n, accepted, ok)
       PROVE  Tally(m)'
  <2>1. /\ \A q \in Procs : q # p => pass'[q] = pass[q]
        /\ pass[p].pc = "send" /\ n \in pass[p].at
        /\ pass'[p].at = pass[p].at /\ pass'[p].stamp = pass[p].stamp
        /\ UNCHANGED <<mail, taken, faults>>
    BY <1>13 DEF Send, leaseVars, TypeOK, PassType
  <2>2. m \in pass[p].at => m = n
    BY <2>1 DEF PassShape
  <2>3. Attended(m) => Attended(m)'
    BY <2>1 DEF Attended, HoldsClaim
  <2>4. Free(m)' => Free(m)
    BY <1>5, <2>1, <2>3
  <2>5. Sending(m)' \subseteq Sending(m)
    BY <2>1 DEF Sending
  <2>6. CASE n # m
    <3>1. delivered'[m] = delivered[m] /\ unsure'[m] = unsure[m]
      BY <1>13, <2>6 DEF Send, TypeOK
    <3>2. QED
      BY <1>0, <1>1, <2>1, <2>4, <2>5, <3>1
  <2>7. CASE n = m /\ ok
    <3>1. delivered'[m] = delivered[m] + 1 /\ unsure' = unsure /\ pass'[p].pc = "sent"
      BY <1>13, <2>7 DEF Send, AfterSend, TypeOK, PassType
    <3>2. p \in Sending(m) /\ Sending(m)' \subseteq Sending(m) \ {p}
      BY <2>1, <2>7, <3>1 DEF Sending
    <3>3. QED
      BY <1>3, <2>1, <2>4, <3>1, <3>2
  <2>8. CASE n = m /\ ~ok /\ accepted
    <3>1. delivered'[m] = delivered[m] + 1 /\ unsure'[m] = unsure[m] + 1
      BY <1>13, <2>8 DEF Send, TypeOK
    <3>2. QED
      BY <1>4, <2>1, <2>4, <2>5, <3>1
  <2>9. CASE ~ok /\ ~accepted
    <3>1. UNCHANGED <<delivered, unsure>>
      BY <1>13, <2>9 DEF Send
    <3>2. QED
      BY <1>0, <1>1, <2>1, <2>4, <2>5, <3>1
  <2>10. QED
    BY <2>6, <2>7, <2>8, <2>9
<1>14. ASSUME NEW p \in Procs, NEW n \in Mails, CompleteSent(p, n) PROVE Tally(m)'
  <2>1. /\ \A q \in Procs : q # p => pass'[q] = pass[q]
        /\ pass[p].pc = "sent" /\ n \in pass[p].at /\ pass'[p].at = {}
        /\ UNCHANGED <<delivered, unsure, taken, faults>>
    BY <1>14 DEF CompleteSent, NextMail, leaseVars, TypeOK, PassType
  <2>2. m \in pass[p].at => m = n
    BY <2>1 DEF PassShape
  <2>3. Sending(m)' \subseteq Sending(m)
    BY <2>1 DEF Sending
  <2>4. CASE HoldsClaim(p, n) /\ m = n
    <3>1. mail'[m].state = "sent"
      BY <1>14, <2>4 DEF CompleteSent, TypeOK, MailType
    <3>2. QED
      BY <1>0, <1>1, <2>1, <2>3, <3>1 DEF Free
  <2>5. CASE ~(HoldsClaim(p, n) /\ m = n)
    <3>1. mail'[m] = mail[m]
      BY <1>14, <2>5 DEF CompleteSent, TypeOK
    <3>2. Attended(m) => Attended(m)'
      BY <2>1, <2>2, <2>5, <3>1 DEF Attended, HoldsClaim
    <3>3. QED
      BY <1>0, <1>1, <1>5, <2>1, <2>3, <3>1, <3>2
  <2>6. QED
    BY <2>4, <2>5
<1>15. ASSUME NEW p \in Procs, NEW n \in Mails, FailMail(p, n) PROVE Tally(m)'
  <2>1. /\ \A q \in Procs : q # p => pass'[q] = pass[q]
        /\ pass[p].pc = "failed" /\ n \in pass[p].at /\ pass'[p].at = {}
        /\ UNCHANGED <<delivered, unsure, taken, faults>>
    BY <1>15 DEF FailMail, NextMail, leaseVars, TypeOK, PassType
  <2>2. m \in pass[p].at => m = n
    BY <2>1 DEF PassShape
  <2>3. Sending(m)' \subseteq Sending(m) \ {p}
    BY <2>1 DEF Sending
  <2>4. CASE m = n
    <3>1. p \in Sending(m)
      BY <2>1, <2>4 DEF Sending
    <3>2. QED
      BY <1>3, <2>1, <2>3, <3>1
  <2>5. CASE m # n
    <3>1. mail'[m] = mail[m]
      BY <1>15, <2>5, FailStep
    <3>2. Attended(m) => Attended(m)'
      BY <2>1, <2>2, <2>5, <3>1 DEF Attended, HoldsClaim
    <3>3. QED
      BY <1>0, <1>1, <1>5, <2>1, <2>3, <3>1, <3>2
  <2>6. QED
    BY <2>4, <2>5
<1>16. ASSUME NEW p \in Procs, EndPass(p) PROVE Tally(m)'
  <2>1. /\ \A q \in Procs : q # p => pass'[q] = pass[q]
        /\ pass[p].at = {} /\ pass'[p].at = {}
        /\ UNCHANGED <<mail, delivered, unsure, taken, faults>>
    BY <1>16 DEF EndPass, NewPass, TypeOK, PassShape
  <2>2. Sending(m)' \subseteq Sending(m)
    BY <2>1 DEF Sending
  <2>3. Attended(m) => Attended(m)'
    BY <2>1 DEF Attended, HoldsClaim
  <2>4. QED
    BY <1>0, <1>1, <1>5, <2>1, <2>2, <2>3
<1>17. ASSUME NEW p \in Procs, CompleteRaises(p) \/ Abort(p) \/ KillPass(p) PROVE Tally(m)'
  <2>1. /\ \A q \in Procs : q # p => pass'[q] = pass[q]
        /\ pass'[p].at = {}
        /\ UNCHANGED <<delivered, unsure, taken>> /\ faults' = faults + 1
    BY <1>17 DEF CompleteRaises, Abort, KillPass, Kill, Fault, NextMail, NewPass, TypeOK, PassType
  <2>2. Sending(m)' \subseteq Sending(m)
    BY <2>1 DEF Sending
  <2>3. QED
    BY <1>0, <1>4, <2>1, <2>2
<1>18. CASE Age
  <2>1. UNCHANGED <<delivered, unsure, taken, faults>>
    BY <1>18 DEF Age, leaseVars
  <2>2. QED
    BY <1>0, <1>1, <1>6, <1>18, <2>1, AgeRow, AgePass
<1>19. ASSUME NEW n \in Mails, Backoff(n) PROVE Tally(m)'
  <2>1. /\ mail'[m].state = mail[m].state /\ mail'[m].attempts = mail[m].attempts
        /\ UNCHANGED <<pass, delivered, unsure, taken, faults>>
    BY <1>19 DEF Backoff, leaseVars, TypeOK, MailType
  <2>2. QED
    BY <1>0, <1>1, <1>6, <2>1
<1>20. ASSUME NEW p \in Procs,
              Unwind(p) \/ Acquire(p) \/ Renew(p) \/ Interrupt(p) \/ GiveUp(p), UNCHANGED mailVars
       PROVE  Tally(m)'
  <2>1. faults' = faults
    BY <1>20 DEF Unwind, Join, ReleaseGet, ReleaseDelete, Acquire, Renew, RenewGet, RenewSet,
       Exit, Interrupt, GiveUp
  <2>2. QED
    BY <1>0, <1>7, <1>20, <2>1
<1>21. CASE (Expire \/ Lapse) /\ UNCHANGED mailVars
  BY <1>0, <1>7, <1>21 DEF Expire, Lapse
<1>22. CASE UNCHANGED vars
  BY <1>0, <1>7, <1>22 DEF vars, leaseVars
<1>23. ASSUME NEW p \in Procs, Work(p) PROVE Tally(m)'
  BY <1>9, <1>10, <1>11, <1>12, <1>13, <1>14, <1>15, <1>16, <1>23 DEF Work
<1>24. QED
  BY <1>8, <1>17, <1>18, <1>19, <1>20, <1>21, <1>22, <1>23 DEF Next, Run

-----------------------------------------------------------------------------
IInv ==
  /\ TypeOK
  /\ RowShape /\ PassShape /\ Delivered
  /\ LeaseHeld /\ NoneTaken /\ Copies

LEMMA InitInv == Init => IInv
<1> SUFFICES ASSUME Init PROVE IInv
  OBVIOUS
<1>1. \A m \in Mails, p \in Procs : mail[m] = NoMail /\ pass[p] = NewPass /\ delivered[m] = 0
  BY DEF Init
<1>2. RowShape /\ Delivered
  BY DEF Init, NoMail, NewPass, RowShape, Delivered
<1>3. PassShape /\ LeaseHeld /\ NoneTaken
  BY TokenAssumption DEF Init, LeaseInit, NewPass, PassShape, LeaseHeld, NoneTaken
<1>4. ASSUME NEW m \in Mails PROVE Tally(m)
  <2>1. Sending(m) = {}
    BY <1>1 DEF NewPass, Sending
  <2>2. IsFiniteSet(Sending(m)) /\ Cardinality(Sending(m)) = 0
    BY <2>1, FS_EmptySet
  <2>3. delivered[m] = 0 /\ unsure[m] = 0 /\ taken[m] = 0 /\ faults = 0
    BY DEF Init, LeaseInit
  <2>4. QED
    BY <2>2, <2>3 DEF Tally, Owed
<1>5. QED
  BY <1>2, <1>3, <1>4, InitTypeOK DEF IInv, Copies

LEMMA StepInv == IInv /\ [Next]_vars => IInv'
BY TypeStep, RowShapeStep, PassShapeStep, DeliveredStep, LeaseStep, NoneTakenStep, CopiesStep
DEF IInv

\* A mail marked SENT went out: complete_sent is reached only through a send
\* that returned, whatever passes overlap or die.
THEOREM SentWentOut == Spec => []SentIsDelivered
<1>1. IInv => SentIsDelivered
  BY DEF IInv, Delivered, SentIsDelivered
<1>2. QED
  BY <1>1, InitInv, StepInv, PTL DEF Spec

\* A mail that is SENT or FAILED stays so: the claim and the terminal writes
\* are compare-and-sets, and the reaper touches SENDING rows only.
THEOREM FinalIsFrozen == Spec => FinalIsForever
<1>1. IInv /\ [Next]_vars => [\A m \in Mails : Settled(m) => mail'[m] = mail[m]]_vars
  BY FinalStep DEF IInv
<1>2. QED
  BY <1>1, InitInv, StepInv, PTL DEF Spec, FinalIsForever

\* Each copy of a mail beyond the first has its own crash, error, send that raised
\* after the server had the mail, or reap that took the row from a live pass, and
\* until a lease ends under a live pass there are no such reaps: the claim hands a
\* row to one pass, however many run side by side.
THEOREM OneCopy == Spec => []OneCopyPerFault
<1>1. IInv => OneCopyPerFault
  <2>1. ASSUME IInv, NEW m \in Mails
        PROVE  delivered[m] <= 1 + faults + unsure[m] + taken[m] /\ (slips = 0 => taken[m] = 0)
    <3>1. Cardinality(Sending(m)) \in Nat /\ Owed(m) \in Nat
      BY <2>1, FS_CardinalityType DEF IInv, Copies, Tally, Owed
    <3>2. {delivered[m], unsure[m], taken[m], faults} \subseteq Nat
      BY <2>1, LeaseBoundsAssumption DEF IInv, TypeOK, LeaseTypeOK
    <3>3. delivered[m] + Cardinality(Sending(m)) + Owed(m) <= 1 + faults + unsure[m] + taken[m]
      BY <2>1 DEF IInv, Copies, Tally
    <3>4. QED
      BY <2>1, <3>1, <3>2, <3>3 DEF IInv, NoneTaken
  <2>2. QED
    BY <2>1 DEF OneCopyPerFault
<1>2. QED
  BY <1>1, InitInv, StepInv, PTL DEF Spec

\* Until a lease ends under a live pass, one pass is at work: the key is released only by its
\* holder, and a renewal never revives a key its pass has given back.
THEOREM OnePassAtATime == Spec => [](slips = 0 => \A p, q \in Procs : Working(p) /\ Working(q) => p = q)
<1>1. IInv => (slips = 0 => \A p, q \in Procs : Working(p) /\ Working(q) => p = q)
  BY Alone DEF IInv
<1>2. QED
  BY <1>1, InitInv, StepInv, PTL DEF Spec
-----------------------------------------------------------------------------
(* Single flight, whatever lapses.  A pass or thread is loose when it can   *)
(* work, or write the key, without being the one that has it: the reads and *)
(* writes of the key hand looseness on, to whoever had the key, and only a  *)
(* slip adds to it.                                                         *)

\* A pass that works, is to delete the key, or has a thread that is to set it.
PassLoose(p) ==
  \/ Working(p) /\ (key # p \/ renewer[p] = "off")
  \/ key # p /\ (proc[p] = "delete" \/ (proc[p] = "join" /\ renewer[p] = "got"))

\* A thread that outlives its pass's join.
ThreadLoose(p) == renewer[p] = "got" /\ proc[p] \notin {"work", "join"}

Loose ==
  {t \in Procs \X {"pass", "thread"} :
     IF t[2] = "pass" THEN PassLoose(t[1]) ELSE ThreadLoose(t[1])}

LooseBound == IsFiniteSet(Loose) /\ Cardinality(Loose) <= slips

\* One in for one out.
LEMMA Exchange ==
  ASSUME NEW S, IsFiniteSet(S), NEW x \in S, NEW y, NEW T, T \subseteq (S \ {x}) \cup {y}
  PROVE  IsFiniteSet(T) /\ Cardinality(T) <= Cardinality(S)
<1> DEFINE R == S \ {x}
           U == R \cup {y}
<1>1. /\ IsFiniteSet(R) /\ Cardinality(R) = Cardinality(S) - 1
      /\ Cardinality(S) \in Nat /\ Cardinality(R) \in Nat
  BY FS_RemoveElement, FS_CardinalityType
<1>2. /\ IsFiniteSet(U) /\ (Cardinality(U) = Cardinality(R) \/ Cardinality(U) = Cardinality(R) + 1)
  <2> HIDE DEF R
  <2>1. IsFiniteSet(R)
    BY <1>1
  <2>2. QED
    BY <2>1, FS_AddElement
<1>3. IsFiniteSet(T) /\ Cardinality(T) <= Cardinality(U)
  <2> HIDE DEF U
  <2>1. IsFiniteSet(U) /\ T \subseteq U
    BY <1>2 DEF U
  <2>2. QED
    BY <2>1, FS_Subset
<1>4. Cardinality(T) \in Nat /\ Cardinality(U) \in Nat
  BY <1>2, <1>3, FS_CardinalityType
<1>5. QED
  <2> HIDE DEF R, U
  <2>1. QED
    BY <1>1, <1>2, <1>3, <1>4

\* The three ways a step may change what is loose.
LEMMA LooseChange ==
  ASSUME LeaseTypeOK, LooseBound
  PROVE  /\ Loose' \subseteq Loose /\ slips' = slips => LooseBound'
         /\ \A y : Loose' \subseteq Loose \cup {y} /\ slips' = slips + 1 => LooseBound'
         /\ \A x \in Loose : \A y :
              Loose' \subseteq (Loose \ {x}) \cup {y} /\ slips' = slips => LooseBound'
<1>1. IsFiniteSet(Loose) /\ Cardinality(Loose) <= slips
  BY DEF LooseBound
<1>2. slips \in Nat /\ Cardinality(Loose) \in Nat
  BY <1>1, LeaseBoundsAssumption, FS_CardinalityType DEF LeaseTypeOK
<1>3. ASSUME Loose' \subseteq Loose, slips' = slips PROVE LooseBound'
  <2>1. IsFiniteSet(Loose') /\ Cardinality(Loose') <= Cardinality(Loose)
    BY <1>1, <1>3, FS_Subset
  <2>2. Cardinality(Loose') \in Nat
    BY <2>1, FS_CardinalityType
  <2>3. QED
    BY <1>1, <1>2, <1>3, <2>1, <2>2 DEF LooseBound
<1>4. ASSUME NEW y, Loose' \subseteq Loose \cup {y}, slips' = slips + 1 PROVE LooseBound'
  <2>1. IsFiniteSet(Loose') /\ Cardinality(Loose') <= Cardinality(Loose) + 1
    BY <1>1, <1>4, Addition
  <2>2. Cardinality(Loose') \in Nat
    BY <2>1, FS_CardinalityType
  <2>3. QED
    BY <1>1, <1>2, <1>4, <2>1, <2>2 DEF LooseBound
<1>5. ASSUME NEW x \in Loose, NEW y, Loose' \subseteq (Loose \ {x}) \cup {y}, slips' = slips
      PROVE  LooseBound'
  <2>1. IsFiniteSet(Loose') /\ Cardinality(Loose') <= Cardinality(Loose)
    BY <1>1, <1>5, Exchange
  <2>2. Cardinality(Loose') \in Nat
    BY <2>1, FS_CardinalityType
  <2>3. QED
    BY <1>1, <1>2, <1>5, <2>1, <2>2 DEF LooseBound
<1>6. QED
  BY <1>3, <1>4, <1>5

\* Process by process.
LEMMA LooseCases ==
  ASSUME NEW Z,
         \A p \in Procs : PassLoose(p)' => <<p, "pass">> \in Z,
         \A p \in Procs : ThreadLoose(p)' => <<p, "thread">> \in Z
  PROVE  Loose' \subseteq Z
BY DEF Loose

LEMMA LooseMembers ==
  \A p \in Procs : /\ <<p, "pass">> \in Loose <=> PassLoose(p)
                   /\ <<p, "thread">> \in Loose <=> ThreadLoose(p)
BY DEF Loose

\* Steps that hand nothing on.
LEMMA LooseShrinks ==
  ASSUME LeaseTypeOK, LooseBound, slips' = slips,
         \A p \in Procs : PassLoose(p)' => PassLoose(p),
         \A p \in Procs : ThreadLoose(p)' => ThreadLoose(p)
  PROVE  LooseBound'
<1>1. Loose' \subseteq Loose
  BY LooseCases, LooseMembers
<1>2. QED
  BY <1>1, LooseChange

\* The key changes hands: whoever had it may be loose.
LEMMA LooseGrows ==
  ASSUME LeaseTypeOK, LooseBound, slips' = slips + 1, NEW y,
         \A p \in Procs : PassLoose(p)' => PassLoose(p) \/ <<p, "pass">> = y,
         \A p \in Procs : ThreadLoose(p)' => ThreadLoose(p) \/ <<p, "thread">> = y
  PROVE  LooseBound'
<1>1. Loose' \subseteq Loose \cup {y}
  BY LooseCases, LooseMembers
<1>2. QED
  BY <1>1, LooseChange

LEMMA LooseHandsOn ==
  ASSUME LeaseTypeOK, LooseBound, slips' = slips, NEW x \in Loose, NEW y,
         \A p \in Procs : PassLoose(p)' => (PassLoose(p) /\ <<p, "pass">> # x) \/ <<p, "pass">> = y,
         \A p \in Procs : ThreadLoose(p)' => ThreadLoose(p) /\ <<p, "thread">> # x
  PROVE  LooseBound'
<1>1. Loose' \subseteq (Loose \ {x}) \cup {y}
  BY LooseCases, LooseMembers
<1>2. QED
  BY <1>1, LooseChange

LEMMA LooseStep ==
  ASSUME TypeOK, LooseBound, [Next]_vars
  PROVE  LooseBound'
<1>t. /\ LeaseTypeOK /\ proc \in [Procs -> {"idle", "work", "join", "release", "delete"}]
      /\ renewer \in [Procs -> {"off", "wait", "got"}]
      /\ Nobody \notin Procs /\ Orphan \notin Procs /\ Nobody # Orphan
  BY TokenAssumption DEF TypeOK, LeaseTypeOK
<1> USE DEF PassLoose, ThreadLoose, Working
<1>1. ASSUME UNCHANGED <<key, proc, renewer, slips>> PROVE LooseBound'
  BY <1>1, <1>t, LooseShrinks
<1>2. ASSUME NEW p \in Procs, Acquire(p) PROVE LooseBound'
  <2>1. /\ \A q \in Procs : PassLoose(q)' => PassLoose(q)
        /\ \A q \in Procs : ThreadLoose(q)' => ThreadLoose(q)
        /\ slips' = slips
    BY <1>2, <1>t DEF Acquire, Takes
  <2>2. QED
    BY <2>1, <1>t, LooseShrinks
<1>3. ASSUME NEW p \in Procs, Join(p) \/ ReleaseGet(p) PROVE LooseBound'
  <2>1. /\ \A q \in Procs : PassLoose(q)' => PassLoose(q)
        /\ \A q \in Procs : ThreadLoose(q)' => ThreadLoose(q)
        /\ slips' = slips
    BY <1>3, <1>t DEF Join, Joins, ReleaseGet, Owns
  <2>2. QED
    BY <2>1, <1>t, LooseShrinks
<1>4. ASSUME NEW p \in Procs, RenewGet(p) \/ Exit(p) PROVE LooseBound'
  <2>1. /\ \A q \in Procs : PassLoose(q)' => PassLoose(q)
        /\ \A q \in Procs : ThreadLoose(q)' => ThreadLoose(q)
        /\ slips' = slips
    BY <1>4, <1>t DEF RenewGet, StillOurs, Exit
  <2>2. QED
    BY <2>1, <1>t, LooseShrinks
<1>5. ASSUME NEW p \in Procs, KillPass(p) PROVE LooseBound'
  <2>1. /\ \A q \in Procs : PassLoose(q)' => PassLoose(q)
        /\ \A q \in Procs : ThreadLoose(q)' => ThreadLoose(q)
        /\ slips' = slips
    BY <1>5, <1>t DEF KillPass, Kill
  <2>2. QED
    BY <2>1, <1>t, LooseShrinks
<1>6. ASSUME NEW p \in Procs, EndPass(p) \/ Abort(p) PROVE LooseBound'
  <2>1. /\ \A q \in Procs : PassLoose(q)' => PassLoose(q)
        /\ \A q \in Procs : ThreadLoose(q)' => ThreadLoose(q)
        /\ slips' = slips
    BY <1>6, <1>t DEF EndPass, Abort, EndWork
  <2>2. QED
    BY <2>1, <1>t, LooseShrinks
<1>7. CASE Expire
  <2>1. /\ \A q \in Procs : PassLoose(q)' => PassLoose(q)
        /\ \A q \in Procs : ThreadLoose(q)' => ThreadLoose(q)
        /\ slips' = slips
    BY <1>7, <1>t DEF Expire
  <2>2. QED
    BY <2>1, <1>t, LooseShrinks
\* The slips.
<1>8. CASE Lapse
  <2>1. /\ \A q \in Procs : PassLoose(q)' => PassLoose(q) \/ q = key
        /\ \A q \in Procs : ThreadLoose(q)' => ThreadLoose(q)
        /\ slips' = slips + 1
    BY <1>8, <1>t DEF Lapse, Slip
  <2>2. QED
    BY <2>1, <1>t, LooseGrows
<1>9. ASSUME NEW p \in Procs, GiveUp(p) PROVE LooseBound'
  <2>1. /\ \A q \in Procs : PassLoose(q)' => PassLoose(q) \/ q = p
        /\ \A q \in Procs : ThreadLoose(q)' => ThreadLoose(q)
        /\ slips' = slips + 1
    BY <1>9, <1>t DEF GiveUp, Slip
  <2>2. QED
    BY <2>1, <1>t, LooseGrows
<1>10. ASSUME NEW p \in Procs, Interrupt(p) PROVE LooseBound'
  <2>1. /\ \A q \in Procs : PassLoose(q)' => PassLoose(q)
        /\ \A q \in Procs : ThreadLoose(q)' => ThreadLoose(q) \/ q = p
        /\ slips' = slips + 1
    BY <1>10, <1>t DEF Interrupt, Slip
  <2>2. QED
    BY <2>1, <1>t, LooseGrows
\* Another's key is deleted, or set.
<1>11. ASSUME NEW p \in Procs, ReleaseDelete(p) PROVE LooseBound'
  <2>1. CASE key = p
    <3>1. /\ \A q \in Procs : PassLoose(q)' => PassLoose(q)
          /\ \A q \in Procs : ThreadLoose(q)' => ThreadLoose(q)
          /\ slips' = slips
      BY <1>11, <2>1, <1>t DEF ReleaseDelete
    <3>2. QED
      BY <3>1, <1>t, LooseShrinks
  <2>2. CASE key # p
    <3>1. PassLoose(p) /\ ~PassLoose(p)' /\ slips' = slips
      BY <1>11, <2>2, <1>t DEF ReleaseDelete
    <3>2. /\ \A q \in Procs : PassLoose(q)' => (PassLoose(q) /\ q # p) \/ q = key
          /\ \A q \in Procs : ThreadLoose(q)' => ThreadLoose(q)
      BY <1>11, <2>2, <1>t DEF ReleaseDelete
    <3>3. <<p, "pass">> \in Loose
      BY <3>1, LooseMembers
    <3>4. QED
      BY <3>1, <3>2, <3>3, <1>t, LooseHandsOn
  <2>3. QED
    BY <2>1, <2>2
<1>12. ASSUME NEW p \in Procs, RenewSet(p) PROVE LooseBound'
  <2>1. CASE proc[p] \in {"work", "join"} /\ key = p
    <3>1. /\ \A q \in Procs : PassLoose(q)' => PassLoose(q)
          /\ \A q \in Procs : ThreadLoose(q)' => ThreadLoose(q)
          /\ slips' = slips
      BY <1>12, <2>1, <1>t DEF RenewSet
    <3>2. QED
      BY <3>1, <1>t, LooseShrinks
  <2>2. CASE proc[p] \in {"work", "join"} /\ key # p
    <3>1. PassLoose(p) /\ slips' = slips
      BY <1>12, <2>2, <1>t DEF RenewSet
    <3>2. /\ \A q \in Procs : PassLoose(q)' => (PassLoose(q) /\ q # p) \/ q = key
          /\ \A q \in Procs : ThreadLoose(q)' => ThreadLoose(q)
      BY <1>12, <2>2, <1>t DEF RenewSet
    <3>3. <<p, "pass">> \in Loose
      BY <3>1, LooseMembers
    <3>4. /\ \A q \in Procs :
               PassLoose(q)' => (PassLoose(q) /\ <<q, "pass">> # <<p, "pass">>)
                                \/ <<q, "pass">> = <<key, "pass">>
          /\ \A q \in Procs : ThreadLoose(q)' => ThreadLoose(q) /\ <<q, "thread">> # <<p, "pass">>
      <4> HIDE DEF PassLoose, ThreadLoose, Working
      <4>1. QED
        BY <3>2
    <3>5. QED
      <4> HIDE DEF PassLoose, ThreadLoose, Working
      <4>1. QED
        BY <3>1, <3>3, <3>4, <1>t, LooseHandsOn
  <2>3. CASE proc[p] \notin {"work", "join"}
    <3>1. ThreadLoose(p) /\ slips' = slips
      BY <1>12, <2>3, <1>t DEF RenewSet
    <3>2. /\ \A q \in Procs : PassLoose(q)' => PassLoose(q) \/ q = key
          /\ \A q \in Procs : ThreadLoose(q)' => ThreadLoose(q) /\ q # p
      <4>1. /\ renewer' = [renewer EXCEPT ![p] = "off"] /\ UNCHANGED proc
            /\ key' = IF proc[p] = "idle" THEN Orphan ELSE p
        BY <1>12, <2>3 DEF RenewSet, Working
      <4>2. ASSUME NEW q \in Procs, PassLoose(q)' PROVE PassLoose(q) \/ q = key
        BY <2>3, <4>1, <4>2, <1>t
      <4>3. ASSUME NEW q \in Procs, ThreadLoose(q)' PROVE ThreadLoose(q) /\ q # p
        BY <4>1, <4>3, <1>t
      <4>4. QED
        BY <4>2, <4>3
    <3>3. <<p, "thread">> \in Loose
      BY <3>1, LooseMembers
    <3> DEFINE x == <<p, "thread">>
               y == <<key, "pass">>
    <3> HIDE DEF PassLoose, ThreadLoose
    <3>4. \A q \in Procs :
            PassLoose(q)' => (PassLoose(q) /\ <<q, "pass">> # x) \/ <<q, "pass">> = y
      BY <3>2
    <3>5. \A q \in Procs : ThreadLoose(q)' => ThreadLoose(q) /\ <<q, "thread">> # x
      BY <3>2
    <3>6. x \in Loose
      BY <3>3
    <3> HIDE DEF x, y
    <3>7. QED
      BY <3>1, <3>4, <3>5, <3>6, <1>t, LooseHandsOn
  <2>4. QED
    BY <2>1, <2>2, <2>3
\* The work does not touch the lease.
<1>13. ASSUME NEW p \in Procs, CompleteRaises(p) \/ StartPass(p) PROVE LooseBound'
  BY <1>1, <1>13 DEF CompleteRaises, StartPass, leaseVars
<1>14. ASSUME NEW p \in Procs, NEW m \in Mails,
              \/ Claim(p, m) \/ Skip(p, m) \/ Refresh(p, m) \/ CompleteSent(p, m) \/ FailMail(p, m)
              \/ \E accepted, ok \in BOOLEAN : Send(p, m, accepted, ok)
       PROVE  LooseBound'
  BY <1>1, <1>14 DEF Claim, Skip, Refresh, Send, CompleteSent, FailMail, leaseVars
<1>15. ASSUME NEW m \in Mails, Enqueue(m) \/ Backoff(m) PROVE LooseBound'
  BY <1>1, <1>15 DEF Enqueue, Backoff, leaseVars
<1>16. CASE Age \/ UNCHANGED vars
  BY <1>1, <1>16 DEF Age, vars, leaseVars
<1> USE DEF Unwind
<1>17. ASSUME NEW p \in Procs, Unwind(p) \/ Renew(p) PROVE LooseBound'
  BY <1>3, <1>4, <1>11, <1>12, <1>17 DEF Unwind, Renew
<1>18. ASSUME NEW p \in Procs, Work(p) PROVE LooseBound'
  BY <1>6, <1>13, <1>14, <1>18 DEF Work
<1>19. QED
  BY <1>2, <1>5, <1>6, <1>7, <1>8, <1>9, <1>10, <1>13, <1>15, <1>16, <1>17, <1>18 DEF Next, Run

LEMMA LooseHolds == Spec => [](TypeOK /\ LooseBound)
<1>1. Init => LooseBound
  <2>1. ASSUME Init PROVE LooseBound
    <3>1. Loose = {}
      BY <2>1 DEF Init, LeaseInit, Loose, PassLoose, ThreadLoose, Working
    <3>2. Cardinality(Loose) = 0 /\ IsFiniteSet(Loose)
      BY <3>1, FS_EmptySet
    <3>3. QED
      BY <2>1, <3>2 DEF LooseBound, Init, LeaseInit
  <2>2. QED
    BY <2>1
<1>2. IInv => TypeOK
  BY DEF IInv
<1>3. TypeOK /\ LooseBound /\ [Next]_vars => LooseBound'
  BY LooseStep
<1>4. QED
  BY <1>1, <1>2, <1>3, InitInv, StepInv, PTL DEF Spec

\* However the reads and writes of the key interleave, each lease that ends
\* under a live holder lets at most one more pass run alongside.
THEOREM OneMorePerSlip == Spec => []SingleFlight
<1>1. TypeOK /\ LooseBound => SingleFlight
  <2>1. ASSUME TypeOK, LooseBound PROVE SingleFlight
    <3> DEFINE W == {p \in Procs : Working(p)}
               L == {p \in Procs : PassLoose(p)}
    <3>1. IsFiniteSet(L) /\ Cardinality(L) <= Cardinality(Loose)
      <4> DEFINE f == [p \in L |-> <<p, "pass">>]
      <4>1. f \in Injection(L, Loose)
        BY DEF Loose, Injection, IsInjective
      <4>2. IsFiniteSet(Loose)
        BY <2>1 DEF LooseBound
      <4> HIDE DEF L, f
      <4>3. QED
        BY <4>1, <4>2, FS_Injection
    <3>2. W \subseteq L \cup {key}
      BY DEF PassLoose
    <3> HIDE DEF L, W
    <3>3. IsFiniteSet(W) /\ Cardinality(W) <= Cardinality(L) + 1
      BY <3>1, <3>2, Addition
    <3>4. /\ Cardinality(Loose) <= slips /\ slips \in Nat
          /\ Cardinality(L) \in Nat /\ Cardinality(W) \in Nat /\ Cardinality(Loose) \in Nat
      BY <2>1, <3>1, <3>3, LeaseBoundsAssumption, FS_CardinalityType
         DEF LooseBound, TypeOK, LeaseTypeOK
    <3>5. Cardinality(W) <= 1 + slips
      BY <3>1, <3>3, <3>4
    <3>6. QED
      BY <3>5 DEF W, SingleFlight
  <2>2. QED
    BY <2>1
<1>2. QED
  BY <1>1, LooseHolds, PTL
=============================================================================
