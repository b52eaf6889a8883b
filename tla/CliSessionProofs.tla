-------------------------- MODULE CliSessionProofs --------------------------
(***************************************************************************)
(* CliSession for any number of invocations, requests, tabs, sessions and  *)
(* pairs and any bounds on what goes wrong: its types, that a logout that  *)
(* reports success has left nothing good, that a refresh token is          *)
(* exchanged at most once, and once more for each lapsed lock, and that    *)
(* invocations that follow one another without a fault lose no session.    *)
(***************************************************************************)
EXTENDS CliSession, FiniteSetTheorems, TLAPS

-----------------------------------------------------------------------------
(* Who writes what.                                                        *)

Hearing(c) ==
  \/ Succeeds(c) \/ Refused(c) \/ Rotated(c) \/ Rejected(c) \/ Conflicts(c)
  \/ StillPending(c) \/ SessionGone(c) \/ Approved(c)
Sending(c) == SendRefresh(c) \/ Issue(c) \/ Poll(c)
Writing(c) == Save(c) \/ Wipe(c) \/ SignIn(c) \/ Mark(c) \/ Clear(c) \/ NudgeWrite(c)

LEMMA RunKinds == \A c : Run(c) => Hearing(c) \/ Sending(c) \/ Writing(c) \/ Create(c)
BY DEF Run, Hearing, Sending, Writing

LEMMA HearingKeeps ==
  ASSUME NEW c, Hearing(c)
  PROVE  UNCHANGED <<pair, lock, bag, file, tab, faults, lapses, overlaps>>
BY DEF Hearing, Succeeds, Refused, Rotated, Rejected, Conflicts, StillPending, SessionGone,
       Approved, serverVars, bounds

LEMMA SendingKeeps ==
  ASSUME NEW c, Sending(c)
  PROVE  UNCHANGED <<pair, lock, bag, file, tab, faults, lapses, overlaps>>
BY DEF Sending, SendRefresh, Issue, Poll, serverVars, bounds

LEMMA WritingKeeps ==
  ASSUME NEW c, Writing(c)
  PROVE  UNCHANGED <<pair, lock, bag, req, tab, faults, lapses, overlaps>>
BY DEF Writing, Save, Wipe, SignIn, Mark, Clear, NudgeWrite, serverVars, bounds

LEMMA TroubleKeeps ==
  /\ \A c : Lose(c) => UNCHANGED <<pair, lock, bag, file, tab, lapses, overlaps>>
  /\ \A c : Interrupt(c) => UNCHANGED <<pair, lock, bag, file, tab, lapses, overlaps>>
  /\ \A r : Kill(r) => UNCHANGED <<pair, bag, file, tab, lapses, overlaps>>
  /\ \A c, cmd : Start(c, cmd) => UNCHANGED <<pair, lock, bag, file, req, tab, faults, lapses>>
  /\ \A c : NudgeRead(c) => UNCHANGED <<pair, lock, bag, file, req, tab, faults, lapses>>
  /\ \A c : Create(c) => UNCHANGED <<pair, lock, file, req, tab, faults, lapses, overlaps>>
BY DEF Lose, Interrupt, Kill, Start, NudgeRead, Create, serverVars, bounds

LEMMA HandleKeeps ==
  ASSUME NEW r, Handle(r)
  PROVE  /\ UNCHANGED <<file, cli, tab, faults, lapses, overlaps>>
         /\ Revoke(r) \/ Rotate(r) \/ UNCHANGED pair
         /\ RefreshBegin(r) \/ Unlock(r) \/ UNCHANGED lock
         /\ PollDelete(r) \/ UNCHANGED bag
BY DEF Handle, Serve, RevokeBegin, Revoke, RefreshBegin, RefreshRead, Rotate, Release, Unlock,
       PollBegin, PollDelete, bounds

LEMMA OutsideKeeps ==
  /\ \A n : LockExpires(n) \/ LockLapses(n) \/ Age(n)
       => UNCHANGED <<file, bag, cli, req, tab, faults, overlaps>>
  /\ \A n : LockExpires(n) \/ LockLapses(n) => UNCHANGED pair
  /\ \A n : LockExpires(n) \/ Age(n) => UNCHANGED lapses
  /\ \A n : Age(n) => UNCHANGED lock
  /\ \A t, s : CompleteBegin(t, s)
       => UNCHANGED <<pair, file, lock, bag, cli, req, faults, lapses, overlaps>>
  /\ \A t : CompleteMint(t) => UNCHANGED <<file, lock, bag, cli, req, faults, lapses, overlaps>>
  /\ \A t : CompletePut(t) => UNCHANGED <<pair, file, lock, cli, req, faults, lapses, overlaps>>
  /\ \A s : Deny(s) \/ PendingExpires(s) \/ CompletedExpires(s)
       => UNCHANGED <<pair, file, lock, cli, req, tab, faults, lapses, overlaps>>
BY DEF LockExpires, LockLapses, Age, CompleteBegin, CompleteMint, CompletePut, Deny,
       PendingExpires, CompletedExpires, bounds

LEMMA PairWriters ==
  ASSUME [Next]_vars
  PROVE  \/ UNCHANGED pair
         \/ \E r \in Requests : Revoke(r) \/ Rotate(r)
         \/ \E t \in Tabs : CompleteMint(t)
         \/ \E n \in Pairs : Age(n)
BY RunKinds, HearingKeeps, SendingKeeps, WritingKeeps, TroubleKeeps, HandleKeeps, OutsideKeeps
   DEF Next, vars

LEMMA LockWriters ==
  ASSUME [Next]_vars
  PROVE  \/ UNCHANGED lock
         \/ \E r \in Requests : RefreshBegin(r) \/ Unlock(r) \/ Kill(r)
         \/ \E n \in Pairs : LockExpires(n) \/ LockLapses(n)
BY RunKinds, HearingKeeps, SendingKeeps, WritingKeeps, TroubleKeeps, HandleKeeps, OutsideKeeps
   DEF Next, vars

LEMMA BagWriters ==
  ASSUME [Next]_vars
  PROVE  \/ UNCHANGED bag
         \/ \E r \in Requests : PollDelete(r)
         \/ \E c \in Clients : Create(c)
         \/ \E t \in Tabs : CompletePut(t)
         \/ \E s \in Sessions : Deny(s) \/ PendingExpires(s) \/ CompletedExpires(s)
BY RunKinds, HearingKeeps, SendingKeeps, WritingKeeps, TroubleKeeps, HandleKeeps, OutsideKeeps
   DEF Next, vars

LEMMA FileWriters ==
  ASSUME [Next]_vars
  PROVE  UNCHANGED file \/ \E c \in Clients : Writing(c)
BY RunKinds, HearingKeeps, SendingKeeps, TroubleKeeps, HandleKeeps, OutsideKeeps
   DEF Next, vars

LEMMA TabWriters ==
  ASSUME [Next]_vars
  PROVE  \/ UNCHANGED tab
         \/ \E t \in Tabs, s \in Sessions : CompleteBegin(t, s)
         \/ \E t \in Tabs : CompleteMint(t) \/ CompletePut(t)
BY RunKinds, HearingKeeps, SendingKeeps, WritingKeeps, TroubleKeeps, HandleKeeps, OutsideKeeps
   DEF Next, vars

-----------------------------------------------------------------------------
(* Types.  What a request asks about depends on its kind, and what an      *)
(* invocation holds on where it is.                                        *)

ReqGood ==
  {q \in ReqType :
     /\ q.kind = "refresh" => q.arg \in Pairs
     /\ q.kind = "poll" => q.arg \in Sessions
     /\ q.kind \in {"api", "revoke"} => q.arg \in 0 .. MaxPairs
     /\ q.kind = "revoke" /\ q.pc = "revoke" => q.arg \in Pairs}

CliGood ==
  {i \in CliType :
     /\ i.pc \in {"polling", "awaiting"} => i.sess \in Sessions
     /\ i.pc = "retry" => i.mem \in Pairs}

Typed ==
  /\ TypeOK
  /\ req \in [Requests -> ReqGood]
  /\ cli \in [Clients -> CliGood]

Outs == {"none", "ok", "pending", "missing", "unauthorized", "conflict"}

LEMMA Numbers ==
  /\ MaxPairs \in Nat /\ MaxSessions \in Nat /\ MaxTroubles \in Nat /\ MaxLapses \in Nat
  /\ Pairs \subseteq 0 .. MaxPairs /\ Sessions \subseteq 0 .. MaxSessions
  /\ 0 \in 0 .. MaxPairs /\ 0 \in 0 .. MaxSessions /\ 0 \notin Pairs
  /\ \A n \in 0 .. MaxPairs : n # 0 => n \in Pairs
BY SessionBoundsAssumption DEF Pairs, Sessions

LEMMA Defaults ==
  /\ NoReq \in ReqGood
  /\ NoCli \in CliGood
  /\ NoTab \in TabType
  /\ NoPair \in PairType
BY ClientAssumption, SessionBoundsAssumption
   DEF NoReq, NoCli, NoTab, NoPair, ReqGood, CliGood, ReqType, CliType, TabType, PairType

LEMMA AnswerTyped ==
  ASSUME Typed, NEW r \in Requests, NEW out \in Outs, NEW got \in 0 .. MaxPairs,
         Answer(r, out, got)
  PROVE  req' \in [Requests -> ReqGood]
<1>1. req[r] \in ReqGood
  BY DEF Typed
<1> DEFINE v == [NoReq EXCEPT !.pc = "reply", !.client = req[r].client, !.out = out, !.got = got]
<1>2. v \in ReqGood
  <2>1. NoReq.kind = "api"
    BY DEF NoReq
  <2>2. req[r].client \in Clients \cup {Nobody}
    BY <1>1 DEF ReqGood, ReqType
  <2> QED
    BY <2>1, <2>2, Defaults DEF ReqGood, ReqType, Outs
<1> QED
  BY <1>2, Defaults DEF Answer, Typed

LEMMA SendsTyped ==
  ASSUME Typed, NEW c \in Clients, NEW kind, NEW arg, Sends(c, kind, arg),
         \/ kind = "refresh" /\ arg \in Pairs
         \/ kind \in {"api", "revoke"} /\ arg \in 0 .. MaxPairs
         \/ kind = "poll" /\ arg \in Sessions
  PROVE  req' \in [Requests -> ReqGood]
<1> DEFINE v == [NoReq EXCEPT !.pc = "begin", !.kind = kind, !.client = c, !.arg = arg]
<1>1. v \in ReqGood
  <2>1. arg \in 0 .. MaxPairs + MaxSessions
    BY SessionBoundsAssumption DEF Pairs, Sessions
  <2> QED
    BY <2>1, Defaults DEF ReqGood, ReqType
<1> QED
  BY <1>1 DEF Sends, Typed

LEMMA HearsTyped ==
  ASSUME Typed, NEW c, NEW out, NEW got, Hears(c, out, got)
  PROVE  req' \in [Requests -> ReqGood]
BY Defaults DEF Hears, Typed

LEMMA StepTyped ==
  ASSUME Typed, NEW r \in Requests, Step(r, "read") \/ Step(r, "rotate") \/ Step(r, "unlock")
  PROVE  req' \in [Requests -> ReqGood]
<1>1. req[r] \in ReqGood
  BY DEF Typed
<1>2. \A pc \in {"read", "rotate", "unlock"} : [req[r] EXCEPT !.pc = pc] \in ReqGood
  BY <1>1 DEF ReqGood, ReqType
<1> QED
  BY <1>2 DEF Step, Typed

LEMMA UnattendedTyped ==
  ASSUME Typed, NEW r \in Requests
  PROVE  Unattended(r) \in ReqGood
<1>1. req[r] \in ReqGood
  BY DEF Typed
<1> QED
  BY <1>1, Defaults DEF Unattended, ReqGood, ReqType

LEMMA FailedTyped ==
  ASSUME Typed, NEW c \in Clients
  PROVE  Failed(c) \in CliGood /\ Unheard(c) \subseteq CliGood
<1>1. cli[c] \in CliGood
  BY DEF Typed
<1>2. Failed(c) \in CliGood
  BY <1>1, Defaults DEF Failed, CliGood, CliType
<1>3. cli[c].pc = "awaiting" => [cli[c] EXCEPT !.pc = "polling"] \in CliGood
  BY <1>1 DEF CliGood, CliType
<1> QED
  BY <1>2, <1>3, Defaults DEF Unheard

LEMMA FreshPair == Fresh # {} => NextPair \in Pairs /\ NextPair \in Fresh
BY DEF Fresh, NextPair

LEMMA HandleTyped ==
  ASSUME Typed, NEW r \in Requests, Handle(r)
  PROVE  req' \in [Requests -> ReqGood]
<1> DEFINE q == req[r]
<1>1. q \in ReqGood /\ q.out \in Outs /\ q.got \in 0 .. MaxPairs /\ 0 \in 0 .. MaxPairs
  BY SessionBoundsAssumption DEF Typed, ReqGood, ReqType, Outs
<1>2. CASE Serve(r)
  BY <1>1, <1>2, AnswerTyped DEF Serve, Outs
<1>3. CASE RevokeBegin(r)
  <2>1. CASE Authentic(req[r].arg)
    <3>1. [q EXCEPT !.pc = "revoke"] \in ReqGood
      BY <1>1, <1>3, <2>1, SessionBoundsAssumption
         DEF RevokeBegin, At, Authentic, ReqGood, ReqType, Pairs
    <3> QED
      BY <1>3, <2>1, <3>1 DEF RevokeBegin, Step, Typed
  <2>2. CASE ~Authentic(req[r].arg)
    BY <1>1, <1>3, <2>2, AnswerTyped DEF RevokeBegin, Outs
  <2> QED
    BY <2>1, <2>2
<1>4. CASE Revoke(r)
  BY <1>1, <1>4, AnswerTyped DEF Revoke, Outs
<1>5. CASE RefreshBegin(r)
  BY <1>1, <1>5, AnswerTyped, StepTyped DEF RefreshBegin, Outs
<1>6. CASE RefreshRead(r)
  <2>1. [q EXCEPT !.pc = "release", !.out = "unauthorized"] \in ReqGood
    BY <1>1 DEF ReqGood, ReqType
  <2> QED
    BY <1>6, <2>1, StepTyped DEF RefreshRead, Typed
<1>7. CASE Rotate(r)
  <2>1. NextPair \in 0 .. MaxPairs
    BY <1>7, FreshPair, SessionBoundsAssumption DEF Rotate, Pairs
  <2>2. [q EXCEPT !.pc = "release", !.out = "ok", !.got = NextPair] \in ReqGood
    BY <1>1, <2>1 DEF ReqGood, ReqType
  <2> QED
    BY <1>7, <2>2 DEF Rotate, Typed
<1>8. CASE Release(r)
  BY <1>1, <1>8, AnswerTyped, StepTyped DEF Release, Reply
<1>9. CASE Unlock(r)
  BY <1>1, <1>9, AnswerTyped DEF Unlock, Reply
<1>10. CASE PollBegin(r)
  <2>1. q.arg \in Sessions
    BY <1>1, <1>10 DEF PollBegin, At, ReqGood
  <2>2. bag[q.arg].pair \in 0 .. MaxPairs
    BY <2>1 DEF Typed, TypeOK, BagType
  <2>3. [q EXCEPT !.pc = "delete", !.out = "ok", !.got = bag[q.arg].pair] \in ReqGood
    BY <1>1, <2>2 DEF ReqGood, ReqType
  <2>4. PollOut(q.arg) \in Outs
    BY DEF PollOut, Outs
  <2> QED
    BY <1>1, <1>10, <2>3, <2>4, AnswerTyped DEF PollBegin, Typed
<1>11. CASE PollDelete(r)
  BY <1>1, <1>11, AnswerTyped DEF PollDelete, Reply
<1> QED
  BY <1>2, <1>3, <1>4, <1>5, <1>6, <1>7, <1>8, <1>9, <1>10, <1>11 DEF Handle

LEMMA SendingTyped ==
  ASSUME Typed, NEW c \in Clients, Sending(c)
  PROVE  req' \in [Requests -> ReqGood] /\ cli' \in [Clients -> CliGood]
<1> DEFINE i == cli[c]
<1>1. i \in CliGood /\ i.mem \in 0 .. MaxPairs
  BY DEF Typed, CliGood, CliType
<1>2. \A pc : pc \in {"asking", "rotating"} => [i EXCEPT !.pc = pc] \in CliGood
  BY <1>1 DEF CliGood, CliType
<1>3. CASE SendRefresh(c)
  <2>1. cli[c].mem \in Pairs
    BY <1>1, <1>3, Numbers DEF SendRefresh, CliGood, Due
  <2>2. req' \in [Requests -> ReqGood]
    BY <1>3, <2>1, SendsTyped DEF SendRefresh
  <2> QED
    BY <1>2, <1>3, <2>2 DEF SendRefresh, To, Typed
<1>4. CASE Issue(c)
  <2>1. req' \in [Requests -> ReqGood]
    BY <1>1, <1>4, SendsTyped DEF Issue
  <2> QED
    BY <1>2, <1>4, <2>1 DEF Issue, To, Typed
<1>5. CASE Poll(c)
  <2>1. cli[c].sess \in Sessions
    BY <1>1, <1>5 DEF Poll, CliGood
  <2>2. [i EXCEPT !.pc = "awaiting"] \in CliGood
    BY <1>1, <2>1 DEF CliGood, CliType
  <2>3. req' \in [Requests -> ReqGood]
    BY <1>5, <2>1, SendsTyped DEF Poll
  <2> QED
    BY <1>5, <2>2, <2>3 DEF Poll, To, Typed
<1> QED
  BY <1>3, <1>4, <1>5 DEF Sending

LEMMA HearingReqTyped ==
  ASSUME Typed, NEW c \in Clients, Hearing(c)
  PROVE  req' \in [Requests -> ReqGood]
BY HearsTyped
   DEF Hearing, Succeeds, Refused, Rotated, Rejected, Conflicts, StillPending, SessionGone, Approved

LEMMA HearingCliTyped ==
  ASSUME Typed, NEW c \in Clients, Hearing(c)
  PROVE  cli' \in [Clients -> CliGood]
<1> DEFINE i == cli[c]
<1>1. i \in CliGood /\ i.mem \in 0 .. MaxPairs
  BY DEF Typed, CliGood, CliType
<1> USE Defaults, FailedTyped
<1>2. CASE Succeeds(c)
  <2>1. [i EXCEPT !.pc = "clearing", !.ok = TRUE] \in CliGood
    BY <1>1 DEF CliGood, CliType
  <2>2. [i EXCEPT !.pc = "ensure", !.retried = FALSE] \in CliGood
    BY <1>1 DEF CliGood, CliType
  <2>3. [i EXCEPT !.pc = "marking"] \in CliGood
    BY <1>1 DEF CliGood, CliType
  <2> QED
    BY <1>2, <2>1, <2>2, <2>3 DEF Succeeds, To, Typed
<1>3. CASE Refused(c)
  <2>1. i.mem # 0 => [i EXCEPT !.pc = "retry", !.retried = TRUE] \in CliGood
    BY <1>1, Numbers DEF CliGood, CliType
  <2> QED
    BY <1>3, <2>1 DEF Refused, Typed
<1>4. CASE Rotated(c)
  <2>1. \A n \in Pairs : [i EXCEPT !.pc = "saving", !.mem = n] \in CliGood
    BY <1>1, Numbers DEF CliGood, CliType
  <2> QED
    BY <1>4, <2>1 DEF Rotated, Typed
<1>5. CASE Rejected(c)
  <2>1. [i EXCEPT !.pc = "wiping", !.mem = 0] \in CliGood
    BY <1>1, Numbers DEF CliGood, CliType
  <2> QED
    BY <1>5, <2>1 DEF Rejected, Typed
<1>6. CASE Conflicts(c)
  BY <1>6 DEF Conflicts, Typed
<1>7. CASE StillPending(c)
  <2>1. [i EXCEPT !.pc = "polling"] \in CliGood
    BY <1>1, <1>7 DEF StillPending, CliGood, CliType
  <2> QED
    BY <1>7, <2>1 DEF StillPending, To, Typed
<1>8. CASE SessionGone(c)
  BY <1>8 DEF SessionGone, Typed
<1>9. CASE Approved(c)
  <2>1. \A n \in Pairs : [NoCli EXCEPT !.cmd = "login", !.pc = "signing", !.mem = n] \in CliGood
    BY Numbers DEF CliGood, CliType
  <2> QED
    BY <1>9, <2>1 DEF Approved, Typed
<1> QED
  BY <1>2, <1>3, <1>4, <1>5, <1>6, <1>7, <1>8, <1>9 DEF Hearing

LEMMA RunTyped ==
  ASSUME Typed, NEW c \in Clients, Run(c)
  PROVE  req' \in [Requests -> ReqGood] /\ cli' \in [Clients -> CliGood]
<1> DEFINE i == cli[c]
<1>1. i \in CliGood
  BY DEF Typed
<1>2. CASE Writing(c)
  <2>1. [i EXCEPT !.pc = "ensure"] \in CliGood /\ [i EXCEPT !.pc = "issue"] \in CliGood
    BY <1>1 DEF CliGood, CliType
  <2>2. cli' \in [Clients -> CliGood]
    BY <1>2, <2>1, Defaults, FailedTyped
       DEF Writing, Save, Wipe, SignIn, Mark, Clear, NudgeWrite, To, Typed
  <2> QED
    BY <1>2, <2>2, WritingKeeps DEF Typed
<1>3. CASE Create(c)
  <2>1. \A s \in Unused : [i EXCEPT !.pc = "polling", !.sess = s] \in CliGood
    BY <1>1, Numbers DEF CliGood, CliType, Unused
  <2>2. cli' \in [Clients -> CliGood]
    BY <1>3, <2>1 DEF Create, Typed
  <2> QED
    BY <1>3, <2>2, TroubleKeeps DEF Typed
<1> QED
  BY <1>2, <1>3, RunKinds, SendingTyped, HearingReqTyped, HearingCliTyped

LEMMA TroubleTyped ==
  ASSUME Typed, \/ \E c \in Clients : NudgeRead(c) \/ Lose(c) \/ Interrupt(c)
                \/ \E r \in Requests : Kill(r)
                \/ \E c \in Clients, cmd \in {"call", "login", "logout"} : Start(c, cmd)
  PROVE  req' \in [Requests -> ReqGood] /\ cli' \in [Clients -> CliGood]
<1> USE Defaults, FailedTyped, UnattendedTyped
<1>0. file \in 0 .. MaxPairs
  BY DEF Typed, TypeOK
<1>1. ASSUME NEW c \in Clients, NudgeRead(c)
      PROVE  req' \in [Requests -> ReqGood] /\ cli' \in [Clients -> CliGood]
  <2>1. [NoCli EXCEPT !.cmd = "nudge", !.pc = "nudging", !.snap = file] \in CliGood
    BY <1>0 DEF CliGood, CliType
  <2> QED
    BY <1>1, <2>1 DEF NudgeRead, Typed
<1>2. ASSUME NEW c \in Clients, Lose(c)
      PROVE  req' \in [Requests -> ReqGood] /\ cli' \in [Clients -> CliGood]
  BY <1>2 DEF Lose, Typed
<1>3. ASSUME NEW c \in Clients, Interrupt(c)
      PROVE  req' \in [Requests -> ReqGood] /\ cli' \in [Clients -> CliGood]
  BY <1>3 DEF Interrupt, Typed
<1>4. ASSUME NEW r \in Requests, Kill(r)
      PROVE  req' \in [Requests -> ReqGood] /\ cli' \in [Clients -> CliGood]
  <2>1. req[r].client \in Clients \cup {Nobody}
    BY DEF Typed, ReqGood, ReqType
  <2> QED
    BY <1>4, <2>1 DEF Kill, Typed
<1>5. ASSUME NEW c \in Clients, NEW cmd \in {"call", "login", "logout"}, Start(c, cmd)
      PROVE  req' \in [Requests -> ReqGood] /\ cli' \in [Clients -> CliGood]
  <2>1. [NoCli EXCEPT !.cmd = cmd, !.mem = file,
                      !.pc = IF cmd = "login" THEN "create" ELSE "ensure"] \in CliGood
    BY <1>0 DEF CliGood, CliType
  <2> QED
    BY <1>5, <2>1 DEF Start, Typed
<1> QED
  BY <1>1, <1>2, <1>3, <1>4, <1>5

LEMMA ReqCliTyped ==
  ASSUME Typed, [Next]_vars
  PROVE  req' \in [Requests -> ReqGood] /\ cli' \in [Clients -> CliGood]
<1>1. CASE UNCHANGED <<req, cli>>
  BY <1>1 DEF Typed
<1>2. CASE \E r \in Requests : Handle(r)
  BY <1>2, HandleTyped, HandleKeeps DEF Typed
<1>3. CASE \E c \in Clients : Run(c)
  BY <1>3, RunTyped
<1>4. CASE \/ \E c \in Clients : NudgeRead(c) \/ Lose(c) \/ Interrupt(c)
           \/ \E r \in Requests : Kill(r)
           \/ \E c \in Clients, cmd \in {"call", "login", "logout"} : Start(c, cmd)
  BY <1>4, TroubleTyped
<1>5. CASE \/ \E n \in Pairs : LockExpires(n) \/ LockLapses(n) \/ Age(n)
           \/ \E t \in Tabs, s \in Sessions : CompleteBegin(t, s)
           \/ \E t \in Tabs : CompleteMint(t) \/ CompletePut(t)
           \/ \E s \in Sessions : Deny(s) \/ PendingExpires(s) \/ CompletedExpires(s)
  BY <1>1, <1>5, OutsideKeeps
<1> QED
  BY <1>1, <1>2, <1>3, <1>4, <1>5 DEF Next, vars

LEMMA PairUpdates ==
  ASSUME NEW p \in PairType
  PROVE  /\ [p EXCEPT !.access = "gone", !.refresh = "revoked"] \in PairType
         /\ [p EXCEPT !.access = p.access, !.refresh = "revoked"] \in PairType
         /\ [p EXCEPT !.due = TRUE] \in PairType
BY DEF PairType

LEMMA PairTyped ==
  ASSUME Typed, [Next]_vars
  PROVE  pair' \in [Pairs -> PairType]
<1> USE Numbers
<1>1. \A n \in Pairs : pair[n] \in PairType
  BY DEF Typed, TypeOK
<1>2. ASSUME NEW r \in Requests, Revoke(r)
      PROVE  pair' \in [Pairs -> PairType]
  <2>1. req[r].arg \in Pairs
    BY <1>2 DEF Revoke, At, Typed, ReqGood
  <2>2. [pair[req[r].arg] EXCEPT !.access = "gone", !.refresh = "revoked"] \in PairType
    BY <1>1, <2>1, PairUpdates
  <2> QED
    BY <1>2, <2>1, <2>2 DEF Revoke, BothRevoked, Typed, TypeOK
<1>3. ASSUME NEW r \in Requests, Rotate(r)
      PROVE  pair' \in [Pairs -> PairType]
  <2> DEFINE n == req[r].arg
             rows == RefreshRevoked(pair, n)
  <2>1. n \in Pairs
    BY <1>3 DEF Rotate, At, Typed, ReqGood
  <2>2. /\ [pair[n] EXCEPT !.access = "gone", !.refresh = "revoked"] \in PairType
        /\ [pair[n] EXCEPT !.access = pair[n].access, !.refresh = "revoked"] \in PairType
    BY <1>1, <2>1, PairUpdates
  <2>3. rows \in [Pairs -> PairType]
    BY <2>1, <2>2 DEF RefreshRevoked, Typed, TypeOK
  <2>4. [access |-> "live", refresh |-> "live", due |-> FALSE, from |-> n] \in PairType
    BY <2>1 DEF PairType
  <2> QED
    BY <1>3, <2>3, <2>4 DEF Rotate, MintedFrom
<1>4. ASSUME NEW t \in Tabs, CompleteMint(t)
      PROVE  pair' \in [Pairs -> PairType]
  <2>1. [access |-> "live", refresh |-> "live", due |-> FALSE, from |-> 0] \in PairType
    BY DEF PairType
  <2> QED
    BY <1>4, <2>1 DEF CompleteMint, MintedFrom, Typed, TypeOK
<1>5. ASSUME NEW n \in Pairs, Age(n)
      PROVE  pair' \in [Pairs -> PairType]
  <2>1. [pair[n] EXCEPT !.due = TRUE] \in PairType
    BY <1>1, PairUpdates
  <2> QED
    BY <1>5, <2>1 DEF Age, Typed, TypeOK
<1> QED
  BY <1>2, <1>3, <1>4, <1>5, PairWriters DEF Typed, TypeOK

LEMMA LockTyped ==
  ASSUME Typed, [Next]_vars
  PROVE  lock' \in [Pairs -> Requests \cup {Nobody, Orphan}]
<1> USE DEF Typed, TypeOK
<1>1. ASSUME NEW r \in Requests, RefreshBegin(r) \/ Unlock(r)
      PROVE  lock' \in [Pairs -> Requests \cup {Nobody, Orphan}]
  BY <1>1 DEF RefreshBegin, Unlock
<1>2. ASSUME NEW r \in Requests, Kill(r)
      PROVE  lock' \in [Pairs -> Requests \cup {Nobody, Orphan}]
  BY <1>2 DEF Kill
<1>3. ASSUME NEW n \in Pairs, LockExpires(n) \/ LockLapses(n)
      PROVE  lock' \in [Pairs -> Requests \cup {Nobody, Orphan}]
  BY <1>3 DEF LockExpires, LockLapses
<1> QED
  BY <1>1, <1>2, <1>3, LockWriters

LEMMA BagTyped ==
  ASSUME Typed, [Next]_vars
  PROVE  bag' \in [Sessions -> BagType]
<1> USE Numbers
<1>1. /\ \A s \in Sessions : bag[s] \in BagType
      /\ \A t \in Tabs : tab[t].got \in 0 .. MaxPairs
      /\ bag \in [Sessions -> BagType]
  BY DEF Typed, TypeOK, TabType
<1>2. \A why \in {"gone", "denied"} : Absent(why) \in BagType
  BY DEF Absent, BagType
<1>3. ASSUME NEW r \in Requests, PollDelete(r)
      PROVE  bag' \in [Sessions -> BagType]
  BY <1>1, <1>2, <1>3 DEF PollDelete
<1>4. ASSUME NEW c \in Clients, Create(c)
      PROVE  bag' \in [Sessions -> BagType]
  <2>1. \A s \in Sessions : [bag[s] EXCEPT !.status = "pending"] \in BagType
    BY <1>1 DEF BagType
  <2> QED
    BY <1>1, <1>4, <2>1 DEF Create, Unused
<1>5. ASSUME NEW t \in Tabs, CompletePut(t)
      PROVE  bag' \in [Sessions -> BagType]
  <2>1. [status |-> "completed", pair |-> tab[t].got] \in BagType
    BY <1>1 DEF BagType
  <2> QED
    BY <1>1, <1>5, <2>1 DEF CompletePut
<1>6. ASSUME NEW s \in Sessions, Deny(s) \/ PendingExpires(s) \/ CompletedExpires(s)
      PROVE  bag' \in [Sessions -> BagType]
  BY <1>1, <1>2, <1>6 DEF Deny, PendingExpires, CompletedExpires
<1> QED
  BY <1>1, <1>3, <1>4, <1>5, <1>6, BagWriters

LEMMA FileTyped ==
  ASSUME Typed, [Next]_vars
  PROVE  file' \in 0 .. MaxPairs
<1>1. \A c \in Clients : cli[c].mem \in 0 .. MaxPairs /\ cli[c].snap \in 0 .. MaxPairs
  BY DEF Typed, CliGood, CliType
<1> QED
  BY <1>1, FileWriters, Numbers
     DEF Writing, Save, Saved, Wipe, SignIn, Mark, Clear, NudgeWrite, Typed, TypeOK

LEMMA TabTyped ==
  ASSUME Typed, [Next]_vars
  PROVE  tab' \in [Tabs -> TabType]
<1> USE Numbers, Defaults
<1>1. tab \in [Tabs -> TabType] /\ \A t \in Tabs : tab[t] \in TabType
  BY DEF Typed, TypeOK
<1>2. ASSUME NEW t \in Tabs, NEW s \in Sessions, CompleteBegin(t, s)
      PROVE  tab' \in [Tabs -> TabType]
  <2>1. [pc |-> "mint", sess |-> s, got |-> 0] \in TabType
    BY DEF TabType
  <2> QED
    BY <1>1, <1>2, <2>1 DEF CompleteBegin
<1>3. ASSUME NEW t \in Tabs, CompleteMint(t)
      PROVE  tab' \in [Tabs -> TabType]
  <2>1. NextPair \in 0 .. MaxPairs
    BY <1>3, FreshPair DEF CompleteMint
  <2>2. [tab[t] EXCEPT !.pc = "put", !.got = NextPair] \in TabType
    BY <1>1, <2>1 DEF TabType
  <2> QED
    BY <1>1, <1>3, <2>2 DEF CompleteMint
<1>4. ASSUME NEW t \in Tabs, CompletePut(t)
      PROVE  tab' \in [Tabs -> TabType]
  BY <1>1, <1>4 DEF CompletePut
<1> QED
  BY <1>1, <1>2, <1>3, <1>4, TabWriters

LEMMA BoundsTyped ==
  ASSUME Typed, [Next]_vars
  PROVE  {faults, overlaps}' \subseteq 0 .. MaxTroubles /\ lapses' \in 0 .. MaxLapses
<1>1. faults \in 0 .. MaxTroubles /\ overlaps \in 0 .. MaxTroubles /\ lapses \in 0 .. MaxLapses
  BY DEF Typed, TypeOK
<1>2. /\ UNCHANGED lapses \/ \E n \in Pairs : LockLapses(n)
      /\ UNCHANGED faults \/ (Trouble /\ faults' = faults + 1)
      /\ UNCHANGED overlaps \/ (Trouble /\ overlaps' = overlaps + 1)
  BY RunKinds, HearingKeeps, SendingKeeps, WritingKeeps, TroubleKeeps, HandleKeeps, OutsideKeeps
     DEF Next, vars, Lose, Interrupt, Kill, Fault, Start, NudgeRead, Overlapping
<1>3. lapses' \in 0 .. MaxLapses
  BY <1>1, <1>2, Numbers DEF LockLapses
<1>4. faults' \in 0 .. MaxTroubles /\ overlaps' \in 0 .. MaxTroubles
  BY <1>1, <1>2, Numbers DEF Trouble
<1> QED
  BY <1>3, <1>4

LEMMA ReqCliGood ==
  ASSUME req' \in [Requests -> ReqGood], cli' \in [Clients -> CliGood]
  PROVE  req' \in [Requests -> ReqType] /\ cli' \in [Clients -> CliType]
BY DEF ReqGood, CliGood

LEMMA TypedStart == Init => Typed
<1> SUFFICES ASSUME Init PROVE Typed
  OBVIOUS
<1> USE Numbers, Defaults
<1>1. pair \in [Pairs -> PairType] /\ file \in 0 .. MaxPairs
  <2>1. [NoPair EXCEPT !.access = "live", !.refresh = "live"] \in PairType
    BY DEF PairType
  <2>2. 1 \in 0 .. MaxPairs
    BY SessionBoundsAssumption
  <2> QED
    BY <2>1, <2>2 DEF Init
<1>2. bag \in [Sessions -> BagType]
  BY DEF Init, BagType, Absent
<1>3. req \in [Requests -> ReqGood] /\ cli \in [Clients -> CliGood]
  BY DEF Init
<1>4. req \in [Requests -> ReqType] /\ cli \in [Clients -> CliType]
  BY <1>3 DEF ReqGood, CliGood
<1>5. {faults, overlaps} \subseteq 0 .. MaxTroubles /\ lapses \in 0 .. MaxLapses
  BY DEF Init
<1> QED
  BY <1>1, <1>2, <1>3, <1>4, <1>5 DEF Init, Typed, TypeOK

LEMMA TypedStep == Typed /\ [Next]_vars => Typed'
BY ReqCliTyped, ReqCliGood, PairTyped, LockTyped, BagTyped, FileTyped, TabTyped, BoundsTyped
   DEF Typed, TypeOK

LEMMA TypedAlways == Spec => []Typed
BY TypedStart, TypedStep, PTL DEF Spec

\* Every variable keeps its type: an invocation, a request, a tab and an entry are
\* only ever in the states auth.py, http.py and auth_api/views.py let them reach.
THEOREM TypeCorrect == Spec => []TypeOK
<1>1. Typed => TypeOK
  BY DEF Typed
<1> QED
  BY <1>1, TypedAlways, PTL

-----------------------------------------------------------------------------
(* Whose request is whose.                                                 *)

Suits(q, i) ==
  \/ q.kind = "refresh" /\ i.pc = "rotating"
  \/ q.kind = "poll" /\ i.pc = "awaiting"
  \/ q.kind = "revoke" /\ i.pc = "asking" /\ i.cmd = "logout" /\ q.arg = i.mem
  \/ q.kind = "api" /\ q.pc # "reply" /\ i.pc = "asking" /\ i.cmd # "logout"
  \/ q.pc = "reply" /\ i.pc \in {"asking", "rotating", "awaiting"}

\* A request with a client is being served, and is the one the client waits for.
Belongs ==
  \A r \in Requests :
    req[r].client # Nobody => req[r].pc # "free" /\ Suits(req[r], cli[req[r].client])

Sole ==
  \A r, q \in Requests : req[r].client # Nobody /\ req[r].client = req[q].client => r = q

Owned == Belongs /\ Sole

\* A request is replaced by v as far as its client is concerned.
Served(r, v) ==
  \/ v.client = Nobody
  \/ v.client = req[r].client /\ v.pc = "reply"
  \/ /\ v.client = req[r].client /\ v.kind = req[r].kind /\ v.arg = req[r].arg
     /\ v.kind # "api" /\ v.pc \notin {"free", "reply"}

Others(c) == \A d \in Clients : d # c => cli'[d] = cli[d]

LEMMA AnswerShape ==
  ASSUME Typed, NEW r \in Requests, NEW out, NEW got, Answer(r, out, got)
  PROVE  /\ \A q \in Requests : q # r => req'[q] = req[q]
         /\ Served(r, req'[r])
         /\ req'[r].pc \in {"free", "reply"}
         /\ req'[r].pc = "reply" => req'[r].out = out
         /\ req'[r].kind = "api"
<1>1. req'[r] = IF req[r].client = Nobody THEN NoReq
                ELSE [NoReq EXCEPT !.pc = "reply", !.client = req[r].client,
                                   !.out = out, !.got = got]
  BY DEF Answer, Typed
<1> QED
  BY <1>1 DEF Answer, Typed, Served, NoReq

LEMMA StepShape ==
  ASSUME Typed, NEW r \in Requests, NEW pc, Step(r, pc)
  PROVE  /\ \A q \in Requests : q # r => req'[q] = req[q]
         /\ req'[r].pc = pc
         /\ req'[r].kind = req[r].kind /\ req'[r].client = req[r].client
         /\ req'[r].arg = req[r].arg /\ req'[r].out = req[r].out /\ req'[r].got = req[r].got
BY DEF Step, Typed, TypeOK, ReqType

LEMMA HandleShape ==
  ASSUME Typed, NEW r \in Requests, Handle(r)
  PROVE  /\ \A q \in Requests : q # r => req'[q] = req[q]
         /\ Served(r, req'[r])
         /\ req'[r].pc = "reply" /\ req'[r].out = "ok"
              => Revoke(r) \/ req[r].kind \in {"api", "refresh", "poll"}
<1>1. req[r] \in ReqType /\ req \in [Requests -> ReqType]
  BY DEF Typed, TypeOK
<1>2. CASE Serve(r)
  BY <1>2, AnswerShape DEF Serve, At
<1>3. CASE RevokeBegin(r)
  BY <1>1, <1>3, AnswerShape, StepShape DEF RevokeBegin, At, Served
<1>4. CASE Revoke(r)
  BY <1>4, AnswerShape DEF Revoke, At
<1>5. CASE RefreshBegin(r)
  BY <1>1, <1>5, AnswerShape, StepShape DEF RefreshBegin, At, Served
<1>6. CASE RefreshRead(r)
  BY <1>1, <1>6, StepShape DEF RefreshRead, At, Served, ReqType
<1>7. CASE Rotate(r)
  BY <1>1, <1>7 DEF Rotate, At, Served, ReqType
<1>8. CASE Release(r)
  BY <1>1, <1>8, AnswerShape, StepShape DEF Release, Reply, At, Served
<1>9. CASE Unlock(r)
  BY <1>9, AnswerShape DEF Unlock, Reply, At
<1>10. CASE PollBegin(r)
  BY <1>1, <1>10, AnswerShape DEF PollBegin, At, Served, ReqType
<1>11. CASE PollDelete(r)
  BY <1>11, AnswerShape DEF PollDelete, Reply, At
<1> QED
  BY <1>2, <1>3, <1>4, <1>5, <1>6, <1>7, <1>8, <1>9, <1>10, <1>11 DEF Handle

LEMMA HandleArg ==
  ASSUME Typed, NEW r \in Requests, Handle(r), req'[r].kind # "api"
  PROVE  /\ req'[r].kind = req[r].kind /\ req'[r].arg = req[r].arg
         /\ req'[r].client = req[r].client /\ req'[r].pc \notin {"free", "begin", "reply"}
<1>1. req[r] \in ReqType /\ req \in [Requests -> ReqType]
  BY DEF Typed, TypeOK
<1>2. CASE Serve(r) \/ Revoke(r) \/ Unlock(r) \/ PollDelete(r)
  BY <1>2, AnswerShape DEF Serve, Revoke, Unlock, PollDelete, Reply
<1>3. CASE RevokeBegin(r) \/ RefreshBegin(r) \/ Release(r)
  BY <1>3, AnswerShape, StepShape DEF RevokeBegin, RefreshBegin, Release, Reply
<1>4. CASE RefreshRead(r)
  BY <1>1, <1>4, StepShape DEF RefreshRead, ReqType
<1>5. CASE Rotate(r)
  BY <1>1, <1>5 DEF Rotate, ReqType
<1>6. CASE PollBegin(r)
  BY <1>1, <1>6, AnswerShape DEF PollBegin, ReqType
<1> QED
  BY <1>2, <1>3, <1>4, <1>5, <1>6 DEF Handle

LEMMA HearingShape ==
  ASSUME Typed, NEW c \in Clients, Hearing(c)
  PROVE  /\ Others(c)
         /\ \E r \in Requests : /\ req[r].client = c /\ req[r].pc = "reply"
                                /\ req' = [req EXCEPT ![r] = NoReq]
BY DEF Hearing, Succeeds, Refused, Rotated, Rejected, Conflicts, StillPending, SessionGone,
       Approved, Hears, To, Others, Typed

LEMMA SendsShape ==
  ASSUME Typed, NEW c, NEW kind, NEW arg, Sends(c, kind, arg)
  PROVE  \E r \in Requests :
           /\ req[r].pc = "free"
           /\ \A q \in Requests : q # r => req'[q] = req[q]
           /\ req'[r].pc = "begin" /\ req'[r].kind = kind /\ req'[r].client = c
           /\ req'[r].arg = arg /\ req'[r].got = 0 /\ req'[r].out = "none"
<1> DEFINE free == {r \in Requests : req[r].pc = "free"}
           r0 == CHOOSE r \in free : TRUE
           v == [NoReq EXCEPT !.pc = "begin", !.kind = kind, !.client = c, !.arg = arg]
<1>1. r0 \in free /\ req' = [req EXCEPT ![r0] = v]
  BY DEF Sends
<1>2. v.pc = "begin" /\ v.kind = kind /\ v.client = c /\ v.arg = arg /\ v.got = 0
      /\ v.out = "none"
  BY DEF NoReq
<1> QED
  BY <1>1, <1>2 DEF Typed

LEMMA SendingShape ==
  ASSUME Typed, NEW c \in Clients, Sending(c)
  PROVE  /\ Others(c) /\ ~Waiting(c)
         /\ \E r \in Requests :
              /\ req[r].pc = "free"
              /\ \A q \in Requests : q # r => req'[q] = req[q]
              /\ req'[r].pc = "begin" /\ req'[r].client = c
              /\ Suits(req'[r], cli'[c])
              /\ req'[r].got = 0 /\ req'[r].out = "none"
              /\ req'[r].kind = "refresh" => req'[r].arg = cli[c].mem
<1>1. cli[c] \in CliGood /\ cli[c] \in CliType
  BY DEF Typed, CliGood
<1>2. CASE SendRefresh(c)
  <2>1. Others(c) /\ ~Waiting(c) /\ cli'[c].pc = "rotating"
    BY <1>1, <1>2 DEF SendRefresh, To, Others, Waiting, Typed, CliType
  <2> QED
    BY <1>2, <2>1, SendsShape DEF SendRefresh, Suits
<1>3. CASE Issue(c)
  <2>1. /\ Others(c) /\ ~Waiting(c)
        /\ cli'[c].pc = "asking" /\ cli'[c].cmd = cli[c].cmd /\ cli'[c].mem = cli[c].mem
    BY <1>1, <1>3 DEF Issue, To, Others, Waiting, Typed, CliType
  <2> QED
    BY <1>3, <2>1, SendsShape DEF Issue, Suits
<1>4. CASE Poll(c)
  <2>1. Others(c) /\ ~Waiting(c) /\ cli'[c].pc = "awaiting"
    BY <1>1, <1>4 DEF Poll, To, Others, Waiting, Typed, CliType
  <2> QED
    BY <1>4, <2>1, SendsShape DEF Poll, Suits
<1> QED
  BY <1>2, <1>3, <1>4 DEF Sending

LEMMA QuietShape ==
  ASSUME Typed, NEW c \in Clients,
         Writing(c) \/ Create(c) \/ NudgeRead(c)
           \/ \E cmd \in {"call", "login", "logout"} : Start(c, cmd)
  PROVE  Others(c) /\ ~Waiting(c) /\ UNCHANGED req
BY DEF Writing, Save, Wipe, SignIn, Mark, Clear, NudgeWrite, Create, NudgeRead, Start, To,
       Others, Waiting, Typed, TypeOK

LEMMA HandleServes == \A r : Handle(r) => req[r].pc \notin {"free", "reply"}
BY DEF Handle, Serve, RevokeBegin, Revoke, RefreshBegin, RefreshRead, Rotate, Release, Unlock,
       PollBegin, PollDelete, At

LEMMA UnattendedShape ==
  ASSUME Typed, NEW r \in Requests
  PROVE  /\ Unattended(r).client = Nobody /\ Unattended(r).pc # "reply"
         /\ \/ /\ Unattended(r).pc = req[r].pc /\ Unattended(r).kind = req[r].kind
               /\ Unattended(r).arg = req[r].arg
            \/ Unattended(r) = NoReq
BY DEF Unattended, NoReq, Typed, TypeOK, ReqType

LEMMA OwnedStart == Init => Owned
BY DEF Init, Owned, Belongs, Sole, NoReq

LEMMA OwnedUnchanged ==
  ASSUME Owned, UNCHANGED <<req, cli>>
  PROVE  Owned'
BY DEF Owned, Belongs, Sole, Suits

LEMMA OwnedHandle ==
  ASSUME Typed, Owned, NEW r \in Requests, Handle(r)
  PROVE  Owned'
<1>1. /\ UNCHANGED cli
      /\ \A q \in Requests : q # r => req'[q] = req[q]
      /\ Served(r, req'[r])
      /\ req[r].pc \notin {"free", "reply"}
  BY HandleKeeps, HandleShape, HandleServes
<1>2. ASSUME NEW q \in Requests, req'[q].client # Nobody
      PROVE  req[q].client = req'[q].client /\ req'[q].pc # "free"
             /\ Suits(req'[q], cli[req'[q].client])
  BY <1>1, <1>2 DEF Owned, Belongs, Served, Suits
<1>3. Belongs'
  BY <1>1, <1>2 DEF Belongs, Suits
<1>4. Sole'
  BY <1>2 DEF Owned, Sole
<1> QED
  BY <1>3, <1>4 DEF Owned

\* The requests that lose their client, and the clients that change, go together.
LEMMA OwnedReleased ==
  ASSUME Typed, Owned, NEW c \in Clients, Others(c),
         \A q \in Requests : req'[q] = req[q] \/ req'[q].client = Nobody,
         \A q \in Requests : req[q].client = c => req'[q].client = Nobody
  PROVE  Owned'
<1>1. ASSUME NEW q \in Requests, req'[q].client # Nobody
      PROVE  /\ req'[q] = req[q] /\ req[q].client # c
             /\ cli'[req[q].client] = cli[req[q].client]
  <2>1. req[q].client \in Clients \cup {Nobody}
    BY DEF Typed, TypeOK, ReqType
  <2> QED
    BY <1>1, <2>1 DEF Others
<1> QED
  BY <1>1 DEF Owned, Belongs, Sole, Suits

LEMMA OwnedSending ==
  ASSUME Typed, Owned, NEW c \in Clients, Sending(c)
  PROVE  Owned'
<1>1. PICK r \in Requests :
        /\ req[r].pc = "free"
        /\ \A q \in Requests : q # r => req'[q] = req[q]
        /\ req'[r].pc = "begin" /\ req'[r].client = c
        /\ Suits(req'[r], cli'[c])
  BY SendingShape
<1>2. Others(c) /\ ~Waiting(c)
  BY SendingShape
<1>3. \A q \in Requests : req[q].client # c
  BY <1>2, ClientAssumption DEF Owned, Belongs, Suits, Waiting
<1>4. ASSUME NEW q \in Requests, q # r, req'[q].client # Nobody
      PROVE  /\ req'[q] = req[q] /\ cli'[req[q].client] = cli[req[q].client]
  <2>1. req[q].client \in Clients \cup {Nobody}
    BY DEF Typed, TypeOK, ReqType
  <2> QED
    BY <1>1, <1>2, <1>3, <1>4, <2>1 DEF Others
<1>5. Belongs'
  BY <1>1, <1>4 DEF Owned, Belongs, Suits
<1>6. Sole'
  BY <1>1, <1>3, <1>4 DEF Owned, Sole
<1> QED
  BY <1>5, <1>6 DEF Owned

LEMMA LoseShape ==
  ASSUME Typed, NEW c \in Clients, Lose(c)
  PROVE  /\ Others(c) /\ Waiting(c)
         /\ cli'[c] \in Unheard(c)
         /\ \E r \in Requests : /\ req[r].client = c
                                /\ req' = [req EXCEPT ![r] = req'[r]]
                                /\ req'[r] \in {Unattended(r), NoReq}
BY DEF Lose, Others, Typed

LEMMA InterruptShape ==
  ASSUME Typed, NEW c \in Clients, Interrupt(c)
  PROVE  /\ Others(c) /\ cli'[c] = NoCli
         /\ \A q \in Requests : req'[q] = IF req[q].client = c THEN Unattended(q) ELSE req[q]
BY DEF Interrupt, Others, Typed

LEMMA KillShape ==
  ASSUME Typed, NEW r \in Requests, Kill(r)
  PROVE  /\ req' = [req EXCEPT ![r] = NoReq]
         /\ \/ req[r].client = Nobody /\ UNCHANGED cli
            \/ /\ req[r].client \in Clients /\ Others(req[r].client)
               /\ cli'[req[r].client] \in Unheard(req[r].client)
<1>1. req[r].client \in Clients \cup {Nobody}
  BY DEF Typed, TypeOK, ReqType
<1> QED
  BY <1>1 DEF Kill, Others, Typed

LEMMA OwnedTrouble ==
  ASSUME Typed, Owned,
         (\E c \in Clients : Lose(c) \/ Interrupt(c)) \/ \E r \in Requests : Kill(r)
  PROVE  Owned'
<1>0. NoReq.client = Nobody
  BY DEF NoReq
<1>1. ASSUME NEW c \in Clients, Lose(c)
      PROVE  Owned'
  <2>1. PICK r \in Requests : /\ req[r].client = c
                              /\ req' = [req EXCEPT ![r] = req'[r]]
                              /\ req'[r] \in {Unattended(r), NoReq}
    BY <1>1, LoseShape
  <2>2. req'[r].client = Nobody /\ \A q \in Requests : q # r => req'[q] = req[q]
    BY <1>0, <2>1, UnattendedShape DEF Typed
  <2>3. \A q \in Requests : req[q].client = c => q = r
    BY <2>1, ClientAssumption DEF Owned, Sole
  <2>4. Others(c)
    BY <1>1, LoseShape
  <2> QED
    BY <2>2, <2>3, <2>4, OwnedReleased
<1>2. ASSUME NEW c \in Clients, Interrupt(c)
      PROVE  Owned'
  BY <1>2, InterruptShape, UnattendedShape, OwnedReleased
<1>3. ASSUME NEW r \in Requests, Kill(r)
      PROVE  Owned'
  <2>1. req'[r].client = Nobody /\ \A q \in Requests : q # r => req'[q] = req[q]
    BY <1>0, <1>3, KillShape DEF Typed
  <2>2. CASE req[r].client = Nobody /\ UNCHANGED cli
    BY <2>1, <2>2 DEF Owned, Belongs, Sole, Suits
  <2>3. CASE req[r].client \in Clients /\ Others(req[r].client)
    <3>1. \A q \in Requests : req[q].client = req[r].client => q = r
      BY <2>3, ClientAssumption DEF Owned, Sole
    <3> QED
      BY <2>1, <2>3, <3>1, OwnedReleased
  <2> QED
    BY <1>3, <2>2, <2>3, KillShape
<1> QED
  BY <1>1, <1>2, <1>3

LEMMA OwnedQuiet ==
  ASSUME Typed, Owned, NEW c \in Clients,
         Writing(c) \/ Create(c) \/ NudgeRead(c)
           \/ \E cmd \in {"call", "login", "logout"} : Start(c, cmd)
  PROVE  Owned'
<1>1. Others(c) /\ ~Waiting(c) /\ UNCHANGED req
  BY QuietShape
<1>2. \A q \in Requests : req[q].client # c
  BY <1>1, ClientAssumption DEF Owned, Belongs, Suits, Waiting
<1> QED
  BY <1>1, <1>2, OwnedReleased

LEMMA OwnedHearing ==
  ASSUME Typed, Owned, NEW c \in Clients, Hearing(c)
  PROVE  Owned'
<1>1. PICK r \in Requests : req[r].client = c /\ req' = [req EXCEPT ![r] = NoReq]
  BY HearingShape
<1>2. req'[r].client = Nobody /\ \A q \in Requests : q # r => req'[q] = req[q]
  BY <1>1 DEF NoReq, Typed
<1>3. \A q \in Requests : req[q].client = c => q = r
  BY <1>1, ClientAssumption DEF Owned, Sole
<1> QED
  BY <1>2, <1>3, HearingShape, OwnedReleased

LEMMA OwnedStep == Typed /\ Owned /\ [Next]_vars => Owned'
<1> SUFFICES ASSUME Typed, Owned, [Next]_vars PROVE Owned'
  OBVIOUS
<1>1. CASE UNCHANGED <<req, cli>>
  BY <1>1, OwnedUnchanged
<1>2. CASE \E n \in Pairs : LockExpires(n) \/ LockLapses(n) \/ Age(n)
  BY <1>1, <1>2, OutsideKeeps
<1>3. CASE \/ \E t \in Tabs, s \in Sessions : CompleteBegin(t, s)
           \/ \E t \in Tabs : CompleteMint(t) \/ CompletePut(t)
           \/ \E s \in Sessions : Deny(s) \/ PendingExpires(s) \/ CompletedExpires(s)
  BY <1>1, <1>3, OutsideKeeps
<1> QED
  BY <1>1, <1>2, <1>3, RunKinds, OwnedHandle, OwnedHearing, OwnedSending, OwnedQuiet,
     OwnedTrouble DEF Next, vars

-----------------------------------------------------------------------------
(* What becomes of a pair.                                                 *)

\* The two rows of a pair live and die together.
Together ==
  \A n \in Pairs :
    \/ pair[n].access = "none" /\ pair[n].refresh = "none"
    \/ pair[n].access = "live" /\ pair[n].refresh = "live"
    \/ pair[n].access = "gone" /\ pair[n].refresh = "revoked"

\* A handler about to revoke or rotate a pair has found its row.
Found ==
  \A r \in Requests :
    At(r, "refresh", "rotate") \/ At(r, "revoke", "revoke") => Minted(req[r].arg)

Rows == Together /\ Found

\* A request the step does not serve stays, is new, or is gone.
Kept(q) ==
  \/ /\ req'[q].pc \in {"free", "begin"} /\ req'[q].got = 0
     /\ req'[q].kind = "refresh" => \E c \in Clients : req'[q].arg = cli[c].mem
  \/ /\ req'[q].pc = req[q].pc /\ req'[q].kind = req[q].kind /\ req'[q].arg = req[q].arg
     /\ req'[q].out = req[q].out /\ req'[q].got = req[q].got
     /\ req'[q].client \in {req[q].client, Nobody}

LEMMA UnattendedKept ==
  ASSUME Typed, NEW r \in Requests, req'[r] \in {Unattended(r), NoReq, req[r]}
  PROVE  Kept(r)
BY DEF Unattended, NoReq, Kept, Typed, TypeOK, ReqType

LEMMA ReqWriters ==
  ASSUME Typed, [Next]_vars
  PROVE  (\E r \in Requests : Handle(r)) \/ \A q \in Requests : Kept(q)
<1>1. CASE UNCHANGED req
  BY <1>1 DEF Kept
<1>2. ASSUME NEW c \in Clients, Hearing(c)
      PROVE  \A q \in Requests : Kept(q)
  BY <1>2, HearingShape, UnattendedKept DEF Typed
<1>3. ASSUME NEW c \in Clients, Sending(c)
      PROVE  \A q \in Requests : Kept(q)
  BY <1>3, SendingShape DEF Kept
<1>4. ASSUME NEW c \in Clients, Lose(c)
      PROVE  \A q \in Requests : Kept(q)
  BY <1>4, LoseShape, UnattendedKept DEF Typed
<1>5. ASSUME NEW c \in Clients, Interrupt(c)
      PROVE  \A q \in Requests : Kept(q)
  BY <1>5, InterruptShape, UnattendedKept
<1>6. ASSUME NEW r \in Requests, Kill(r)
      PROVE  \A q \in Requests : Kept(q)
  BY <1>6, KillShape, UnattendedKept DEF Typed
<1>7. CASE \/ \E n \in Pairs : LockExpires(n) \/ LockLapses(n) \/ Age(n)
           \/ \E t \in Tabs, s \in Sessions : CompleteBegin(t, s)
           \/ \E t \in Tabs : CompleteMint(t) \/ CompletePut(t)
           \/ \E s \in Sessions : Deny(s) \/ PendingExpires(s) \/ CompletedExpires(s)
  BY <1>1, <1>7, OutsideKeeps
<1> QED
  BY <1>1, <1>2, <1>3, <1>4, <1>5, <1>6, <1>7, RunKinds, QuietShape DEF Next, vars

LEMMA MintedRows ==
  ASSUME NEW rows \in [Pairs -> PairType], NEW n \in Pairs, NEW from
  PROVE  /\ MintedFrom(rows, n, from)[n].access = "live"
         /\ MintedFrom(rows, n, from)[n].refresh = "live"
         /\ MintedFrom(rows, n, from)[n].from = from
         /\ \A m \in Pairs : m # n => MintedFrom(rows, n, from)[m] = rows[m]
BY DEF MintedFrom

LEMMA RevokedRows ==
  ASSUME Typed, NEW n \in Pairs
  PROVE  LET rows == RefreshRevoked(pair, n) IN
         /\ rows \in [Pairs -> PairType]
         /\ \A m \in Pairs : m # n => rows[m] = pair[m]
         /\ rows[n].access = IF pair[n].refresh = "live" THEN "gone" ELSE pair[n].access
         /\ rows[n].refresh = "revoked"
         /\ rows[n].from = pair[n].from
<1>1. pair[n] \in PairType /\ pair \in [Pairs -> PairType]
  BY DEF Typed, TypeOK
<1> DEFINE rows == RefreshRevoked(pair, n)
           p == pair[n]
<1>2. /\ \A m \in Pairs : m # n => rows[m] = pair[m]
      /\ rows[n] = IF p.refresh = "live" THEN [p EXCEPT !.access = "gone", !.refresh = "revoked"]
                   ELSE [p EXCEPT !.access = p.access, !.refresh = "revoked"]
  BY <1>1 DEF RefreshRevoked
<1>3. rows \in [Pairs -> PairType]
  BY <1>1, PairUpdates DEF RefreshRevoked
<1>4. rows[n].refresh = "revoked" /\ rows[n].from = p.from
      /\ rows[n].access = IF p.refresh = "live" THEN "gone" ELSE p.access
  BY <1>1, <1>2 DEF PairType
<1> QED
  BY <1>2, <1>3, <1>4

\* A pair is minted, good, dead: never back.
LEMMA PairShape ==
  ASSUME Typed, Rows, [Next]_vars, NEW n \in Pairs
  PROVE  \/ pair'[n].access = pair[n].access /\ pair'[n].refresh = pair[n].refresh
              /\ pair'[n].from = pair[n].from
         \/ pair'[n].access = "live" /\ pair'[n].refresh = "live" /\ ~Minted(n)
         \/ pair'[n].access = "gone" /\ pair'[n].refresh = "revoked" /\ Live(n)
              /\ pair'[n].from = pair[n].from
<1>1. pair \in [Pairs -> PairType] /\ pair[n] \in PairType
  BY DEF Typed, TypeOK
<1>2. ASSUME NEW r \in Requests, Revoke(r)
      PROVE  \/ pair'[n] = pair[n]
             \/ pair'[n].access = "gone" /\ pair'[n].refresh = "revoked" /\ Live(n)
                  /\ pair'[n].from = pair[n].from
  BY <1>1, <1>2, Numbers DEF Revoke, BothRevoked, Rows, Together, Live, PairType
<1>3. ASSUME NEW r \in Requests, Rotate(r)
      PROVE  \/ pair'[n].access = pair[n].access /\ pair'[n].refresh = pair[n].refresh
                  /\ pair'[n].from = pair[n].from
             \/ pair'[n].access = "live" /\ pair'[n].refresh = "live" /\ ~Minted(n)
             \/ pair'[n].access = "gone" /\ pair'[n].refresh = "revoked" /\ Live(n)
                  /\ pair'[n].from = pair[n].from
  <2> DEFINE a == req[r].arg
  <2>1. a \in Pairs /\ Minted(a) /\ NextPair \in Pairs /\ ~Minted(NextPair)
    BY <1>3, FreshPair DEF Rotate, At, Rows, Found, Typed, ReqGood, Fresh
  <2>2. pair' = MintedFrom(RefreshRevoked(pair, a), NextPair, a)
    BY <1>3 DEF Rotate
  <2>3. CASE n = NextPair
    BY <2>1, <2>2, <2>3, MintedRows, RevokedRows
  <2>4. CASE n # NextPair
    <3>1. pair'[n] = RefreshRevoked(pair, a)[n]
      BY <2>1, <2>2, <2>4, MintedRows, RevokedRows
    <3> QED
      BY <2>1, <3>1, RevokedRows, Numbers DEF Rows, Together, Minted, Live
  <2> QED
    BY <2>3, <2>4
<1>4. ASSUME NEW t \in Tabs, CompleteMint(t)
      PROVE  \/ pair'[n] = pair[n]
             \/ pair'[n].access = "live" /\ pair'[n].refresh = "live" /\ ~Minted(n)
  BY <1>1, <1>4, FreshPair, MintedRows DEF CompleteMint, Fresh
<1>5. ASSUME NEW m \in Pairs, Age(m)
      PROVE  pair'[n].access = pair[n].access /\ pair'[n].refresh = pair[n].refresh
               /\ pair'[n].from = pair[n].from
  BY <1>1, <1>5 DEF Age, PairType
<1> QED
  BY <1>2, <1>3, <1>4, <1>5, PairWriters

LEMMA FindingShape ==
  ASSUME Typed, Together, NEW r \in Requests, Handle(r),
         req'[r].pc = "rotate" \/ req'[r].pc = "revoke"
  PROVE  req'[r].arg = req[r].arg /\ Minted(req[r].arg)
<1>1. req[r].arg \in 0 .. MaxPairs + MaxSessions
  BY DEF Typed, TypeOK, ReqType
<1>2. CASE RevokeBegin(r)
  <2>1. Authentic(req[r].arg) /\ Step(r, "revoke")
    BY <1>2, AnswerShape DEF RevokeBegin
  <2>2. req[r].arg \in Pairs
    BY <1>2, <2>1, Numbers DEF RevokeBegin, At, Authentic, Typed, ReqGood
  <2> QED
    BY <2>1, <2>2, StepShape DEF Authentic, Together, Minted
<1>3. CASE RefreshRead(r)
  <2>1. pair[req[r].arg].refresh = "live" /\ Step(r, "rotate")
    BY <1>3 DEF RefreshRead, Typed, TypeOK, ReqType
  <2> QED
    BY <2>1, StepShape DEF Minted
<1>4. CASE Serve(r) \/ Revoke(r) \/ Unlock(r) \/ PollDelete(r)
  BY <1>4, AnswerShape DEF Serve, Revoke, Unlock, PollDelete, Reply
<1>5. CASE RefreshBegin(r) \/ Release(r)
  BY <1>5, AnswerShape, StepShape DEF RefreshBegin, Release, Reply
<1>6. CASE Rotate(r) \/ PollBegin(r)
  BY <1>6, AnswerShape DEF Rotate, PollBegin, Typed, TypeOK, ReqType
<1> QED
  BY <1>2, <1>3, <1>4, <1>5, <1>6 DEF Handle

LEMMA RowsStep == Typed /\ Rows /\ [Next]_vars => Rows'
<1> SUFFICES ASSUME Typed, Rows, [Next]_vars PROVE Rows'
  OBVIOUS
<1>1. Together'
  BY PairShape DEF Rows, Together, Live
<1>2. \A n \in Pairs : Minted(n) => pair'[n].refresh # "none"
  BY PairShape DEF Minted
<1>3. ASSUME NEW q \in Requests, (At(q, "refresh", "rotate") \/ At(q, "revoke", "revoke"))'
      PROVE  Minted(req[q].arg) /\ req'[q].arg = req[q].arg
  <2>1. CASE \E r \in Requests : Handle(r) /\ q # r
    BY <1>3, <2>1, HandleShape DEF At, Rows, Found
  <2>2. CASE Handle(q)
    BY <1>3, <2>2, FindingShape DEF At, Rows
  <2>3. CASE Kept(q)
    BY <1>3, <2>3 DEF Kept, At, Rows, Found
  <2> QED
    BY <2>1, <2>2, <2>3, ReqWriters
<1>4. ASSUME NEW q \in Requests, (At(q, "refresh", "rotate") \/ At(q, "revoke", "revoke"))'
      PROVE  req'[q].arg \in Pairs
  BY <1>4, ReqCliTyped DEF At, ReqGood
<1>5. Found'
  BY <1>2, <1>3, <1>4 DEF Found, Minted
<1> QED
  BY <1>1, <1>5 DEF Rows

LEMMA RowsStart == Init => Rows
<1>1. /\ NoPair.access = "none" /\ NoPair.refresh = "none"
      /\ [NoPair EXCEPT !.access = "live", !.refresh = "live"].access = "live"
      /\ [NoPair EXCEPT !.access = "live", !.refresh = "live"].refresh = "live"
  BY DEF NoPair
<1>2. Init => Together
  BY <1>1 DEF Init, Together
<1>3. Init => Found
  BY DEF Init, Found, At, NoReq
<1> QED
  BY <1>2, <1>3 DEF Rows

-----------------------------------------------------------------------------
(* What a logout has been told.                                            *)

\* An answered, or reported, revocation is of a pair that is dead.
Confirmed ==
  /\ \A c \in Clients :
       cli[c].ok => cli[c].pc = "clearing" /\ cli[c].mem \in Pairs /\ Dead(cli[c].mem)
  /\ \A r \in Requests : \A c \in Clients :
       /\ req[r].client = c /\ req[r].pc = "reply" /\ req[r].out = "ok"
       /\ cli[c].pc = "asking" /\ cli[c].cmd = "logout"
       => cli[c].mem \in Pairs /\ Dead(cli[c].mem)

LEMMA FailedShape ==
  ASSUME Typed, NEW c \in Clients
  PROVE  /\ Failed(c).ok => cli[c].ok
         /\ Failed(c).mem = cli[c].mem \/ ~Failed(c).ok
         /\ \A i \in Unheard(c) : i.ok => cli[c].ok
BY DEF Failed, Unheard, NoCli, Typed, TypeOK, CliType

LEMMA CliWriters ==
  ASSUME Typed, [Next]_vars, NEW c \in Clients
  PROVE  \/ cli'[c] = cli[c]
         \/ Hearing(c) \/ Sending(c) \/ Writing(c) \/ Create(c)
         \/ NudgeRead(c) \/ \E cmd \in {"call", "login", "logout"} : Start(c, cmd)
         \/ Lose(c) \/ Interrupt(c)
         \/ \E r \in Requests : Kill(r) /\ req[r].client = c /\ cli'[c] \in Unheard(c)
<1>1. CASE UNCHANGED cli
  BY <1>1
<1>2. ASSUME NEW d \in Clients, d # c,
             Hearing(d) \/ Sending(d) \/ Writing(d) \/ Create(d) \/ NudgeRead(d)
               \/ (\E cmd \in {"call", "login", "logout"} : Start(d, cmd))
               \/ Lose(d) \/ Interrupt(d)
      PROVE  cli'[c] = cli[c]
  BY <1>2, HearingShape, SendingShape, QuietShape, LoseShape, InterruptShape DEF Others
<1>3. ASSUME NEW r \in Requests, Kill(r)
      PROVE  cli'[c] = cli[c] \/ (req[r].client = c /\ cli'[c] \in Unheard(c))
  BY <1>3, KillShape DEF Others
<1>4. CASE \/ \E n \in Pairs : LockExpires(n) \/ LockLapses(n) \/ Age(n)
           \/ \E t \in Tabs, s \in Sessions : CompleteBegin(t, s)
           \/ \E t \in Tabs : CompleteMint(t) \/ CompletePut(t)
           \/ \E s \in Sessions : Deny(s) \/ PendingExpires(s) \/ CompletedExpires(s)
  BY <1>1, <1>4, OutsideKeeps
<1>5. CASE \E r \in Requests : Handle(r)
  BY <1>1, <1>5, HandleKeeps
<1> QED
  BY <1>1, <1>2, <1>3, <1>4, <1>5, RunKinds DEF Next, vars

\* Only the answer to a revocation turns ok on.
LEMMA OkShape ==
  ASSUME Typed, Owned, Confirmed, [Next]_vars, NEW c \in Clients, cli'[c].ok
  PROVE  \/ cli'[c] = cli[c]
         \/ /\ Succeeds(c) /\ cli[c].cmd = "logout"
            /\ cli'[c].pc = "clearing" /\ cli'[c].mem = cli[c].mem
<1> DEFINE i == cli[c]
<1>1. i \in CliType /\ cli \in [Clients -> CliType] /\ ~NoCli.ok
  BY DEF Typed, TypeOK, NoCli
<1>2. i.ok => i.pc = "clearing"
  BY DEF Confirmed
<1>3. CASE Succeeds(c)
  BY <1>1, <1>2, <1>3 DEF Succeeds, To, CliType
<1>4. CASE Refused(c)
  <2>1. cli'[c] = Failed(c) \/ cli'[c] = [i EXCEPT !.pc = "retry", !.retried = TRUE]
    BY <1>1, <1>4 DEF Refused
  <2> QED
    BY <1>1, <1>2, <1>4, <2>1, FailedShape DEF Refused, CliType
<1>5. CASE Rotated(c) \/ Rejected(c) \/ Conflicts(c)
  BY <1>1, <1>2, <1>5, FailedShape DEF Rotated, Rejected, Conflicts, CliType
<1>6. CASE StillPending(c) \/ SessionGone(c)
  BY <1>1, <1>2, <1>6 DEF StillPending, SessionGone, To, CliType
<1>7. CASE Approved(c)
  BY <1>1, <1>7 DEF Approved, NoCli
<1>8. CASE Sending(c)
  BY <1>1, <1>2, <1>8 DEF Sending, SendRefresh, Issue, Poll, To, CliType
<1>9. CASE Writing(c)
  BY <1>1, <1>2, <1>9, FailedShape
     DEF Writing, Save, Wipe, SignIn, Mark, Clear, NudgeWrite, To, CliType
<1>10. CASE Create(c)
  BY <1>1, <1>2, <1>10 DEF Create, CliType
<1>11. CASE NudgeRead(c) \/ \E cmd \in {"call", "login", "logout"} : Start(c, cmd)
  BY <1>1, <1>11 DEF NudgeRead, Start, NoCli
<1>12. CASE Lose(c) \/ Interrupt(c)
  BY <1>1, <1>2, <1>12, FailedShape, LoseShape, InterruptShape DEF Waiting
<1>13. ASSUME NEW r \in Requests, req[r].client = c, cli'[c] \in Unheard(c)
       PROVE  FALSE
  BY <1>2, <1>13, FailedShape, ClientAssumption DEF Owned, Belongs, Suits
<1> QED
  BY <1>3, <1>4, <1>5, <1>6, <1>7, <1>8, <1>9, <1>10, <1>11, <1>12, <1>13, CliWriters DEF Hearing

\* A client does nothing while its request is open.
LEMMA Undisturbed ==
  ASSUME Typed, Owned, [Next]_vars, NEW r \in Requests, NEW c \in Clients,
         req[r].client = c, req'[r].client = c
  PROVE  cli'[c] = cli[c]
<1>0. NoReq.client = Nobody /\ c # Nobody
  BY ClientAssumption DEF NoReq
<1>1. Waiting(c)
  BY <1>0 DEF Owned, Belongs, Suits, Waiting
<1>2. \A q \in Requests : req[q].client = c => q = r
  BY <1>0 DEF Owned, Sole
<1>3. ~Hearing(c)
  BY <1>0, <1>2, HearingShape DEF Typed
<1>4. ~Lose(c) /\ ~Interrupt(c)
  BY <1>0, <1>2, LoseShape, InterruptShape, UnattendedShape DEF Typed
<1>5. ASSUME NEW q \in Requests, Kill(q), req[q].client = c
      PROVE  FALSE
  BY <1>0, <1>2, <1>5, KillShape DEF Typed
<1> QED
  BY <1>1, <1>3, <1>4, <1>5, SendingShape, QuietShape, CliWriters

Killed(rows, n) == rows[n].access = "gone" /\ rows[n].refresh = "revoked"

LEMMA DeadForGood ==
  ASSUME Typed, Rows, [Next]_vars, NEW n \in Pairs, Dead(n)
  PROVE  Killed(pair', n)
BY PairShape DEF Dead, Killed, Live, Minted

LEMMA RevokeKills ==
  ASSUME Typed, Rows, NEW r \in Requests, Revoke(r)
  PROVE  req[r].arg \in Pairs /\ Killed(pair', req[r].arg)
<1>1. req[r].arg \in Pairs /\ Minted(req[r].arg)
  BY DEF Revoke, At, Typed, ReqGood, Rows, Found
<1>2. pair[req[r].arg] \in PairType /\ pair \in [Pairs -> PairType]
  BY <1>1 DEF Typed, TypeOK
<1>3. pair' = BothRevoked(pair, req[r].arg)
  BY DEF Revoke
<1>4. CASE pair[req[r].arg].access = "live"
  BY <1>1, <1>2, <1>3, <1>4 DEF BothRevoked, PairType, Killed
<1>5. CASE pair[req[r].arg].access # "live"
  BY <1>1, <1>3, <1>5 DEF BothRevoked, Rows, Together, Minted, Killed
<1> QED
  BY <1>1, <1>4, <1>5

LEMMA ConfirmedStep ==
  Typed /\ Owned /\ Rows /\ Confirmed /\ [Next]_vars => Confirmed'
<1> SUFFICES ASSUME Typed, Owned, Rows, Confirmed, [Next]_vars PROVE Confirmed'
  OBVIOUS
<1>1. ASSUME NEW c \in Clients, cli'[c].ok
      PROVE  cli'[c].pc = "clearing" /\ cli'[c].mem \in Pairs /\ Killed(pair', cli'[c].mem)
  <2>1. CASE cli'[c] = cli[c]
    BY <1>1, <2>1, DeadForGood DEF Confirmed
  <2>2. CASE /\ Succeeds(c) /\ cli[c].cmd = "logout"
             /\ cli'[c].pc = "clearing" /\ cli'[c].mem = cli[c].mem
    <3>1. cli[c].mem \in Pairs /\ Dead(cli[c].mem)
      BY <2>2 DEF Succeeds, Hears, Confirmed
    <3> QED
      BY <2>2, <3>1, DeadForGood
  <2> QED
    BY <1>1, <2>1, <2>2, OkShape
<1>2. ASSUME NEW r \in Requests, NEW c \in Clients,
             req'[r].client = c, req'[r].pc = "reply", req'[r].out = "ok",
             cli'[c].pc = "asking", cli'[c].cmd = "logout"
      PROVE  cli'[c].mem \in Pairs /\ Killed(pair', cli'[c].mem)
  <2>0. c # Nobody
    BY ClientAssumption
  <2>1. CASE Handle(r)
    <3>1. req[r].client = c /\ cli'[c] = cli[c]
      BY <1>2, <2>0, <2>1, HandleShape, HandleKeeps DEF Served
    <3>2. req[r].kind = "revoke" /\ req[r].arg = cli[c].mem
      BY <1>2, <2>0, <2>1, <3>1, HandleServes DEF Owned, Belongs, Suits
    <3>3. Revoke(r)
      BY <1>2, <2>1, <3>2, HandleShape
    <3> QED
      BY <3>1, <3>2, <3>3, RevokeKills
  <2>2. CASE Kept(r) \/ req'[r] = req[r]
    <3>1. req[r].client = c /\ req[r].pc = "reply" /\ req[r].out = "ok"
      BY <1>2, <2>0, <2>2 DEF Kept
    <3>2. cli'[c] = cli[c]
      BY <1>2, <3>1, Undisturbed
    <3>3. cli[c].mem \in Pairs /\ Dead(cli[c].mem)
      BY <1>2, <3>1, <3>2 DEF Confirmed
    <3> QED
      BY <3>2, <3>3, DeadForGood
  <2> QED
    BY <2>1, <2>2, ReqWriters, HandleShape
<1> QED
  BY <1>1, <1>2 DEF Confirmed, Dead, Killed

LEMMA ConfirmedStart == Init => Confirmed
BY DEF Init, Confirmed, NoCli, NoReq

\* What holds at every step: the types, who waits for what, the rows of a pair,
\* what a logout has been told.
Sound == Typed /\ Owned /\ Rows /\ Confirmed

LEMMA SoundAlways == Spec => []Sound
<1>1. Init => Sound
  BY TypedStart, OwnedStart, RowsStart, ConfirmedStart DEF Sound
<1>2. Sound /\ [Next]_vars => Sound'
  BY TypedStep, OwnedStep, RowsStep, ConfirmedStep DEF Sound
<1> QED
  BY <1>1, <1>2, PTL DEF Spec

\* A logout that reports success (context.py, sign_out) has left neither token of
\* the pair it holds good, whoever rotated or revoked it and in whatever order.
THEOREM LogoutReportsTruth == Spec => []LogoutRevokes
<1>1. Sound => LogoutRevokes
  BY DEF Sound, Confirmed, LogoutRevokes
<1> QED
  BY <1>1, SoundAlways, PTL

-----------------------------------------------------------------------------
(* Where pairs come from: nobody names a pair that was not minted.         *)

KnownIn(rows, x) == x = 0 \/ rows[x].refresh # "none"

Known ==
  /\ KnownIn(pair, file)
  /\ \A c \in Clients : KnownIn(pair, cli[c].mem) /\ KnownIn(pair, cli[c].snap)
  /\ \A r \in Requests : /\ KnownIn(pair, req[r].got)
                         /\ req[r].kind = "refresh" => KnownIn(pair, req[r].arg)
  /\ \A s \in Sessions : KnownIn(pair, bag[s].pair)
  /\ \A t \in Tabs : KnownIn(pair, tab[t].got)

LEMMA KnownForGood ==
  ASSUME Typed, Rows, [Next]_vars, NEW x \in 0 .. MaxPairs, KnownIn(pair, x)
  PROVE  KnownIn(pair', x)
BY PairShape, Numbers DEF KnownIn, Minted, Live

LEMMA NextPairKnown ==
  /\ \A r \in Requests : Typed /\ Rotate(r) => KnownIn(pair', NextPair)
  /\ \A t \in Tabs : Typed /\ CompleteMint(t) => KnownIn(pair', NextPair)
<1>1. ASSUME NEW r \in Requests, Typed, Rotate(r)
      PROVE  KnownIn(pair', NextPair)
  <2> DEFINE n == req[r].arg
  <2>1. n \in Pairs /\ NextPair \in Pairs
    BY <1>1, FreshPair DEF Rotate, At, Typed, ReqGood
  <2>2. RefreshRevoked(pair, n) \in [Pairs -> PairType]
    BY <1>1, <2>1, RevokedRows
  <2> QED
    BY <1>1, <2>1, <2>2, MintedRows DEF Rotate, KnownIn
<1>2. ASSUME NEW t \in Tabs, Typed, CompleteMint(t)
      PROVE  KnownIn(pair', NextPair)
  BY <1>2, FreshPair, MintedRows DEF CompleteMint, Typed, TypeOK, KnownIn
<1> QED
  BY <1>1, <1>2

\* Where each copy of a pair's number is copied from.
Answers == {req[r].got : r \in {q \in Requests : req[q].pc = "reply"}}

LEMMA MemFlow ==
  ASSUME Typed, [Next]_vars, NEW c \in Clients
  PROVE  /\ cli'[c].mem \in {0, file, cli[c].mem} \cup Answers
         /\ cli'[c].snap \in {0, file, cli[c].snap}
<1> DEFINE i == cli[c]
<1>1. i \in CliType /\ cli \in [Clients -> CliType]
  BY DEF Typed, TypeOK
<1>2. NoCli.mem = 0 /\ NoCli.snap = 0
  BY DEF NoCli
<1>3. \A j \in {Failed(c)} \cup Unheard(c) : j.mem \in {0, i.mem} /\ j.snap \in {0, i.snap}
  BY <1>1, <1>2 DEF Failed, Unheard, CliType
<1>4. CASE Succeeds(c) \/ StillPending(c) \/ SessionGone(c)
  BY <1>1, <1>2, <1>4 DEF Succeeds, StillPending, SessionGone, To, CliType
<1>5. CASE Refused(c)
  <2>1. cli'[c] = Failed(c) \/ cli'[c] = [i EXCEPT !.pc = "retry", !.retried = TRUE]
    BY <1>1, <1>5 DEF Refused
  <2> QED
    BY <1>1, <1>3, <2>1 DEF CliType
<1>6. CASE Rejected(c) \/ Conflicts(c)
  BY <1>1, <1>3, <1>6 DEF Rejected, Conflicts, CliType
<1>7. CASE Rotated(c)
  <2>1. PICK n \in Pairs : Hears(c, "ok", n) /\ cli' = [cli EXCEPT ![c].pc = "saving", ![c].mem = n]
    BY <1>7 DEF Rotated
  <2>2. n \in Answers
    BY <2>1 DEF Hears, Answers
  <2>3. cli'[c].mem = n /\ cli'[c].snap = i.snap
    BY <1>1, <2>1 DEF CliType
  <2> QED
    BY <2>2, <2>3
<1>8. CASE Approved(c)
  <2>1. PICK n \in Pairs :
          /\ Hears(c, "ok", n)
          /\ cli' = [cli EXCEPT ![c] = [NoCli EXCEPT !.cmd = "login", !.pc = "signing", !.mem = n]]
    BY <1>8 DEF Approved
  <2>2. n \in Answers
    BY <2>1 DEF Hears, Answers
  <2>3. cli'[c].mem = n /\ cli'[c].snap = 0
    BY <1>1, <2>1 DEF NoCli
  <2> QED
    BY <2>2, <2>3
<1>9. CASE Sending(c)
  BY <1>1, <1>9 DEF Sending, SendRefresh, Issue, Poll, To, CliType
<1>10. CASE Writing(c)
  BY <1>1, <1>2, <1>3, <1>10
     DEF Writing, Save, Wipe, SignIn, Mark, Clear, NudgeWrite, To, CliType
<1>11. CASE Create(c)
  BY <1>1, <1>11 DEF Create, CliType
<1>12. CASE NudgeRead(c) \/ \E cmd \in {"call", "login", "logout"} : Start(c, cmd)
  BY <1>1, <1>12 DEF NudgeRead, Start, NoCli
<1>13. CASE Lose(c) \/ Interrupt(c)
  BY <1>1, <1>2, <1>3, <1>13, LoseShape, InterruptShape
<1> QED
  BY <1>3, <1>4, <1>5, <1>6, <1>7, <1>8, <1>9, <1>10, <1>11, <1>12, <1>13, CliWriters
     DEF Hearing

LEMMA GotFlow ==
  ASSUME Typed, [Next]_vars, NEW r \in Requests
  PROVE  \/ req'[r].got \in {0, req[r].got} \cup {bag[s].pair : s \in Sessions}
         \/ Rotate(r) /\ req'[r].got = NextPair
<1> DEFINE q == req[r]
<1>1. req[r] \in ReqGood /\ req \in [Requests -> ReqType]
  BY DEF Typed, TypeOK
<1>2. ASSUME NEW out, NEW got, Answer(r, out, got)
      PROVE  req'[r].got \in {0, got}
  BY <1>1, <1>2 DEF Answer, NoReq
<1>3. ASSUME NEW pc, Step(r, pc)
      PROVE  req'[r].got = q.got
  BY <1>3, StepShape
<1>4. CASE Serve(r) \/ Revoke(r) \/ RevokeBegin(r) \/ RefreshBegin(r)
  BY <1>2, <1>3, <1>4 DEF Serve, Revoke, RevokeBegin, RefreshBegin
<1>5. CASE Release(r) \/ Unlock(r) \/ PollDelete(r)
  BY <1>2, <1>3, <1>5 DEF Release, Unlock, PollDelete, Reply
<1>6. CASE RefreshRead(r)
  BY <1>1, <1>3, <1>6 DEF RefreshRead, ReqType
<1>7. CASE Rotate(r)
  BY <1>1, <1>7 DEF Rotate, ReqType
<1>8. CASE PollBegin(r)
  <2>1. q.arg \in Sessions
    BY <1>1, <1>8 DEF PollBegin, At, ReqGood
  <2> QED
    BY <1>1, <1>2, <1>8, <2>1 DEF PollBegin, ReqType
<1>9. CASE \E p \in Requests : Handle(p) /\ p # r
  BY <1>9, HandleShape
<1>10. CASE Kept(r)
  BY <1>10 DEF Kept
<1> QED
  BY <1>4, <1>5, <1>6, <1>7, <1>8, <1>9, <1>10, ReqWriters DEF Handle

LEMMA ArgFlow ==
  ASSUME Typed, [Next]_vars, NEW r \in Requests, req'[r].kind = "refresh"
  PROVE  \/ req[r].kind = "refresh" /\ req'[r].arg = req[r].arg
         \/ \E c \in Clients : req'[r].arg = cli[c].mem
<1>1. CASE Handle(r)
  BY <1>1, HandleArg
<1>2. CASE \E p \in Requests : Handle(p) /\ p # r
  BY <1>2, HandleShape
<1>3. CASE Kept(r)
  BY <1>3 DEF Kept
<1> QED
  BY <1>1, <1>2, <1>3, ReqWriters

LEMMA KnownStep == Typed /\ Rows /\ Known /\ [Next]_vars => Known'
<1> SUFFICES ASSUME Typed, Rows, Known, [Next]_vars PROVE Known'
  OBVIOUS
<1>0. KnownIn(pair', 0)
  BY DEF KnownIn
<1>1. /\ KnownIn(pair', file)
      /\ \A c \in Clients : KnownIn(pair', cli[c].mem) /\ KnownIn(pair', cli[c].snap)
      /\ \A r \in Requests : KnownIn(pair', req[r].got)
      /\ \A r \in Requests : req[r].kind = "refresh" => KnownIn(pair', req[r].arg)
      /\ \A s \in Sessions : KnownIn(pair', bag[s].pair)
      /\ \A t \in Tabs : KnownIn(pair', tab[t].got)
  <2>1. file \in 0 .. MaxPairs
    BY DEF Typed, TypeOK
  <2>2. \A c \in Clients : cli[c].mem \in 0 .. MaxPairs /\ cli[c].snap \in 0 .. MaxPairs
    BY DEF Typed, TypeOK, CliType
  <2>3. \A r \in Requests : /\ req[r].got \in 0 .. MaxPairs
                            /\ req[r].kind = "refresh" => req[r].arg \in 0 .. MaxPairs
    BY Numbers DEF Typed, ReqGood, ReqType
  <2>4. /\ \A s \in Sessions : bag[s].pair \in 0 .. MaxPairs
        /\ \A t \in Tabs : tab[t].got \in 0 .. MaxPairs
    BY DEF Typed, TypeOK, BagType, TabType
  <2> QED
    BY <2>1, <2>2, <2>3, <2>4, KnownForGood DEF Known
<1>2. KnownIn(pair', file')
  BY <1>0, <1>1, FileWriters DEF Writing, Save, Saved, Wipe, SignIn, Mark, Clear, NudgeWrite
<1>3. \A c \in Clients : KnownIn(pair', cli'[c].mem) /\ KnownIn(pair', cli'[c].snap)
  BY <1>0, <1>1, MemFlow DEF Answers
<1>4. \A r \in Requests : KnownIn(pair', req'[r].got)
  BY <1>0, <1>1, GotFlow, NextPairKnown
<1>5. \A r \in Requests : req'[r].kind = "refresh" => KnownIn(pair', req'[r].arg)
  BY <1>1, ArgFlow
<1>6. \A s \in Sessions : KnownIn(pair', bag'[s].pair)
  <2>1. ASSUME NEW s \in Sessions
        PROVE  bag'[s].pair \in {0, bag[s].pair} \cup {tab[t].got : t \in Tabs}
    <3>1. bag \in [Sessions -> BagType]
      BY DEF Typed, TypeOK
    <3>2. \A why : Absent(why).pair = 0
      BY DEF Absent
    <3>3. \A x \in Sessions : Deny(x) \/ PendingExpires(x) \/ CompletedExpires(x)
            => bag'[s].pair \in {0, bag[s].pair}
      BY <3>1, <3>2 DEF Deny, PendingExpires, CompletedExpires
    <3>4. \A r \in Requests : PollDelete(r) => bag'[s].pair \in {0, bag[s].pair}
      BY <3>1, <3>2 DEF PollDelete
    <3>5. \A c \in Clients : Create(c) => bag'[s].pair = bag[s].pair
      BY <3>1 DEF Create, BagType
    <3>6. ASSUME NEW t \in Tabs, CompletePut(t)
          PROVE  bag'[s].pair \in {bag[s].pair, tab[t].got}
      BY <3>1, <3>6 DEF CompletePut
    <3> QED
      BY <3>3, <3>4, <3>5, <3>6, BagWriters
  <2> QED
    BY <1>0, <1>1, <2>1
<1>7. \A t \in Tabs : KnownIn(pair', tab'[t].got)
  <2>1. ASSUME NEW t \in Tabs
        PROVE  tab'[t].got \in {0, tab[t].got} \/ (CompleteMint(t) /\ tab'[t].got = NextPair)
    <3>1. tab \in [Tabs -> TabType]
      BY DEF Typed, TypeOK
    <3>2. \A x \in Tabs, z \in Sessions : CompleteBegin(x, z) => tab'[t].got \in {0, tab[t].got}
      BY <3>1 DEF CompleteBegin
    <3>3. \A x \in Tabs : CompletePut(x) => tab'[t].got \in {0, tab[t].got}
      BY <3>1 DEF CompletePut, NoTab
    <3>4. ASSUME NEW x \in Tabs, CompleteMint(x)
          PROVE  tab'[t].got = tab[t].got \/ (x = t /\ tab'[t].got = NextPair)
      BY <3>1, <3>4 DEF CompleteMint, TabType
    <3> QED
      BY <3>2, <3>3, <3>4, TabWriters
  <2> QED
    BY <1>0, <1>1, <2>1, NextPairKnown
<1> QED
  BY <1>2, <1>3, <1>4, <1>5, <1>6, <1>7 DEF Known

LEMMA KnownStart == Init => Known
<1> SUFFICES ASSUME Init PROVE Known
  OBVIOUS
<1>1. file = 0 \/ (file = 1 /\ 1 \in Pairs /\ pair[1].refresh = "live")
  <2>1. [NoPair EXCEPT !.access = "live", !.refresh = "live"].refresh = "live"
    BY DEF NoPair
  <2>2. 1 \in Pairs
    BY SessionBoundsAssumption DEF Pairs
  <2>3. file = 0 \/ (file = 1 /\ pair = [n \in Pairs |-> IF n = 1
                              THEN [NoPair EXCEPT !.access = "live", !.refresh = "live"]
                              ELSE NoPair])
    BY DEF Init
  <2> QED
    BY <2>1, <2>2, <2>3
<1> QED
  BY <1>1 DEF Init, Known, KnownIn, NoCli, NoReq, NoTab, Absent

-----------------------------------------------------------------------------
(* Who holds a lock, and what a rotation leaves behind.                    *)

Middle == {"read", "rotate", "release", "unlock"}
Refreshing(r) == req[r].kind = "refresh" /\ req[r].pc \in Middle

Holds ==
  \A n \in Pairs : lock[n] \in Requests => Refreshing(lock[n]) /\ req[lock[n]].arg = n

\* A handler past its rotation, or its refusal, leaves nothing good.
Spent ==
  \A r \in Requests :
    Refreshing(r) /\ req[r].pc \in {"release", "unlock"} => ~Live(req[r].arg)

\* A pair with a parent: both are minted, and the parent is not good any more.
Lineage ==
  \A n \in Pairs :
    LET p == pair[n].from IN
    p # 0 => Minted(n) /\ Minted(p) /\ ~Live(p)

\* A refresh under way that the step does not serve.
LEMMA Working ==
  ASSUME Typed, [Next]_vars, NEW q \in Requests, Refreshing(q)
  PROVE  \/ Handle(q) \/ Kill(q)
         \/ req'[q].kind = "refresh" /\ req'[q].pc = req[q].pc /\ req'[q].arg = req[q].arg
<1> DEFINE Stays == req'[q].kind = "refresh" /\ req'[q].pc = req[q].pc /\ req'[q].arg = req[q].arg
<1>0. req[q].kind = "refresh" /\ req[q].pc \in Middle
      /\ req[q].pc \notin {"free", "begin", "reply"} /\ req[q] \in ReqType
      /\ req \in [Requests -> ReqType]
  BY DEF Refreshing, Middle, Typed, TypeOK
<1>1. CASE req'[q] = req[q]
  BY <1>0, <1>1
<1>2. CASE req'[q] = Unattended(q)
  BY <1>0, <1>2 DEF Unattended, ReqType
<1>3. ASSUME NEW c \in Clients, Hearing(c)
      PROVE  Stays
  BY <1>0, <1>3, HearingShape
<1>4. ASSUME NEW c \in Clients, Sending(c)
      PROVE  Stays
  BY <1>0, <1>4, SendingShape
<1>5. ASSUME NEW c \in Clients, Lose(c)
      PROVE  req'[q] \in {req[q], Unattended(q)}
  BY <1>0, <1>5 DEF Lose
<1>6. ASSUME NEW c \in Clients, Interrupt(c)
      PROVE  req'[q] \in {req[q], Unattended(q)}
  BY <1>6, InterruptShape
<1>7. ASSUME NEW r \in Requests, r # q, Handle(r) \/ Kill(r)
      PROVE  req'[q] = req[q]
  BY <1>0, <1>7, HandleShape, KillShape
<1>8. CASE \/ \E n \in Pairs : LockExpires(n) \/ LockLapses(n) \/ Age(n)
           \/ \E t \in Tabs, s \in Sessions : CompleteBegin(t, s)
           \/ \E t \in Tabs : CompleteMint(t) \/ CompletePut(t)
           \/ \E s \in Sessions : Deny(s) \/ PendingExpires(s) \/ CompletedExpires(s)
  BY <1>1, <1>8, OutsideKeeps
<1> QED
  BY <1>1, <1>2, <1>3, <1>4, <1>5, <1>6, <1>7, <1>8, RunKinds, QuietShape DEF Next, vars

\* A refresh appears at work only from the state before it.
LEMMA Worked ==
  ASSUME Typed, [Next]_vars, NEW q \in Requests, Refreshing(q)'
  PROVE  /\ req[q].kind = "refresh" /\ req'[q].arg = req[q].arg
         /\ Handle(q) \/ req'[q].pc = req[q].pc
<1>1. CASE Handle(q)
  BY <1>1, HandleArg DEF Refreshing
<1>2. CASE \E r \in Requests : Handle(r) /\ r # q
  BY <1>2, HandleShape DEF Refreshing
<1>3. CASE Kept(q)
  BY <1>3 DEF Kept, Refreshing, Middle
<1> QED
  BY <1>1, <1>2, <1>3, ReqWriters

LEMMA HandleWorking ==
  ASSUME Typed, NEW r \in Requests, Handle(r), Refreshing(r)
  PROVE  RefreshRead(r) \/ Rotate(r) \/ Release(r) \/ Unlock(r)
BY DEF Handle, Serve, RevokeBegin, Revoke, RefreshBegin, PollBegin, PollDelete, At, Refreshing,
       Middle

LEMMA HandleWorked ==
  ASSUME Typed, NEW r \in Requests, Handle(r), Refreshing(r)'
  PROVE  \/ RefreshBegin(r) /\ Unlocked(req[r].arg) /\ req'[r].pc = "read"
         \/ RefreshRead(r) /\ pair[req[r].arg].refresh = "live" /\ req'[r].pc = "rotate"
         \/ RefreshRead(r) /\ pair[req[r].arg].refresh # "live" /\ req'[r].pc = "release"
         \/ Rotate(r) /\ req'[r].pc = "release"
         \/ Release(r) /\ lock[req[r].arg] = r /\ req'[r].pc = "unlock"
<1>1. req[r] \in ReqType /\ req \in [Requests -> ReqType]
  BY DEF Typed, TypeOK
<1>2. req'[r].kind = "refresh" /\ req[r].kind = "refresh"
  BY HandleArg DEF Refreshing
<1>3. CASE Serve(r) \/ Revoke(r) \/ RevokeBegin(r) \/ PollBegin(r) \/ PollDelete(r)
  BY <1>2, <1>3 DEF Serve, Revoke, RevokeBegin, PollBegin, PollDelete, At
<1>4. CASE Unlock(r)
  BY <1>2, <1>4, AnswerShape DEF Unlock, Reply
<1>5. CASE RefreshBegin(r)
  BY <1>2, <1>5, AnswerShape, StepShape DEF RefreshBegin
<1>6. CASE RefreshRead(r)
  BY <1>1, <1>6, StepShape DEF RefreshRead, ReqType
<1>7. CASE Rotate(r)
  BY <1>1, <1>7 DEF Rotate, ReqType
<1>8. CASE Release(r)
  BY <1>2, <1>8, AnswerShape, StepShape DEF Release, Reply
<1> QED
  BY <1>3, <1>4, <1>5, <1>6, <1>7, <1>8 DEF Handle

LEMMA HoldsStep == Typed /\ Holds /\ [Next]_vars => Holds'
<1> SUFFICES ASSUME Typed, Holds, [Next]_vars, NEW n \in Pairs, NEW r \in Requests, lock'[n] = r
             PROVE  req'[r].kind = "refresh" /\ req'[r].pc \in Middle /\ req'[r].arg = n
  BY DEF Holds, Refreshing
<1>0. /\ lock \in [Pairs -> Requests \cup {Nobody, Orphan}] /\ r # Nobody /\ r # Orphan
      /\ req[r] \in ReqType /\ req \in [Requests -> ReqType]
  BY ClientAssumption DEF Typed, TypeOK
<1>1. CASE lock[n] = r
  <2>1. Refreshing(r) /\ req[r].arg = n
    BY <1>1 DEF Holds
  <2>2. ~Kill(r)
    BY <1>0, <1>1 DEF Kill
  <2>3. ~Unlock(r)
    BY <1>0, <2>1 DEF Unlock
  <2>4. CASE RefreshRead(r) \/ Rotate(r)
    BY <1>0, <2>1, <2>4, StepShape DEF RefreshRead, Rotate, Middle, ReqType, Refreshing
  <2>5. CASE Release(r)
    BY <1>1, <2>1, <2>5, StepShape DEF Release, Middle, Refreshing
  <2> QED
    BY <2>1, <2>2, <2>3, <2>4, <2>5, Working, HandleWorking DEF Refreshing
<1>2. ASSUME NEW q \in Requests, RefreshBegin(q), lock[n] # r
      PROVE  req'[r].kind = "refresh" /\ req'[r].pc \in Middle /\ req'[r].arg = n
  <2>1. q = r /\ req[q].arg = n /\ Step(q, "read") /\ req[q].kind = "refresh"
    BY <1>0, <1>2 DEF RefreshBegin, At
  <2> QED
    BY <2>1, StepShape DEF Middle
<1>3. ASSUME NEW q \in Requests, Unlock(q) \/ Kill(q)
      PROVE  lock[n] = r
  BY <1>0, <1>3 DEF Unlock, Kill
<1>4. ASSUME NEW m \in Pairs, LockExpires(m) \/ LockLapses(m)
      PROVE  lock[n] = r
  BY <1>0, <1>4 DEF LockExpires, LockLapses
<1> QED
  BY <1>1, <1>2, <1>3, <1>4, LockWriters

LEMMA RotateRevokes ==
  ASSUME Typed, Rows, NEW r \in Requests, Rotate(r)
  PROVE  LET n == req[r].arg IN
         /\ n \in Pairs /\ NextPair \in Pairs /\ ~Minted(NextPair) /\ n # NextPair /\ Minted(n)
         /\ pair'[n].refresh = "revoked" /\ pair'[n].from = pair[n].from
         /\ pair'[NextPair].from = n /\ pair'[NextPair].refresh = "live"
         /\ \A m \in Pairs : m # n /\ m # NextPair => pair'[m] = pair[m]
<1> DEFINE n == req[r].arg
<1>1. n \in Pairs /\ Minted(n) /\ NextPair \in Pairs /\ ~Minted(NextPair)
  BY FreshPair DEF Rotate, At, Rows, Found, Typed, ReqGood, Fresh
<1>2. pair' = MintedFrom(RefreshRevoked(pair, n), NextPair, n)
  BY DEF Rotate
<1> QED
  BY <1>1, <1>2, MintedRows, RevokedRows

LEMMA SpentStep == Typed /\ Rows /\ Spent /\ Known /\ [Next]_vars => Spent'
<1> SUFFICES ASSUME Typed, Rows, Spent, Known, [Next]_vars, NEW r \in Requests,
                    Refreshing(r)', req'[r].pc \in {"release", "unlock"}
             PROVE  pair'[req'[r].arg].refresh # "live"
  BY DEF Spent, Live, Refreshing
<1>1. req[r].kind = "refresh" /\ req'[r].arg = req[r].arg /\ req[r].arg \in Pairs
      /\ req[r].arg # 0 /\ KnownIn(pair, req[r].arg)
  BY Worked, Numbers DEF Typed, ReqGood, Known
<1>2. pair[req[r].arg].refresh # "live" => pair'[req[r].arg].refresh # "live"
  BY <1>1, PairShape DEF Minted, KnownIn
<1>3. CASE RefreshRead(r) /\ pair[req[r].arg].refresh # "live"
  BY <1>1, <1>2, <1>3
<1>4. CASE Rotate(r)
  BY <1>1, <1>4, RotateRevokes
<1>5. CASE Release(r) \/ req'[r].pc = req[r].pc
  <2>1. req[r].pc \in {"release", "unlock"}
    BY <1>5 DEF Release, At
  <2> QED
    BY <1>1, <1>2, <2>1 DEF Spent, Refreshing, Middle, Live
<1> QED
  BY <1>3, <1>4, <1>5, Worked, HandleWorked

LEMMA LineageStep == Typed /\ Rows /\ Lineage /\ [Next]_vars => Lineage'
<1> SUFFICES ASSUME Typed, Rows, Lineage, [Next]_vars, NEW n \in Pairs, pair'[n].from # 0
             PROVE  LET p == pair'[n].from IN
                    /\ pair'[n].refresh # "none"
                    /\ pair'[p].refresh # "none" /\ pair'[p].refresh # "live"
  BY DEF Lineage, Minted, Live
<1>1. ASSUME NEW m \in Pairs
      PROVE  /\ Minted(m) => pair'[m].refresh # "none"
             /\ Minted(m) /\ ~Live(m) => pair'[m].refresh # "live"
  BY <1>1, PairShape, Numbers DEF Minted, Live
<1>2. CASE pair'[n].from = pair[n].from
  <2>1. pair[n].from \in Pairs
    BY <1>2, Numbers DEF Typed, TypeOK, PairType
  <2> QED
    BY <1>1, <1>2, <2>1 DEF Lineage
<1>3. ASSUME NEW r \in Requests, Rotate(r), pair'[n].from # pair[n].from
      PROVE  n = NextPair /\ pair'[n].from = req[r].arg
  BY <1>3, RotateRevokes
<1>4. ASSUME NEW r \in Requests, Rotate(r), pair'[n].from # pair[n].from
      PROVE  LET p == pair'[n].from IN
             /\ pair'[n].refresh # "none"
             /\ pair'[p].refresh # "none" /\ pair'[p].refresh # "live"
  BY <1>3, <1>4, RotateRevokes
<1>5. ASSUME NEW r \in Requests, Revoke(r)
      PROVE  pair'[n].from = pair[n].from
  <2>1. pair[n] \in PairType /\ pair \in [Pairs -> PairType]
    BY DEF Typed, TypeOK
  <2> QED
    BY <1>5, <2>1 DEF Revoke, BothRevoked, PairType
<1>6. ASSUME NEW t \in Tabs, CompleteMint(t)
      PROVE  pair'[n].from \in {0, pair[n].from}
  BY <1>6, FreshPair, MintedRows DEF CompleteMint, Typed, TypeOK
<1>7. ASSUME NEW m \in Pairs, Age(m)
      PROVE  pair'[n].from = pair[n].from
  BY <1>7 DEF Age, Typed, TypeOK, PairType
<1> QED
  BY <1>2, <1>4, <1>5, <1>6, <1>7, PairWriters

LEMMA HoldsStart == Init => Holds /\ Spent
BY ClientAssumption DEF Init, Holds, Spent, Refreshing, Middle, NoReq

LEMMA LineageStart == Init => Lineage
<1>1. NoPair.from = 0 /\ [NoPair EXCEPT !.access = "live", !.refresh = "live"].from = 0
  BY DEF NoPair
<1> QED
  BY <1>1 DEF Init, Lineage

-----------------------------------------------------------------------------
(* Rotations, counted.                                                     *)

Rotating(n) ==
  {r \in Requests : req[r].kind = "refresh" /\ req[r].pc \in {"read", "rotate"} /\ req[r].arg = n}
Ready(n) == {r \in Rotating(n) : req[r].pc = "rotate"}
Heirs(n) == {q \in Pairs : pair[q].from = n}
Free(n) == IF lock[n] \in Requests THEN 0 ELSE 1

\* A good pair may still be exchanged by those who rotate it and by whoever takes
\* its lock, a pair that is not good only by those who have read its row.
Counted ==
  \A n \in Pairs :
    IF Live(n) THEN Cardinality(Rotating(n)) + Free(n) <= 1 + lapses
               ELSE Cardinality(Heirs(n)) + Cardinality(Ready(n)) <= 1 + lapses

LEMMA Finite ==
  /\ \A S \in SUBSET Requests : IsFiniteSet(S) /\ Cardinality(S) \in Nat
  /\ \A S \in SUBSET Pairs : IsFiniteSet(S) /\ Cardinality(S) \in Nat
<1>1. IsFiniteSet(Requests) /\ IsFiniteSet(Pairs)
  BY RequestsAssumption, Numbers, FS_Interval DEF Pairs
<1> QED
  BY <1>1, FS_Subset, FS_CardinalityType

LEMMA Smaller ==
  ASSUME NEW S, IsFiniteSet(S), NEW T \in SUBSET S
  PROVE  /\ Cardinality(T) <= Cardinality(S)
         /\ \A x \in S : x \notin T => Cardinality(T) + 1 <= Cardinality(S)
<1>1. Cardinality(T) <= Cardinality(S)
  BY FS_Subset
<1>2. ASSUME NEW x \in S, x \notin T
      PROVE  Cardinality(T) + 1 <= Cardinality(S)
  <2>1. IsFiniteSet(S \ {x}) /\ Cardinality(S \ {x}) = Cardinality(S) - 1
    BY FS_RemoveElement
  <2>2. T \in SUBSET (S \ {x})
    BY <1>2
  <2>3. Cardinality(T) <= Cardinality(S \ {x}) /\ Cardinality(T) \in Nat
    BY <2>1, <2>2, FS_Subset, FS_CardinalityType
  <2>4. Cardinality(S) \in Nat
    BY FS_CardinalityType
  <2> QED
    BY <2>1, <2>3, <2>4
<1> QED
  BY <1>1, <1>2

LEMMA OneMore ==
  ASSUME NEW S, IsFiniteSet(S), NEW x, NEW T \in SUBSET (S \cup {x})
  PROVE  Cardinality(T) <= Cardinality(S) + 1
<1>0. Cardinality(S) \in Nat
  BY FS_CardinalityType
<1>1. IsFiniteSet(S \cup {x}) /\ Cardinality(S \cup {x}) <= Cardinality(S) + 1
  <2>1. /\ IsFiniteSet(S \cup {x})
        /\ Cardinality(S \cup {x}) = IF x \in S THEN Cardinality(S) ELSE Cardinality(S) + 1
    BY FS_AddElement
  <2> QED
    BY <1>0, <2>1
<1>2. Cardinality(T) <= Cardinality(S \cup {x}) /\ Cardinality(T) \in Nat
  BY <1>1, FS_Subset, FS_CardinalityType
<1>3. Cardinality(S \cup {x}) \in Nat
  BY <1>1, FS_CardinalityType
<1> QED
  BY <1>0, <1>1, <1>2, <1>3

LEMMA RotatingFlow ==
  ASSUME Typed, [Next]_vars, NEW n \in Pairs, NEW r \in Rotating(n)'
  PROVE  \/ r \in Rotating(n)
         \/ RefreshBegin(r) /\ req[r].arg = n /\ Unlocked(n)
<1>1. r \in Requests /\ req'[r].kind = "refresh" /\ req'[r].pc \in {"read", "rotate"}
      /\ req'[r].arg = n
  BY DEF Rotating
<1>2. Refreshing(r)'
  BY <1>1 DEF Refreshing, Middle
<1>3. req[r].kind = "refresh" /\ req[r].arg = n /\ (Handle(r) \/ req'[r].pc = req[r].pc)
  BY <1>1, <1>2, Worked
<1>4. CASE req'[r].pc = req[r].pc
  BY <1>1, <1>3, <1>4 DEF Rotating
<1>5. CASE RefreshBegin(r) /\ Unlocked(req[r].arg)
  BY <1>3, <1>5
<1>6. CASE RefreshRead(r)
  BY <1>1, <1>3, <1>6 DEF RefreshRead, At, Rotating
<1> QED
  BY <1>1, <1>2, <1>3, <1>4, <1>5, <1>6, HandleWorked

LEMMA ReadyFlow ==
  ASSUME Typed, [Next]_vars, NEW n \in Pairs
  PROVE  /\ Ready(n)' \subseteq Rotating(n)
         /\ ~Live(n) => Ready(n)' \subseteq Ready(n)
<1> SUFFICES ASSUME NEW r \in Ready(n)'
             PROVE  r \in Rotating(n) /\ (~Live(n) => r \in Ready(n))
  OBVIOUS
<1>1. r \in Requests /\ req'[r].kind = "refresh" /\ req'[r].pc = "rotate" /\ req'[r].arg = n
  BY DEF Ready, Rotating
<1>2. Refreshing(r)'
  BY <1>1 DEF Refreshing, Middle
<1>3. req[r].kind = "refresh" /\ req[r].arg = n /\ (Handle(r) \/ req'[r].pc = req[r].pc)
  BY <1>1, <1>2, Worked
<1>4. CASE req'[r].pc = req[r].pc
  BY <1>1, <1>3, <1>4 DEF Rotating, Ready
<1>5. CASE RefreshRead(r) /\ pair[req[r].arg].refresh = "live"
  BY <1>1, <1>3, <1>5, Numbers DEF RefreshRead, At, Rotating, Live
<1> QED
  BY <1>1, <1>2, <1>3, <1>4, <1>5, HandleWorked

LEMMA HeirsFlow ==
  ASSUME Typed, Rows, [Next]_vars, NEW n \in Pairs
  PROVE  \/ Heirs(n)' \subseteq Heirs(n)
         \/ \E r \in Requests : /\ Rotate(r) /\ req[r].arg = n
                                /\ Heirs(n)' \subseteq Heirs(n) \cup {NextPair}
<1>0. n # 0
  BY Numbers
<1>1. CASE UNCHANGED pair
  BY <1>1 DEF Heirs
<1>2. ASSUME NEW r \in Requests, Revoke(r)
      PROVE  Heirs(n)' \subseteq Heirs(n)
  <2>1. \A q \in Pairs : pair[q] \in PairType
    BY DEF Typed, TypeOK
  <2>2. \A q \in Pairs : pair'[q].from = pair[q].from
    BY <1>2, <2>1 DEF Revoke, BothRevoked, PairType, Typed, TypeOK
  <2> QED
    BY <2>2 DEF Heirs
<1>3. ASSUME NEW r \in Requests, Rotate(r)
      PROVE  \/ Heirs(n)' \subseteq Heirs(n)
             \/ req[r].arg = n /\ Heirs(n)' \subseteq Heirs(n) \cup {NextPair}
  BY <1>3, RotateRevokes DEF Heirs
<1>4. ASSUME NEW t \in Tabs, CompleteMint(t)
      PROVE  Heirs(n)' \subseteq Heirs(n)
  <2>1. \A q \in Pairs : pair'[q].from \in {0, pair[q].from}
    BY <1>4, FreshPair, MintedRows DEF CompleteMint, Typed, TypeOK
  <2> QED
    BY <1>0, <2>1 DEF Heirs
<1>5. ASSUME NEW m \in Pairs, Age(m)
      PROVE  Heirs(n)' \subseteq Heirs(n)
  <2>1. \A q \in Pairs : pair'[q].from = pair[q].from
    BY <1>5 DEF Age, Typed, TypeOK, PairType
  <2> QED
    BY <2>1 DEF Heirs
<1> QED
  BY <1>1, <1>2, <1>3, <1>4, <1>5, PairWriters

LEMMA LapsesGrow ==
  ASSUME Typed, [Next]_vars
  PROVE  /\ lapses \in Nat /\ lapses' \in Nat /\ lapses' >= lapses
         /\ \A n \in Pairs : LockLapses(n) => lapses' = lapses + 1
<1>1. lapses \in Nat
  BY Numbers DEF Typed, TypeOK
<1>2. UNCHANGED lapses \/ \E n \in Pairs : LockLapses(n)
  BY RunKinds, HearingKeeps, SendingKeeps, WritingKeeps, TroubleKeeps, HandleKeeps, OutsideKeeps
     DEF Next, vars
<1> QED
  BY <1>1, <1>2 DEF LockLapses

LEMMA Counts ==
  ASSUME NEW n \in Pairs
  PROVE  /\ IsFiniteSet(Rotating(n)) /\ IsFiniteSet(Ready(n)) /\ IsFiniteSet(Heirs(n))
         /\ Cardinality(Rotating(n)) \in Nat /\ Cardinality(Ready(n)) \in Nat
         /\ Cardinality(Heirs(n)) \in Nat
         /\ Rotating(n)' \in SUBSET Requests /\ Ready(n)' \in SUBSET Requests
         /\ Heirs(n)' \in SUBSET Pairs
         /\ Cardinality(Rotating(n)') \in Nat /\ Cardinality(Ready(n)') \in Nat
         /\ Cardinality(Heirs(n)') \in Nat
<1>1. /\ Rotating(n) \in SUBSET Requests /\ Ready(n) \in SUBSET Requests
      /\ Heirs(n) \in SUBSET Pairs
      /\ Rotating(n)' \in SUBSET Requests /\ Ready(n)' \in SUBSET Requests
      /\ Heirs(n)' \in SUBSET Pairs
  BY DEF Rotating, Ready, Heirs
<1> QED
  BY <1>1, Finite

\* What a refresh token's exchange rests on.
Exchange == Holds /\ Spent /\ Lineage /\ Known

\* A good pair stays good: a right to rotate it moves from its lock to a request.
LEMMA CountedGood ==
  ASSUME Typed, Rows, Exchange, Counted, [Next]_vars, NEW n \in Pairs,
         pair[n].refresh = "live"
  PROVE  Cardinality(Rotating(n)') + Free(n)' <= 1 + lapses'
<1>0. /\ Live(n) /\ Cardinality(Rotating(n)) + Free(n) <= 1 + lapses
      /\ Free(n) \in {0, 1} /\ Free(n)' \in {0, 1}
      /\ lock \in [Pairs -> Requests \cup {Nobody, Orphan}]
      /\ Nobody \notin Requests /\ Orphan \notin Requests
  BY Numbers, ClientAssumption DEF Live, Counted, Free, Typed, TypeOK
<1>1. CASE \E q \in Requests : RefreshBegin(q) /\ req[q].arg = n /\ Unlocked(n)
  <2>1. PICK q \in Requests : RefreshBegin(q) /\ req[q].arg = n /\ Unlocked(n)
    BY <1>1
  <2>2. Free(n) = 1 /\ Free(n)' = 0
    BY <1>0, <2>1 DEF RefreshBegin, Unlocked, Free
  <2>3. \A r \in Requests : r # q => req'[r] = req[r]
    BY <2>1, HandleShape DEF Handle
  <2>4. Rotating(n)' \in SUBSET (Rotating(n) \cup {q})
    BY <2>3 DEF Rotating
  <2>5. Cardinality(Rotating(n)') <= Cardinality(Rotating(n)) + 1
    BY <2>4, Counts, OneMore
  <2> QED
    BY <1>0, <2>2, <2>5, Counts, LapsesGrow
<1>2. CASE ~\E q \in Requests : RefreshBegin(q) /\ req[q].arg = n /\ Unlocked(n)
  <2>1. Rotating(n)' \in SUBSET Rotating(n)
    <3>1. \A r \in Rotating(n)' : r \in Requests
      BY DEF Rotating
    <3> QED
      BY <1>2, <3>1, RotatingFlow
  <2>2. Cardinality(Rotating(n)') <= Cardinality(Rotating(n))
    BY <2>1, Counts, Smaller
  <2>3. CASE Free(n)' <= Free(n)
    BY <1>0, <2>2, <2>3, Counts, LapsesGrow
  <2>4. CASE Free(n) = 0 /\ Free(n)' = 1
    <3>1. lock[n] \in Requests /\ lock'[n] \notin Requests
      BY <2>4 DEF Free
    <3>2. CASE LockLapses(n)
      BY <1>0, <2>2, <2>4, <3>2, Counts, LapsesGrow
    <3>3. CASE \E r \in Requests : Kill(r) /\ lock[n] = r
      <4>1. PICK r \in Requests : Kill(r) /\ lock[n] = r
        BY <3>3
      <4>2. Refreshing(r) /\ req[r].arg = n /\ req[r].pc \notin {"release", "unlock"}
        BY <1>0, <4>1 DEF Exchange, Holds, Spent
      <4>3. r \in Rotating(n)
        BY <4>2 DEF Refreshing, Middle, Rotating
      <4>4. req'[r] = NoReq
        BY <4>1, KillShape DEF Typed
      <4>5. r \notin Rotating(n)'
        BY <4>4 DEF Rotating, NoReq
      <4>6. Cardinality(Rotating(n)') + 1 <= Cardinality(Rotating(n))
        BY <2>1, <4>3, <4>5, Counts, Smaller
      <4> QED
        BY <1>0, <2>4, <4>6, Counts, LapsesGrow
    <3>4. ASSUME NEW r \in Requests, Unlock(r)
          PROVE  req[r].arg # n
      BY <1>0, <3>4 DEF Unlock, At, Exchange, Spent, Refreshing, Middle
    <3>5. ASSUME NEW r \in Requests, RefreshBegin(r) \/ Unlock(r) \/ Kill(r)
          PROVE  Kill(r) /\ lock[n] = r
      BY <1>0, <3>1, <3>4, <3>5 DEF RefreshBegin, Unlock, Kill
    <3>6. ASSUME NEW m \in Pairs, LockExpires(m) \/ LockLapses(m)
          PROVE  LockLapses(n)
      BY <1>0, <3>1, <3>6 DEF LockExpires, LockLapses
    <3> QED
      BY <3>1, <3>2, <3>3, <3>5, <3>6, LockWriters
  <2> QED
    BY <1>0, <2>3, <2>4
<1> QED
  BY <1>1, <1>2

\* A pair just minted: nobody rotates it yet.
LEMMA CountedFresh ==
  ASSUME Typed, Exchange, [Next]_vars, NEW n \in Pairs, ~Minted(n)
  PROVE  Cardinality(Rotating(n)') + Free(n)' <= 1 + lapses'
<1>1. Rotating(n)' = {}
  <2> SUFFICES ASSUME NEW r \in Rotating(n)' PROVE FALSE
    OBVIOUS
  <2>1. r \in Requests /\ Refreshing(r)' /\ req'[r].arg = n
    BY DEF Rotating, Refreshing, Middle
  <2>2. req[r].kind = "refresh" /\ req[r].arg = n
    BY <2>1, Worked
  <2> QED
    BY <2>1, <2>2, Numbers DEF Exchange, Known, KnownIn, Minted
<1>2. Cardinality(Rotating(n)') = 0
  BY <1>1, FS_EmptySet
<1>3. Free(n)' \in {0, 1}
  BY DEF Free
<1> QED
  BY <1>2, <1>3, LapsesGrow

\* A pair that is not good after the step.
LEMMA CountedSpent ==
  ASSUME Typed, Rows, Exchange, Counted, [Next]_vars, NEW n \in Pairs
  PROVE  Cardinality(Heirs(n)') + Cardinality(Ready(n)') <= 1 + lapses'
<1> DEFINE Base == IF Live(n) THEN Rotating(n) ELSE Ready(n)
<1>0. /\ Ready(n)' \in SUBSET Base /\ IsFiniteSet(Base) /\ Cardinality(Base) \in Nat
      /\ Ready(n) \subseteq Base
  BY ReadyFlow, Counts DEF Ready
<1>1. Cardinality(Heirs(n)) + Cardinality(Base) <= 1 + lapses
  <2>1. CASE Live(n)
    <3>1. Heirs(n) = {}
      BY <2>1, Numbers DEF Exchange, Lineage, Heirs
    <3>2. Cardinality(Heirs(n)) = 0
      BY <3>1, FS_EmptySet
    <3>3. Cardinality(Rotating(n)) + Free(n) <= 1 + lapses /\ Free(n) \in {0, 1}
      BY <2>1 DEF Counted, Free
    <3> QED
      BY <2>1, <3>2, <3>3, Counts, LapsesGrow
  <2>2. CASE ~Live(n)
    BY <2>2 DEF Counted
  <2> QED
    BY <2>1, <2>2
<1> HIDE DEF Base
<1>2. CASE Heirs(n)' \subseteq Heirs(n)
  <2>1. Cardinality(Heirs(n)') <= Cardinality(Heirs(n))
    BY <1>2, Counts, Smaller
  <2>2. Cardinality(Ready(n)') <= Cardinality(Base)
    BY <1>0, Smaller
  <2> QED
    BY <1>0, <1>1, <2>1, <2>2, Counts, LapsesGrow
<1>3. CASE \E r \in Requests : /\ Rotate(r) /\ req[r].arg = n
                               /\ Heirs(n)' \subseteq Heirs(n) \cup {NextPair}
  <2>1. PICK r \in Requests : /\ Rotate(r) /\ req[r].arg = n
                              /\ Heirs(n)' \subseteq Heirs(n) \cup {NextPair}
    BY <1>3
  <2>2. Cardinality(Heirs(n)') <= Cardinality(Heirs(n)) + 1
    BY <2>1, Counts, OneMore
  <2>3. r \in Ready(n)
    BY <2>1 DEF Rotate, At, Ready, Rotating
  <2>4. r \notin Ready(n)'
    BY <2>1 DEF Rotate, Ready, Rotating, Typed, TypeOK, ReqType
  <2>5. Cardinality(Ready(n)') + 1 <= Cardinality(Base)
    BY <1>0, <2>3, <2>4, Smaller
  <2> QED
    BY <1>0, <1>1, <2>2, <2>5, Counts, LapsesGrow
<1> QED
  BY <1>2, <1>3, HeirsFlow

LEMMA CountedStep == Typed /\ Rows /\ Exchange /\ Counted /\ [Next]_vars => Counted'
<1> SUFFICES ASSUME Typed, Rows, Exchange, Counted, [Next]_vars, NEW n \in Pairs
             PROVE  IF pair'[n].refresh = "live"
                      THEN Cardinality(Rotating(n)') + Free(n)' <= 1 + lapses'
                      ELSE Cardinality(Heirs(n)') + Cardinality(Ready(n)') <= 1 + lapses'
  BY Numbers DEF Counted, Live
<1>1. CASE pair'[n].refresh = "live"
  <2>1. pair[n].refresh = "live" \/ ~Minted(n)
    BY <1>1, PairShape
  <2> QED
    BY <1>1, <2>1, CountedGood, CountedFresh
<1>2. CASE pair'[n].refresh # "live"
  BY <1>2, CountedSpent
<1> QED
  BY <1>1, <1>2

LEMMA CountedStart == Init => Counted
<1> SUFFICES ASSUME Init, NEW n \in Pairs
             PROVE  IF Live(n) THEN Cardinality(Rotating(n)) + Free(n) <= 1 + lapses
                    ELSE Cardinality(Heirs(n)) + Cardinality(Ready(n)) <= 1 + lapses
  BY DEF Counted
<1>1. Rotating(n) = {} /\ Ready(n) = {}
  BY DEF Init, Rotating, Ready, NoReq
<1>2. Heirs(n) = {}
  <2>1. NoPair.from = 0 /\ [NoPair EXCEPT !.access = "live", !.refresh = "live"].from = 0
    BY DEF NoPair
  <2>2. \A q \in Pairs : pair[q].from = 0
    BY <2>1 DEF Init
  <2> QED
    BY <2>2, Numbers DEF Heirs
<1> QED
  BY <1>1, <1>2, FS_EmptySet DEF Init, Free

LEMMA ExchangeAlways == Spec => [](Exchange /\ Counted)
<1> DEFINE Inv == Typed /\ Rows /\ Exchange /\ Counted
<1>1. Init => Inv
  BY TypedStart, RowsStart, HoldsStart, LineageStart, KnownStart, CountedStart DEF Exchange
<1>2. Inv /\ [Next]_vars => Inv'
  BY TypedStep, RowsStep, HoldsStep, SpentStep, LineageStep, KnownStep, CountedStep DEF Exchange
<1> QED
  BY <1>1, <1>2, PTL DEF Spec

\* However requests for one refresh token interleave, and whichever of them lose
\* their client or their process, the token is exchanged once, and once more at
\* most for each lock whose TTL ended under its holder (TokensRefreshView).
THEOREM RotationsDoNotFork == Spec => []RotatedOnce
<1>1. Lineage /\ Counted /\ lapses \in Nat => RotatedOnce
  <2> SUFFICES ASSUME Lineage, Counted, lapses \in Nat, NEW n \in Pairs
               PROVE  Cardinality(Heirs(n)) <= 1 + lapses
    BY DEF RotatedOnce, Heirs
  <2>1. CASE Live(n)
    <3>1. Heirs(n) = {}
      BY <2>1, Numbers DEF Lineage, Heirs
    <3> QED
      BY <3>1, FS_EmptySet
  <2>2. CASE ~Live(n)
    BY <2>2, Counts DEF Counted
  <2> QED
    BY <2>1, <2>2
<1>2. Typed => lapses \in Nat
  BY Numbers DEF Typed, TypeOK
<1>3. Exchange => Lineage
  BY DEF Exchange
<1> QED
  BY <1>1, <1>2, <1>3, TypedAlways, ExchangeAlways, PTL
-----------------------------------------------------------------------------
(* A session that was completed holds a pair of its own until it is read.  *)

Held == {file} \cup {cli[c].mem : c \in Clients} \cup {cli[c].snap : c \in Clients}

\* A poll has read the entry and will delete it.
Delivering(r, s) == At(r, "poll", "delete") /\ req[r].arg = s

Apart ==
  /\ \A s \in Sessions : bag[s].pair # 0 =>
       /\ bag[s].pair \notin Held
       /\ \A r \in Requests : req[r].got = bag[s].pair => Delivering(r, s)
       /\ \A z \in Sessions : bag[z].pair = bag[s].pair => z = s
       /\ \A t \in Tabs : tab[t].got # bag[s].pair
  /\ \A t \in Tabs : tab[t].got # 0 =>
       /\ tab[t].got \notin Held
       /\ \A r \in Requests : req[r].got # tab[t].got
       /\ \A u \in Tabs : tab[u].got = tab[t].got => u = t

LEMMA HeldFlow ==
  ASSUME Typed, [Next]_vars
  PROVE  Held' \subseteq Held \cup {0} \cup Answers
<1>1. file' \in Held \cup {0}
  BY FileWriters DEF Writing, Save, Saved, Wipe, SignIn, Mark, Clear, NudgeWrite, Held
<1>2. \A c \in Clients : /\ cli'[c].mem \in Held \cup {0} \cup Answers
                         /\ cli'[c].snap \in Held \cup {0}
  BY MemFlow DEF Held
<1> QED
  BY <1>1, <1>2 DEF Held

\* Where an answer's pair comes from, and what an entry being read becomes.
LEMMA GotSource ==
  ASSUME Typed, [Next]_vars, NEW r \in Requests, req'[r].got # 0
  PROVE  \/ /\ req'[r].got = req[r].got
            /\ \A s : Delivering(r, s) => PollDelete(r) \/ Delivering(r, s)'
         \/ Rotate(r) /\ req'[r].got = NextPair
         \/ /\ UNCHANGED bag
            /\ \E s \in Sessions : req'[r].got = bag[s].pair /\ Delivering(r, s)'
<1> DEFINE q == req[r]
<1>1. req[r] \in ReqGood /\ req[r] \in ReqType /\ req \in [Requests -> ReqType]
  BY DEF Typed, TypeOK
<1>2. ASSUME NEW out, Answer(r, out, 0)
      PROVE  FALSE
  BY <1>1, <1>2 DEF Answer, NoReq
<1>3. ASSUME NEW pc, Step(r, pc)
      PROVE  req'[r].got = q.got
  BY <1>3, StepShape
<1>4. ASSUME Reply(r)
      PROVE  req'[r].got = q.got
  BY <1>1, <1>4 DEF Reply, Answer, NoReq
<1>5. CASE Serve(r) \/ Revoke(r) \/ RevokeBegin(r) \/ RefreshBegin(r)
  BY <1>2, <1>3, <1>5
     DEF Serve, Revoke, RevokeBegin, RefreshBegin, At, Delivering
<1>6. CASE Release(r) \/ Unlock(r)
  BY <1>3, <1>4, <1>6 DEF Release, Unlock, At, Delivering
<1>7. CASE PollDelete(r)
  BY <1>4, <1>7 DEF PollDelete
<1>8. CASE RefreshRead(r)
  BY <1>1, <1>3, <1>8 DEF RefreshRead, At, Delivering, ReqType
<1>9. CASE Rotate(r)
  BY <1>1, <1>9 DEF Rotate, ReqType
<1>10. CASE PollBegin(r)
  <2>1. q.arg \in Sessions /\ q.kind = "poll"
    BY <1>1, <1>10 DEF PollBegin, At, ReqGood
  <2>2. req' = [req EXCEPT ![r].pc = "delete", ![r].out = "ok", ![r].got = bag[q.arg].pair]
    BY <1>2, <1>10 DEF PollBegin
  <2>3. /\ req'[r].kind = "poll" /\ req'[r].pc = "delete" /\ req'[r].arg = q.arg
        /\ req'[r].got = bag[q.arg].pair
    BY <1>1, <2>1, <2>2 DEF ReqType
  <2> QED
    BY <1>10, <2>1, <2>3 DEF PollBegin, Delivering, At
<1>11. CASE \E p \in Requests : Handle(p) /\ p # r
  BY <1>11, HandleShape DEF Delivering, At
<1>12. CASE Kept(r)
  BY <1>12 DEF Kept, Delivering, At
<1> QED
  BY <1>5, <1>6, <1>7, <1>8, <1>9, <1>10, <1>11, <1>12, ReqWriters DEF Handle

LEMMA BagFlow ==
  ASSUME Typed, [Next]_vars, NEW s \in Sessions
  PROVE  /\ \/ bag'[s].pair \in {0, bag[s].pair}
            \/ \E t \in Tabs : CompletePut(t) /\ tab[t].sess = s /\ bag'[s].pair = tab[t].got
         /\ \A r \in Requests : PollDelete(r) /\ req[r].arg = s => bag'[s].pair = 0
<1>1. bag \in [Sessions -> BagType]
  BY DEF Typed, TypeOK
<1>2. \A why : Absent(why).pair = 0
  BY DEF Absent
<1>3. \A x \in Sessions : Deny(x) \/ PendingExpires(x) \/ CompletedExpires(x)
        => bag'[s].pair \in {0, bag[s].pair}
  BY <1>1, <1>2 DEF Deny, PendingExpires, CompletedExpires
<1>4. \A r \in Requests : PollDelete(r) => /\ bag'[s].pair \in {0, bag[s].pair}
                                           /\ req[r].arg = s => bag'[s].pair = 0
  BY <1>1, <1>2 DEF PollDelete
<1>5. \A c \in Clients : Create(c) => bag'[s].pair = bag[s].pair
  BY <1>1 DEF Create, BagType
<1>6. ASSUME NEW t \in Tabs, CompletePut(t)
      PROVE  bag'[s].pair = bag[s].pair \/ (tab[t].sess = s /\ bag'[s].pair = tab[t].got)
  BY <1>1, <1>6 DEF CompletePut
<1> QED
  BY <1>3, <1>4, <1>5, <1>6, BagWriters

LEMMA TabFlow ==
  ASSUME Typed, [Next]_vars, NEW t \in Tabs
  PROVE  /\ \/ tab'[t].got \in {0, tab[t].got}
            \/ CompleteMint(t) /\ tab'[t].got = NextPair
         /\ CompletePut(t) => tab'[t].got = 0
         /\ CompleteMint(t) => UNCHANGED req /\ \A u \in Tabs \ {t} : tab'[u] = tab[u]
<1>1. tab \in [Tabs -> TabType]
  BY DEF Typed, TypeOK
<1>2. \A x \in Tabs, z \in Sessions : CompleteBegin(x, z) => tab'[t].got \in {0, tab[t].got}
  BY <1>1 DEF CompleteBegin
<1>3. \A x \in Tabs : CompletePut(x) => /\ tab'[t].got \in {0, tab[t].got}
                                        /\ x = t => tab'[t].got = 0
  BY <1>1 DEF CompletePut, NoTab
<1>4. ASSUME NEW x \in Tabs, CompleteMint(x)
      PROVE  /\ tab'[t].got = tab[t].got \/ (x = t /\ tab'[t].got = NextPair)
             /\ UNCHANGED req /\ \A u \in Tabs \ {x} : tab'[u] = tab[u]
  BY <1>1, <1>4 DEF CompleteMint, TabType
<1> QED
  BY <1>2, <1>3, <1>4, TabWriters

\* Nobody names the next pair yet.
LEMMA NextPairNew ==
  ASSUME Typed, Known, Fresh # {}
  PROVE  /\ NextPair # 0 /\ NextPair \notin Held \cup Answers
         /\ \A r \in Requests : req[r].got # NextPair
         /\ \A s \in Sessions : bag[s].pair # NextPair
         /\ \A t \in Tabs : tab[t].got # NextPair
<1>1. NextPair # 0 /\ ~KnownIn(pair, NextPair)
  BY FreshPair, Numbers DEF Fresh, Minted, KnownIn
<1> QED
  BY <1>1 DEF Known, Held, Answers

LEMMA ApartStep == Typed /\ Known /\ Apart /\ [Next]_vars => Apart'
<1> SUFFICES ASSUME Typed, Known, Apart, [Next]_vars PROVE Apart'
  OBVIOUS
<1>1. /\ \A r \in Requests : Rotate(r) => Fresh # {}
      /\ \A t \in Tabs : CompleteMint(t) => Fresh # {}
  BY DEF Rotate, CompleteMint
<1>2. \A s \in Sessions : bag[s].pair # 0 => bag[s].pair \notin Answers
  BY DEF Apart, Answers, Delivering, At
<1>3. \A t \in Tabs : tab[t].got # 0 => tab[t].got \notin Answers
  BY DEF Apart, Answers
<1>4. ASSUME NEW s \in Sessions, bag'[s].pair # 0
      PROVE  /\ bag'[s].pair \notin Held'
             /\ \A r \in Requests : req'[r].got = bag'[s].pair => Delivering(r, s)'
             /\ \A z \in Sessions : bag'[z].pair = bag'[s].pair => z = s
             /\ \A t \in Tabs : tab'[t].got # bag'[s].pair
  <2>1. CASE bag'[s].pair = bag[s].pair
    <3>1. bag'[s].pair \notin Held'
      BY <1>2, <1>4, <2>1, HeldFlow DEF Apart
    <3>2. ASSUME NEW r \in Requests, req'[r].got = bag'[s].pair
          PROVE  Delivering(r, s)'
      <4>1. CASE /\ req'[r].got = req[r].got
                 /\ \A y : Delivering(r, y) => PollDelete(r) \/ Delivering(r, y)'
        <5>1. Delivering(r, s)
          BY <1>4, <2>1, <3>2, <4>1 DEF Apart
        <5>2. ~PollDelete(r)
          BY <1>4, <5>1, BagFlow DEF Delivering
        <5> QED
          BY <4>1, <5>1, <5>2
      <4>2. CASE Rotate(r) /\ req'[r].got = NextPair
        BY <1>1, <2>1, <3>2, <4>2, NextPairNew
      <4>3. CASE \E y \in Sessions : req'[r].got = bag[y].pair /\ Delivering(r, y)'
        BY <1>4, <2>1, <3>2, <4>3 DEF Apart
      <4> QED
        BY <1>4, <3>2, <4>1, <4>2, <4>3, GotSource
    <3>3. ASSUME NEW z \in Sessions, bag'[z].pair = bag'[s].pair
          PROVE  z = s
      BY <1>4, <2>1, <3>3, BagFlow DEF Apart
    <3>4. ASSUME NEW t \in Tabs, tab'[t].got = bag'[s].pair
          PROVE  FALSE
      BY <1>1, <1>4, <2>1, <3>4, TabFlow, NextPairNew DEF Apart
    <3> QED
      BY <3>1, <3>2, <3>3, <3>4
  <2>2. ASSUME NEW t \in Tabs, CompletePut(t), tab[t].sess = s, bag'[s].pair = tab[t].got
        PROVE  /\ bag'[s].pair \notin Held'
               /\ \A r \in Requests : req'[r].got # bag'[s].pair
               /\ \A z \in Sessions : bag'[z].pair = bag'[s].pair => z = s
               /\ \A u \in Tabs : tab'[u].got # bag'[s].pair
    <3>1. bag'[s].pair \notin Held'
      BY <1>3, <1>4, <2>2, HeldFlow DEF Apart
    <3>2. ASSUME NEW r \in Requests, req'[r].got = bag'[s].pair
          PROVE  FALSE
      BY <1>4, <2>2, <3>2 DEF Apart, CompletePut
    <3>3. ASSUME NEW z \in Sessions, bag'[z].pair = bag'[s].pair
          PROVE  z = s
      BY <1>4, <2>2, <3>3, BagFlow DEF Apart
    <3>4. ASSUME NEW u \in Tabs, tab'[u].got = bag'[s].pair
          PROVE  FALSE
      BY <1>1, <1>4, <2>2, <3>4, TabFlow, NextPairNew DEF Apart
    <3> QED
      BY <3>1, <3>2, <3>3, <3>4
  <2> QED
    BY <1>4, <2>1, <2>2, BagFlow
<1>5. ASSUME NEW t \in Tabs, tab'[t].got # 0
      PROVE  /\ tab'[t].got \notin Held'
             /\ \A r \in Requests : req'[r].got # tab'[t].got
             /\ \A u \in Tabs : tab'[u].got = tab'[t].got => u = t
  <2>1. CASE tab'[t].got = tab[t].got
    <3>1. tab'[t].got \notin Held'
      BY <1>3, <1>5, <2>1, HeldFlow DEF Apart
    <3>2. ASSUME NEW r \in Requests, req'[r].got = tab'[t].got
          PROVE  FALSE
      BY <1>1, <1>5, <2>1, <3>2, GotSource, NextPairNew DEF Apart
    <3>3. ASSUME NEW u \in Tabs, tab'[u].got = tab'[t].got
          PROVE  u = t
      BY <1>1, <1>5, <2>1, <3>3, TabFlow, NextPairNew DEF Apart
    <3> QED
      BY <3>1, <3>2, <3>3
  <2>2. CASE CompleteMint(t) /\ tab'[t].got = NextPair
    <3>1. Fresh # {}
      BY <1>1, <2>2
    <3>2. tab'[t].got \notin Held'
      BY <1>5, <2>2, <3>1, HeldFlow, NextPairNew
    <3>3. UNCHANGED req /\ \A u \in Tabs \ {t} : tab'[u] = tab[u]
      BY <2>2, TabFlow
    <3> QED
      BY <2>2, <3>1, <3>2, <3>3, NextPairNew
  <2> QED
    BY <1>5, <2>1, <2>2, TabFlow
<1> QED
  BY <1>4, <1>5 DEF Apart

LEMMA ApartStart == Init => Apart
BY DEF Init, Apart, Absent, NoTab

-----------------------------------------------------------------------------
(* One invocation after the other, and nothing fails: the file's pair is   *)
(* good, except while an invocation puts another one, or none, in its      *)
(* place.                                                                  *)

Calm == faults = 0 /\ overlaps = 0

One == \A c, d \in Clients : cli[c].pc # "idle" /\ cli[d].pc # "idle" => c = d

\* Every request has a client; what it asks about and when it has an answer.
Attended ==
  /\ \A r \in Requests : req[r].pc # "free" => req[r].client # Nobody
  /\ \A r \in Requests : \A c \in Clients :
       req[r].client = c /\ req[r].kind = "refresh" => req[r].arg = cli[c].mem
  /\ \A r \in Requests : req[r].out = "conflict" => req[r].pc = "reply"

\* Where an invocation's copy is the file's.
Reading == {"ensure", "issue", "retry", "asking", "rotating", "marking"}

Steady ==
  \A c \in Clients :
    /\ cli[c].pc \in Reading => cli[c].mem = file
    /\ cli[c].pc = "nudging" => cli[c].snap = file
    /\ cli[c].pc \in {"saving", "signing"} => Live(cli[c].mem)
    /\ cli[c].pc = "wiping" => cli[c].mem = 0

Good(n) == n = 0 \/ Live(n)

Goods ==
  /\ \A r \in Requests : Good(req[r].got) /\ (req[r].pc = "free" => req[r].got = 0)
  /\ \A s \in Sessions : Good(bag[s].pair)
  /\ \A t \in Tabs : Good(tab[t].got)

\* The file's pair was spent, and the invocation that had it spent will write.
Answered(r, c) ==
  /\ req[r].client = c /\ req[r].pc = "reply" /\ req[r].out # "conflict"
  /\ \/ cli[c].pc = "rotating"
     \/ cli[c].pc = "asking" /\ cli[c].cmd = "logout" /\ req[r].out = "ok"
Parted(r) ==
  \/ req[r].kind = "refresh" /\ req[r].pc \in {"release", "unlock"}
  \/ \E c \in Clients : Answered(r, c)
Parting(c) == cli[c].pc \in {"saving", "wiping", "clearing"}

FileGood ==
  Good(file) \/ (\E r \in Requests : Parted(r)) \/ \E c \in Clients : Parting(c)

Alone == One /\ Attended /\ Steady /\ Goods /\ FileGood

AloneInv == Calm => Alone

\* A calm step follows a calm state, and is nobody's fault.
LEMMA CalmStep ==
  ASSUME Typed, [Next]_vars, Calm'
  PROVE  /\ Calm
         /\ \/ \E r \in Requests : Handle(r)
            \/ \E c \in Clients : Hearing(c) \/ Sending(c) \/ Writing(c) \/ Create(c)
            \/ Busy = {} /\ \E c \in Clients :
                 NudgeRead(c) \/ \E cmd \in {"call", "login", "logout"} : Start(c, cmd)
            \/ /\ UNCHANGED <<cli, req, file>>
               /\ ~\E r \in Requests : Revoke(r) \/ Rotate(r)
<1>1. faults \in Nat /\ overlaps \in Nat
  BY Numbers DEF Typed, TypeOK
<1>2. \A c \in Clients : ~Lose(c) /\ ~Interrupt(c)
  BY <1>1 DEF Calm, Lose, Interrupt, Fault
<1>3. \A r \in Requests : ~Kill(r)
  BY <1>1 DEF Calm, Kill, Fault
<1>4. ASSUME NEW c \in Clients,
             NudgeRead(c) \/ \E cmd \in {"call", "login", "logout"} : Start(c, cmd)
      PROVE  Busy = {} /\ Calm
  BY <1>1, <1>4 DEF NudgeRead, Start, Overlapping, Calm
<1>5. ASSUME UNCHANGED <<cli, req, file>>
      PROVE  ~\E r \in Requests : Revoke(r) \/ Rotate(r)
  <2>1. \A r \in Requests : Revoke(r) => req'[r] # req[r]
    BY AnswerShape DEF Revoke, At
  <2>2. \A r \in Requests : Rotate(r) => req'[r] # req[r]
    <3>1. ASSUME NEW r \in Requests, Rotate(r)
          PROVE  req'[r] # req[r]
      <4>1. req[r] \in ReqType /\ req \in [Requests -> ReqType]
        BY DEF Typed, TypeOK
      <4>2. req'[r].pc = "release" /\ req[r].pc = "rotate"
        BY <3>1, <4>1 DEF Rotate, At, ReqType
      <4> QED
        BY <4>2
    <3> QED
      BY <3>1
  <2> QED
    BY <1>5, <2>1, <2>2
<1>6. ASSUME \/ \E n \in Pairs : LockExpires(n) \/ LockLapses(n) \/ Age(n)
             \/ \E t \in Tabs, s \in Sessions : CompleteBegin(t, s)
             \/ \E t \in Tabs : CompleteMint(t) \/ CompletePut(t)
             \/ \E s \in Sessions : Deny(s) \/ PendingExpires(s) \/ CompletedExpires(s)
      PROVE  UNCHANGED <<cli, req, file, faults, overlaps>>
  BY <1>6, OutsideKeeps
<1>7. CASE UNCHANGED vars
  BY <1>5, <1>7 DEF vars, Calm
<1>8. ASSUME NEW r \in Requests, Handle(r)
      PROVE  Calm
  BY <1>8, HandleKeeps DEF Calm
<1>9. ASSUME NEW c \in Clients, Run(c)
      PROVE  /\ Calm
             /\ Hearing(c) \/ Sending(c) \/ Writing(c) \/ Create(c)
  BY <1>9, RunKinds, HearingKeeps, SendingKeeps, WritingKeeps, TroubleKeeps DEF Calm
<1>10. Next => \/ \E r \in Requests : Handle(r)
               \/ \E c \in Clients : Run(c)
               \/ \E c \in Clients : NudgeRead(c) \/
                    \E cmd \in {"call", "login", "logout"} : Start(c, cmd)
               \/ UNCHANGED <<cli, req, file, faults, overlaps>>
  BY <1>2, <1>3, <1>6 DEF Next
<1>11. CASE UNCHANGED <<cli, req, file, faults, overlaps>>
  BY <1>5, <1>11 DEF Calm
<1> QED
  BY <1>4, <1>7, <1>8, <1>9, <1>10, <1>11

\* The invocation that waits is the only one, and so is its request.
LEMMA Worker ==
  ASSUME Typed, Owned, One, Attended, NEW r \in Requests, req[r].pc # "free"
  PROVE  /\ req[r].client \in Clients /\ Waiting(req[r].client)
         /\ \A d \in Clients : cli[d].pc # "idle" => d = req[r].client
         /\ \A q \in Requests : req[q].pc # "free" => q = r
<1>1. \A q \in Requests : req[q].pc # "free" =>
        req[q].client \in Clients /\ Waiting(req[q].client) /\ cli[req[q].client].pc # "idle"
  BY DEF Typed, TypeOK, ReqType, Attended, Owned, Belongs, Suits, Waiting
<1>2. \A d \in Clients : cli[d].pc # "idle" => d = req[r].client
  BY <1>1 DEF One
<1>3. \A q \in Requests : req[q].pc # "free" => q = r
  BY <1>1, <1>2, ClientAssumption DEF Owned, Sole
<1> QED
  BY <1>1, <1>2, <1>3

LEMMA Undemanding ==
  ASSUME Typed, Owned, One, Attended, NEW c \in Clients, cli[c].pc # "idle", ~Waiting(c)
  PROVE  /\ \A d \in Clients : d # c => cli[d].pc = "idle"
         /\ \A r \in Requests : req[r].pc = "free"
BY Worker DEF One

LEMMA Idle ==
  ASSUME Typed, Owned, Attended, Busy = {}
  PROVE  /\ \A d \in Clients : cli[d].pc = "idle"
         /\ \A r \in Requests : req[r].pc = "free"
<1>1. \A d \in Clients : cli[d].pc = "idle"
  BY DEF Busy
<1>2. One
  BY <1>1 DEF One
<1> QED
  BY <1>1, <1>2, Worker DEF Waiting

\* With nothing under way that spends it, the file's pair is good.
LEMMA Resting ==
  ASSUME FileGood, \A r \in Requests : req[r].pc = "free", \A d \in Clients : ~Parting(d)
  PROVE  Good(file)
BY DEF FileGood, Parted, Answered

\* A pair is spent by the request of the one invocation, whose copy and file it is.
LEMMA Spender ==
  ASSUME Typed, Owned, Alone, NEW r \in Requests, Revoke(r) \/ Rotate(r)
  PROVE  req[r].arg = file /\ Parted(r)'
<1>1. req[r] \in ReqType /\ req \in [Requests -> ReqType]
  BY DEF Typed, TypeOK
<1>2. req[r].pc # "free" /\ Handle(r)
  BY DEF Revoke, Rotate, At, Handle
<1>3. PICK c \in Clients : req[r].client = c
  BY <1>2, Worker DEF Alone
<1>4. Suits(req[r], cli[c]) /\ c # Nobody
  BY <1>3, ClientAssumption DEF Owned, Belongs
<1>5. UNCHANGED cli
  BY <1>2, HandleKeeps
<1>6. CASE Revoke(r)
  <2>1. /\ cli[c].pc = "asking" /\ cli[c].cmd = "logout" /\ req[r].arg = cli[c].mem
    BY <1>4, <1>6 DEF Revoke, At, Suits
  <2>2. req'[r].client = c /\ req'[r].pc = "reply" /\ req'[r].out = "ok"
    BY <1>1, <1>3, <1>4, <1>6 DEF Revoke, Answer, NoReq
  <2>3. Answered(r, c)'
    BY <1>5, <2>1, <2>2 DEF Answered
  <2> QED
    BY <2>1, <2>3 DEF Parted, Alone, Steady, Reading
<1>7. CASE Rotate(r)
  <2>1. cli[c].pc = "rotating" /\ req[r].arg = cli[c].mem
    BY <1>3, <1>4, <1>7 DEF Rotate, At, Suits, Alone, Attended
  <2>2. req'[r].kind = "refresh" /\ req'[r].pc = "release"
    BY <1>1, <1>7 DEF Rotate, At, ReqType
  <2> QED
    BY <2>1, <2>2 DEF Parted, Alone, Steady, Reading
<1> QED
  BY <1>6, <1>7

LEMMA SpendFlow ==
  ASSUME Typed, [Next]_vars, NEW n \in Pairs, pair[n].refresh = "live", pair'[n].refresh # "live"
  PROVE  \E r \in Requests : (Revoke(r) \/ Rotate(r)) /\ req[r].arg = n
<1>1. pair \in [Pairs -> PairType] /\ pair[n] \in PairType
  BY DEF Typed, TypeOK
<1>2. ASSUME NEW r \in Requests, Revoke(r), req[r].arg # n
      PROVE  FALSE
  BY <1>1, <1>2 DEF Revoke, BothRevoked
<1>3. ASSUME NEW r \in Requests, Rotate(r), req[r].arg # n
      PROVE  FALSE
  <2>1. req[r].arg \in Pairs /\ NextPair \in Pairs
    BY <1>3, FreshPair DEF Rotate, At, Typed, ReqGood
  <2> QED
    BY <1>1, <1>3, <2>1, MintedRows, RevokedRows DEF Rotate
<1>4. ASSUME NEW t \in Tabs, CompleteMint(t)
      PROVE  FALSE
  BY <1>1, <1>4, FreshPair, MintedRows DEF CompleteMint
<1>5. ASSUME NEW m \in Pairs, Age(m)
      PROVE  FALSE
  BY <1>1, <1>5 DEF Age, PairType
<1> QED
  BY <1>2, <1>3, <1>4, <1>5, PairWriters

Still(n) == n = 0 \/ pair'[n].refresh = "live"

LEMMA GoodKept ==
  ASSUME Typed, Owned, Alone, [Next]_vars, NEW n \in 0 .. MaxPairs, Good(n),
         \/ n # file
         \/ ~\E r \in Requests : Revoke(r) \/ Rotate(r)
  PROVE  Still(n)
<1>1. CASE n = 0
  BY <1>1 DEF Still
<1>2. CASE n # 0
  <2>1. n \in Pairs /\ pair[n].refresh = "live"
    BY <1>2, Numbers DEF Good, Live
  <2>2. pair'[n].refresh = "live"
    BY <2>1, SpendFlow, Spender
  <2> QED
    BY <2>2 DEF Still
<1> QED
  BY <1>1, <1>2

\* A new pair is good.
LEMMA MintedGood ==
  ASSUME Typed,
         (\E r \in Requests : Rotate(r)) \/ \E t \in Tabs : CompleteMint(t)
  PROVE  Still(NextPair)
<1>1. ASSUME NEW r \in Requests, Rotate(r)
      PROVE  pair'[NextPair].refresh = "live"
  <2> DEFINE n == req[r].arg
  <2>1. n \in Pairs /\ NextPair \in Pairs
    BY <1>1, FreshPair DEF Rotate, At, Typed, ReqGood
  <2>2. RefreshRevoked(pair, n) \in [Pairs -> PairType]
    BY <2>1, RevokedRows
  <2>3. pair' = MintedFrom(RefreshRevoked(pair, n), NextPair, n)
    BY <1>1 DEF Rotate
  <2> QED
    BY <2>1, <2>2, <2>3, MintedRows
<1>2. ASSUME NEW t \in Tabs, CompleteMint(t)
      PROVE  pair'[NextPair].refresh = "live"
  BY <1>2, FreshPair, MintedRows DEF CompleteMint, Typed, TypeOK
<1> QED
  BY <1>1, <1>2 DEF Still

\* What every step does to the pairs in answers, entries and tabs.
LEMMA GoodsStep ==
  ASSUME Typed, Owned, Apart, Alone, [Next]_vars,
         \A r \in Requests : req'[r].pc = "free" => req'[r].got = 0
  PROVE  Goods'
<1>1. /\ \A r \in Requests : req[r].got \in 0 .. MaxPairs /\ Good(req[r].got)
      /\ \A s \in Sessions : bag[s].pair \in 0 .. MaxPairs /\ Good(bag[s].pair)
      /\ \A t \in Tabs : tab[t].got \in 0 .. MaxPairs /\ Good(tab[t].got)
  BY DEF Typed, TypeOK, ReqType, BagType, TabType, Alone, Goods
<1>2. Still(0)
  BY DEF Still
<1>3. \A s \in Sessions : Still(bag[s].pair)
  <2>1. \A s \in Sessions : bag[s].pair # 0 => bag[s].pair # file
    BY DEF Apart, Held
  <2> QED
    BY <1>1, <1>2, <2>1, GoodKept
<1>4. \A t \in Tabs : Still(tab[t].got)
  <2>1. \A t \in Tabs : tab[t].got # 0 => tab[t].got # file
    BY DEF Apart, Held
  <2> QED
    BY <1>1, <1>2, <2>1, GoodKept
<1>5. ASSUME NEW r \in Requests
      PROVE  Still(req'[r].got)
  <2>1. CASE req'[r].got = 0
    BY <1>2, <2>1
  <2>2. CASE Rotate(r)
    <3>1. req[r] \in ReqType /\ req \in [Requests -> ReqType]
      BY DEF Typed, TypeOK
    <3>2. req'[r].got = NextPair
      BY <2>2, <3>1 DEF Rotate, ReqType
    <3> QED
      BY <2>2, <3>2, MintedGood
  <2>3. CASE req'[r].got = req[r].got /\ req'[r].got # 0 /\ ~Rotate(r)
    <3>1. ~Revoke(r)
      <4>1. req \in [Requests -> ReqType]
        BY DEF Typed, TypeOK
      <4>2. Answer(r, "ok", 0) => req'[r].got = 0
        BY <4>1 DEF Answer, NoReq
      <4> QED
        BY <2>3, <4>2 DEF Revoke
    <3>2. ASSUME NEW q \in Requests, Revoke(q) \/ Rotate(q)
          PROVE  FALSE
      <4>1. req[r].pc # "free" /\ req[q].pc # "free"
        BY <2>3, <3>2 DEF Alone, Goods, Revoke, Rotate, At
      <4>2. q = r
        BY <4>1, Worker DEF Alone
      <4> QED
        BY <2>3, <3>1, <3>2, <4>2
    <3> QED
      BY <1>1, <3>2, <2>3, GoodKept
  <2>4. CASE \E s \in Sessions : req'[r].got = bag[s].pair
    BY <1>3, <2>4
  <2> QED
    BY <2>1, <2>2, <2>3, <2>4, GotSource
<1>6. \A s \in Sessions : Still(bag'[s].pair)
  BY <1>2, <1>3, <1>4, BagFlow
<1>7. \A t \in Tabs : Still(tab'[t].got)
  BY <1>2, <1>4, TabFlow, MintedGood
<1> QED
  BY <1>5, <1>6, <1>7 DEF Goods, Good, Live, Still

LEMMA HandleClient ==
  ASSUME Typed, NEW r \in Requests, Handle(r), req[r].client # Nobody
  PROVE  /\ req'[r].client = req[r].client /\ req'[r].pc # "free"
         /\ req'[r].out = "conflict" => req'[r].pc = "reply" \/ req[r].out = "conflict"
<1>1. req[r] \in ReqType /\ req \in [Requests -> ReqType]
  BY DEF Typed, TypeOK
<1>2. ASSUME NEW out, NEW got, Answer(r, out, got)
      PROVE  req'[r].client = req[r].client /\ req'[r].pc = "reply"
  BY <1>1, <1>2 DEF Answer, NoReq
<1>3. CASE Serve(r) \/ Revoke(r) \/ Unlock(r) \/ PollDelete(r)
  BY <1>2, <1>3 DEF Serve, Revoke, Unlock, PollDelete, Reply
<1>4. CASE RevokeBegin(r) \/ RefreshBegin(r) \/ Release(r)
  BY <1>2, <1>4, StepShape DEF RevokeBegin, RefreshBegin, Release, Reply
<1>5. CASE RefreshRead(r)
  BY <1>1, <1>5, StepShape DEF RefreshRead, ReqType
<1>6. CASE Rotate(r)
  BY <1>1, <1>6 DEF Rotate, ReqType
<1>7. CASE PollBegin(r)
  BY <1>1, <1>2, <1>7 DEF PollBegin, ReqType
<1> QED
  BY <1>3, <1>4, <1>5, <1>6, <1>7 DEF Handle

\* The end of a refresh leaves its client the answer it has.
LEMMA PartedStays ==
  ASSUME Typed, Owned, Attended, NEW r \in Requests, Handle(r), Parted(r)
  PROVE  Parted(r)'
<1>1. req[r] \in ReqType /\ req \in [Requests -> ReqType] /\ UNCHANGED cli
  BY HandleKeeps DEF Typed, TypeOK
<1>2. req[r].kind = "refresh" /\ req[r].pc \in {"release", "unlock"}
  BY HandleServes DEF Parted, Answered
<1>3. PICK c \in Clients : req[r].client = c /\ c # Nobody
  BY <1>1, <1>2, ClientAssumption DEF Attended, ReqType
<1>4. cli[c].pc = "rotating" /\ req[r].out # "conflict"
  BY <1>2, <1>3 DEF Owned, Belongs, Suits, Attended
<1>5. CASE Step(r, "unlock")
  BY <1>2, <1>5, StepShape DEF Parted
<1>6. CASE Reply(r)
  <2>1. req'[r].client = c /\ req'[r].pc = "reply" /\ req'[r].out = req[r].out
    BY <1>1, <1>3, <1>6 DEF Reply, Answer, NoReq
  <2>2. Answered(r, c)'
    BY <1>1, <1>4, <2>1 DEF Answered
  <2> QED
    BY <2>2 DEF Parted
<1> QED
  BY <1>2, <1>5, <1>6
     DEF Handle, Serve, RevokeBegin, Revoke, RefreshBegin, RefreshRead, Rotate, Release, Unlock,
         PollBegin, PollDelete, At

LEMMA AloneHandle ==
  ASSUME Typed, Owned, Apart, Alone, [Next]_vars, NEW r \in Requests, Handle(r)
  PROVE  Alone'
<1>1. UNCHANGED <<file, cli, tab>> /\ \A q \in Requests : q # r => req'[q] = req[q]
  BY HandleKeeps, HandleShape
<1>2. /\ req[r].pc \notin {"free", "reply"}
      /\ req[r].client \in Clients /\ Waiting(req[r].client)
      /\ \A d \in Clients : cli[d].pc # "idle" => d = req[r].client
      /\ \A q \in Requests : req[q].pc # "free" => q = r
  BY HandleServes, Worker DEF Alone
<1>3. req[r].client # Nobody
  BY <1>2, ClientAssumption
<1>4. /\ req'[r].client = req[r].client /\ req'[r].pc # "free"
      /\ req'[r].out = "conflict" => req'[r].pc = "reply"
  BY <1>2, <1>3, HandleClient DEF Alone, Attended
<1>5. One'
  BY <1>1 DEF Alone, One
<1>6. Attended'
  <2>1. ASSUME NEW c \in Clients, req'[r].client = c, req'[r].kind = "refresh"
        PROVE  req'[r].arg = cli'[c].mem
    BY <1>1, <2>1, HandleArg DEF Alone, Attended
  <2>2. ASSUME NEW q \in Requests
        PROVE  /\ req'[q].pc # "free" => req'[q].client # Nobody
               /\ \A c \in Clients :
                    req'[q].client = c /\ req'[q].kind = "refresh" => req'[q].arg = cli'[c].mem
               /\ req'[q].out = "conflict" => req'[q].pc = "reply"
    BY <1>1, <1>3, <1>4, <2>1 DEF Alone, Attended
  <2> QED
    BY <2>2 DEF Attended
<1>7. Steady'
  BY <1>1, <1>2 DEF Alone, Steady, Waiting, Live
<1>8. Goods'
  BY <1>1, <1>4, GoodsStep DEF Alone, Goods
<1>9. FileGood'
  <2>1. CASE \E c \in Clients : Parting(c)
    BY <1>1, <2>1 DEF Parting, FileGood
  <2>2. CASE \E q \in Requests : Parted(q)
    <3>1. Parted(r)
      BY <1>2, <2>2 DEF Parted, Answered
    <3> QED
      BY <3>1, PartedStays DEF FileGood, Alone
  <2>3. CASE Good(file) /\ ~\E q \in Requests : Revoke(q) \/ Rotate(q)
    <3>1. Still(file)
      BY <2>3, GoodKept DEF Typed, TypeOK
    <3> QED
      BY <1>1, <3>1 DEF FileGood, Good, Live, Still
  <2>4. CASE \E q \in Requests : Revoke(q) \/ Rotate(q)
    BY <2>4, Spender DEF FileGood
  <2> QED
    BY <2>1, <2>2, <2>3, <2>4 DEF Alone, FileGood
<1> QED
  BY <1>5, <1>6, <1>7, <1>8, <1>9 DEF Alone

\* The invocation that waited has its answer.
LEMMA Answering ==
  ASSUME Typed, Owned, Alone, NEW c \in Clients, Hearing(c)
  PROVE  /\ \A r \in Requests : req'[r].pc = "free" /\ req'[r].got = 0
         /\ \A r \in Requests : /\ req'[r].client = Nobody
                                /\ req'[r].out = "conflict" => req'[r].pc = "reply"
         /\ \A d \in Clients : d # c => cli[d].pc = "idle" /\ cli'[d] = cli[d]
         /\ Waiting(c) /\ c # Nobody
<1>1. PICK r \in Requests : /\ req[r].client = c /\ req[r].pc = "reply"
                            /\ req' = [req EXCEPT ![r] = NoReq]
  BY HearingShape
<1>2. /\ Waiting(c)
      /\ \A d \in Clients : cli[d].pc # "idle" => d = c
      /\ \A q \in Requests : req[q].pc # "free" => q = r
  BY <1>1, Worker DEF Alone
<1>3. req'[r] = NoReq /\ \A q \in Requests : q # r => req'[q] = req[q]
  BY <1>1 DEF Typed
<1>4. \A q \in Requests : q # r => req[q].pc = "free" /\ req[q].got = 0 /\ req[q].client = Nobody
  BY <1>2 DEF Alone, Goods, Owned, Belongs
<1>5. NoReq.pc = "free" /\ NoReq.got = 0 /\ NoReq.client = Nobody /\ NoReq.out # "conflict"
  BY DEF NoReq
<1> QED
  BY <1>2, <1>3, <1>4, <1>5, HearingShape, ClientAssumption DEF Others, Alone, Attended

\* What the answer makes of the invocation.
LEMMA HearingSteady ==
  ASSUME Typed, Owned, Alone, NEW c \in Clients, Hearing(c)
  PROVE  /\ cli'[c].pc \in Reading => cli'[c].mem = file
         /\ cli'[c].pc # "nudging"
         /\ cli'[c].pc \in {"saving", "signing"} => Live(cli'[c].mem)
         /\ cli'[c].pc = "wiping" => cli'[c].mem = 0
<1> DEFINE i == cli[c]
<1>1. i \in CliType /\ cli \in [Clients -> CliType]
  BY DEF Typed, TypeOK
<1>2. i.pc \in Reading => i.mem = file
  BY DEF Alone, Steady
<1>3. Failed(c).pc \in {"idle", "clearing"}
  BY <1>1 DEF Failed, NoCli, CliType
<1>4. \A out : \A n \in Pairs : Hears(c, out, n) => Live(n)
  <2>1. \A n \in Pairs : n # 0
    BY Numbers
  <2> QED
    BY <2>1 DEF Hears, Alone, Goods, Good
<1>5. NoCli.pc = "idle"
  BY DEF NoCli
<1>6. CASE Succeeds(c)
  BY <1>1, <1>2, <1>5, <1>6 DEF Succeeds, To, Reading, CliType
<1>7. CASE Refused(c)
  <2>1. cli'[c] = Failed(c) \/ cli'[c] = [i EXCEPT !.pc = "retry", !.retried = TRUE]
    BY <1>1, <1>7 DEF Refused
  <2> QED
    BY <1>1, <1>2, <1>3, <1>7, <2>1 DEF Refused, Reading, CliType
<1>8. CASE Rotated(c)
  <2>1. PICK n \in Pairs : Hears(c, "ok", n) /\ cli' = [cli EXCEPT ![c].pc = "saving", ![c].mem = n]
    BY <1>8 DEF Rotated
  <2>2. cli'[c].mem = n /\ cli'[c].pc = "saving"
    BY <1>1, <2>1 DEF CliType
  <2> QED
    BY <1>4, <2>1, <2>2 DEF Reading
<1>9. CASE Rejected(c)
  BY <1>1, <1>9 DEF Rejected, Reading, CliType
<1>10. CASE Conflicts(c)
  BY <1>1, <1>3, <1>10 DEF Conflicts, Reading
<1>11. CASE StillPending(c) \/ SessionGone(c)
  BY <1>1, <1>5, <1>11 DEF StillPending, SessionGone, To, Reading, CliType
<1>12. CASE Approved(c)
  <2>1. PICK n \in Pairs :
          /\ Hears(c, "ok", n)
          /\ cli' = [cli EXCEPT ![c] = [NoCli EXCEPT !.cmd = "login", !.pc = "signing", !.mem = n]]
    BY <1>12 DEF Approved
  <2>2. cli'[c].mem = n /\ cli'[c].pc = "signing"
    BY <1>1, <2>1 DEF NoCli
  <2> QED
    BY <1>4, <2>1, <2>2 DEF Reading
<1> QED
  BY <1>6, <1>7, <1>8, <1>9, <1>10, <1>11, <1>12 DEF Hearing

\* The invocation whose answer says that the pair was spent goes on to write.
LEMMA AnsweredParts ==
  ASSUME Typed, Owned, NEW c \in Clients, Hearing(c), NEW r \in Requests, Answered(r, c)
  PROVE  Parting(c)'
<1> DEFINE i == cli[c]
<1>1. i \in CliType /\ cli \in [Clients -> CliType]
  BY DEF Typed, TypeOK
<1>2. \A out, got : Hears(c, out, got) => req[r].out = out
  BY ClientAssumption DEF Hears, Answered, Owned, Sole
<1>3. CASE Succeeds(c)
  BY <1>1, <1>3 DEF Succeeds, Answered, Parting, CliType
<1>4. CASE Refused(c)
  BY <1>2, <1>4 DEF Refused, Answered
<1>5. CASE Rotated(c) \/ Rejected(c)
  BY <1>1, <1>5 DEF Rotated, Rejected, Parting, CliType
<1>6. CASE Conflicts(c)
  BY <1>2, <1>6 DEF Conflicts, Answered
<1>7. CASE StillPending(c) \/ SessionGone(c) \/ Approved(c)
  BY <1>7 DEF StillPending, SessionGone, Approved, Answered
<1> QED
  BY <1>3, <1>4, <1>5, <1>6, <1>7 DEF Hearing

LEMMA AloneHearing ==
  ASSUME Typed, Owned, Apart, Alone, [Next]_vars, NEW c \in Clients, Hearing(c)
  PROVE  Alone'
<1>1. UNCHANGED <<pair, bag, file, tab>>
  BY HearingKeeps
<1>2. /\ \A r \in Requests : /\ req'[r].pc = "free" /\ req'[r].got = 0
                             /\ req'[r].client = Nobody
                             /\ req'[r].out = "conflict" => req'[r].pc = "reply"
      /\ \A d \in Clients : d # c => cli[d].pc = "idle" /\ cli'[d] = cli[d]
      /\ Waiting(c)
  BY Answering
<1>3. One'
  BY <1>2 DEF One
<1>4. Attended'
  BY <1>2, ClientAssumption DEF Attended
<1>5. Steady'
  BY <1>1, <1>2, HearingSteady DEF Steady, Reading, Live
<1>6. Goods'
  BY <1>2, GoodsStep
<1>7. FileGood'
  <2>1. CASE Good(file)
    BY <1>1, <2>1 DEF FileGood, Good, Live
  <2>2. ~\E d \in Clients : Parting(d)
    BY <1>2 DEF Parting, Waiting
  <2>3. ASSUME NEW r \in Requests, Parted(r)
        PROVE  Answered(r, c)
    <3>1. PICK q \in Requests : req[q].client = c /\ req[q].pc = "reply"
      BY HearingShape
    <3>2. q = r
      BY <2>3, <3>1, Worker DEF Alone, Parted, Answered
    <3> QED
      BY <2>3, <3>1, <3>2 DEF Parted, Answered
  <2>4. CASE \E r \in Requests : Parted(r)
    BY <2>3, <2>4, AnsweredParts DEF FileGood
  <2> QED
    BY <2>1, <2>2, <2>4 DEF Alone, FileGood
<1> QED
  BY <1>3, <1>4, <1>5, <1>6, <1>7 DEF Alone

LEMMA AloneSending ==
  ASSUME Typed, Owned, Apart, Alone, [Next]_vars, NEW c \in Clients, Sending(c)
  PROVE  Alone'
<1> DEFINE i == cli[c]
<1>1. i \in CliType /\ cli \in [Clients -> CliType]
  BY DEF Typed, TypeOK
<1>2. UNCHANGED <<pair, bag, file, tab>>
  BY SendingKeeps
<1>3. i.pc # "idle" /\ ~Waiting(c) /\ ~Parting(c) /\ c # Nobody
  BY ClientAssumption DEF Sending, SendRefresh, Issue, Poll, Waiting, Parting
<1>4. /\ \A d \in Clients : d # c => cli[d].pc = "idle" /\ cli'[d] = cli[d]
      /\ \A r \in Requests : req[r].pc = "free" /\ req[r].client = Nobody /\ req[r].got = 0
  BY <1>3, Undemanding, SendingShape DEF Others, Alone, Owned, Belongs, Goods
<1>5. /\ cli'[c].mem = i.mem
      /\ cli'[c].pc \in {"asking", "rotating", "awaiting"}
      /\ cli'[c].pc \in Reading => i.pc \in Reading
  BY <1>1 DEF Sending, SendRefresh, Issue, Poll, To, Reading, CliType
<1>6. PICK r \in Requests :
        /\ \A q \in Requests : q # r => req'[q] = req[q]
        /\ req'[r].pc = "begin" /\ req'[r].client = c
        /\ req'[r].got = 0 /\ req'[r].out = "none"
        /\ req'[r].kind = "refresh" => req'[r].arg = cli[c].mem
  BY SendingShape
<1>7. One'
  BY <1>4 DEF One
<1>8. Attended'
  <2>1. ASSUME NEW q \in Requests
        PROVE  /\ req'[q].pc # "free" => req'[q].client # Nobody
               /\ \A d \in Clients :
                    req'[q].client = d /\ req'[q].kind = "refresh" => req'[q].arg = cli'[d].mem
               /\ req'[q].out = "conflict" => req'[q].pc = "reply"
    BY <1>3, <1>4, <1>5, <1>6, ClientAssumption DEF Alone, Attended
  <2> QED
    BY <2>1 DEF Attended
<1>9. Steady'
  BY <1>2, <1>4, <1>5 DEF Alone, Steady, Reading, Live
<1>10. Goods'
  BY <1>4, <1>6, GoodsStep
<1>11. FileGood'
  <2>1. Good(file)
    BY <1>3, <1>4, Resting DEF Alone, Parting
  <2> QED
    BY <1>2, <2>1 DEF FileGood, Good, Live
<1> QED
  BY <1>7, <1>8, <1>9, <1>10, <1>11 DEF Alone

LEMMA AttendedKept ==
  ASSUME Attended, UNCHANGED req, \A r \in Requests : req[r].pc = "free",
         Owned
  PROVE  Attended'
<1>1. \A r \in Requests : req[r].client = Nobody
  BY DEF Owned, Belongs
<1> QED
  BY <1>1, ClientAssumption DEF Attended

LEMMA AloneWriting ==
  ASSUME Typed, Owned, Apart, Alone, [Next]_vars, NEW c \in Clients, Writing(c)
  PROVE  Alone'
<1> DEFINE i == cli[c]
<1>1. i \in CliType /\ cli \in [Clients -> CliType]
  BY DEF Typed, TypeOK
<1>2. UNCHANGED <<pair, bag, req, tab>>
  BY WritingKeeps
<1>3. i.pc # "idle" /\ ~Waiting(c)
  BY DEF Writing, Save, Wipe, SignIn, Mark, Clear, NudgeWrite, Waiting
<1>4. /\ \A d \in Clients : d # c => cli[d].pc = "idle" /\ cli'[d] = cli[d]
      /\ \A r \in Requests : req[r].pc = "free"
  BY <1>3, Undemanding, QuietShape DEF Others, Alone
<1>5. ~Parting(c) => Good(file)
  BY <1>4, Resting DEF Alone, Parting
<1>6. Failed(c).pc \in {"idle", "clearing"} /\ NoCli.pc = "idle"
  BY <1>1 DEF Failed, NoCli, CliType
<1>7. /\ cli'[c].pc \in Reading => cli'[c].mem = file'
      /\ cli'[c].pc \notin {"nudging", "saving", "signing", "wiping"}
      /\ Good(file')
  <2>1. CASE Save(c)
    BY <1>1, <2>1 DEF Save, Saved, To, CliType, Alone, Steady, Reading, Good
  <2>2. CASE Wipe(c)
    BY <1>1, <1>6, <2>2 DEF Wipe, Alone, Steady, Reading, Good
  <2>3. CASE SignIn(c)
    <3>1. file' = i.mem /\ Live(i.mem)
      BY <2>3 DEF SignIn, Alone, Steady
    <3>2. cli'[c] = NoCli \/ cli'[c] = [i EXCEPT !.pc = "ensure"]
      BY <1>1, <2>3 DEF SignIn
    <3> QED
      BY <1>1, <1>6, <3>1, <3>2 DEF Reading, Good, CliType
  <2>4. CASE Mark(c)
    BY <1>1, <1>5, <1>6, <2>4 DEF Mark, Parting, Alone, Steady, Reading
  <2>5. CASE Clear(c)
    BY <1>1, <1>6, <2>5 DEF Clear, Reading, Good
  <2>6. CASE NudgeWrite(c)
    BY <1>1, <1>5, <1>6, <2>6 DEF NudgeWrite, Parting, Alone, Steady, Reading
  <2> QED
    BY <2>1, <2>2, <2>3, <2>4, <2>5, <2>6 DEF Writing
<1>8. One'
  BY <1>4 DEF One
<1>9. Attended'
  BY <1>2, <1>4, AttendedKept DEF Alone
<1>10. Steady'
  BY <1>4, <1>7 DEF Steady, Reading
<1>11. Goods'
  BY <1>2, GoodsStep DEF Alone, Goods
<1>12. FileGood'
  BY <1>2, <1>7 DEF FileGood, Good, Live
<1> QED
  BY <1>8, <1>9, <1>10, <1>11, <1>12 DEF Alone

\* A login creates its session; an invocation begins after the others.
LEMMA AloneQuiet ==
  ASSUME Typed, Owned, Apart, Alone, [Next]_vars, NEW c \in Clients,
         \/ Create(c)
         \/ /\ Busy = {}
            /\ NudgeRead(c) \/ \E cmd \in {"call", "login", "logout"} : Start(c, cmd)
  PROVE  Alone'
<1>1. cli \in [Clients -> CliType]
  BY DEF Typed, TypeOK
<1>2. UNCHANGED <<pair, file, req, tab>>
  BY TroubleKeeps
<1>3. /\ \A d \in Clients : d # c => cli[d].pc = "idle" /\ cli'[d] = cli[d]
      /\ \A r \in Requests : req[r].pc = "free"
      /\ ~Parting(c)
  <2>1. CASE Create(c)
    <3>1. cli[c].pc = "create"
      BY <2>1 DEF Create
    <3> QED
      BY <2>1, <3>1, Undemanding, QuietShape DEF Others, Alone, Waiting, Parting
  <2>2. CASE /\ Busy = {}
             /\ NudgeRead(c) \/ \E cmd \in {"call", "login", "logout"} : Start(c, cmd)
    BY <2>2, Idle, QuietShape DEF Others, Alone, Parting
  <2> QED
    BY <2>1, <2>2
<1>4. Good(file)
  BY <1>3, Resting DEF Alone, Parting
<1>5. /\ cli'[c].pc \in {"create", "ensure", "polling", "nudging"}
      /\ cli'[c].pc = "ensure" => cli'[c].mem = file
      /\ cli'[c].pc = "nudging" => cli'[c].snap = file
  <2>1. CASE Create(c)
    BY <1>1, <2>1 DEF Create, CliType
  <2>2. CASE NudgeRead(c)
    BY <1>1, <2>2 DEF NudgeRead, NoCli
  <2>3. ASSUME NEW cmd \in {"call", "login", "logout"}, Start(c, cmd)
        PROVE  cli'[c].pc \in {"create", "ensure"} /\ cli'[c].mem = file
    BY <1>1, <2>3 DEF Start, NoCli
  <2> QED
    BY <2>1, <2>2, <2>3
<1>6. One'
  BY <1>3 DEF One
<1>7. Attended'
  BY <1>2, <1>3, AttendedKept DEF Alone
<1>8. Steady'
  BY <1>2, <1>3, <1>5 DEF Steady, Reading
<1>9. Goods'
  BY <1>2, GoodsStep DEF Alone, Goods
<1>10. FileGood'
  BY <1>2, <1>4 DEF FileGood, Good, Live
<1> QED
  BY <1>6, <1>7, <1>8, <1>9, <1>10 DEF Alone

\* The browser, the clocks and the locks.
LEMMA AloneOutside ==
  ASSUME Typed, Owned, Apart, Alone, [Next]_vars, UNCHANGED <<cli, req, file>>,
         ~\E r \in Requests : Revoke(r) \/ Rotate(r)
  PROVE  Alone'
<1>1. \A n \in 0 .. MaxPairs : Good(n) => Still(n)
  BY GoodKept
<1>2. One' /\ Attended'
  BY DEF Alone, One, Attended
<1>3. Steady'
  <2>1. \A c \in Clients : cli[c].mem \in 0 .. MaxPairs
    BY DEF Typed, TypeOK, CliType
  <2> QED
    BY <1>1, <2>1 DEF Alone, Steady, Good, Live, Still
<1>4. Goods'
  BY GoodsStep DEF Alone, Goods
<1>5. FileGood'
  <2>1. file \in 0 .. MaxPairs
    BY DEF Typed, TypeOK
  <2> QED
    BY <1>1, <2>1 DEF Alone, FileGood, Parted, Answered, Parting, Good, Live, Still
<1> QED
  BY <1>2, <1>3, <1>4, <1>5 DEF Alone

LEMMA AloneStep == Typed /\ Owned /\ Apart /\ AloneInv /\ [Next]_vars => AloneInv'
<1> SUFFICES ASSUME Typed, Owned, Apart, AloneInv, [Next]_vars, Calm' PROVE Alone'
  BY DEF AloneInv
<1>1. Alone
  BY CalmStep DEF AloneInv
<1> QED
  BY <1>1, CalmStep, AloneHandle, AloneHearing, AloneSending, AloneWriting, AloneQuiet,
     AloneOutside

LEMMA AloneStart == Init => AloneInv
<1> SUFFICES ASSUME Init PROVE Alone
  BY DEF AloneInv
<1>1. One /\ Attended
  BY DEF Init, One, Attended, NoCli, NoReq
<1>2. Steady
  BY DEF Init, Steady, NoCli, Reading
<1>3. Goods
  BY DEF Init, Goods, Good, NoReq, NoTab, Absent
<1>4. FileGood
  <2>1. [NoPair EXCEPT !.access = "live", !.refresh = "live"].refresh = "live"
    BY DEF NoPair
  <2>2. 1 \in Pairs
    BY SessionBoundsAssumption DEF Pairs
  <2> QED
    BY <2>1, <2>2 DEF Init, FileGood, Good, Live
<1> QED
  BY <1>1, <1>2, <1>3, <1>4 DEF Alone

\* While invocations follow one another and nothing fails, whoever signed in stays
\* signed in (http.py, config.py): the pair that lies in the file between two
\* invocations is good, however many of them rotate, log in and out or nudge, and
\* whatever the browser, the clocks and the locks' TTLs do meanwhile.
THEOREM NothingLost == Spec => []AloneStaysSignedIn
<1> DEFINE Inv == Sound /\ Exchange /\ Apart /\ AloneInv
<1>1. Init => Apart /\ AloneInv
  BY ApartStart, AloneStart
<1>2. Sound /\ Exchange /\ Apart /\ AloneInv /\ [Next]_vars => Apart' /\ AloneInv'
  BY ApartStep, AloneStep DEF Sound, Exchange
<1>3. Inv => AloneStaysSignedIn
  <2> SUFFICES ASSUME Inv, Calm, Busy = {}, file # 0
               PROVE  Live(file)
    BY DEF AloneStaysSignedIn, Calm
  <2>1. Alone
    BY DEF AloneInv
  <2>2. /\ \A d \in Clients : cli[d].pc = "idle"
        /\ \A r \in Requests : req[r].pc = "free"
    BY <2>1, Idle DEF Alone, Sound
  <2>3. Good(file)
    BY <2>1, <2>2, Resting DEF Alone, Parting
  <2> QED
    BY <2>3 DEF Good
<1> QED
  BY <1>1, <1>2, <1>3, SoundAlways, ExchangeAlways, PTL DEF Spec
=============================================================================
