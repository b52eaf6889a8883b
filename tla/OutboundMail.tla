---------------------------- MODULE OutboundMail ----------------------------
(***************************************************************************)
(* The queue of transactional mail (mailer/services/mailer.py) and its     *)
(* drain, `manage.py send_outbound_emails`: reap what a crashed worker     *)
(* left SENDING, claim each due row, render and send it, then mark it SENT *)
(* or put it back.  Passes run under JobLease.                             *)
(*                                                                         *)
(* A claim's start time is its pass's start, and is either young or older  *)
(* than EMAIL_SEND_STALE_SECONDS; a retry is due at once or later.         *)
(***************************************************************************)
EXTENDS JobLease

CONSTANTS
  Mails,        \* idempotency keys callers enqueue under
  MaxAttempts   \* EMAIL_SEND_MAX_ATTEMPTS

ASSUME AttemptsAssumption == MaxAttempts \in Nat \ {0}

VARIABLES
  mail,       \* mail[m]: the OutboundEmail row
  pass,       \* pass[p]: locals of the command's handle()
  delivered,  \* history: how often the mail server accepted the mail
  unsure,     \* history: ... in a send that then raised
  taken       \* history: how often a reap took the row from a pass that was at it

history  == <<delivered, unsure, taken>>
mailVars == <<mail, pass, history>>
vars     == <<leaseVars, mailVars>>

MailType == [state : {"absent", "pending", "sending", "sent", "failed"},
             attempts : 0 .. MaxAttempts, old : BOOLEAN, later : BOOLEAN]
NoMail   == [state |-> "absent", attempts |-> 0, old |-> FALSE, later |-> FALSE]

PassType == [pc : {"reap", "next", "refresh", "send", "sent", "failed"}, old : BOOLEAN,
             todo : SUBSET Mails, at : SUBSET Mails, stamp : 0 .. MaxAttempts]
NewPass  == [pc |-> "reap", old |-> FALSE, todo |-> {}, at |-> {}, stamp |-> 0]

Init ==
  /\ LeaseInit
  /\ mail = [m \in Mails |-> NoMail]
  /\ pass = [p \in Procs |-> NewPass]
  /\ delivered = [m \in Mails |-> 0]
  /\ unsure = [m \in Mails |-> 0]
  /\ taken = [m \in Mails |-> 0]

-----------------------------------------------------------------------------
\* MailerService.enqueue: get_or_create by the idempotency key.
Enqueue(m) ==
  /\ mail[m] = NoMail
  /\ mail' = [mail EXCEPT ![m].state = "pending"]
  /\ UNCHANGED <<leaseVars, pass, history>>

\* Mutant: a row at the cap goes back to PENDING with the others.
NeverAtCap(n) == FALSE

AtCap(n) == n >= MaxAttempts

\* Mutant: an orphan of the last attempt is put back too.
AlwaysRetried(n) == "pending"

Orphaned(n) == IF AtCap(n) THEN "failed" ELSE "pending"

\* reap_stale.
Stale(r) == r.state = "sending" /\ r.old

Reaped(r) ==
  IF Stale(r)
  THEN [r EXCEPT !.state = Orphaned(r.attempts), !.old = FALSE]
  ELSE r

\* iter_due.
Due(r) == r.state = "pending" /\ ~r.later /\ ~AtCap(r.attempts)

\* SENDING at this claim's attempts.
HoldsClaim(p, m) == mail[m].state = "sending" /\ mail[m].attempts = pass[p].stamp

\* A live pass holds the claim, or has yet to read which claim it holds.
Attended(m) ==
  \E p \in Procs : m \in pass[p].at /\ (pass[p].pc = "refresh" \/ HoldsClaim(p, m))

\* handle() reaps and opens the cursor over what is due.
StartPass(p) ==
  /\ Working(p)
  /\ pass[p].pc = "reap"
  /\ mail' = [m \in Mails |-> Reaped(mail[m])]
  /\ pass' = [pass EXCEPT ![p].pc = "next", ![p].todo = {m \in Mails : Due(Reaped(mail[m]))}]
  /\ taken' = [m \in Mails |-> IF Stale(mail[m]) /\ Attended(m) THEN taken[m] + 1 ELSE taken[m]]
  /\ UNCHANGED <<leaseVars, delivered, unsure>>

\* Mutant: the UPDATE does not ask whether the row is still PENDING.
ClaimsAnyway(m) == ~AtCap(mail[m].attempts)

\* claim_due's condition.
Claimable(m) == mail[m].state = "pending" /\ ~AtCap(mail[m].attempts)

\* claim_due's CAS; refresh_from_db comes after it.
Claim(p, m) ==
  /\ Working(p)
  /\ pass[p].pc = "next"
  /\ m \in pass[p].todo
  /\ Claimable(m)
  /\ mail' = [mail EXCEPT ![m] = [state |-> "sending", attempts |-> mail[m].attempts + 1,
                                  old |-> pass[p].old, later |-> FALSE]]
  /\ pass' = [pass EXCEPT ![p].pc = "refresh", ![p].at = {m}, ![p].todo = @ \ {m}]
  /\ UNCHANGED <<leaseVars, history>>

Skip(p, m) ==
  /\ Working(p)
  /\ pass[p].pc = "next"
  /\ m \in pass[p].todo
  /\ ~Claimable(m)
  /\ pass' = [pass EXCEPT ![p].todo = @ \ {m}]
  /\ UNCHANGED <<leaseVars, mail, history>>

Refresh(p, m) ==
  /\ Working(p)
  /\ pass[p].pc = "refresh" /\ m \in pass[p].at
  /\ pass' = [pass EXCEPT ![p].pc = "send", ![p].stamp = mail[m].attempts]
  /\ UNCHANGED <<leaseVars, mail, history>>

\* Mutant: the row is marked although the mail did not go out.
MarksAnyway(ok) == "sent"

\* Only an error of the send itself leads to fail().
AfterSend(ok) == IF ok THEN "sent" ELSE "failed"

\* EmailService.send_template returns (ok) once the server has accepted the mail;
\* it raises before that (the rendering, a refusal), or after it: the server's
\* reply is lost, EMAIL_TIMEOUT ends the wait for it, or closing the connection
\* fails.
Send(p, m, accepted, ok) ==
  /\ Working(p)
  /\ pass[p].pc = "send" /\ m \in pass[p].at
  /\ ok => accepted
  /\ delivered' = IF accepted THEN [delivered EXCEPT ![m] = @ + 1] ELSE delivered
  /\ unsure' = IF accepted /\ ~ok THEN [unsure EXCEPT ![m] = @ + 1] ELSE unsure
  /\ pass' = [pass EXCEPT ![p].pc = AfterSend(ok)]
  /\ UNCHANGED <<leaseVars, mail, taken>>

NextMail(p) == pass' = [pass EXCEPT ![p].pc = "next", ![p].at = {}, ![p].stamp = 0]

\* complete_sent.
CompleteSent(p, m) ==
  /\ Working(p)
  /\ pass[p].pc = "sent" /\ m \in pass[p].at
  /\ mail' = IF HoldsClaim(p, m)
             THEN [mail EXCEPT ![m].state = "sent", ![m].old = FALSE] ELSE mail
  /\ NextMail(p)
  /\ UNCHANGED <<leaseVars, history>>

\* complete_sent raises: the row stays SENDING for the reaper, the pass goes on.
CompleteRaises(p) ==
  /\ Working(p)
  /\ pass[p].pc = "sent"
  /\ Fault
  /\ NextMail(p)
  /\ UNCHANGED <<key, proc, renewer, slips, mail, history>>

\* fail: back to PENDING with a backoff, or FAILED at the cap.
FailMail(p, m) ==
  /\ Working(p)
  /\ pass[p].pc = "failed" /\ m \in pass[p].at
  /\ mail' = IF ~HoldsClaim(p, m) THEN mail
             ELSE IF AtCap(pass[p].stamp) THEN [mail EXCEPT ![m].state = "failed", ![m].old = FALSE]
             ELSE [mail EXCEPT ![m] = [@ EXCEPT !.state = "pending", !.old = FALSE, !.later = TRUE]]
  /\ NextMail(p)
  /\ UNCHANGED <<leaseVars, history>>

\* The cursor is exhausted.
EndPass(p) ==
  /\ Working(p)
  /\ pass[p].pc = "next" /\ pass[p].todo = {}
  /\ EndWork(p)
  /\ pass' = [pass EXCEPT ![p] = NewPass]
  /\ UNCHANGED <<key, renewer, faults, slips, mail, history>>

\* SIGTERM becomes SystemExit, or a statement outside the loop's handlers
\* raises: handle() unwinds wherever it is.
Abort(p) ==
  /\ Working(p)
  /\ Fault
  /\ EndWork(p)
  /\ pass' = [pass EXCEPT ![p] = NewPass]
  /\ UNCHANGED <<key, renewer, slips, mail, history>>

KillPass(p) ==
  /\ Kill(p)
  /\ pass' = [pass EXCEPT ![p] = NewPass]
  /\ UNCHANGED <<mail, history>>

-----------------------------------------------------------------------------
\* EMAIL_SEND_STALE_SECONDS go by: every start so far is past the cutoff.
Age ==
  /\ mail' = [m \in Mails |-> [mail[m] EXCEPT !.old = mail[m].state = "sending"]]
  /\ pass' = [p \in Procs |-> [pass[p] EXCEPT !.old = Working(p) /\ pass[p].pc # "reap"]]
  /\ UNCHANGED <<leaseVars, history>>

\* EMAIL_SEND_RETRY_SECONDS go by.
Backoff(m) ==
  /\ mail[m].later
  /\ mail' = [mail EXCEPT ![m].later = FALSE]
  /\ UNCHANGED <<leaseVars, pass, history>>

-----------------------------------------------------------------------------
Work(p) ==
  \/ StartPass(p)
  \/ \E m \in Mails : Claim(p, m) \/ Skip(p, m) \/ Refresh(p, m)
  \/ \E m \in Mails, accepted, ok \in BOOLEAN : Send(p, m, accepted, ok)
  \/ \E m \in Mails : CompleteSent(p, m) \/ FailMail(p, m)
  \/ EndPass(p)

Run(p) == Work(p) \/ (Unwind(p) /\ UNCHANGED mailVars)

Next ==
  \/ \E m \in Mails : Enqueue(m)
  \/ \E p \in Procs : Run(p) \/ CompleteRaises(p) \/ Abort(p) \/ KillPass(p)
  \/ /\ \/ \E p \in Procs : Acquire(p) \/ Renew(p) \/ Interrupt(p) \/ GiveUp(p)
        \/ Expire \/ Lapse
     /\ UNCHANGED mailVars
  \/ Age
  \/ \E m \in Mails : Backoff(m)

Spec == Init /\ [][Next]_vars

\* Cron launches passes for ever and one of them gets the free key, a live
\* process goes on, keys expire and time goes by.
Fairness ==
  /\ WF_vars((\E p \in Procs : Acquire(p)) /\ UNCHANGED mailVars)
  /\ \A p \in Procs : WF_vars(Run(p)) /\ WF_vars(RenewSet(p) /\ UNCHANGED mailVars)
  /\ WF_vars(Expire /\ UNCHANGED mailVars)
  /\ WF_vars(Age)
  /\ \A m \in Mails : WF_vars(Backoff(m))

FairSpec == Spec /\ Fairness

-----------------------------------------------------------------------------
\* Types; in particular attempts never pass the cap.
TypeOK ==
  /\ LeaseTypeOK
  /\ mail \in [Mails -> MailType]
  /\ pass \in [Procs -> PassType]
  /\ {delivered, unsure, taken} \subseteq [Mails -> Nat]

\* "Only a row we actually flipped is yielded, so two concurrent drains never both
\* send the same email" (claim_due), with what the code leaves open spelt out:
\* each copy of a mail beyond the first takes a crash or an error of its own, a
\* send that raised after the server had accepted the mail, or a reap that took
\* the row from a live pass.  A pass that runs beside another, the claim's late
\* refresh and retries of sends that did not go out add none.  And such a reap
\* takes a lease that ended under a live pass.
OneCopyPerFault ==
  \A m \in Mails : /\ delivered[m] <= 1 + faults + unsure[m] + taken[m]
                   /\ slips = 0 => taken[m] = 0

\* A mail marked SENT went out.
SentIsDelivered == \A m \in Mails : mail[m].state = "sent" => delivered[m] > 0

Settled(m) == mail[m].state \in {"sent", "failed"}

\* A stale worker does not clobber a row that is SENT or FAILED.
FinalIsForever == [][\A m \in Mails : Settled(m) => mail'[m] = mail[m]]_vars

\* Every queued mail is sent or given up in the end: no row stays SENDING or
\* PENDING although passes die, and no dead pass keeps the others out.
EveryMailSettles == \A m \in Mails : mail[m] # NoMail ~> Settled(m)
=============================================================================
