----------------------------- MODULE CliSession -----------------------------
(***************************************************************************)
(* Signing in and staying signed in.  Invocations of `magpie` on one       *)
(* machine share ~/.magpie/config.json (config.py), which holds one pair   *)
(* of an access and a refresh token.  A login creates a device session, a  *)
(* cache entry the browser completes or denies and the CLI polls           *)
(* (auth_api/device_sessions.py, commands/auth.py).  Any other command     *)
(* rotates the pair when it is due or was refused (http.py,                *)
(* TokensRefreshView), and a logout revokes it (context.py,                *)
(* services/tokens.py).                                                    *)
(*                                                                         *)
(* An invocation loads the file once, when it starts, and writes its own   *)
(* copy back.  A request is served in the steps its handler takes, and     *)
(* goes on when the client has stopped waiting for it.  Left out: personal *)
(* access tokens, which do not rotate, the browser's own cookie session,   *)
(* refused codes and secrets, which change nothing, and access tokens past *)
(* their end: the CLI renews five minutes earlier.                         *)
(***************************************************************************)
EXTENDS Integers, FiniteSets

CONSTANTS
  Clients,      \* invocations of magpie that may run at once
  Requests,     \* requests the server may be serving at once
  Tabs,         \* browser tabs on an authorize page
  Nobody,       \* no client, no holder
  Orphan,       \* the lock of a request whose server process is gone
  MaxSessions,  \* bound: device sessions ever created
  MaxPairs,     \* bound: token pairs ever minted
  MaxTroubles,  \* bound: faults and overlaps, together
  MaxLapses     \* bound: locks whose TTL ends under a live holder

ASSUME ClientAssumption ==
  /\ Nobody \notin Clients \cup Requests
  /\ Orphan \notin Requests \cup {Nobody}
ASSUME RequestsAssumption == IsFiniteSet(Requests)

ASSUME SessionBoundsAssumption ==
  /\ {MaxSessions, MaxPairs} \subseteq Nat \ {0}
  /\ {MaxTroubles, MaxLapses} \subseteq Nat

VARIABLES
  pair,      \* pair[n]: the rows of AccessToken and RefreshToken
  file,      \* the pair in config.json, 0 when signed out
  lock,      \* lock[n]: who holds refresh_token_lock for n's refresh token
  bag,       \* bag[s]: the cache entry of a device session
  cli,       \* cli[c]: an invocation
  req,       \* req[r]: a request being served
  tab,       \* tab[t]: a browser's complete request
  faults,    \* lost answers, interrupted invocations, killed handlers
  lapses,    \* locks whose TTL ended under a live holder
  overlaps   \* invocations begun, or closed, while another one ran

serverVars == <<pair, lock, bag>>
bounds == <<faults, lapses, overlaps>>
vars == <<pair, file, lock, bag, cli, req, tab, faults, lapses, overlaps>>

Sessions == 1 .. MaxSessions
Pairs    == 1 .. MaxPairs

Trouble == faults + overlaps < MaxTroubles
Fault == Trouble /\ faults' = faults + 1

\* A row of each table per pair: whether the access token is due for renewal
\* by the client's clock, and the pair this one was exchanged for.
PairType ==
  [access : {"none", "live", "gone"}, refresh : {"none", "live", "revoked"},
   due : BOOLEAN, from : 0 .. MaxPairs]

NoPair  == [access |-> "none", refresh |-> "none", due |-> FALSE, from |-> 0]
Live(n) == n # 0 /\ pair[n].refresh = "live"
Dead(n) == pair[n].access = "gone" /\ pair[n].refresh = "revoked"

\* To a reader an entry that is unused, gone or denied is absent.
BagType ==
  [status : {"unused", "pending", "completed", "gone", "denied"}, pair : 0 .. MaxPairs]

CliType ==
  [pc : {"idle", "ensure", "issue", "asking", "rotating", "saving", "wiping",
         "retry", "create", "polling", "awaiting", "signing", "marking",
         "clearing", "nudging"},
   cmd : {"call", "login", "logout", "nudge"}, mem : 0 .. MaxPairs, snap : 0 .. MaxPairs,
   sess : 0 .. MaxSessions, retried : BOOLEAN, ok : BOOLEAN]

ReqType ==
  [pc : {"free", "begin", "read", "rotate", "revoke", "delete", "release",
         "unlock", "reply"},
   kind : {"refresh", "api", "revoke", "poll"}, client : Clients \cup {Nobody},
   arg : 0 .. MaxPairs + MaxSessions,
   out : {"none", "ok", "pending", "missing", "unauthorized", "conflict"},
   got : 0 .. MaxPairs]

TabType == [pc : {"idle", "mint", "put"}, sess : 0 .. MaxSessions, got : 0 .. MaxPairs]

NoCli == [pc |-> "idle", cmd |-> "call", mem |-> 0, snap |-> 0, sess |-> 0,
          retried |-> FALSE, ok |-> FALSE]
NoReq == [pc |-> "free", kind |-> "api", client |-> Nobody, arg |-> 0,
          out |-> "none", got |-> 0]
Absent(why) == [status |-> why, pair |-> 0]
NoTab == [pc |-> "idle", sess |-> 0, got |-> 0]

\* Nobody has signed in on this machine, or somebody has.
Init ==
  /\ \/ file = 0 /\ pair = [n \in Pairs |-> NoPair]
     \/ file = 1 /\ pair = [n \in Pairs |-> IF n = 1
                              THEN [NoPair EXCEPT !.access = "live", !.refresh = "live"]
                              ELSE NoPair]
  /\ lock = [n \in Pairs |-> Nobody]
  /\ bag = [s \in Sessions |-> Absent("unused")]
  /\ cli = [c \in Clients |-> NoCli]
  /\ req = [r \in Requests |-> NoReq]
  /\ tab = [t \in Tabs |-> NoTab]
  /\ faults = 0 /\ lapses = 0 /\ overlaps = 0

-----------------------------------------------------------------------------
(* The server: services/tokens.py.                                         *)

At(r, kind, pc) == req[r].kind = kind /\ req[r].pc = pc
Minted(n) == pair[n].refresh # "none"
Fresh == {n \in Pairs : ~Minted(n)}
NextPair == CHOOSE n \in Fresh : TRUE

\* Bound: a row is left for every rotation and completion that may come, and for
\* the one more that each lapse may cost.
ToRotate(n) ==
  \/ pair[n].refresh = "live" /\ pair[n].due
  \/ \E r \in Requests : At(r, "refresh", "rotate") /\ req[r].arg = n
Spare ==
  Cardinality(Fresh) > Cardinality({n \in Pairs : ToRotate(n)})
                       + Cardinality({t \in Tabs : tab[t].pc = "mint"}) + lapses

\* mint_pair: two new rows.
MintedFrom(rows, n, from) ==
  [rows EXCEPT ![n] = [access |-> "live", refresh |-> "live", due |-> FALSE, from |-> from]]

\* Mutant: the refresh row is deleted too.
RefreshDeleted(rows, n) == [rows EXCEPT ![n].access = "gone", ![n].refresh = "gone"]

\* RefreshToken.revoke of OAuth Toolkit: the access row is deleted, the refresh
\* row marked; nothing if it was marked before.
RefreshRevoked(rows, n) ==
  [rows EXCEPT ![n].access = IF rows[n].refresh = "live" THEN "gone" ELSE @,
               ![n].refresh = "revoked"]

\* Mutant: the access row goes, the refresh token stays good.
AccessDeleted(rows, n) == [rows EXCEPT ![n].access = "gone"]

\* TokenService.revoke, of an access row that is there: its refresh row first.
BothRevoked(rows, n) ==
  IF rows[n].access = "live" THEN [rows EXCEPT ![n].access = "gone", ![n].refresh = "revoked"]
                             ELSE rows

-----------------------------------------------------------------------------
(* The server: requests.  A handler that ends leaves its answer to the     *)
(* client, if it still waits.                                              *)

Answer(r, out, got) ==
  req' = [req EXCEPT ![r] =
            IF @.client = Nobody THEN NoReq
            ELSE [NoReq EXCEPT !.pc = "reply", !.client = req[r].client, !.out = out, !.got = got]]
Reply(r) == Answer(r, req[r].out, req[r].got)
Step(r, pc) == req' = [req EXCEPT ![r].pc = pc]

\* BearerOrCookieAuthentication.
Authentic(n) == n # 0 /\ pair[n].access = "live"

\* Any endpoint that asks for a user and leaves the tokens alone.
Serve(r) ==
  /\ At(r, "api", "begin")
  /\ Answer(r, IF Authentic(req[r].arg) THEN "ok" ELSE "unauthorized", 0)
  /\ UNCHANGED <<pair, file, lock, bag, cli, tab, bounds>>

\* TokensRevokeView: authentication, ...
RevokeBegin(r) ==
  /\ At(r, "revoke", "begin")
  /\ IF Authentic(req[r].arg) THEN Step(r, "revoke") ELSE Answer(r, "unauthorized", 0)
  /\ UNCHANGED <<pair, file, lock, bag, cli, tab, bounds>>

\* ... then TokenService.revoke.
Revoke(r) ==
  /\ At(r, "revoke", "revoke")
  /\ pair' = BothRevoked(pair, req[r].arg)
  /\ Answer(r, "ok", 0)
  /\ UNCHANGED <<file, lock, bag, cli, tab, bounds>>

\* Mutant: no lock.
LocksNothing(n) == TRUE

\* cache.add.
Unlocked(n) == lock[n] = Nobody

\* TokensRefreshView: the lock, or a conflict; ...
RefreshBegin(r) ==
  LET n == req[r].arg IN
  /\ At(r, "refresh", "begin")
  /\ IF Unlocked(n)
       THEN lock' = [lock EXCEPT ![n] = r] /\ Step(r, "read")
       ELSE Answer(r, "conflict", 0) /\ UNCHANGED lock
  /\ UNCHANGED <<pair, file, bag, cli, tab, bounds>>

\* ... the row; ...
RefreshRead(r) ==
  /\ At(r, "refresh", "read")
  /\ IF pair[req[r].arg].refresh = "live"
       THEN Step(r, "rotate")
       ELSE req' = [req EXCEPT ![r].pc = "release", ![r].out = "unauthorized"]
  /\ UNCHANGED <<pair, file, lock, bag, cli, tab, bounds>>

\* ... revoke and mint, in one transaction; ...
Rotate(r) ==
  LET n == req[r].arg IN
  /\ At(r, "refresh", "rotate")
  /\ Fresh # {}
  /\ pair' = MintedFrom(RefreshRevoked(pair, n), NextPair, n)
  /\ req' = [req EXCEPT ![r].pc = "release", ![r].out = "ok", ![r].got = NextPair]
  /\ UNCHANGED <<file, lock, bag, cli, tab, bounds>>

\* ... and the release, if the key is still this request's, ...
Release(r) ==
  /\ At(r, "refresh", "release")
  /\ IF lock[req[r].arg] = r THEN Step(r, "unlock") ELSE Reply(r)
  /\ UNCHANGED <<pair, file, lock, bag, cli, tab, bounds>>

\* ... which deletes whatever key is there by now.
Unlock(r) ==
  /\ At(r, "refresh", "unlock")
  /\ lock' = [lock EXCEPT ![req[r].arg] = Nobody]
  /\ Reply(r)
  /\ UNCHANGED <<pair, file, bag, cli, tab, bounds>>

\* Mutant: an entry that is not there is still to come.
NeverMissing(s) == IF bag[s].status = "completed" THEN "ok" ELSE "pending"

\* What Store.get says of an entry.
PollOut(s) ==
  CASE bag[s].status = "pending"   -> "pending"
    [] bag[s].status = "completed" -> "ok"
    [] OTHER                       -> "missing"

\* DeviceSessionPollView, ...
PollBegin(r) ==
  LET s == req[r].arg IN
  /\ At(r, "poll", "begin")
  /\ IF PollOut(s) = "ok"
       THEN req' = [req EXCEPT ![r].pc = "delete", ![r].out = "ok", ![r].got = bag[s].pair]
       ELSE Answer(r, PollOut(s), 0)
  /\ UNCHANGED <<pair, file, lock, bag, cli, tab, bounds>>

\* ... and the first read of a completed entry deletes it.
PollDelete(r) ==
  LET s == req[r].arg IN
  /\ At(r, "poll", "delete")
  /\ bag' = [bag EXCEPT ![s] = Absent("gone")]
  /\ Reply(r)
  /\ UNCHANGED <<pair, file, lock, cli, tab, bounds>>

\* REFRESH_TOKEN_LOCK_TIMEOUT_SECONDS: for a lock left behind, ...
LockExpires(n) ==
  /\ lock[n] = Orphan
  /\ lock' = [lock EXCEPT ![n] = Nobody]
  /\ UNCHANGED <<pair, file, bag, cli, req, tab, bounds>>

\* ... and for a handler that takes longer.
LockLapses(n) ==
  /\ lock[n] \in Requests
  /\ Spare
  /\ lapses < MaxLapses /\ lapses' = lapses + 1
  /\ lock' = [lock EXCEPT ![n] = Nobody]
  /\ UNCHANGED <<pair, file, bag, cli, req, tab, faults, overlaps>>

-----------------------------------------------------------------------------
(* The browser and the device session's TTLs.                              *)

Pending(s) == bag[s].status = "pending"

\* DeviceSessionCompleteView: Store.get (the code matches), ...
CompleteBegin(t, s) ==
  /\ tab[t].pc = "idle"
  /\ Pending(s)
  /\ Spare
  /\ tab' = [tab EXCEPT ![t] = [pc |-> "mint", sess |-> s, got |-> 0]]
  /\ UNCHANGED <<pair, file, lock, bag, cli, req, bounds>>

\* ... mint_pair, ...
CompleteMint(t) ==
  /\ tab[t].pc = "mint"
  /\ Fresh # {}
  /\ pair' = MintedFrom(pair, NextPair, 0)
  /\ tab' = [tab EXCEPT ![t].pc = "put", ![t].got = NextPair]
  /\ UNCHANGED <<file, lock, bag, cli, req, bounds>>

\* ... Store.put, over whatever is there by now.
CompletePut(t) ==
  /\ tab[t].pc = "put"
  /\ bag' = [bag EXCEPT ![tab[t].sess] = [status |-> "completed", pair |-> tab[t].got]]
  /\ tab' = [tab EXCEPT ![t] = NoTab]
  /\ UNCHANGED <<pair, file, lock, cli, req, bounds>>

\* DeviceSessionDenyView.
Deny(s) ==
  /\ bag[s].status \in {"pending", "completed"}
  /\ bag' = [bag EXCEPT ![s] = Absent("denied")]
  /\ UNCHANGED <<pair, file, lock, cli, req, tab, bounds>>

\* DEVICE_SESSION_PENDING_TTL_SECONDS.
PendingExpires(s) ==
  /\ Pending(s)
  /\ bag' = [bag EXCEPT ![s] = Absent("gone")]
  /\ UNCHANGED <<pair, file, lock, cli, req, tab, bounds>>

WaitsFor(c, s) == cli[c].sess = s /\ cli[c].pc \in {"polling", "awaiting"}

\* Mutant: the entry keeps what is left of the pending one's TTL.
AnyTime(s) == TRUE

\* DEVICE_SESSION_COMPLETED_TTL_SECONDS: 150 polls, if anyone polls.
NobodyWaits(s) == ~\E c \in Clients : WaitsFor(c, s)

CompletedExpires(s) ==
  /\ bag[s].status = "completed"
  /\ NobodyWaits(s)
  /\ bag' = [bag EXCEPT ![s] = Absent("gone")]
  /\ UNCHANGED <<pair, file, lock, cli, req, tab, bounds>>

-----------------------------------------------------------------------------
(* The CLI: one request.                                                   *)

To(c, pc) == cli' = [cli EXCEPT ![c].pc = pc]

Sends(c, kind, arg) ==
  LET free == {r \in Requests : req[r].pc = "free"} IN
  /\ free # {}
  /\ req' = [req EXCEPT ![CHOOSE r \in free : TRUE] =
                [NoReq EXCEPT !.pc = "begin", !.kind = kind, !.client = c, !.arg = arg]]

\* The answer to c's request arrives.
Hears(c, out, got) ==
  \E r \in Requests :
    /\ req[r].client = c /\ req[r].pc = "reply"
    /\ req[r].out = out /\ req[r].got = got
    /\ req' = [req EXCEPT ![r] = NoReq]

\* A command that fails is over; sign_out goes on and says so.
Failed(c) == IF cli[c].cmd = "logout" THEN [cli[c] EXCEPT !.pc = "clearing"] ELSE NoCli

\* access_token_expired with its leeway, by the client's clock.
Due(n) == n # 0 /\ pair[n].due

\* _ensure_fresh_token, or the one retry after a 401: rotate the pair, ...
SendRefresh(c) ==
  /\ cli[c].pc = "retry" \/ (cli[c].pc = "ensure" /\ Due(cli[c].mem))
  /\ Sends(c, "refresh", cli[c].mem)
  /\ To(c, "rotating")
  /\ UNCHANGED <<serverVars, file, tab, bounds>>

\* ... and send the request, ...
Issue(c) ==
  /\ cli[c].pc = "issue" \/ (cli[c].pc = "ensure" /\ ~Due(cli[c].mem))
  /\ Sends(c, IF cli[c].cmd = "logout" THEN "revoke" ELSE "api", cli[c].mem)
  /\ To(c, "asking")
  /\ UNCHANGED <<serverVars, file, tab, bounds>>

\* ... whose answer ends the command, or lets a long one go on.  A login's
\* request is the one that asks whether to mark the telemetry notice as shown.
Succeeds(c) ==
  /\ cli[c].pc = "asking"
  /\ Hears(c, "ok", 0)
  /\ \/ cli[c].cmd = "logout" /\ cli' = [cli EXCEPT ![c].pc = "clearing", ![c].ok = TRUE]
     \/ cli[c].cmd = "login"  /\ To(c, "marking")
     \/ cli[c].cmd = "call"   /\ cli' = [cli EXCEPT ![c].pc = "ensure", ![c].retried = FALSE]
     \/ cli[c].cmd # "logout" /\ cli' = [cli EXCEPT ![c] = NoCli]
  /\ UNCHANGED <<serverVars, file, tab, bounds>>

\* A 401 is retried once, if there is a refresh token to rotate.
Refused(c) ==
  /\ cli[c].pc = "asking"
  /\ Hears(c, "unauthorized", 0)
  /\ cli' = [cli EXCEPT ![c] = IF cli[c].mem # 0 /\ ~cli[c].retried
                                 THEN [@ EXCEPT !.pc = "retry", !.retried = TRUE]
                                 ELSE Failed(c)]
  /\ UNCHANGED <<serverVars, file, tab, bounds>>

\* _refresh got a new pair: apply_credentials, ...
Rotated(c) ==
  /\ cli[c].pc = "rotating"
  /\ \E n \in Pairs : Hears(c, "ok", n) /\ cli' = [cli EXCEPT ![c].pc = "saving", ![c].mem = n]
  /\ UNCHANGED <<serverVars, file, tab, bounds>>

\* Mutant: the new pair is kept in memory only.
SavesNothing(c) == file

\* config.save writes this invocation's copy over the file's.
Saved(c) == cli[c].mem

\* ... and save.
Save(c) ==
  /\ cli[c].pc = "saving"
  /\ file' = Saved(c)
  /\ To(c, "issue")
  /\ UNCHANGED <<serverVars, req, tab, bounds>>

\* _refresh was refused: clear_credentials, ...
Rejected(c) ==
  /\ cli[c].pc = "rotating"
  /\ Hears(c, "unauthorized", 0)
  /\ cli' = [cli EXCEPT ![c].pc = "wiping", ![c].mem = 0]
  /\ UNCHANGED <<serverVars, file, tab, bounds>>

\* ... and save.
Wipe(c) ==
  /\ cli[c].pc = "wiping"
  /\ file' = cli[c].mem
  /\ cli' = [cli EXCEPT ![c] = Failed(c)]
  /\ UNCHANGED <<serverVars, req, tab, bounds>>

\* Another rotation of the pair is in flight: an ApiError, nothing is cleared.
Conflicts(c) ==
  /\ cli[c].pc = "rotating"
  /\ Hears(c, "conflict", 0)
  /\ cli' = [cli EXCEPT ![c] = Failed(c)]
  /\ UNCHANGED <<serverVars, file, tab, bounds>>

-----------------------------------------------------------------------------
(* The CLI: commands.                                                      *)

Busy == {c \in Clients : cli[c].pc # "idle"}

Creating == {c \in Clients : cli[c].pc = "create"}
Unused == {s \in Sessions : bag[s].status = "unused"}

\* An invocation begins, or comes to its close, while another one runs.
Overlapping ==
  IF Busy = {} THEN UNCHANGED overlaps
               ELSE Trouble /\ overlaps' = overlaps + 1

\* AppContext: the file is loaded once.
Start(c, cmd) ==
  /\ cli[c].pc = "idle"
  /\ cmd = "login" => Cardinality(Creating) < Cardinality(Unused)
  /\ cmd = "logout" => file # 0
  /\ Overlapping
  /\ cli' = [cli EXCEPT ![c] = [NoCli EXCEPT
       !.cmd = cmd, !.mem = file, !.pc = IF cmd = "login" THEN "create" ELSE "ensure"]]
  /\ UNCHANGED <<serverVars, file, req, tab, faults, lapses>>

\* maybe_nudge, on close: save_update_check reads the whole file ...
NudgeRead(c) ==
  /\ cli[c].pc = "idle"
  /\ Overlapping
  /\ cli' = [cli EXCEPT ![c] = [NoCli EXCEPT !.cmd = "nudge", !.pc = "nudging", !.snap = file]]
  /\ UNCHANGED <<serverVars, file, req, tab, faults, lapses>>

\* DeviceSessionsCreateView: the entry, then the CLI's first poll.
Create(c) ==
  /\ cli[c].pc = "create"
  /\ \E s \in Unused :
       /\ \A q \in Unused : s <= q
       /\ bag' = [bag EXCEPT ![s].status = "pending"]
       /\ cli' = [cli EXCEPT ![c].pc = "polling", ![c].sess = s]
  /\ UNCHANGED <<pair, file, lock, req, tab, bounds>>

Poll(c) ==
  /\ cli[c].pc = "polling"
  /\ Sends(c, "poll", cli[c].sess)
  /\ To(c, "awaiting")
  /\ UNCHANGED <<serverVars, file, tab, bounds>>

StillPending(c) ==
  /\ cli[c].pc = "awaiting"
  /\ Hears(c, "pending", 0)
  /\ To(c, "polling")
  /\ UNCHANGED <<serverVars, file, tab, bounds>>

\* 404: denied, expired, or read before.
SessionGone(c) ==
  /\ cli[c].pc = "awaiting"
  /\ Hears(c, "missing", 0)
  /\ cli' = [cli EXCEPT ![c] = NoCli]
  /\ UNCHANGED <<serverVars, file, tab, bounds>>

\* sign_in: apply_credentials, ...
Approved(c) ==
  /\ cli[c].pc = "awaiting"
  /\ \E n \in Pairs : /\ Hears(c, "ok", n)
                      /\ cli' = [cli EXCEPT ![c] = [NoCli EXCEPT !.cmd = "login", !.pc = "signing", !.mem = n]]
  /\ UNCHANGED <<serverVars, file, tab, bounds>>

\* ... and save; the telemetry notice may follow.
SignIn(c) ==
  /\ cli[c].pc = "signing"
  /\ file' = cli[c].mem
  /\ \E next \in {NoCli, [cli[c] EXCEPT !.pc = "ensure"]} : cli' = [cli EXCEPT ![c] = next]
  /\ UNCHANGED <<serverVars, req, tab, bounds>>

\* _mark_disclosed: another save of the same copy.
Mark(c) ==
  /\ cli[c].pc = "marking"
  /\ file' = cli[c].mem
  /\ cli' = [cli EXCEPT ![c] = NoCli]
  /\ UNCHANGED <<serverVars, req, tab, bounds>>

\* The end of sign_out, whatever the server said.
Clear(c) ==
  /\ cli[c].pc = "clearing"
  /\ file' = 0
  /\ cli' = [cli EXCEPT ![c] = NoCli]
  /\ UNCHANGED <<serverVars, req, tab, bounds>>

\* ... and writes back what it read, the credentials included.
NudgeWrite(c) ==
  /\ cli[c].pc = "nudging"
  /\ file' = cli[c].snap
  /\ cli' = [cli EXCEPT ![c] = NoCli]
  /\ UNCHANGED <<serverVars, req, tab, bounds>>

-----------------------------------------------------------------------------
(* What goes wrong.                                                        *)

Waiting(c) == cli[c].pc \in {"asking", "rotating", "awaiting"}

\* A transport error: a poll is repeated, or was the last before the deadline,
\* which lies behind the TTL of a pending session; anything else has failed.
Unheard(c) ==
  IF cli[c].pc = "awaiting"
    THEN {[cli[c] EXCEPT !.pc = "polling"]}
         \cup (IF Pending(cli[c].sess) THEN {} ELSE {NoCli})
    ELSE {Failed(c)}

Unattended(r) == IF req[r].pc = "reply" THEN NoReq ELSE [req[r] EXCEPT !.client = Nobody]

\* The request never arrives, or the client stops waiting and it goes on.
Lose(c) ==
  /\ Waiting(c)
  /\ Fault
  /\ \E next \in Unheard(c) : cli' = [cli EXCEPT ![c] = next]
  /\ \E r \in Requests :
       /\ req[r].client = c
       /\ \/ req' = [req EXCEPT ![r] = Unattended(r)]
          \/ req[r].pc = "begin" /\ req' = [req EXCEPT ![r] = NoReq]
  /\ UNCHANGED <<serverVars, file, tab, lapses, overlaps>>

\* The server process dies: no answer, and its lock is left to the TTL.
Kill(r) ==
  /\ req[r].pc \notin {"free", "reply"}
  /\ Fault
  /\ lock' = [n \in Pairs |-> IF lock[n] = r THEN Orphan ELSE lock[n]]
  /\ req' = [req EXCEPT ![r] = NoReq]
  /\ IF req[r].client = Nobody THEN UNCHANGED cli
       ELSE \E next \in Unheard(req[r].client) : cli' = [cli EXCEPT ![req[r].client] = next]
  /\ UNCHANGED <<pair, file, bag, tab, lapses, overlaps>>

\* Ctrl-C, or the terminal is closed.
Interrupt(c) ==
  /\ cli[c].pc # "idle"
  /\ Fault
  /\ cli' = [cli EXCEPT ![c] = NoCli]
  /\ req' = [r \in Requests |-> IF req[r].client = c THEN Unattended(r) ELSE req[r]]
  /\ UNCHANGED <<serverVars, file, tab, lapses, overlaps>>

\* The access token comes within REFRESH_LEEWAY_SECONDS of its end.  (For a
\* revoked pair it makes no difference.)
Age(n) ==
  /\ pair[n].refresh = "live" /\ ~pair[n].due
  /\ Spare
  /\ pair' = [pair EXCEPT ![n].due = TRUE]
  /\ UNCHANGED <<file, lock, bag, cli, req, tab, bounds>>

-----------------------------------------------------------------------------
Handle(r) ==
  \/ Serve(r) \/ RevokeBegin(r) \/ Revoke(r)
  \/ RefreshBegin(r) \/ RefreshRead(r) \/ Rotate(r) \/ Release(r) \/ Unlock(r)
  \/ PollBegin(r) \/ PollDelete(r)

Run(c) ==
  \/ SendRefresh(c) \/ Issue(c) \/ Succeeds(c) \/ Refused(c)
  \/ Rotated(c) \/ Save(c) \/ Rejected(c) \/ Wipe(c) \/ Conflicts(c)
  \/ Create(c) \/ Poll(c) \/ StillPending(c) \/ SessionGone(c) \/ Approved(c)
  \/ SignIn(c) \/ Mark(c) \/ Clear(c) \/ NudgeWrite(c)

Next ==
  \/ \E r \in Requests : Handle(r) \/ Kill(r)
  \/ \E c \in Clients : Run(c) \/ NudgeRead(c) \/ Lose(c) \/ Interrupt(c)
  \/ \E c \in Clients, cmd \in {"call", "login", "logout"} : Start(c, cmd)
  \/ \E n \in Pairs : LockExpires(n) \/ LockLapses(n) \/ Age(n)
  \/ \E t \in Tabs, s \in Sessions : CompleteBegin(t, s)
  \/ \E t \in Tabs : CompleteMint(t) \/ CompletePut(t)
  \/ \E s \in Sessions : Deny(s) \/ PendingExpires(s) \/ CompletedExpires(s)

Spec == Init /\ [][Next]_vars

\* Processes run and requests are served; a cache entry's TTL ends.
Fairness ==
  /\ \A r \in Requests : WF_vars(Handle(r))
  /\ \A c \in Clients : WF_vars(Run(c))
  /\ \A t \in Tabs : WF_vars(CompleteMint(t) \/ CompletePut(t))
  /\ \A s \in Sessions : WF_vars(PendingExpires(s))

FairSpec == Spec /\ Fairness

-----------------------------------------------------------------------------
TypeOK ==
  /\ pair \in [Pairs -> PairType]
  /\ file \in 0 .. MaxPairs
  /\ lock \in [Pairs -> Requests \cup {Nobody, Orphan}]
  /\ bag \in [Sessions -> BagType]
  /\ cli \in [Clients -> CliType]
  /\ req \in [Requests -> ReqType]
  /\ tab \in [Tabs -> TabType]
  /\ {faults, overlaps} \subseteq 0 .. MaxTroubles /\ lapses \in 0 .. MaxLapses

\* Concurrent rotations of one refresh token do not both mint a pair
\* (auth_api/views.py, TokensRefreshView), except that each lock whose TTL ends
\* under its holder may let one more through.
RotatedOnce ==
  \A n \in Pairs : Cardinality({q \in Pairs : pair[q].from = n}) <= 1 + lapses

\* When a logout reports that the server revoked the session (context.py,
\* sign_out), neither token of the pair it held is good any more, whether it
\* rotated on the way, another invocation did, or the token was refused.
LogoutRevokes ==
  \A c \in Clients : cli[c].pc = "clearing" /\ cli[c].ok => Dead(cli[c].mem)

\* While invocations follow one another and nothing fails, the pair that lies
\* in the file between them is good: every rotation reached the file, and no
\* later save brought an older pair back.
AloneStaysSignedIn ==
  faults = 0 /\ overlaps = 0 /\ Busy = {} /\ file # 0 => Live(file)

\* A login or a logout comes to an end: the poll loop has a deadline, no lock
\* and no lost answer keeps it.
EveryCommandEnds ==
  \A c \in Clients : cli[c].cmd \in {"login", "logout"} ~> cli[c].pc = "idle"

ToldGone(c) == \E r \in Requests : req[r].client = c /\ req[r].out = "missing"

\* A session completed while its CLI polls signs that CLI in, unless an answer
\* was lost, the user pressed Ctrl-C, or the browser denied it after all.
ApprovedSignsIn ==
  \A c \in Clients, s \in Sessions :
    (bag[s].status = "completed" /\ WaitsFor(c, s) /\ ~ToldGone(c) /\ faults = 0)
      ~> (cli[c].pc = "signing" \/ faults > 0 \/ bag[s].status = "denied")

\* "Server explicitly rejected the refresh token (unknown or revoked).  The local
\* pair is dead; wipe" (http.py): what a wipe removes from the file is dead.
WipesOnlyDead ==
  [][\A c \in Clients : Wipe(c) => ~Live(file)]_vars
=============================================================================
