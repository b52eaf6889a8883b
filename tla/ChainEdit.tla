------------------------------ MODULE ChainEdit ------------------------------
(***************************************************************************)
(* The chain of actions of one watch path, edited by API requests          *)
(* (watches/services/watches/_actions.py) while an item travels down it    *)
(* (operations/advance.py).  Rows carry a rank, unique within the path.    *)
(* add, remove and replace_chain hold path_chain_lock, a cache key with a  *)
(* TTL that nobody renews; under it they read the chain and then, in one   *)
(* transaction, delete, park new rows past the end and renumber.  The      *)
(* worker that advances the item takes no lock, and neither does the       *)
(* deletion of the watch.                                                  *)
(*                                                                         *)
(* What an edit does to an action's cadence and digest window is in        *)
(* DigestWindow, what a run goes through in RunQueue.                      *)
(***************************************************************************)
EXTENDS Integers, FiniteSets, SequencesExt

CONSTANTS
  Actions,    \* ids of WatchAction rows
  Editors,    \* processes that serve edit requests
  Nobody,     \* the key is not set; the worker holds no run
  Orphan,     \* the key holds the token of a process that is gone
  MaxEdits    \* bound: edit requests

ASSUME TokenAssumption  == /\ IsFiniteSet(Actions) /\ Nobody \notin Actions
                           /\ {Nobody, Orphan} \cap Editors = {} /\ Nobody # Orphan
ASSUME BoundsAssumption == MaxEdits \in Nat

VARIABLES
  table,    \* the WatchAction rows: a function from their ids to their ranks
  minted,   \* ids ever given to a new action
  exists,   \* the watch has not been deleted
  key,      \* the cache entry path_chain_lock:<path>
  pc,       \* pc[e]: where an editor stands
  request,  \* request[e]: the edit it was asked for
  snap,     \* snap[e]: the rows it read under the lock
  run,      \* run[a]: the item's run of action a
  job,      \* the run being executed: its action, and the rank loaded with it
  lapsed,   \* history: a key's TTL has ended under a live editor
  edits     \* how much of the bound is used

rows  == <<table, minted, exists>>
edit  == <<pc, request, snap>>
queue == <<run, job>>
vars  == <<rows, key, edit, queue, lapsed, edits>>

-----------------------------------------------------------------------------
(* Chains.                                                                 *)

IsTable(t) == DOMAIN t \subseteq Actions /\ t \in [DOMAIN t -> Nat]
Lists  == UNION {[1 .. n -> Actions] : n \in 0 .. Cardinality(Actions)}

\* list_for_path: the ids in rank order.
Listing(t) ==
  CHOOSE s \in [1 .. Cardinality(DOMAIN t) -> DOMAIN t] :
    /\ Range(s) = DOMAIN t
    /\ \A i, j \in DOMAIN s : i < j => t[s[i]] < t[s[j]]

\* Where a stands in a list.
Place(s, a) == CHOOSE i \in DOMAIN s : s[i] = a

\* uniq_watchaction_account_path_rank.
Distinct(t) == \A a, b \in DOMAIN t : a # b => t[a] # t[b]

\* Mutant: the successor is the row at the next rank.
NextByOne(t, rank) == {b \in DOMAIN t : t[b] = rank + 1}

\* next_in_chain: the smallest rank strictly greater, nothing at the tail.
NextInChain(t, rank) ==
  {b \in DOMAIN t : t[b] > rank /\ \A c \in DOMAIN t : t[c] > rank => t[b] <= t[c]}

-----------------------------------------------------------------------------
(* Requests.                                                               *)

NoOp == [kind |-> "none", action |-> Nobody, at |-> 0, chain |-> << >>, fresh |-> {}]

OpType ==
  [kind : {"none", "add", "remove", "replace"}, action : Actions \cup {Nobody},
   at : 0 .. Cardinality(Actions), chain : Lists, fresh : SUBSET Actions]

\* An action inserted at a rank; an omitted rank and one past the end append.
Additions ==
  UNION {{[NoOp EXCEPT !.kind = "add", !.action = a, !.at = k, !.fresh = {a}] :
            k \in 0 .. Cardinality(Actions) - 1} : a \in Actions \ minted}

\* The view has loaded the action, which may be gone when the edit begins.
Removals == {[NoOp EXCEPT !.kind = "remove", !.action = a] : a \in DOMAIN table}

\* A chain of ids that the client has been shown at some time and of new actions.
Replacements ==
  {[NoOp EXCEPT !.kind = "replace", !.chain = s, !.fresh = Range(s) \ minted] :
     s \in {s \in Lists : IsInjective(s)}}

\* What replace_chain refuses: an id that is not, or no longer, on the path.
Refused(o, r) ==
  o.kind = "replace" /\ ~(Range(o.chain) \ o.fresh \subseteq DOMAIN r)

\* The order an edit asks for, given the chain as listed.  An addition lists the
\* chain before it inserts, a removal after it deletes.
Ordered(o, s) ==
  CASE o.kind = "add"     -> InsertAt(s, 1 + Min({o.at, Len(s)}), o.action)
    [] o.kind = "remove"  -> s
    [] o.kind = "replace" -> o.chain

\* What an editor reads of the rows: a removal reads them after its delete.
Read(o, t) == Restrict(t, DOMAIN t \ (IF o.kind = "remove" THEN {o.action} ELSE {}))

Deleted(o, r) ==
  CASE o.kind = "add"     -> {}
    [] o.kind = "remove"  -> {o.action}
    [] o.kind = "replace" -> DOMAIN r \ Range(o.chain)

-----------------------------------------------------------------------------
(* The transaction, statement by statement.  A statement changes rows one  *)
(* after the other, in an order of the database's choosing, and the unique *)
(* index is checked at each.                                               *)

\* Some order of the row changes from t to u would have two rows at one rank.
MayCollide(t, u) ==
  \E a, b \in DOMAIN u :
    /\ a # b
    /\ a \in DOMAIN t => t[a] # u[a]
    /\ u[a] = u[b] \/ (b \in DOMAIN t /\ u[a] = t[b])

Survivors(t, o, r) == Restrict(t, DOMAIN t \ Deleted(o, r))

\* New rows are parked past the end: at len(chain) + 1 and up, in list order.
Parked(o, r) ==
  LET n == Cardinality(DOMAIN r)
      s == Ordered(o, Listing(r))
  IN  [a \in o.fresh |->
         n + Cardinality({i \in 1 .. Place(s, a) : s[i] \in o.fresh})]

\* Rows f over rows g.
Over(f, g) == [a \in DOMAIN f \cup DOMAIN g |-> IF a \in DOMAIN f THEN f[a] ELSE g[a]]

\* row.rank of the model instances in `ordered`.
InMemory(o, r) == Over(Parked(o, r), r)

\* Mutant: the offset is len(ordered), which may be the rank of a parked row.
OffsetByCount(o, r) == Len(Ordered(o, Listing(r)))

\* _renumber: one past the greatest rank in the list.
Offset(o, r) ==
  LET s == Ordered(o, Listing(r))
  IN  IF s = << >> THEN 1 ELSE 1 + Max({InMemory(o, r)[s[i]] : i \in DOMAIN s})

\* Mutant: positions counted from one are written as they would be from zero.
RenumberedLow(t, s, k) == [a \in DOMAIN t |-> IF a \in Range(s) THEN k + Place(s, a) - 2 ELSE t[a]]

\* bulk_update: the rows that are there get their place in the list plus k.
Renumbered(t, s, k) ==
  [a \in DOMAIN t |->
     IF a \in Range(s) THEN k + Place(s, a) - 1 ELSE t[a]]

\* The table after each statement.
Stages(t, o, r) ==
  LET s  == Ordered(o, Listing(r))
      t1 == Survivors(t, o, r)
      t2 == Over(Parked(o, r), t1)
      t3 == Renumbered(t2, s, Offset(o, r))
  IN  <<t1, t2, t3, Renumbered(t3, s, 0)>>

-----------------------------------------------------------------------------
(* An edit.                                                                *)

\* The watch was created with some chain.
Init ==
  /\ \E s \in Lists : IsInjective(s) /\ table = [a \in Range(s) |-> Place(s, a) - 1]
  /\ minted = DOMAIN table /\ exists = TRUE
  /\ key = Nobody
  /\ pc = [e \in Editors |-> "idle"]
  /\ request = [e \in Editors |-> NoOp]
  /\ snap = [e \in Editors |-> << >>]
  /\ run = [a \in Actions |-> "none"]
  /\ job = [action |-> Nobody, rank |-> 0]
  /\ lapsed = FALSE /\ edits = 0

Busy == {"asked", "read", "release", "refused", "delete"}

\* The request is done with.
Drops(e, from, to) ==
  /\ pc[e] = from
  /\ pc' = [pc EXCEPT ![e] = to]
  /\ request' = [request EXCEPT ![e] = NoOp]
  /\ snap' = [snap EXCEPT ![e] = << >>]

\* The request is validated and the watch is found.
Ask(e) ==
  /\ pc[e] = "idle"
  /\ exists
  /\ edits < MaxEdits /\ edits' = edits + 1
  /\ \E o \in Additions \cup Removals \cup Replacements :
       /\ request' = [request EXCEPT ![e] = o]
       /\ minted' = minted \cup o.fresh
  /\ pc' = [pc EXCEPT ![e] = "asked"]
  /\ UNCHANGED <<snap, table, exists, key, queue, lapsed>>

Locks == key = Nobody

\* cache.add and, under the lock, list_for_path.  One step: a read that comes later
\* sees what it would see had the lock been taken later.
Lock(e) ==
  /\ pc[e] = "asked"
  /\ Locks
  /\ key' = e
  /\ pc' = [pc EXCEPT ![e] = "read"]
  /\ snap' = [snap EXCEPT ![e] = Read(request[e], table)]
  /\ UNCHANGED <<rows, request, queue, lapsed, edits>>

\* ConcurrentChainError: 409.
Conflict(e) ==
  /\ ~Locks
  /\ Drops(e, "asked", "idle")
  /\ UNCHANGED <<rows, key, queue, lapsed, edits>>

\* PolicyError: an id that is not on the path; or a config that does not merge,
\* a secret that cannot be restored, a hidden kind that would be dropped.
Refuse(e) ==
  /\ request[e].kind = "replace"
  /\ Drops(e, "read", "refused")
  /\ UNCHANGED <<rows, key, queue, lapsed, edits>>

\* The transaction commits ...
Write(e) ==
  LET stages == Stages(table, request[e], snap[e]) IN
  /\ Drops(e, "read", "release")
  /\ ~Refused(request[e], snap[e])
  /\ \A i \in DOMAIN stages : Distinct(stages[i])
  /\ table' = stages[4]
  /\ UNCHANGED <<minted, exists, key, queue, lapsed, edits>>

\* ... or an IntegrityError rolls it back.
Collide(e) ==
  LET stages == Stages(table, request[e], snap[e]) IN
  /\ Drops(e, "read", "release")
  /\ ~Refused(request[e], snap[e])
  /\ \E i \in 1 .. 3 : MayCollide(stages[i], stages[i + 1])
  /\ UNCHANGED <<rows, key, queue, lapsed, edits>>

\* named_lock's finally: read the key, ...
ReleaseGet(e) ==
  /\ pc[e] \in {"release", "refused"}
  /\ pc' = [pc EXCEPT ![e] = IF key = e THEN "delete" ELSE "idle"]
  /\ UNCHANGED <<request, snap, rows, key, queue, lapsed, edits>>

\* ... then delete whatever is there by now.
ReleaseDelete(e) ==
  /\ Drops(e, "delete", "idle")
  /\ key' = Nobody
  /\ UNCHANGED <<rows, queue, lapsed, edits>>

\* The process dies; an open transaction is rolled back.
Kill(e) ==
  /\ \E from \in Busy : Drops(e, from, "idle")
  /\ key' = IF key = e THEN Orphan ELSE key
  /\ UNCHANGED <<rows, queue, lapsed, edits>>

\* PATH_CHAIN_LOCK_TIMEOUT_SECONDS after a dead editor, ...
Expire ==
  /\ key = Orphan
  /\ key' = Nobody
  /\ UNCHANGED <<rows, edit, queue, lapsed, edits>>

\* ... or under one that is only slow.
Lapse ==
  /\ key \in Editors
  /\ lapsed' = TRUE
  /\ key' = Nobody
  /\ UNCHANGED <<rows, edit, queue, edits>>

\* WatchService.delete: runs, actions and the watch, in one transaction.
DeleteWatch ==
  /\ exists
  /\ exists' = FALSE
  /\ table' = << >>
  /\ run' = [a \in Actions |-> "none"]
  /\ UNCHANGED <<minted, key, edit, job, lapsed, edits>>

-----------------------------------------------------------------------------
(* The item.                                                               *)

NoJob == [action |-> Nobody, rank |-> 0]

\* WatchTriggerOperation: a run of the first action.
Trigger ==
  /\ exists
  /\ DOMAIN table # {}
  /\ \A a \in Actions : run[a] = "none"
  /\ run' = [run EXCEPT ![Listing(table)[1]] = "pending"]
  /\ UNCHANGED <<rows, key, edit, job, lapsed, edits>>

\* _resolve loads the action's row; a run whose action is gone is an error.
Load ==
  /\ job = NoJob
  /\ \E a \in Actions :
       /\ run[a] = "pending"
       /\ IF a \in DOMAIN table
          THEN /\ run' = [run EXCEPT ![a] = "running"]
               /\ job' = [action |-> a, rank |-> table[a]]
          ELSE run' = [run EXCEPT ![a] = "ended"] /\ UNCHANGED job
  /\ UNCHANGED <<rows, key, edit, lapsed, edits>>

\* The verdict ends the item's journey, or the run is gone with its watch.
End ==
  /\ job # NoJob
  /\ run' = [run EXCEPT ![job.action] = IF @ = "running" THEN "ended" ELSE @]
  /\ job' = NoJob
  /\ UNCHANGED <<rows, key, edit, lapsed, edits>>

\* Success: the run and its successor in one transaction, the successor found
\* by the rank loaded before the verdict.  ON CONFLICT DO NOTHING.
Advance ==
  /\ job # NoJob
  /\ run[job.action] = "running"
  /\ LET next == NextInChain(table, job.rank)
     IN  run' = [a \in Actions |->
                   IF a = job.action THEN "succeeded"
                   ELSE IF a \in next /\ run[a] = "none" THEN "pending"
                   ELSE run[a]]
  /\ job' = NoJob
  /\ UNCHANGED <<rows, key, edit, lapsed, edits>>

-----------------------------------------------------------------------------
Edits(e) ==
  \/ Ask(e) \/ Lock(e) \/ Conflict(e) \/ Refuse(e) \/ Write(e)
  \/ Collide(e) \/ ReleaseGet(e) \/ ReleaseDelete(e) \/ Kill(e)

Next ==
  \/ \E e \in Editors : Edits(e)
  \/ Expire \/ Lapse \/ DeleteWatch
  \/ Trigger \/ Load \/ End \/ Advance

Spec == Init /\ [][Next]_vars

-----------------------------------------------------------------------------
\* Types, and the unique key.
TypeOK ==
  /\ IsTable(table) /\ Distinct(table) /\ DOMAIN table \subseteq minted
  /\ minted \subseteq Actions
  /\ exists \in BOOLEAN
  /\ key \in Editors \cup {Nobody, Orphan}
  /\ pc \in [Editors -> Busy \cup {"idle"}]
  /\ request \in [Editors -> OpType]
  /\ DOMAIN snap = Editors /\ \A e \in Editors : IsTable(snap[e])
  /\ run \in [Actions -> {"none", "pending", "running", "succeeded", "ended"}]
  /\ job \in [action : Actions \cup {Nobody}, rank : Nat]
  /\ lapsed \in BOOLEAN /\ edits \in 0 .. MaxEdits

\* "Rank is dense (0..N-1, contiguous)".
Dense(t) == \A a \in DOMAIN t : t[a] < Cardinality(DOMAIN t)

\* The chain an edit asks for, in terms of the chain it finds.
Asked(o, t) == Ordered(o, Listing(Read(o, t)))

\* While the lock keeps its promise, edits happen one after the other: each
\* transaction that runs commits, in whatever order its statements visit the
\* rows, leaves dense ranks, and turns the chain as it stands into the chain
\* that was asked for, whichever editors die or give up around it.
EditsAsAsked ==
  [][\A e \in Editors :
       ~lapsed /\ exists /\ pc[e] = "read" /\ pc'[e] = "release"
       => Dense(table') /\ Listing(table') = Asked(request[e], table)]_vars

\* However long the verdict takes, and even if lapsed locks have left gaps: an
\* action that has kept its rank sends the item on to the action that follows
\* it in the chain as it stands, and nowhere else.
Follower(a) == {Listing(table)[i] : i \in {i \in 2 .. Cardinality(DOMAIN table) : Listing(table)[i - 1] = a}}

Succeeds(a) == run[a] = "running" /\ run'[a] = "succeeded"

AdvanceFollowsChain ==
  [][\A a \in DOMAIN table :
       Succeeds(a) /\ table[a] = job.rank
       => {b \in Actions : run'[b] # run[b]} = {a} \cup {b \in Follower(a) : run[b] = "none"}]_vars

\* "A SUCCEEDED run and its successor commit together, no silently stalled
\* chain" (drain.py): an action of the chain that succeeds leaves the action
\* that follows it with a run.
NoStalledChain ==
  [][\A a \in DOMAIN table : Succeeds(a) => \A b \in Follower(a) : run'[b] # "none"]_vars
=============================================================================
