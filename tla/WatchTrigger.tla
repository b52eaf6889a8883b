---------------------------- MODULE WatchTrigger ----------------------------
(***************************************************************************)
(* One watch follows the item logs of its feeds                            *)
(* (watches/operations/trigger.py).  Pollers append FeedItem rows in       *)
(* chunks: a row's ULID is stamped while the INSERT is prepared, the rows  *)
(* become visible when the chunk commits.  A trigger pass reads a feed's   *)
(* newest id, queues runs of the chain's first action page by page up to   *)
(* it and then writes it, blindly, as the subscription's watermark         *)
(* `last_item_id`.  Operators pause the watch and replace its feeds        *)
(* meanwhile, retention prunes the log, passes overlap and die: a pass     *)
(* that is killed is one that takes no further step.                       *)
(*                                                                         *)
(* A ULID is ms * Ties + tie: its millisecond, and its random bits reduced *)
(* to an order among the ULIDs of one millisecond.  What a digest head's   *)
(* window adds to a pass is in DigestWindow, what fills a chunk is in      *)
(* FeedPoll, what becomes of a run is in RunQueue.                         *)
(***************************************************************************)
EXTENDS Integers, FiniteSets

CONSTANTS
  Items,       \* FeedItem rows
  Feeds,       \* feeds the watch may subscribe to
  Pollers,     \* processes that poll feeds
  Passes,      \* trigger passes that may overlap
  Survivor,    \* one whose process is never killed
  Nobody,      \* holder of a free poll lease; feed of an idle poller or pass
  PageSize,    \* chunk_size of the scan, _ENQUEUE_CHUNK of the enqueue
  Ties,        \* bound: ULIDs in one millisecond
  Retention,   \* retention_days, in milliseconds
  MaxTime,     \* bound: the clock stops here
  MaxLapses,   \* bound: poll leases that run out under a live poller
  MaxEdits     \* bound: operator edits of the watch

ASSUME ProcessAssumption  == /\ IsFiniteSet(Items)
                             /\ Nobody \notin Feeds \cup Pollers
                             /\ Survivor \in Passes
ASSUME SettingsAssumption == {PageSize, Ties} \subseteq Nat \ {0} /\ Retention \in Nat
ASSUME BoundsAssumption   == {MaxTime, MaxLapses, MaxEdits} \subseteq Nat

VARIABLES
  clock,    \* the wall clock
  state,    \* state[i]: "none", "stamped", "row" or "pruned"
  ulid,     \* ulid[i]: the row's primary key, Blank before it is stamped
  home,     \* home[i]: the row's feed
  writer,   \* writer[i]: the poller whose chunk holds it
  late,     \* history: rows that became visible under a greater ULID
  lease,    \* lease[f]: holder of the feed's poll lock
  poll,     \* poll[p]: the feed a poller is polling, since when
  active,   \* Watch.is_active, and the chain has an action
  sub,      \* sub[f]: the WatchFeed row: its number (0: none) and last_item_id
  subs,     \* WatchFeed rows created so far
  runs,     \* the items that have a run of the chain's first action
  pass,     \* pass[t]: locals of WatchTriggerOperation.run
  lapses, edits   \* how much of each bound is used

world == <<clock, lapses, edits>>
log   == <<state, ulid, home, writer, late>>
watch == <<active, sub, subs>>
vars  == <<clock, log, lease, poll, watch, runs, pass, lapses, edits>>

Times == 0 .. MaxTime
Blank == -1
Ulids == 0 .. (MaxTime + 1) * Ties - 1
Marks == Ulids \cup {Blank}

Visible(i) == state[i] \in {"row", "pruned"}
Rows(f)    == {i \in Items : state[i] = "row" /\ home[i] = f}

-----------------------------------------------------------------------------
IdlePoll == [feed |-> Nobody, since |-> 0]
PollType == [feed : Feeds \cup {Nobody}, since : Times]

NoSub   == [row |-> 0, mark |-> Blank]
SubType == [row : Nat, mark : Marks]

\* subs is what the pass read of each WatchFeed row it has yet to serve.
PassType ==
  [pc : {"idle", "loop", "scanning", "paged", "scanned"},
   todo : SUBSET Feeds, subs : [Feeds -> SubType], feed : Feeds \cup {Nobody},
   through : Marks, cursor : Marks, page : SUBSET Items]
IdlePass ==
  [pc |-> "idle", todo |-> {}, subs |-> [f \in Feeds |-> NoSub],
   feed |-> Nobody, through |-> Blank, cursor |-> Blank, page |-> {}]

Init ==
  /\ clock = 0
  /\ state = [i \in Items |-> "none"]
  /\ ulid = [i \in Items |-> Blank]
  /\ home \in [Items -> Feeds]
  /\ writer = [i \in Items |-> Nobody]
  /\ late = {}
  /\ lease = [f \in Feeds |-> Nobody]
  /\ poll = [p \in Pollers |-> IdlePoll]
  /\ active = TRUE
  /\ sub = [f \in Feeds |-> [row |-> 1, mark |-> Blank]]
  /\ subs = 1
  /\ runs = {}
  /\ pass = [t \in Passes |-> IdlePass]
  /\ lapses = 0 /\ edits = 0

-----------------------------------------------------------------------------
(* The item log.                                                           *)

\* Mutant: a poll starts although another poller holds the feed's lock.
UnlockedPoll(f) == TRUE

\* poll_lock: cache.add, or skip the feed.
MayPoll(f) == lease[f] = Nobody

PollStart(p, f) ==
  /\ poll[p].feed = Nobody
  /\ MayPoll(f)
  /\ lease' = [lease EXCEPT ![f] = p]
  /\ poll' = [poll EXCEPT ![p] = [feed |-> f, since |-> clock]]
  /\ UNCHANGED <<world, log, watch, runs, pass>>

\* bulk_create prepares its INSERT: ULIDField.pre_save stamps one more row.
Stamp(p, i, tie) ==
  /\ poll[p].feed = home[i]
  /\ state[i] = "none"
  /\ \A j \in Items : ulid[j] # clock * Ties + tie
  /\ state' = [state EXCEPT ![i] = "stamped"]
  /\ ulid' = [ulid EXCEPT ![i] = clock * Ties + tie]
  /\ writer' = [writer EXCEPT ![i] = p]
  /\ UNCHANGED <<world, home, late, lease, poll, watch, runs, pass>>

Chunk(p) == {i \in Items : state[i] = "stamped" /\ writer[i] = p}

Overtaken(i) == \E j \in Items : Visible(j) /\ home[j] = home[i] /\ ulid[j] > ulid[i]

\* The INSERT commits.
Commit(p) ==
  /\ Chunk(p) # {}
  /\ state' = [i \in Items |-> IF i \in Chunk(p) THEN "row" ELSE state[i]]
  /\ late' = late \cup {i \in Chunk(p) : Overtaken(i)}
  /\ writer' = [i \in Items |-> IF i \in Chunk(p) THEN Nobody ELSE writer[i]]
  /\ UNCHANGED <<world, ulid, home, lease, poll, watch, runs, pass>>

\* prune_items: every id below min_ulid_at(started_at - retention).
Outdated(i, p) == ulid[i] < (poll[p].since - Retention) * Ties

PollEnd(p) ==
  /\ poll[p].feed # Nobody
  /\ Chunk(p) = {}
  /\ state' = [i \in Items |-> IF i \in Rows(poll[p].feed) /\ Outdated(i, p)
                               THEN "pruned" ELSE state[i]]
  /\ lease' = [f \in Feeds |-> IF f = poll[p].feed /\ lease[f] = p THEN Nobody ELSE lease[f]]
  /\ poll' = [poll EXCEPT ![p] = IdlePoll]
  /\ UNCHANGED <<world, ulid, home, writer, late, watch, runs, pass>>

\* A poll outlives its lock's TTL between two heartbeats.
Lapse(f) ==
  /\ lease[f] # Nobody
  /\ lapses < MaxLapses
  /\ lapses' = lapses + 1
  /\ lease' = [lease EXCEPT ![f] = Nobody]
  /\ UNCHANGED <<clock, edits, log, poll, watch, runs, pass>>

-----------------------------------------------------------------------------
(* The trigger pass.                                                       *)

\* iter_active finds the watch; run() reads the first action and, once, the
\* WatchFeed rows.
Begin(t) ==
  /\ pass[t].pc = "idle"
  /\ active
  /\ \E f \in Feeds : sub[f].row # 0
  /\ pass' = [pass EXCEPT ![t] = [IdlePass EXCEPT
       !.pc = "loop", !.subs = sub,
       !.todo = {f \in Feeds : sub[f].row # 0}]]
  /\ UNCHANGED <<world, log, lease, poll, watch, runs>>

\* newest_item_id, as a singleton, or {} for an empty feed.
Newest(f) == {ulid[i] : i \in {j \in Rows(f) : \A k \in Rows(f) : ulid[k] <= ulid[j]}}

\* The loop goes on to the next feed, or the pass is over.
NextFeed(t, rest) ==
  IF rest = {} THEN IdlePass
  ELSE [IdlePass EXCEPT !.pc = "loop", !.todo = rest,
          !.subs = [f \in Feeds |-> IF f \in rest THEN pass[t].subs[f] ELSE NoSub]]

\* The feed is empty, or nothing has come since the watermark.
PassOver(t, f) ==
  /\ pass[t].pc = "loop"
  /\ f \in pass[t].todo
  /\ Newest(f) \subseteq {pass[t].subs[f].mark}
  /\ pass' = [pass EXCEPT ![t] = NextFeed(t, pass[t].todo \ {f})]
  /\ UNCHANGED <<world, log, lease, poll, watch, runs>>

Bound(t, f, newest) ==
  /\ pass[t].pc = "loop"
  /\ f \in pass[t].todo
  /\ newest \in Newest(f)
  /\ newest # pass[t].subs[f].mark
  /\ pass' = [pass EXCEPT ![t].pc = "scanning", ![t].todo = @ \ {f}, ![t].feed = f,
                          ![t].through = newest, ![t].cursor = pass[t].subs[f].mark]
  /\ UNCHANGED <<world, log, lease, poll, watch, runs>>

\* Mutant: the upper bound is exclusive.
AheadBelow(t) ==
  {i \in Rows(pass[t].feed) : pass[t].cursor < ulid[i] /\ ulid[i] < pass[t].through}

\* The rows in (cursor, through].
Ahead(t) ==
  {i \in Rows(pass[t].feed) : pass[t].cursor < ulid[i] /\ ulid[i] <= pass[t].through}

\* Mutant: a page in no particular order.
AnyPage(t, S) ==
  /\ S \subseteq Ahead(t)
  /\ Cardinality(S) = IF Cardinality(Ahead(t)) <= PageSize THEN Cardinality(Ahead(t))
                                                           ELSE PageSize

\* The first PageSize of them, ascending.
IsPage(t, S) ==
  /\ S \subseteq Ahead(t)
  /\ Cardinality(S) = IF Cardinality(Ahead(t)) <= PageSize THEN Cardinality(Ahead(t))
                                                           ELSE PageSize
  /\ \A i \in S, j \in Ahead(t) \ S : ulid[i] < ulid[j]

ReadPage(t, S) ==
  /\ pass[t].pc = "scanning"
  /\ IsPage(t, S)
  /\ pass' = [pass EXCEPT ![t].page = S, ![t].pc = IF S = {} THEN "scanned" ELSE "paged"]
  /\ UNCHANGED <<world, log, lease, poll, watch, runs>>

\* The last id of the page is the next page's `id__gt`.
IsLast(S, c) == \E i \in S : ulid[i] = c /\ \A j \in S : ulid[j] <= c

\* _enqueue_chunk, INSERT ... ON CONFLICT DO NOTHING.  A short page is the last.
EnqueuePage(t, c) ==
  LET S == pass[t].page IN
  /\ pass[t].pc = "paged"
  /\ IsLast(S, c)
  /\ runs' = runs \cup S
  /\ pass' = [pass EXCEPT ![t].cursor = c, ![t].page = {},
       ![t].pc = IF Cardinality(S) < PageSize THEN "scanned" ELSE "scanning"]
  /\ UNCHANGED <<world, log, lease, poll, watch>>

\* Mutants: the watermark is the newest id there is by now, or one past it.
MarkNow(t) == {n \in Marks : n \in Newest(pass[t].feed)}
MarkPast(t) == {pass[t].through + 1}

MarkOf(t) == {pass[t].through}

\* advance_watermark: an UPDATE of the row the pass read; it raises when that
\* row is gone, and the pass leaves the watch.
Advance(t) ==
  LET f == pass[t].feed
      ours == sub[f].row = pass[t].subs[f].row
  IN
  /\ pass[t].pc = "scanned"
  /\ \E m \in MarkOf(t) : sub' = IF ours THEN [sub EXCEPT ![f].mark = m] ELSE sub
  /\ pass' = [pass EXCEPT ![t] = IF ours THEN NextFeed(t, pass[t].todo) ELSE IdlePass]
  /\ UNCHANGED <<world, log, lease, poll, active, subs, runs>>

-----------------------------------------------------------------------------
(* The operator.                                                           *)

Edit == edits < MaxEdits /\ edits' = edits + 1

\* set_active, and an edit that empties the chain or fills it again.
SetActive ==
  /\ Edit
  /\ active' = ~active
  /\ UNCHANGED <<clock, lapses, log, lease, poll, sub, subs, runs, pass>>

\* _set_feeds: rows that stay keep their watermark, new rows start blank.
SetFeeds(F) ==
  /\ Edit
  /\ sub' = [f \in Feeds |-> IF f \notin F THEN NoSub
                             ELSE IF sub[f].row # 0 THEN sub[f]
                             ELSE [row |-> subs + 1, mark |-> Blank]]
  /\ subs' = subs + 1
  /\ UNCHANGED <<clock, lapses, log, lease, poll, active, runs, pass>>

Tick ==
  /\ clock < MaxTime
  /\ clock' = clock + 1
  /\ UNCHANGED <<lapses, edits, log, lease, poll, watch, runs, pass>>

-----------------------------------------------------------------------------
PollStep(p) ==
  \/ \E f \in Feeds : PollStart(p, f)
  \/ \E i \in Items, tie \in 0 .. Ties - 1 : Stamp(p, i, tie)
  \/ Commit(p)
  \/ PollEnd(p)

Work(t) ==
  \/ \E f \in Feeds : PassOver(t, f)
  \/ \E f \in Feeds, newest \in Ulids : Bound(t, f, newest)
  \/ \E S \in SUBSET Items : ReadPage(t, S)
  \/ \E c \in Ulids : EnqueuePage(t, c)
  \/ Advance(t)

Next ==
  \/ \E p \in Pollers : PollStep(p)
  \/ \E t \in Passes : Begin(t) \/ Work(t)
  \/ \E f \in Feeds : Lapse(f)
  \/ SetActive
  \/ \E F \in SUBSET Feeds : SetFeeds(F)
  \/ Tick

Spec == Init /\ [][Next]_vars

\* Cron starts passes for ever, and some of them live to their end.
FairSpec == Spec /\ WF_vars(Begin(Survivor) \/ Work(Survivor))

-----------------------------------------------------------------------------
\* Types; every mark is blank or a ULID.
TypeOK ==
  /\ clock \in Times
  /\ state \in [Items -> {"none", "stamped", "row", "pruned"}]
  /\ ulid \in [Items -> Marks]
  /\ home \in [Items -> Feeds]
  /\ writer \in [Items -> Pollers \cup {Nobody}]
  /\ late \subseteq Items
  /\ lease \in [Feeds -> Pollers \cup {Nobody}]
  /\ poll \in [Pollers -> PollType]
  /\ active \in BOOLEAN
  /\ sub \in [Feeds -> SubType]
  /\ subs \in Nat
  /\ runs \subseteq Items
  /\ pass \in [Passes -> PassType]
  /\ lapses \in 0 .. MaxLapses /\ edits \in 0 .. MaxEdits

\* "enqueue-before-advance keeps the watermark from moving past un-enqueued
\* items" (trigger.py): every row at or below a subscription's watermark has a
\* run, whatever passes overlap or die and whatever the operator edits, unless
\* the row became visible when a greater ULID already was.
NothingSkipped ==
  \A i \in Items :
    state[i] = "row" /\ sub[home[i]].row # 0 /\ ulid[i] <= sub[home[i]].mark /\ i \notin late
      => i \in runs

\* What the trigger rests on: while poll leases hold, ULID order is commit
\* order up to a shared millisecond ("the feed's poll_lock is held during the
\* whole cycle", _items.py).
LogOrdered ==
  lapses = 0 => \A i \in late : \E j \in Items \ {i} :
                  Visible(j) /\ home[j] = home[i] /\ ulid[j] \div Ties = ulid[i] \div Ties

\* Every row that appears in order gets a run, unless retention takes it or the
\* operator stops the watch first.
EventuallyTriggered ==
  \A i \in Items :
    state[i] = "row" /\ i \notin late
      ~> (i \in runs \/ state[i] = "pruned" \/ ~active \/ sub[home[i]].row = 0)
=============================================================================
