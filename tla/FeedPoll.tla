------------------------------ MODULE FeedPoll ------------------------------
(***************************************************************************)
(* One feed's poll cycle (feeds/services/polling.py): a poller takes the   *)
(* feed's poll lease, fetches the feed's subreddits with one combined      *)
(* request (feeds/services/_reddit_batch.py) and the other sources one by  *)
(* one in any order, streams what each offers into the item log, moves its *)
(* watermark `last_event_at` by compare-and-set and at the end prunes the  *)
(* log to the retention window.  Meanwhile publishers publish, an operator *)
(* seeks the watermarks and replaces the feed's sources, leases run out    *)
(* and pollers crash.                                                      *)
(*                                                                         *)
(* An event is one publisher entry: `from` its source, `at` its            *)
(* occurred_at.  An item-log row is the event's entry in `born`: the time  *)
(* in the row's ULID.  One tick stands for any span; Retention is the      *)
(* feed's retention_days in ticks.                                         *)
(***************************************************************************)
EXTENDS Integers

CONSTANTS
    Sources,     \* the specs of sources the feed may have (spec_hash)
    Combined,    \* the subreddits among them
    Events,      \* publisher entries, keyed by (source_kind, external_id)
    Pollers,     \* processes that may poll the feed
    Nobody,      \* the poll lease, or a poller's source, when there is none
    Retention,   \* retention_days
    MaxTime,     \* bound on the clock
    MaxFaults,   \* bound on source failures, crashes and aborted cycles
    MaxLapses,   \* bound on leases that run out under a live poller
    MaxCuts,     \* bound on combined walks that end before the marks
    MaxSeeks,    \* bound on operator seeks
    MaxSets      \* bound on replacements of the feed's sources

ASSUME FeedPollAssumption ==
    /\ Sources # {} /\ Combined \subseteq Sources
    /\ Nobody \notin Sources \cup Pollers
    /\ Retention \in Nat \ {0}
    /\ {MaxTime, MaxFaults, MaxLapses, MaxCuts, MaxSeeks, MaxSets} \subseteq Nat

VARIABLES
    clock,     \* timezone.now()
    from,      \* the source that publishes an event; fixed
    at,        \* an event's occurred_at, Never while it is unpublished
    row,       \* the Source row of a spec: its number, 0 if there is none
    mark,      \* Source.last_event_at
    born,      \* the item log: when an event's FeedItem was created, Never if no row
    lock,      \* holder of the feed's poll lease
    pc,        \* a poller's place, see Places
    started,   \* a cycle's started_at
    read,      \* the numbers of the rows it has read ...
    seen,      \* ... and their watermarks then
    todo,      \* the sources it has read and not yet polled
    cur,       \* the source being polled
    got,       \* what was fetched and the poller has yet to record
    newest,    \* the newest entry the source offered
    healthy,   \* not a full outage: a source has succeeded, or the feed had none
    ever,      \* history: the events that have been recorded at some time
    lost,      \* history: cut off a combined walk that reached a newer one of the source
    origin,    \* history: where the operator last put a source's watermark
    deep,      \* history: a row was created below the seek floor
    faults, lapses, cuts, seeks, sets   \* how much of each bound is used

log == <<born, ever>>
sources == <<row, mark, origin, deep>>
poller == <<pc, started, read, seen, todo, cur, got, newest, healthy>>
budgets == <<faults, lapses, cuts, seeks, sets>>
vars == <<clock, from, at, sources, log, lost, lock, poller, budgets>>

\* Started; with the subreddits read, then fetched; past them; between the other
\* sources; at a source.
Places == {"idle", "begun", "group", "chunk", "rest", "cycle", "source"}

Never == -1
Published(e) == at[e] # Never
HasRow(e) == born[e] # Never

Existing == {s \in Sources : row[s] # 0}

Init ==
    /\ clock = 0
    /\ from \in [Events -> Sources]
    /\ at = [e \in Events |-> Never]
    /\ row \in [Sources -> {0, 1}]
    /\ mark = [s \in Sources |-> 0]
    /\ origin = mark /\ deep = FALSE
    /\ born = [e \in Events |-> Never]
    /\ ever = {} /\ lost = {}
    /\ lock = Nobody
    /\ pc = [p \in Pollers |-> "idle"]
    /\ started = [p \in Pollers |-> 0]
    /\ read = [p \in Pollers |-> [s \in Sources |-> 0]]
    /\ seen = [p \in Pollers |-> [s \in Sources |-> 0]]
    /\ todo = [p \in Pollers |-> {}]
    /\ cur = [p \in Pollers |-> Nobody]
    /\ got = [p \in Pollers |-> {}]
    /\ newest = [p \in Pollers |-> 0]
    /\ healthy = [p \in Pollers |-> FALSE]
    /\ faults = 0 /\ lapses = 0 /\ cuts = 0 /\ seeks = 0 /\ sets = 0

-----------------------------------------------------------------------------
(* The world outside: time passes and publishers publish.                  *)

Tick ==
    /\ clock < MaxTime
    /\ clock' = clock + 1
    /\ UNCHANGED <<from, at, sources, log, lost, lock, poller, budgets>>

Publish(e) ==
    /\ ~Published(e)
    /\ at' = [at EXCEPT ![e] = clock]
    /\ UNCHANGED <<clock, from, sources, log, lost, lock, poller, budgets>>

-----------------------------------------------------------------------------
(* The poll cycle.                                                         *)

\* The poller forgets its cycle: the process is gone or run() has returned.
Reset(p) ==
    /\ pc' = [pc EXCEPT ![p] = "idle"]
    /\ started' = [started EXCEPT ![p] = 0]
    /\ read' = [read EXCEPT ![p] = [s \in Sources |-> 0]]
    /\ seen' = [seen EXCEPT ![p] = [s \in Sources |-> 0]]
    /\ todo' = [todo EXCEPT ![p] = {}]
    /\ cur' = [cur EXCEPT ![p] = Nobody]
    /\ got' = [got EXCEPT ![p] = {}]
    /\ newest' = [newest EXCEPT ![p] = 0]
    /\ healthy' = [healthy EXCEPT ![p] = FALSE]

\* named_lock's exit deletes the key only while it still holds our token.
Release(p) == lock' = IF lock = p THEN Nobody ELSE lock

\* A feed without sources is not in an outage.
StartCycle(p) ==
    /\ pc[p] = "idle"
    /\ lock = Nobody
    /\ lock' = p
    /\ pc' = [pc EXCEPT ![p] = "begun"]
    /\ started' = [started EXCEPT ![p] = clock]
    /\ healthy' = [healthy EXCEPT ![p] = Existing = {}]
    /\ UNCHANGED <<clock, from, at, sources, log, lost, read, seen, todo, cur, got, newest,
                   budgets>>

\* One query reads the rows S.
Reads(p, S) ==
    /\ read' = [read EXCEPT ![p] = [s \in Sources |-> IF s \in S THEN row[s] ELSE 0]]
    /\ seen' = [seen EXCEPT ![p] = [s \in Sources |-> IF s \in S THEN mark[s] ELSE 0]]
    /\ todo' = [todo EXCEPT ![p] = S]

\* iter_by_kind.
ReadGroup(p) ==
    /\ pc[p] = "begun"
    /\ Combined # {}
    /\ Reads(p, Existing \cap Combined)
    /\ pc' = [pc EXCEPT ![p] = IF Existing \cap Combined = {} THEN "rest" ELSE "group"]
    /\ UNCHANGED <<clock, from, at, sources, log, lost, lock, started, cur, got, newest,
                   healthy, budgets>>

\* iter_for_poll: the other rows, in random order.
ReadSources(p) ==
    /\ pc[p] = "rest" \/ (pc[p] = "begun" /\ Combined = {})
    /\ Reads(p, Existing \ Combined)
    /\ pc' = [pc EXCEPT ![p] = "cycle"]
    /\ UNCHANGED <<clock, from, at, sources, log, lost, lock, started, cur, got, newest,
                   healthy, budgets>>

\* Mutant: the entry at the mark itself is skipped too.
OfferedPast(s, since) == {e \in Events : from[e] = s /\ Published(e) /\ at[e] > since}

\* What a connector yields: entries strictly older than the mark are skipped.
Offered(s, since) == {e \in Events : from[e] = s /\ Published(e) /\ at[e] >= since}

\* The greatest of the mark and the occurred_at of the entries S, as a singleton.
NewestOf(S, since) ==
    {t \in {since} \cup {at[e] : e \in S} : t >= since /\ \A e \in S : at[e] <= t}

\* The heartbeat renews the lease, then the source is fetched.
Fetch(p, s) ==
    /\ pc[p] = "cycle"
    /\ s \in todo[p]
    /\ lock = p
    /\ LET offer == Offered(s, seen[p][s]) IN
         /\ got' = [got EXCEPT ![p] = offer]
         /\ \E n \in NewestOf(offer, seen[p][s]) : newest' = [newest EXCEPT ![p] = n]
    /\ pc' = [pc EXCEPT ![p] = "source"]
    /\ cur' = [cur EXCEPT ![p] = s]
    /\ todo' = [todo EXCEPT ![p] = @ \ {s}]
    /\ UNCHANGED <<clock, from, at, sources, log, lost, lock, started, read, seen, healthy,
                   budgets>>

\* The earliest mark of a combined request's subreddits, as a singleton.
Earliest(p) == {t \in {seen[p][s] : s \in todo[p]} : \A s \in todo[p] : t <= seen[p][s]}

\* What the request may list: it goes back to the earliest mark.
Merged(p) ==
    {e \in Events : from[e] \in todo[p] /\ \E t \in Earliest(p) : e \in Offered(from[e], t)}

\* A walk goes from the newest entry back and may end early, at the depth to which
\* the publisher lists the merged stream.
IsWalk(W, p) ==
    /\ W \subseteq Merged(p)
    /\ \A e \in W, x \in Merged(p) \ W : at[x] <= at[e]

\* Each subreddit's own cutoff.
Kept(p, W) == {e \in W : at[e] >= seen[p][from[e]]}

\* Entries past their mark that the walk did not reach, behind a newer one it did.
Stranded(p, W) ==
    {x \in Kept(p, Merged(p)) \ W : \E e \in W : from[e] = from[x] /\ at[e] > at[x]}

FetchGroup(p, W) ==
    /\ pc[p] = "group"
    /\ lock = p
    /\ IsWalk(W, p)
    /\ cuts' = IF W = Merged(p) THEN cuts ELSE cuts + 1
    /\ cuts' <= MaxCuts
    /\ got' = [got EXCEPT ![p] = Kept(p, W)]
    /\ lost' = lost \cup Stranded(p, W)
    /\ pc' = [pc EXCEPT ![p] = "chunk"]
    /\ UNCHANGED <<clock, from, at, sources, log, lock, started, read, seen, todo, cur,
                   newest, healthy, faults, lapses, seeks, sets>>

\* The heartbeat found the lease lost.
YieldGroup(p) ==
    /\ pc[p] = "group"
    /\ lock # p
    /\ pc' = [pc EXCEPT ![p] = "rest"]
    /\ todo' = [todo EXCEPT ![p] = {}]
    /\ UNCHANGED <<clock, from, at, sources, log, lost, lock, started, read, seen, cur, got,
                   newest, healthy, budgets>>

Bucket(p, s) == {e \in got[p] : from[e] = s}

\* Mutant: every subreddit moves to the newest entry of the whole request.
ChunkNewest(p, s) == NewestOf(got[p], seen[p][s])

\* Each moves to its own newest entry.
OwnNewest(p, s) == NewestOf(Bucket(p, s), seen[p][s])

\* The next subreddit of the chunk.
Serve(p, s) ==
    /\ pc[p] = "chunk"
    /\ s \in todo[p]
    /\ \E n \in OwnNewest(p, s) : newest' = [newest EXCEPT ![p] = n]
    /\ pc' = [pc EXCEPT ![p] = "source"]
    /\ cur' = [cur EXCEPT ![p] = s]
    /\ todo' = [todo EXCEPT ![p] = @ \ {s}]
    /\ UNCHANGED <<clock, from, at, sources, log, lost, lock, started, read, seen, got,
                   healthy, budgets>>

\* _record_chunk: the rows that exist are left alone, the rest are created.
Record(p, chunk) ==
    /\ pc[p] = "source"
    /\ chunk # {}
    /\ born' = [e \in Events |-> IF e \in chunk /\ ~HasRow(e) THEN clock ELSE born[e]]
    /\ ever' = ever \cup chunk
    /\ got' = [got EXCEPT ![p] = @ \ chunk]
    /\ UNCHANGED <<clock, from, at, sources, lost, lock, pc, started, read, seen, todo, cur,
                   newest, healthy, budgets>>

\* Mutant: the watermark is moved whatever happened to it since it was read.
MarkAssumed(p, s) == TRUE

\* advance_watermark: the row still holds the mark this poll was cut from.
MarkUnmoved(p, s) == row[s] = read[p][s] /\ mark[s] = seen[p][s]

\* The source is done with: the subreddits count as succeeded when the last is.
SourceDone(p) ==
    LET last == cur[p] \notin Combined \/ todo[p] = {} IN
    /\ pc' = [pc EXCEPT ![p] = IF cur[p] \notin Combined THEN "cycle"
                               ELSE IF last THEN "rest" ELSE "chunk"]
    /\ healthy' = [healthy EXCEPT ![p] = @ \/ last]
    /\ cur' = [cur EXCEPT ![p] = Nobody]
    /\ newest' = [newest EXCEPT ![p] = 0]

Advance(p) ==
    /\ pc[p] = "source"
    /\ Bucket(p, cur[p]) = {}
    /\ LET s == cur[p] IN
         mark' = IF row[s] # 0 /\ MarkUnmoved(p, s) /\ mark[s] < newest[p]
                 THEN [mark EXCEPT ![s] = newest[p]]
                 ELSE mark
    /\ SourceDone(p)
    /\ UNCHANGED <<clock, from, at, row, origin, deep, log, lost, lock, started, read, seen,
                   todo, got, budgets>>

\* The fetch fails, or the stream breaks after part of it was recorded.  What
\* befalls one subreddit of a combined request ends the poll of all of them.
SourceFails(p) ==
    /\ \/ pc[p] \in {"source", "chunk"}
       \/ pc[p] = "group" /\ lock = p
    /\ faults < MaxFaults
    /\ faults' = faults + 1
    /\ pc' = [pc EXCEPT ![p] = IF pc[p] = "source" /\ cur[p] \notin Combined
                               THEN "cycle" ELSE "rest"]
    /\ todo' = [todo EXCEPT ![p] = IF pc[p] = "source" /\ cur[p] \notin Combined THEN @ ELSE {}]
    /\ cur' = [cur EXCEPT ![p] = Nobody]
    /\ got' = [got EXCEPT ![p] = {}]
    /\ newest' = [newest EXCEPT ![p] = 0]
    /\ UNCHANGED <<clock, from, at, sources, log, lost, lock, started, read, seen, healthy,
                   lapses, cuts, seeks, sets>>

\* Mutant: the row created exactly at the cutoff goes too.
OutdatedAt(e, cutoff) == HasRow(e) /\ born[e] <= cutoff

\* Mutant: the cutoff is taken when the prune runs, not when the cycle began.
OutdatedNow(e, cutoff) == HasRow(e) /\ born[e] < clock - Retention

\* prune_items' id < min_ulid_at(started_at - retention).
Outdated(e, cutoff) == HasRow(e) /\ born[e] < cutoff

\* A cycle in which every source failed skips the prune.
Prunes(p) == healthy[p]

\* The sources are done, or the heartbeat found the lease lost.
Finish(p) ==
    /\ pc[p] = "cycle"
    /\ todo[p] = {} \/ lock # p
    /\ born' = IF Prunes(p)
               THEN [e \in Events |->
                       IF Outdated(e, started[p] - Retention) THEN Never ELSE born[e]]
               ELSE born
    /\ Release(p)
    /\ Reset(p)
    /\ UNCHANGED <<clock, from, at, sources, ever, lost, budgets>>

-----------------------------------------------------------------------------
(* Failures and the operator.                                              *)

\* An error run() does not recover from: the lease is released, nothing pruned.
Abort(p) ==
    /\ pc[p] # "idle"
    /\ faults < MaxFaults
    /\ faults' = faults + 1
    /\ Release(p)
    /\ Reset(p)
    /\ UNCHANGED <<clock, from, at, sources, log, lost, lapses, cuts, seeks, sets>>

\* The process dies: the lease stays until it expires.
Crash(p) ==
    /\ pc[p] # "idle"
    /\ faults < MaxFaults
    /\ faults' = faults + 1
    /\ Reset(p)
    /\ UNCHANGED <<clock, from, at, sources, log, lost, lock, lapses, cuts, seeks, sets>>

\* The lease of a dead holder runs out.
Expire ==
    /\ lock # Nobody
    /\ pc[lock] = "idle"
    /\ lock' = Nobody
    /\ UNCHANGED <<clock, from, at, sources, log, lost, poller, budgets>>

\* The lease of a live holder runs out: one source took longer than the TTL.
Lapse ==
    /\ lock # Nobody
    /\ pc[lock] # "idle"
    /\ lapses < MaxLapses
    /\ lapses' = lapses + 1
    /\ lock' = Nobody
    /\ UNCHANGED <<clock, from, at, sources, log, lost, poller, faults, cuts, seeks, sets>>

\* Mutant: a target in the future is accepted.
FutureTargets == {t \in 0..(clock + 1) : clock - Retention <= t}

\* enforce_source_watermark and enforce_seek_floor: not in the future, not
\* older than the retention window.
SeekTargets == {t \in 0..clock : clock - Retention <= t}

\* One source, or every source of the feed, in one transaction.
Seek(S, to) ==
    /\ Existing \cap S # {}
    /\ seeks < MaxSeeks
    /\ seeks' = seeks + 1
    /\ mark' = [s \in Sources |-> IF s \in Existing \cap S THEN to ELSE mark[s]]
    /\ origin' = [s \in Sources |-> IF s \in Existing \cap S THEN to ELSE origin[s]]
    /\ UNCHANGED <<clock, from, at, row, deep, log, lost, lock, poller, faults, lapses, cuts,
                   sets>>

SeekScopes == {Sources} \cup {{s} : s \in Sources}

\* set_sources, and remove_by_id: rows that stay keep their watermark, new rows get
\* one the operator chooses, in the past as far as he likes.
SetSources(S, to) ==
    /\ S # Existing
    /\ sets < MaxSets
    /\ sets' = sets + 1
    /\ row' = [s \in Sources |-> IF s \notin S THEN 0 ELSE IF row[s] # 0 THEN row[s] ELSE sets + 2]
    /\ mark' = [s \in Sources |-> IF s \notin S THEN 0 ELSE IF row[s] # 0 THEN mark[s] ELSE to]
    /\ origin' = [s \in Sources |-> IF s \notin S THEN 0 ELSE IF row[s] # 0 THEN origin[s] ELSE to]
    /\ deep' = (deep \/ (to < clock - Retention /\ ~(S \subseteq Existing)))
    /\ UNCHANGED <<clock, from, at, log, lost, lock, poller, faults, lapses, cuts, seeks>>

-----------------------------------------------------------------------------
PollStep(p) ==
    \/ ReadGroup(p)
    \/ \E W \in SUBSET Merged(p) : FetchGroup(p, W)
    \/ YieldGroup(p)
    \/ \E s \in todo[p] : Serve(p, s)
    \/ ReadSources(p)
    \/ \E s \in todo[p] : Fetch(p, s)
    \/ \E chunk \in SUBSET Bucket(p, cur[p]) : Record(p, chunk)
    \/ Advance(p)
    \/ Finish(p)

Start == \E p \in Pollers : StartCycle(p)

Next ==
    \/ Tick
    \/ \E e \in Events : Publish(e)
    \/ Start
    \/ \E p \in Pollers : PollStep(p) \/ SourceFails(p) \/ Abort(p) \/ Crash(p)
    \/ Expire
    \/ Lapse
    \/ \E S \in SeekScopes : \E to \in SeekTargets : Seek(S, to)
    \/ \E S \in SUBSET Sources : \E to \in 0..clock : SetSources(S, to)

Spec == Init /\ [][Next]_vars

\* The scheduler keeps starting cycles, a live poller keeps working and the
\* cache expires a dead holder's key.  Publishing, time, faults and the
\* operator owe nothing.
FairSpec ==
    /\ Spec
    /\ WF_vars(Start)
    /\ \A p \in Pollers : WF_vars(PollStep(p))
    /\ WF_vars(Expire)

-----------------------------------------------------------------------------
\* Types.  No watermark, anyone's copy of one or any cycle start lies in the
\* future: "a future watermark silently disables the source until then".
TypeOK ==
    /\ clock \in 0..MaxTime
    /\ from \in [Events -> Sources]
    /\ at \in [Events -> Never..clock]
    /\ row \in [Sources -> 0..(MaxSets + 1)]
    /\ mark \in [Sources -> 0..clock]
    /\ origin \in [Sources -> 0..clock]
    /\ deep \in BOOLEAN
    /\ born \in [Events -> Never..clock]
    /\ lock \in Pollers \cup {Nobody}
    /\ pc \in [Pollers -> Places]
    /\ started \in [Pollers -> 0..clock]
    /\ read \in [Pollers -> [Sources -> 0..(MaxSets + 1)]]
    /\ seen \in [Pollers -> [Sources -> 0..clock]]
    /\ todo \in [Pollers -> SUBSET Sources]
    /\ cur \in [Pollers -> Sources \cup {Nobody}]
    /\ got \in [Pollers -> SUBSET Events]
    /\ newest \in [Pollers -> 0..clock]
    /\ healthy \in [Pollers -> BOOLEAN]
    /\ ever \subseteq Events /\ lost \subseteq Events
    /\ faults \in 0..MaxFaults /\ lapses \in 0..MaxLapses /\ cuts \in 0..MaxCuts
    /\ seeks \in 0..MaxSeeks /\ sets \in 0..MaxSets

\* The watermark never passes over an entry: every entry that occurred between
\* the point where the operator last put the watermark and the watermark has
\* been recorded, whatever failed, crashed, overlapped or was seeked or replaced
\* meanwhile.  A subreddit starved by a flooded one "re-reads next cycle"
\* (poll_combined): what a combined walk did not reach is passed over only
\* where it reached a newer entry of the same subreddit.
NothingSkipped ==
    \A e \in Events :
        LET s == from[e] IN
        Published(e) /\ origin[s] <= at[e] /\ at[e] < mark[s] => e \in ever \cup lost

\* What the seek floor rests on (feeds/policy.py enforce_seek_floor): an entry
\* that was recorded and occurred within the retention window still has its
\* row, so fetching it again creates nothing.
LogCoversWindow ==
    \A e \in ever : at[e] >= clock - Retention => HasRow(e)

\* While leases hold and no source fails or is starved beside one that succeeds,
\* an entry whose row was pruned gets a new row only at the boundary: it occurred
\* at the very instant the cycle's watermark stands on.  In particular a seek
\* down to the floor during a cycle, a source that is removed and added again, or
\* an outage longer than the retention creates no second row for anything else.
\* A source created below the floor does: that hazard policy.py names.
Trouble == lapses > 0 \/ cuts > 0 \/ deep \/ (faults > 0 /\ \E r, s \in Sources : r # s)

RecordedAgain(e) == e \in ever /\ ~HasRow(e) /\ born'[e] # Never

AgainOnlyAtBoundary ==
    [][\A e \in Events : RecordedAgain(e) /\ ~Trouble =>
         \E p \in Pollers : e \in got[p] /\ at[e] = seen[p][from[e]]]_vars

\* Every entry published is recorded in the end, unless the operator removes its
\* source or puts the mark past it, or a walk was cut inside its subreddit.
EventuallyRecorded ==
    \A e \in Events :
        Published(e) ~> (e \in ever \cup lost \/ at[e] < origin[from[e]] \/ row[from[e]] = 0)

=============================================================================
