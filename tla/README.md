# OpenMagpie: a verification project

OpenMagpie polls feeds, runs each new item through the chain of actions of every
watch that subscribes to the feed, and delivers what survives: at once, or
batched in a digest. It is a Django application on Postgres. All of its
background work is done by management commands that a scheduler starts every
few minutes and that share one SQL database and one cache:

    poll_due_feeds       publishers  -> feed items              (feeds/)
    process_due_watches  feed items  -> PENDING head runs       (watches/, "trigger")
    process_due_backfills  old items -> PENDING runs            (watches/)
    process_due_runs     PENDING run -> result, next action     (watches/, "drain")
    process_due_digests  due window  -> one emission, results   (watches/, "flush")
    send_outbound_emails queued mail -> SMTP                    (mailer/)

Each command takes a cache lock so that one copy runs at a time, but the lock is
a lease that can lapse, and the code says of it that it is "a convenience, NOT a
correctness requirement". Correctness therefore rests on guarded UPDATEs, unique
keys and row locks, and these are what the models are about.

Paths below are relative to `src/apps/core/`.


## 1. Inventory

For each component: its state, its operations, what it interacts with, what is
hard about it and what makes it correct.

**Instant run queue (drain)**: `watches/services/runs/`, `watches/operations/drain.py`,
`process_due_runs.py`. State: rows `WatchActionRun(action, feed_item, state,
attempts, scheduled_at, started_at, completed_at)`, `WatchActionDelivery` rows.
Operations: enqueue, reap stale, claim (cursor, guarded UPDATE, refresh),
resolve (filter, extract, webhook), record the delivery, complete by
compare-and-set, advance the chain in the same transaction. Hard: overlapping
passes, worker threads, crashes anywhere, a reaper that may hit a live worker.
Correct when every queued run settles exactly once, a successor exists exactly
when its predecessor succeeded, and outbound calls stay within the attempts cap.

**Digest windows and flush**: `watches/services/digest.py`, `_run_batches.py`,
`operations/digest_flush.py`, `advance.py`, `process_due_digests.py`. State: one
`WatchActionDigestWindow(close_at)` per digest action, PENDING runs of the action,
the per-action flush lock. Operations: open (by the trigger for a chain's head, by
a completion otherwise), gather a slice, emit, complete or fail the batch,
advance, close if drained; operators switch an action between instant and
digest. Hard: arrivals against the close, a flush that outlives its lock, runs
left behind by an edit. Correct when no run is orphaned, no final run is
rewritten, emissions are bounded, and the drain leaves a digest's runs alone.

**Watch trigger**: `watches/operations/trigger.py`, `process_due_watches.py`.
State: `WatchFeed.last_item_id`, the watermark (an item ULID), and the runs of the
chain's first action. Operations: take the feed's newest id as the bound, scan the
rows past the watermark page by page, queue a run for each, write the bound as the
watermark. Operators pause the watch and replace its feeds. Hard: ULIDs are not
commit order; passes overlap and write blindly; items age out. Correct when the
watermark passes no item without a run, and every item gets one.

**Watch and chain editing**: `watches/services/watches/`. State: actions with dense
ranks under a unique constraint, a lock with a TTL that nobody renews. Operations:
add, remove, replace the chain. Hard: renumbering through intermediate ranks, an
editor that outlives its lock, edits while an item travels down the chain. Correct
when an edit leaves the chain that was asked for and the item meets each action
once, in order.

**Backfills**: `watches/operations/backfill.py`, `services/backfills.py`,
`process_due_backfills.py`. State: job rows with a delete-once marker. Operations:
claim, reap, delete old runs, enqueue in chunks, finish or fail. Hard: a reaped
job that is still running, a crash between deleting and marking, the drain at work
on the same runs. Correct when a finished job has left nothing out and a retry
deletes nothing that was regenerated.

**Feed polling and items**: `feeds/services/`, `poll_due_feeds.py`,
`feeds/policy.py`. State: `Source.last_event_at` (the watermark), the `FeedItem` log,
the feed's poll lease. Operations: poll a cycle (one combined request for the
subreddits, then the other sources one by one: read marks, fetch, record in chunks,
compare-and-set the mark, prune), seek one or all sources, replace the set of
sources. Hard: fetches are slow, leases lapse, streams break half way, operators
seek and replace during a cycle, a flooded subreddit uses up what a request may
list, the prune line moves. Correct when the mark passes over nothing and the log
still holds what a seek may fetch again.

**Feed records**: `feeds/services/feeds/_service.py`. Rows of feeds, created, edited,
paused and deleted by requests.

**Locks and single-flight jobs**: `common/locks.py`, `lease_renewer.py`,
`commands.py`. State: cache keys with a token and a TTL, a renewer thread.
Operations: acquire, renew, release if ours, stop at the maximum hold. Hard: renew
is a get and a set, release a get and a delete; the holder may be dead, slow or
replaced. Correct when each lapse lets in at most one pass more.

**Outbound mail queue**: `mailer/`. State: `OutboundEmail` rows. Operations: enqueue,
claim, send, mark sent or failed, reap. Hard: the mail sent and the mark lost, a send
that raises after the server took the mail, a reap of a live pass. Correct when what is
marked sent went out, each extra copy has a cause of its own, and every mail settles.

**Actions and result schemas**: `watches/actions/`. Pure judgement and rendering; the
run queue sees only a verdict and whether a call was made.

**Connectors, engine**: `sources/connectors/`, `engine/`. Network I/O and parsing.

**Sign-in and session tokens**: `auth_api/` and the CLI under
`src/apps/cli/src/openmagpie/`. State: rows of access and refresh tokens, a lock per
refresh token, a cache entry per device session, and `~/.magpie/config.json`, which all
invocations of the CLI share. Operations: create, complete, deny and poll a device
session, rotate a pair, revoke it; load the file once, save the invocation's own copy,
rewrite the whole file for the update check. Hard: two rotations of one token, a
session completed, denied and expiring while it is polled, answers that are lost, two
invocations that loaded the same pair. Correct when a rotation does not fork, a logout
that says so has revoked the session, and nobody is signed out by using the CLI.

**Accounts, links, waitlist, telemetry**: request handlers over single rows.

**Plugins, CLI commands, web client, schema package**: start-up code and clients.

PROJECT.json lists the hazards of these components line by line, with the
property that covers each or the reason why none does yet.


## 2. Modules

| module | what it is |
| --- | --- |
| `RunQueue` | the instant run queue |
| `ChainJourney` | what the queue promises, without attempts, claims or crashes |
| `RunQueueRefinement` | the mapping from the queue to that promise |
| `DigestWindow` | one delivery action, its window, flush, drain and edits |
| `DigestTrickle` | the same with new items arriving for ever |
| `FeedPoll` | one feed's poll cycle |
| `WatchTrigger` | one watch following the item logs of its feeds |
| `Backfill` | one backfill job against the runs it regenerates |
| `JobLease` | the lease of a scheduled job; composed into the next |
| `OutboundMail` | the mail queue, drained by passes that hold a `JobLease` |
| `ChainEdit` | the chain of one watch, edited while an item travels down it |
| `CliSession` | signing in and staying signed in: the token pair between the server, the browser and the CLI |
| `RunQueueProofs`, `DigestWindowProofs`, `FeedPollProofs`, `WatchTriggerProofs`, `BackfillProofs`, `OutboundMailProofs`, `ChainEditProofs`, `CliSessionProofs` | theorems |
| `MCRunQueue`, `MCDigestWindow`, `MCFeedPoll`, `MCWatchTrigger`, `MCBackfill`, `MCOutboundMail`, `MCChainEdit`, `MCCliSession` | the instances that TLC checks |

    publishers -> FeedPoll -> item log -> WatchTrigger -> RunQueue -> deliveries
                                              |   ^          |
                                              v   |          v
                                      DigestWindow|      ChainEdit (what comes next)
                                               Backfill
    accounts -> OutboundMail (under JobLease) -> SMTP
    browser, CLI -> CliSession (device sessions, token pairs)

Each arrow is a table that one component writes and the next reads. A model takes
what comes in as given: RunQueue's `Enqueue` is what WatchTrigger and Backfill do,
FeedPoll's `Record` is what makes a row that WatchTrigger's `Stamp` and `Commit` refine.

Operators whose comment says *mutant* are not part of a specification. Each is a
plausible bug, a variant of the operator that follows it, and shows that the
property named with it in PROJECT.json can fail.

### RunQueue

A row is one action of one watch against one item, so it is the pair `<<rank,
item>>`; the unique key of the table makes that exact. `row[r]` keeps the state,
`attempts`, `scheduled_at`, `started_at` and whether `completed_at` is set.

| action | code |
| --- | --- |
| `Enqueue` | `enqueue_many`, called by the trigger |
| `StartPass` | the command's clock reading, then `reap_stale` |
| `OpenCursor`, `SkipCandidate`, `Claim`, `Refresh` | `claim_due`: a server-side cursor, a guarded UPDATE per row, and `refresh_from_db` as a statement of its own |
| `Resolve` | `WatchDrainOperation._resolve`, the action's verdict |
| `Record` | the delivery row, a commit of its own |
| `Commit`, `LoseClaim` | `complete` and the advance in one transaction; the compare-and-set that fails |
| `DrainError`, `Crash` | an exception in a worker; the process dies |

A pass claims on one thread and judges on up to `|Slots|` others. Passes overlap
freely, which covers whatever the job lock does. Every database statement that
other processes can see between is a step of its own.

### ChainJourney and the refinement

`ChainJourney` has two variables: the runs queued and how each was settled. The
mapping calls a run queued when its row exists and settled when its row is
final. A claim, a retryable failure or a lost claim is a stutter, a reap at the
attempts cap is `GiveUp`, a commit is `Settle`.

### DigestWindow

One action with cadence digest, instant or removed. Its runs come from feeders:
trigger passes when the action heads its chain, passes that complete its
predecessor otherwise. The two differ in the code and so in the model: the
trigger opens the window in one transaction and inserts runs later
(`OpenForHead`, `EnqueueHead`), the completion does both in one (`Advance`). The flush is
`FlushStart`, `TakeFence`/`SkipWindow`, then slices of `Gather`, `DropUnemittable`, `Emit`,
`FinishSlice`, then `CloseEmpty` and `Leave`. `Edit` is `set_config` and `remove`. The drain is
reduced to what it does to this action: it tells a digest only by the existence
of a window row. Claims, delivery rows and false reaps are RunQueue's.

With finitely many items arrivals stop, which would hide what `fail_batch` warns of: "a
continuous trickle into a down destination can keep the WINDOW from ever fully
terminal-draining". DigestTrickle adds `NewItem`: a member of `Items` whose run is settled,
and that no flush or drain has in hand, comes to stand for a new item. Liveness is
stated there, on the condition that arrivals do not go on for ever (`ArrivalsGoOn`).

### FeedPoll

`at` is when a publisher's entry occurred, `mark` the sources' watermarks, `born` the
time in a log row's ULID, `row` the identity of a source's row, which changes when the
source is removed and created again.

| action | code |
| --- | --- |
| `StartCycle` | `poll_feed` takes the lease, `run` reads the clock and counts the sources |
| `ReadGroup`, `FetchGroup`, `YieldGroup`, `Serve` | `poll_reddit_group`: the subreddits' rows, one combined request scattered over them, the lease found lost, the next subreddit of the chunk |
| `ReadSources`, `Fetch` | `iter_for_poll`, then one source after the heartbeat |
| `Record`, `Advance` | a chunk of any size into the log; the compare-and-set of the mark |
| `Finish` | the end of `run` with the prune, and of the lease |
| `SourceFails`, `Abort`, `Crash`, `Expire`, `Lapse` | what goes wrong |
| `Seek`, `SetSources` | the operator's seek of one or all sources; `set_sources` and `remove_by_id` |

A combined request goes back to the earliest mark of its subreddits and lists the
newest entries first, to a depth that the publisher sets: `IsWalk` says the walk may
end anywhere, and `cuts` counts the walks that ended too early. A subreddit of which
nothing was reached keeps its mark and is read again. One of which only the newest
entries were reached moves past the rest: `lost` collects exactly those entries and the
properties exempt them. (`poll_combined` says a starved subreddit is "never stranded";
that is so only when the walk reached none of its new entries.)

A feed's subreddits fit one request ("a realistic feed yields one chunk"), so there is
one chunk per cycle. Two sets of sources can overlap only after the 60 seconds of their lock;
the set is one step here, and what an overlap may leave, the union of both, is repaired
by the next one. Histories: `ever`, `lost`, `origin` (where the operator last put a
mark), `deep` (a row was created below the seek floor).

Two things are assumed of the outside. Publishers stamp an entry with the
present time, and keep listing it until it has been fetched, apart from the depth of
a combined walk. A publisher that back-dates entries, or whose page is shorter than
what it publishes between two polls, loses entries by design of any watermark.

### WatchTrigger

A ULID is a millisecond and an order within it. A poller is reduced to what it does
to the log: `PollStart`, `Stamp` (the id is made while the INSERT is prepared),
`Commit` (the chunk becomes visible), `PollEnd` with the prune, under a lease that
may lapse. A pass is `Begin` (which feeds it follows), `PassOver` (an empty feed, or
one it is done with), `Bound` (the newest id), then `ReadPage` and `EnqueuePage` as long
as there are pages, then `Advance`, the blind write. A page is read and enqueued in two
steps, since rows may be pruned and the other pass may write in between. `SetActive`
and `SetFeeds` are the operator's edits; a feed that is removed and added again gets a
new row with a blank watermark and is followed from its oldest row. A pass that dies takes no further step.

Rows that become visible below an id that is visible already (`late`) are exempt from
"nothing skipped": the watermark may be above them. `LogOrdered` says how this can
happen: only by a lapsed lease or within one millisecond. That a pass skips a feed
that was deleted is not modelled.

### Backfill

`StartPass` reaps, `Claim`, `LoseClaim` and `Refresh` are the claim as in RunQueue, `Resolve`
reads the job and the selection, `Delete` is one action's statement of the delete phase,
from the target down the chain, `Stamp` writes the marker, `EnqueueChunk` queues one item, `Finish` and `Fail`
are the guarded terminal writes, `Die` is a crash. `Succeed` and `Drop` are the drain on the
runs, `Prune` retention, `RemoveTarget` the operator, `Age` makes a start time older than
the stale limit, which is all the code asks of time. An attempt that is reaped goes
on, as the code lets it. Items do not interact, so one item is enough to see what
becomes of an item.

### JobLease and OutboundMail

JobLease is the cache key, the processes and their renewer threads, with `cache.add`,
the read and the write of a renewal, and the read and the delete of a release as
steps of their own. `GiveUp` is the maximum hold, `Lapse` a TTL that ends under a live
pass, and a renewal that overwrites another's key is counted with them in `slips`: each
is a way for one pass more to start. `Interrupt` is SIGTERM, which unwinds; `Kill` does not.

OutboundMail EXTENDS JobLease: `Acquire` starts a pass, which is alive as long as its
process works. `StartPass` reaps, `Claim`, `Skip` and `Refresh` go over the due rows, `Send`
is `send_template`, which may raise before or after the server accepted the mail, `CompleteSent`, `CompleteRaises` and `FailMail` the guarded writes, `EndPass`
and `Abort` the end. `--limit` makes a pass over fewer rows and the dry run reads only.

### ChainEdit

`table` is the function from actions to ranks. An edit is `Ask`, `Lock` (or `Conflict`),
which reads the chain, `Refuse` or the transaction: `Write` when its statements go
through, `Collide` when one meets the unique key. `Stages` are the row states a
transaction goes through (deleted, parked past the end, renumbered one row at a time
in any order), and `MayCollide` says two rows could meet between two of them. `ReleaseGet`
and `ReleaseDelete` are the lock's exit, `Kill`, `Expire`, `Lapse` its failures.
`Trigger`, `Load`, `End` and `Advance` take an item down the chain: the rank is read at
`Load`, before the verdict, and used at `Advance`. Reading the chain is one step with taking
the lock, which no other editor can tell apart. After a lapse two editors overlap:
ranks may have gaps, or an add may collide, until a removal or replacement renumbers;
an edit of a watch that was deleted may leave an action behind.

### CliSession

`pair[n]` is the two rows of one minted pair, `file` the pair in config.json, `bag[s]` the
cache entry of a device session, `cli[c]` an invocation with the copy it loaded, `req[r]`
a request that a server process is serving. A request and its client are separate: the
client may stop waiting and the request goes on.

| action | code |
| --- | --- |
| `RefreshBegin`, `RefreshRead`, `Rotate`, `Release`, `Unlock` | `TokensRefreshView` under `refresh_token_lock`: the lock, the row, revoke and mint in one transaction, the read and the delete of a release |
| `RevokeBegin`, `Revoke`, `Serve` | `TokensRevokeView`, and any other endpoint that asks for a user |
| `Create`, `PollBegin`, `PollDelete`, `CompleteBegin`, `CompleteMint`, `CompletePut`, `Deny` | the device session's views; reading an entry and writing it are two cache calls |
| `SendRefresh`, `Issue`, `Succeeds`, `Refused`, `Rotated`, `Save`, `Rejected`, `Wipe`, `Conflicts` | `MagpieClient`: renew if due, ask, renew once after a 401 |
| `Start`, `Poll`, `StillPending`, `SessionGone`, `Approved`, `SignIn`, `Mark`, `Clear` | the commands, `login` and `logout` above all |
| `NudgeRead`, `NudgeWrite` | the update check reads the whole file and writes it back |
| `Lose`, `Kill`, `Interrupt`, `LockExpires`, `LockLapses`, `PendingExpires`, `CompletedExpires`, `Age` | what goes wrong, and time |

`RefreshRevoked` is what Django OAuth Toolkit does. The CLI renews five minutes before a
token's end, so a token past its end is not modelled. A completed entry lives for five
minutes and is polled every two seconds: it does not expire while its CLI polls.


## 3. What TLC checks

| run | question | bounds |
| --- | --- | --- |
| `runqueue` | types, chain advance, call budget, audit, every run settles, the queue implements `ChainJourney` | 1 item, 2 actions (a filter, a webhook), 2 passes of 1 thread, 2 attempts, 1 fault, clock to 3 |
| `digest_storm` | bounded emissions | chain head, 1 item, 2 flushers, 2 attempts, a lapse, an edit, a backfill and a fault together |
| `digest_settle` | no orphan, exact advance; every run settles and every window closes unless arrivals go on for ever | `DigestTrickle`, fed by a predecessor, new items for ever, 2 unsettled at a time, slices of 1, 2 attempts, 1 fault, clock to 3, fair scheduler |
| `feed_poll` | nothing skipped, window covered, re-recording only at the boundary | 1 source that may come and go, 2 entries, 2 pollers, retention 1, clock to 3, 1 fault, 1 lapse, 1 seek, 1 set |
| `feed_recorded` | every entry is recorded in the end | 2 subreddits, 2 entries, 1 poller, 1 cut walk, 1 fault, 1 lapse, 1 seek, fair scheduler |
| `trigger` | nothing skipped, ULID order up to a millisecond, every item triggered in the end | 2 items, 1 feed, 2 pollers, 2 passes of which one may die, pages of 1, 1 lapse, 2 edits |
| `backfill` | complete, regenerated, nothing fresh deleted, every job settles | 1 item, a chain of 2, 2 passes, 3 attempts, 2 faults |
| `mail` | one pass more per lapse, a cause for every extra copy, sent means delivered, every mail settles | 3 processes, 1 mail, 2 attempts, 2 faults, 1 slip, fair scheduler |
| `chain_edit` | edits do as asked, the item follows the chain | 3 actions, 2 editors, 3 edits |
| `chain_stalled` | refutes "no silently stalled chain" | 3 actions, 1 editor, 1 edit |
| `cli_session` | no forked rotation, a logout revokes, invocations in turn stay signed in, every login and logout ends, an approved login succeeds | 2 invocations at once, 3 requests, 1 browser tab, 1 device session, 3 pairs, 1 fault or overlap, 1 lapsed lock |
| `cli_wiped` | refutes "the local pair is dead" of what a refused rotation wipes | 2 invocations, 2 requests, 2 pairs, 1 overlap |

Why these bounds are enough to be worth something:

- Two items in DigestTrickle: one run held back while the other's place is taken by one new
  item after another. `ArrivalsGoOn` is needed: TLC finds both liveness properties violated
  without it.
- Two passes, flushers, pollers or editors: every race in this code is between one
  process and another that overtakes it. A third could only overtake in the same
  way. The mail run has a third process, which a slip lets in beside two.
- Two attempts: with one, there is no retry; the cap is reached at the second. Three
  where a reaped attempt that lives on, its successor and a last one must all exist.
- A clock to 3 with a stale timeout of 1 lets a run be claimed, go stale, be
  reaped and be claimed again. In FeedPoll a retention of 1 and a clock of 3 let a
  row age out and the source be polled again after that.
- Slices and pages of one, of two items: the loop goes round, and fails half way.
- A filter before a webhook: the chain has a successor and an outbound end. Three
  actions: an insertion or removal ahead of, at and behind the item.
- Two subreddits of one entry each: a walk that ends early starves one of them, and
  if the mark followed the whole request the other's entry would never be fetched.
- Three pairs: one to sign in with, one rotation and one more for a lapsed lock; a pair is
  kept in reserve for each rotation that may come, so that no rotation waits for the
  bound. A fault and an overlap of two invocations are alternatives in `cli_session`.
- One fault: a crash and its recovery. Behaviours with more are covered by the
  proofs.

All `Max*` constants but `MaxAttempts` are bounds of the models, not of the code. A fault in
RunQueue must leave the clock room for the reaper, and a window must fall due before
the clock stops; otherwise the bound itself would break liveness. Deadlock is checked
in every run but ChainEdit's, where editors really may be out of edits and the item
at its end. Symmetry is used only in runs without liveness.

`AdvancesIffSucceeded` for a digest needs a flush lock that does not lapse: a flush that
outlives its lock advances its whole batch whatever `complete_batch` wrote, after
another flush may have failed the same runs. That is why `digest_settle` has no lapses,
while the weaker properties of `digest_storm` do. Likewise `AgainOnlyAtBoundary`,
`FreshRunsKept` and `EditsAsAsked` speak of behaviours before the first lapse or
false reap; their neighbours hold in all. `OneCopyPerFault` holds in all behaviours, because it
counts the rows taken from live passes (`taken`); that there are none before the first slip is
its second part.

### Fairness

- A pass, a flusher or a poller that is alive takes its next step, and the
  scheduler keeps starting new ones. The deployment runs the commands from a
  scheduler for ever, and no step waits long on another process: named locks
  are tried once, never waited for, and row locks last one short transaction.
- In WatchTrigger only one pass, `Survivor`, must go on; the other may die anywhere.
- Time passes (`Tick`, `Age`, `Backoff`), and a cache key whose holder is dead expires. A
  renewal that has read its key writes it.
- Feeders, publishers, operators, faults and lapses owe nothing, and feeders may go on for ever. Backfill's drain
  owes nothing either: a job settles whatever the runs do.

- In CliSession invocations and requests go on, and a pending entry's TTL ends. Browsers owe
  nothing until a completion was begun.

All of it is weak fairness. FairSpec of RunQueue asks it per executor, since worker
threads of one pass do not wait for each other.


## 4. What is proved

TLAPS checks these for every value of the constants: any number of items, actions,
processes, attempts, sources, entries, faults, lapses and edits. The assumptions are
the named ASSUMEs of the modules (positive caps, disjoint sentinels, and finiteness
where something is counted); nothing else is taken on trust.

**Run queue** (`RunQueueProofs`). The invariant is
`QueueInv`: the properties themselves, strengthened by two facts. `ExecOK` says
what a live executor may rely on: the run it holds exists, its verdict is one
its action can give, and once it has recorded, a delivery row exists. Without
it a commit could write a row that was never queued, or end an outbound run in
success without a call. `AbsentOK` says a row without a state is wholly blank, so
that "absent" is one value.
`TypeCorrect`, `ChainAdvance`, `CompletionStamp` and `AuditedSuccess` follow. `FinalRowsFrozen` follows from the same
invariant, step by step: no guard of the code lets a final row through.
`BoundedCalls` needs more, because a call is made long after its attempt was burned:
`CallBudget` says the calls of a run plus the executors that may still call are no
more than its attempts, which is where finiteness of threads is needed.

**Refinement** (`RunQueueProofs`). `QueueImplementsJourney`: initial
states map to initial states, and under `QueueInv` each step of the queue is a step
of `ChainJourney` or a stutter: `EnqueueEnters`, `ReapGivesUp`, `ClaimStutters`, `CommitSettles`.

**Digest windows** (`DigestWindowProofs`). Types, the cap on pending runs and
`FinalIsFrozen` hold whatever operators and locks do. `NoRunOrphaned` holds for an action fed by
its predecessor that is not edited or backfilled: then a pending run and its window
are written by the same transactions, and the only way to shut a window is to find no
pending run. `DrainLeavesDigests` rests on the window row existing before any run.
`ChainAdvancesExactly` needs, besides, that flush locks hold: a flush in hand then is the
only one, so what it gathered is still pending when it writes.
`EmissionsStayBounded` is a count in two stages. While a run may still be tried, each of
its emissions has burned an attempt, is in the hands of a flush that has yet to write it,
or was lost with a fault (`Burned`). A flush that is at work without the lock was let loose
by a lapse (`LooseBound`), so at most one flush and one more per lapse hold an item at
a time; counting them bounds what may still be emitted, also after another writer has
made the run final (`LeftBound`).

**Feed polling** (`FeedPollProofs`). `IInv` is the types, `NothingSkipped` and
`LogCoversWindow`, with the facts they need: only published entries are in the log
or in flight (`OnlyPublished`); a row is no older than its entry (`RowsFollowEntries`),
which makes pruning by creation time safe for a window of occurrence times; and
`InFlight`, the reason the watermark may move: whatever lies between the mark a
poller read and the newest entry it saw is recorded, in its hands or beyond the reach of
a cut walk. For a subreddit that must hold from the combined request on until its
turn comes (`Gathered`), which is where advancing each to its own newest entry is needed.
With an unmoved mark, an empty hand therefore means nothing is passed over, which is
why the compare-and-set is there.
`NotRecordedAgain` is about a whole cycle: a row pruned at its end must not be read again
by the next. As long as there is no trouble, no mark is below an entry that was pruned
(`GoneBehind`). That the prune keeps this up rests on `Settled`: of every source, each
poller has yet to read the row, or has yet to poll it from the mark it read, or the
mark is past all that its prune may take, because a poll brings all of that (`Brought`,
`Caught`) and nobody else is at work (`LeaseHeld`). With a single source, a failed poll
leaves the cycle unhealthy and it prunes nothing.

**Trigger** (`WatchTriggerProofs`). `WatermarkSkipsNothing` is not inductive: a pass writes what
it computed steps ago. The invariant says of every mark anyone holds, in a row or in
a pass, that it is `Done`: the log has reached it, so what appears in order appears
above it, and the rows up to it have runs. A blind write of such a mark is harmless,
also when it moves the watermark back. `LeasedLogOrdered` says that, until a poll lease
lapses, rows appear out of ULID order only within a millisecond: a feed's stamped rows are
all in the chunk of the one poller that holds the lease, so a visible row above a stamped
one was visible when that one was stamped, and the clock had come as far (`StampedLast`,
`NoneAhead`).

**Backfill** (`BackfillProofs`). `FinalIsFrozen` and `CompletedMarksFinal` come from the claim guard of the
terminal writes. `RegeneratedRunsStay` says where an attempt may die without the next one
deleting again: while no live attempt is reaped, whoever still has to delete runs
before anything was queued, and the marker is stamped before the first chunk.
`DoneMeansComplete`: an item that a pass has behind it has its run, or another pass still has
it ahead (`Complete`); a pass that deletes again has everything ahead. Only a death takes a
pass away, and without a live attempt reaped it was the only one and its job is not done.
`ReplaceRenewsChain`: an item without runs in flight when the job began stays so until the
stamp, since the deletes go down the chain and what is gone feeds nothing (`Wiped`). After
the stamp all its runs are the job's, and each success has fed the next (`Anew`).

**Mail** (`OutboundMailProofs`). `SentWentOut` and `FinalIsFrozen` hold whatever the lease does.
`OneMorePerSlip` counts passes and renewal threads that work, or may yet write the key, without
holding it: a slip adds one, every other step at most exchanges one for another.
`OnePassAtATime` shows that a renewal of two steps and a release of two steps still keep one pass
at a time until a lease ends under a live pass. `OneCopy` counts the copies of a mail, those
about to go out and a row waiting to be claimed against their causes: a fault, a send that
raised after the server took the mail (`unsure`), a reap from a live pass (`taken`). That
each claim has one sender, however many passes run, rests on the claim's guard (`Copies`).

**Chain edits** (`ChainEditProofs`). The types include the unique key: `MayCollide` covers every
order of row writes. `EditsDoAsAsked`: parking past every rank in use and renumbering to
positions of an enumeration of the same rows never collide, and leave ranks 0..N-1; it rests on
the lock making what the editor read current. `AdvanceFollows` needs that a set of
distinct ranks has one listing in order, proved by well-founded induction over the
library's finite subsets; it holds with lapsed locks and gaps as well.

**Sign-in** (`CliSessionProofs`). Three facts carry everything: `Owned`, that an open request is
the one its client waits for, and suits where the client is; `Rows`, that the two rows of a
pair live and die together, and that a handler about to revoke or rotate has found its row;
and `Known`, that nobody names a pair that was not minted. `LogoutReportsTruth` adds what a
logout has been told (`Confirmed`). `RotationsDoNotFork` counts (`Counted`): of a good pair,
the handlers that may rotate it and the lock if it is free are one more than the lapses at
most; of a spent one, the pairs exchanged for it and the handlers that have read its row
while it was good. It needs that a lock's holder is at work on that pair (`Holds`), that
a handler on its way out leaves nothing good (`Spent`), that a pair with a parent was
exchanged for a spent one (`Lineage`), and, to count, that `Requests` is finite.
`NothingLost` needs that a pair on offer in a cache entry is nobody's yet (`Apart`), so that
no rotation or logout spends it before it is read. Then, invocation after invocation, the
copy of the one that runs is the file's wherever it asks or rotates (`Steady`), and the file's
pair is good unless that invocation has spent it and is about to write (`FileGood`).

The frozen final rows of the three queues and of a digest's runs, the completion stamps and
`DrainLeavesDigests` are proved and not run again by TLC; `ImplementsJourney` and `SentIsDelivered`
depend on the same guards.

Every invariant and action property that a passing run checks is stated by a theorem.
Only model-checked is liveness under fairness, which is out of the prover's reach:
`EveryRunSettles`, `EveryWindowCloses`, `EventuallyRecorded`, `EventuallyTriggered`,
`EveryJobSettles`, `EveryMailSettles`, `EveryCommandEnds` and `ApprovedSignsIn`. The two
violation runs stay with TLC as well: they exhibit a behaviour.


## 5. Findings

Two statements of the sources are refuted by what the code does. Each has a run
in which TLC exhibits it, and an entry in PROJECT.json with both places.

- `chain_stalled`. "No silently stalled chain". The advance looks for the next action by
  the rank its run loaded before the verdict. An action inserted ahead meanwhile
  makes the action its own successor, and the item stops; a removal ahead makes it
  skip one.
- `cli_wiped`. "The local pair is dead; wipe". An invocation whose rotation is refused
  writes its cleared copy over the file. If another invocation rotated the pair both had
  loaded, and has saved the new one, it is the good pair that is wiped.

Two more were found by runs that are not kept:

- `services/digest.py:83-87` says of an arrival "Either way: no orphan". For a chain's
  head the trigger opens the window in one transaction and inserts runs afterwards; a
  flush in between closes the window under them, and they wait for a later arrival to
  reopen it. (`NoOrphan` fails with `IsHead = TRUE`.)
- `operations/backfill.py:193-195` says a replace "regenerates the whole chain". A
  downstream run in flight when the old runs are deleted stays, and the regenerated
  target's advance finds it there and queues nothing: the tail keeps the result of the
  old input. (`ReplaceRegenerates` without its proviso on `busy` fails.)

Two comments differ from the code next to them, and the models follow the code:
`feeds/services/polling.py:253` says a connector skips entries with `occurred_at <= since`,
while the connectors keep the tie; the CLI's `TokensApi.revoke` expects a 200 for a token
that is already revoked, while the view's authentication answers 401.

The models show further behaviours that no run is spent on, since the effect is small
or the sources accept it:

- RunQueue: a delivery row is created after the call, so a crash between them leaves
  no trace of it; a claim of a pass older than the stale timeout is stale at once and
  is reaped alive; the read after the claim may see a later claim's attempts, and two
  live executors hold one claim. The compare-and-set keeps the rows right; the cost is
  a duplicate call.
- DigestWindow: a reopened window flushed early from a list of due windows read
  before; a `close_at` anchored at the start of a long pass; a backfill of a digest action
  delivered instantly, as no window row exists yet; an edit to instant between an
  advance's read of the config and its opening of the window; retryable failures of an
  instant action that nobody takes once it is a digest.
- FeedPoll: the entry on the watermark recorded again, and given to every watch again,
  when its source stays quiet for longer than the retention; a seek to the floor with
  a source that fails beside a healthy one, or a source created below the floor,
  which `feeds/policy.py` documents; a subreddit that a cut walk reached in part.
- WatchTrigger: a row that appears under a greater ULID, after a lapsed poll lease, is
  below the watermark already.
- DigestWindow: while slice-fulls of new runs keep coming, `digest_batch` gathers them before
  a run that has failed once, which then neither settles nor uses up its attempts, although
  `fail_batch` says each run "is bounded and terminates".
- OutboundMail: a copy more whenever a send raises after the server took the mail, since
  `fail` puts the row back; and one for each row a pass reaps from a live pass beside it, of
  which one lapse can cause several.
- CliSession: a rotation whose handler read the row before a logout revoked it mints a good
  pair all the same, for the client that asked; an answer to a rotation that is lost signs
  the user out; the update check or a later save of an overlapping invocation brings an
  older, dead pair back.


## 6. Not modelled

- The verdicts of actions, prompts, templates, schemas: a verdict is any outcome
  the action protocol allows. Which action types may gate or call out is kept.
- Connectors, engine, HTTP and SMTP: network I/O; only their outcomes appear. Of the
  Reddit walk only its order and its depth are kept.
- Feed records: a retention that is raised, or a feed that is deleted, during a poll.
- A run's error texts, results and delivery payloads: no property reads them.
- Cursor batching, chunk sizes, query plans, indexes. Isolation is Postgres READ
  COMMITTED: one statement is one step, a transaction is one step where its row
  locks or unique keys make it so.
- Personal access tokens, the browser's cookie session and signup: rows that do not rotate.
- Accounts, links, waitlist, telemetry, plugins, CLI commands, web client: single
  rows, start-up code or clients. They are most of the repository's lines, and the
  state they keep is not shared between processes in a way a model could go wrong
  about. The components list in PROJECT.json says so one by one.


## 7. What could follow

1. A composition of FeedPoll's log with WatchTrigger, and of WatchTrigger with RunQueue through
   `Enqueue`, to carry "nothing skipped" from the publisher to the result. The
   proofs of the parts already meet at the item log and at the run table.
2. Deletion of a feed under a running poll and trigger.
