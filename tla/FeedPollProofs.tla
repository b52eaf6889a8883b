--------------------------- MODULE FeedPollProofs ---------------------------
(***************************************************************************)
(* Safety of the poll cycle for any number of sources, subreddits, entries *)
(* and pollers and any bounds: types, NothingSkipped, LogCoversWindow and  *)
(* AgainOnlyAtBoundary.                                                    *)
(*                                                                         *)
(* None of the safety properties is inductive.  That an advance skips      *)
(* nothing rests on what the poller holds between the fetch and the        *)
(* advance (InFlight), which for a subreddit rests on what the combined    *)
(* request brought for those yet to be served (Gathered); that the log     *)
(* covers the window rests on a row never being older than its entry       *)
(* (RowsFollowEntries), and all of them on nothing but published entries   *)
(* ever reaching a poller or the log (OnlyPublished).  AgainOnlyAtBoundary *)
(* needs an invariant of its own (AgainInv, in the second half).           *)
(***************************************************************************)
EXTENDS FeedPoll, WellFoundedInduction, TLAPS

OnlyPublished ==
    /\ \A e \in ever : Published(e)
    /\ \A p \in Pollers : \A e \in got[p] : Published(e)
    /\ \A e \in Events : HasRow(e) => e \in ever

RowsFollowEntries == \A e \in Events : HasRow(e) => at[e] <= born[e]

\* The subreddits and the other sources are polled apart.
Phases ==
    \A p \in Pollers :
        /\ pc[p] \in {"group", "chunk"} => todo[p] \subseteq Combined
        /\ pc[p] = "cycle" => todo[p] \cap Combined = {}
        /\ pc[p] = "source" =>
             /\ cur[p] \in Sources
             /\ IF cur[p] \in Combined THEN todo[p] \subseteq Combined
                                       ELSE todo[p] \cap Combined = {}

\* Between the combined request and the last subreddit's turn.
Serving(p) == pc[p] = "chunk" \/ (pc[p] = "source" /\ cur[p] \in Combined)

\* The poller holds, has recorded or could not reach every entry of a subreddit yet to
\* be served that lies between its mark and any entry it holds.
Gathered ==
    \A p \in Pollers : Serving(p) =>
        \A x \in got[p], e \in Events :
            /\ from[x] \in todo[p] /\ from[e] = from[x]
            /\ seen[p][from[x]] <= at[e] /\ at[e] < at[x]
            => e \in got[p] \cup ever \cup lost

\* A poller that polls a source has recorded, still holds or could not reach every
\* entry between the mark it read and the newest it was offered.
InFlight ==
    \A p \in Pollers : pc[p] = "source" =>
        \A e \in Events :
            /\ from[e] = cur[p] /\ Published(e)
            /\ seen[p][cur[p]] <= at[e] /\ at[e] < newest[p]
            => e \in got[p] \cup ever \cup lost

IInv ==
    /\ TypeOK
    /\ Phases
    /\ OnlyPublished
    /\ RowsFollowEntries
    /\ Gathered
    /\ InFlight
    /\ NothingSkipped
    /\ LogCoversWindow

\* What the pollers hold, and what happens to a poller that lets go of it.
held == <<pc, seen, todo, cur, got, newest>>

Drops(p) ==
    /\ UNCHANGED <<at, ever>>
    /\ pc'[p] \in {"idle", "rest", "cycle"}
    /\ got' = [got EXCEPT ![p] = {}]
    /\ \A q \in Pollers \ {p} :
         /\ pc'[q] = pc[q] /\ seen'[q] = seen[q] /\ todo'[q] = todo[q]
         /\ cur'[q] = cur[q] /\ newest'[q] = newest[q]

\* The steps that touch nothing a poller holds and no row of the log.
Aside ==
    \/ Tick \/ Expire \/ Lapse
    \/ \E S \in SeekScopes : \E to \in SeekTargets : Seek(S, to)
    \/ \E S \in SUBSET Sources : \E to \in 0..clock : SetSources(S, to)
    \/ UNCHANGED vars

\* The steps of a cycle before it has fetched anything.
Opens(p) == StartCycle(p) \/ ReadGroup(p) \/ ReadSources(p) \/ YieldGroup(p)

Ends(p) == SourceFails(p) \/ Finish(p) \/ Abort(p) \/ Crash(p)

-----------------------------------------------------------------------------
LEMMA InitInv == Init => IInv
<1> SUFFICES ASSUME Init PROVE IInv
  OBVIOUS
<1>1. TypeOK
  <2>1. deep \in BOOLEAN
    BY Zenon DEF Init
  <2>2. healthy \in [Pollers -> BOOLEAN]
    BY Zenon DEF Init
  <2>3. row \in [Sources -> 0..(MaxSets + 1)]
    BY FeedPollAssumption DEF Init
  <2>4. QED
    BY <2>1, <2>2, <2>3, FeedPollAssumption DEF Init, TypeOK, Never, Places
<1>2. Phases /\ OnlyPublished /\ RowsFollowEntries /\ Gathered /\ InFlight
  BY DEF Init, Phases, OnlyPublished, RowsFollowEntries, Gathered, Serving, InFlight,
     Published, HasRow, Never
<1>3. NothingSkipped /\ LogCoversWindow
  BY DEF Init, NothingSkipped, LogCoversWindow, Published, Never
<1> QED
  BY <1>1, <1>2, <1>3 DEF IInv

\* The ways a step can be taken, for the lemmas below.
LEMMA StepCases ==
    ASSUME [Next]_vars
    PROVE  \/ Aside
           \/ \E e \in Events : Publish(e)
           \/ \E p \in Pollers :
                \/ Opens(p) \/ Ends(p) \/ Advance(p)
                \/ \E W \in SUBSET Merged(p) : FetchGroup(p, W)
                \/ \E s \in todo[p] : Serve(p, s) \/ Fetch(p, s)
                \/ \E chunk \in SUBSET Bucket(p, cur[p]) : Record(p, chunk)
BY DEF Next, Start, PollStep, Aside, Opens, Ends

LEMMA AsideKeeps ==
    ASSUME Aside
    PROVE  UNCHANGED <<from, at, born, ever, lost, held>>
<1> USE DEF log, poller, held
<1>1. CASE Tick \/ Expire \/ Lapse
  BY <1>1 DEF Tick, Expire, Lapse
<1>2. ASSUME NEW S \in SeekScopes, NEW to \in SeekTargets, Seek(S, to)
      PROVE  UNCHANGED <<from, at, born, ever, lost, held>>
  BY <1>2 DEF Seek
<1>3. ASSUME NEW S \in SUBSET Sources, NEW to \in 0..clock, SetSources(S, to)
      PROVE  UNCHANGED <<from, at, born, ever, lost, held>>
  BY <1>3 DEF SetSources
<1>4. CASE UNCHANGED vars
  BY <1>4 DEF vars
<1> QED
  BY <1>1, <1>2, <1>3, <1>4 DEF Aside

LEMMA OpensKeeps ==
    ASSUME NEW p \in Pollers, Opens(p)
    PROVE  UNCHANGED <<clock, from, at, mark, origin, born, ever, lost, got>>
BY DEF Opens, StartCycle, ReadGroup, ReadSources, YieldGroup, log, sources

LEMMA EndsDrops ==
    ASSUME TypeOK, NEW p \in Pollers, Ends(p)
    PROVE  Drops(p) /\ UNCHANGED <<clock, from, at, mark, origin, ever, lost>>
<1> USE DEF Drops, log, sources
<1>1. CASE SourceFails(p)
  BY <1>1 DEF TypeOK, SourceFails
<1>2. CASE Finish(p) \/ Abort(p) \/ Crash(p)
  BY <1>2 DEF TypeOK, Finish, Abort, Crash, Reset
<1> QED
  BY <1>1, <1>2 DEF Ends

\* How an advance leaves the source; the mark apart.
LEMMA AdvanceSteps ==
    ASSUME NEW p \in Pollers, Advance(p)
    PROVE  /\ pc' = [pc EXCEPT ![p] = IF cur[p] \notin Combined THEN "cycle"
                                      ELSE IF todo[p] = {} THEN "rest" ELSE "chunk"]
           /\ cur' = [cur EXCEPT ![p] = Nobody]
           /\ newest' = [newest EXCEPT ![p] = 0]
           /\ pc[p] = "source" /\ Bucket(p, cur[p]) = {}
           /\ UNCHANGED <<clock, from, at, row, origin, deep, born, ever, lost, lock,
                          started, read, seen, todo, got, budgets>>
BY DEF Advance, SourceDone, log

\* Everything a combined request may list is an entry.
LEMMA MergedEntries ==
    ASSUME NEW p \in Pollers
    PROVE  \A x \in Merged(p) : x \in Events /\ Published(x)
BY DEF Merged, Offered

-----------------------------------------------------------------------------
\* The types survive every step.
LEMMA TypeStep == TypeOK /\ [Next]_vars => TypeOK'
<1> SUFFICES ASSUME TypeOK, [Next]_vars PROVE TypeOK'
  OBVIOUS
<1> USE FeedPollAssumption DEF Places
<1>1. CASE Tick
  BY <1>1 DEF TypeOK, Tick, log, sources, poller, budgets, Never
<1>2. ASSUME NEW e \in Events, Publish(e) PROVE TypeOK'
  BY <1>2 DEF TypeOK, Publish, log, sources, poller, budgets, Never
<1>3. ASSUME NEW p \in Pollers, StartCycle(p) PROVE TypeOK'
  <2>1. (Existing = {}) \in BOOLEAN
    OBVIOUS
  <2>2. healthy' = [healthy EXCEPT ![p] = (Existing = {})]
    BY <1>3 DEF StartCycle
  <2>3. healthy' \in [Pollers -> BOOLEAN]
    BY <2>1, <2>2, Zenon DEF TypeOK
  <2>4. /\ lock' = p
        /\ pc' = [pc EXCEPT ![p] = "begun"]
        /\ started' = [started EXCEPT ![p] = clock]
        /\ UNCHANGED <<clock, from, at, sources, log, lost, read, seen, todo, cur, got,
                       newest, budgets>>
    BY <1>3 DEF StartCycle
  <2>5. QED
    BY <2>3, <2>4 DEF TypeOK, log, sources, budgets, Never
<1>4. ASSUME NEW p \in Pollers, ReadGroup(p) \/ ReadSources(p) PROVE TypeOK'
  <2>1. PICK S \in SUBSET Sources : Reads(p, S)
    BY <1>4 DEF ReadGroup, ReadSources, Existing
  <2>2. /\ read' \in [Pollers -> [Sources -> 0..(MaxSets + 1)]]
        /\ seen' \in [Pollers -> [Sources -> 0..clock]]
        /\ todo' \in [Pollers -> SUBSET Sources]
    BY <2>1 DEF TypeOK, Reads
  <2>3. pc' \in [Pollers -> Places]
    BY <1>4 DEF TypeOK, ReadGroup, ReadSources
  <2>4. QED
    BY <1>4, <2>2, <2>3 DEF TypeOK, ReadGroup, ReadSources, log, sources, budgets, Never
<1>5. ASSUME NEW p \in Pollers, NEW s \in todo[p], Fetch(p, s) PROVE TypeOK'
  BY <1>5 DEF TypeOK, Fetch, Offered, NewestOf, Published, log, sources, budgets, Never
<1>6. ASSUME NEW p \in Pollers, NEW W \in SUBSET Merged(p), FetchGroup(p, W) PROVE TypeOK'
  <2>1. Kept(p, W) \subseteq Events /\ Stranded(p, W) \subseteq Events
    BY MergedEntries DEF Kept, Stranded
  <2>2. cuts' \in 0..MaxCuts
    BY <1>6 DEF TypeOK, FetchGroup
  <2>3. QED
    BY <1>6, <2>1, <2>2 DEF TypeOK, FetchGroup, log, sources, Never
<1>7. ASSUME NEW p \in Pollers, YieldGroup(p) PROVE TypeOK'
  BY <1>7 DEF TypeOK, YieldGroup, log, sources, budgets, Never
<1>8. ASSUME NEW p \in Pollers, NEW s \in todo[p], Serve(p, s) PROVE TypeOK'
  <2>1. newest' \in [Pollers -> 0..clock]
    BY <1>8 DEF TypeOK, Serve, OwnNewest, NewestOf, Bucket, Never
  <2>2. QED
    BY <1>8, <2>1 DEF TypeOK, Serve, log, sources, budgets, Never
<1>9. ASSUME NEW p \in Pollers, NEW chunk \in SUBSET Bucket(p, cur[p]), Record(p, chunk)
      PROVE  TypeOK'
  BY <1>9 DEF TypeOK, Record, Bucket, HasRow, sources, budgets, Never
<1>10. ASSUME NEW p \in Pollers, Advance(p) PROVE TypeOK'
  <2> DEFINE last == cur[p] \notin Combined \/ todo[p] = {}
  <2>1. mark' \in [Sources -> 0..clock]
    BY <1>10 DEF TypeOK, Advance, Never
  <2>2. (healthy[p] \/ last) \in BOOLEAN
    OBVIOUS
  <2>3. healthy' = [healthy EXCEPT ![p] = healthy[p] \/ last]
    BY <1>10 DEF Advance, SourceDone
  <2>4. healthy' \in [Pollers -> BOOLEAN]
    BY <2>2, <2>3, Zenon DEF TypeOK
  <2>5. pc' \in [Pollers -> Places]
    <3>1. pc' = [pc EXCEPT ![p] = IF cur[p] \notin Combined THEN "cycle"
                                  ELSE IF todo[p] = {} THEN "rest" ELSE "chunk"]
      BY <1>10, AdvanceSteps
    <3>2. QED
      BY <3>1 DEF TypeOK
  <2>6. cur' \in [Pollers -> Sources \cup {Nobody}] /\ newest' \in [Pollers -> 0..clock]
    <3>1. cur' = [cur EXCEPT ![p] = Nobody] /\ newest' = [newest EXCEPT ![p] = 0]
      BY <1>10, AdvanceSteps
    <3>2. QED
      BY <3>1 DEF TypeOK
  <2>7. UNCHANGED <<clock, from, at, row, origin, deep, born, ever, lost, lock, started, read,
                    seen, todo, got, budgets>>
    BY <1>10, AdvanceSteps
  <2>8. QED
    BY <2>1, <2>4, <2>5, <2>6, <2>7 DEF TypeOK, budgets
<1>11. ASSUME NEW p \in Pollers, Finish(p) PROVE TypeOK'
  BY <1>11 DEF TypeOK, Finish, Release, Reset, Outdated, HasRow, sources, budgets, Never
<1>12. ASSUME NEW p \in Pollers, SourceFails(p) PROVE TypeOK'
  BY <1>12 DEF TypeOK, SourceFails, log, sources, Never
<1>13. ASSUME NEW p \in Pollers, Abort(p) PROVE TypeOK'
  BY <1>13 DEF TypeOK, Abort, Release, Reset, log, sources, Never
<1>14. ASSUME NEW p \in Pollers, Crash(p) PROVE TypeOK'
  BY <1>14 DEF TypeOK, Crash, Reset, log, sources, Never
<1>15. CASE Expire
  BY <1>15 DEF TypeOK, Expire, log, sources, poller, budgets, Never
<1>16. CASE Lapse
  BY <1>16 DEF TypeOK, Lapse, log, sources, poller, Never
<1>17. ASSUME NEW S \in SeekScopes, NEW to \in SeekTargets, Seek(S, to) PROVE TypeOK'
  BY <1>17 DEF TypeOK, Seek, SeekTargets, log, poller, Never
<1>18. ASSUME NEW S \in SUBSET Sources, NEW to \in 0..clock, SetSources(S, to)
       PROVE  TypeOK'
  <2>1. row' \in [Sources -> 0..(MaxSets + 1)] /\ sets' \in 0..MaxSets
    BY <1>18 DEF TypeOK, SetSources
  <2>2. mark' \in [Sources -> 0..clock] /\ origin' \in [Sources -> 0..clock]
    BY <1>18 DEF TypeOK, SetSources
  <2>3. deep' \in BOOLEAN
    BY <1>18, Zenon DEF TypeOK, SetSources
  <2>4. QED
    BY <1>18, <2>1, <2>2, <2>3 DEF TypeOK, SetSources, log, poller, Never
<1>19. CASE UNCHANGED vars
  BY <1>19 DEF TypeOK, vars, log, sources, poller, budgets, Never
<1> QED
  BY <1>1, <1>2, <1>3, <1>4, <1>5, <1>6, <1>7, <1>8, <1>9, <1>10, <1>11, <1>12, <1>13,
     <1>14, <1>15, <1>16, <1>17, <1>18, <1>19 DEF Next, Start, PollStep

\* The subreddits and the other sources stay apart.
LEMMA PhaseStep == TypeOK /\ Phases /\ [Next]_vars => Phases'
<1> SUFFICES ASSUME TypeOK, Phases, [Next]_vars PROVE Phases'
  OBVIOUS
<1> USE FeedPollAssumption
<1>1. CASE UNCHANGED <<pc, todo, cur>>
  BY <1>1 DEF Phases
<1>2. ASSUME NEW p \in Pollers, Opens(p) PROVE Phases'
  BY <1>2 DEF TypeOK, Phases, Opens, StartCycle, ReadGroup, ReadSources, YieldGroup, Reads
<1>3. ASSUME NEW p \in Pollers, SourceFails(p) PROVE Phases'
  BY <1>3 DEF TypeOK, Phases, SourceFails
<1>4. ASSUME NEW p \in Pollers, Finish(p) \/ Abort(p) \/ Crash(p) PROVE Phases'
  <2>1. /\ pc'[p] = "idle"
        /\ \A q \in Pollers \ {p} : pc'[q] = pc[q] /\ todo'[q] = todo[q] /\ cur'[q] = cur[q]
    BY <1>4 DEF TypeOK, Finish, Abort, Crash, Reset
  <2>2. QED
    BY <2>1 DEF Phases
<1>5. ASSUME NEW p \in Pollers, Advance(p) PROVE Phases'
  <2>1. /\ pc' = [pc EXCEPT ![p] = IF cur[p] \notin Combined THEN "cycle"
                                   ELSE IF todo[p] = {} THEN "rest" ELSE "chunk"]
        /\ cur' = [cur EXCEPT ![p] = Nobody]
        /\ pc[p] = "source" /\ UNCHANGED todo
    BY <1>5, AdvanceSteps
  <2>2. CASE cur[p] \in Combined
    BY <2>1, <2>2 DEF TypeOK, Phases
  <2>3. CASE cur[p] \notin Combined
    BY <2>1, <2>3 DEF TypeOK, Phases
  <2>4. QED
    BY <2>2, <2>3
<1>6. ASSUME NEW p \in Pollers, NEW W, FetchGroup(p, W) PROVE Phases'
  BY <1>6 DEF TypeOK, Phases, FetchGroup
<1>7. ASSUME NEW p \in Pollers, NEW s \in todo[p], Serve(p, s) \/ Fetch(p, s) PROVE Phases'
  <2>1. /\ pc' = [pc EXCEPT ![p] = "source"]
        /\ cur' = [cur EXCEPT ![p] = s]
        /\ todo' = [todo EXCEPT ![p] = @ \ {s}]
    BY <1>7 DEF Serve, Fetch
  <2>2. s \in Sources
    BY DEF TypeOK
  <2>3. CASE Serve(p, s)
    <3>1. todo[p] \subseteq Combined
      BY <2>3 DEF Phases, Serve
    <3>2. QED
      BY <2>1, <2>2, <3>1 DEF TypeOK, Phases
  <2>4. CASE Fetch(p, s)
    <3>1. todo[p] \cap Combined = {}
      BY <2>4 DEF Phases, Fetch
    <3>2. QED
      BY <2>1, <2>2, <3>1 DEF TypeOK, Phases
  <2>5. QED
    BY <1>7, <2>3, <2>4
<1>8. ASSUME NEW p \in Pollers, NEW chunk, Record(p, chunk) PROVE UNCHANGED <<pc, todo, cur>>
  BY <1>8 DEF Record
<1>9. ASSUME NEW e, Publish(e) PROVE UNCHANGED <<pc, todo, cur>>
  BY <1>9 DEF Publish, poller
<1> QED
  BY <1>1, <1>2, <1>3, <1>4, <1>5, <1>6, <1>7, <1>8, <1>9, StepCases, AsideKeeps
     DEF Ends, held

\* The log stays within what was published, and its rows behind their entries.
LEMMA RowsStep ==
    TypeOK /\ OnlyPublished /\ RowsFollowEntries /\ [Next]_vars
        => OnlyPublished' /\ RowsFollowEntries'
<1> SUFFICES ASSUME TypeOK, OnlyPublished, RowsFollowEntries, [Next]_vars
             PROVE  OnlyPublished' /\ RowsFollowEntries'
  OBVIOUS
<1> USE DEF Published, HasRow, Never
<1>1. CASE UNCHANGED <<at, ever, born, got>>
  BY <1>1 DEF TypeOK, OnlyPublished, RowsFollowEntries
<1>2. ASSUME NEW e \in Events, Publish(e) PROVE OnlyPublished' /\ RowsFollowEntries'
  BY <1>2 DEF TypeOK, OnlyPublished, RowsFollowEntries, Publish, log, poller
<1>3. ASSUME NEW p \in Pollers, NEW s \in todo[p], Fetch(p, s)
      PROVE  OnlyPublished' /\ RowsFollowEntries'
  BY <1>3 DEF TypeOK, OnlyPublished, RowsFollowEntries, Fetch, Offered, log
<1>4. ASSUME NEW p \in Pollers, NEW W \in SUBSET Merged(p), FetchGroup(p, W)
      PROVE  OnlyPublished' /\ RowsFollowEntries'
  <2>1. \A e \in Kept(p, W) : e \in Events /\ at[e] # -1
    BY MergedEntries DEF Kept
  <2>2. QED
    BY <1>4, <2>1 DEF TypeOK, OnlyPublished, RowsFollowEntries, FetchGroup, log
<1>5. ASSUME NEW p \in Pollers, NEW chunk \in SUBSET Bucket(p, cur[p]), Record(p, chunk)
      PROVE  OnlyPublished' /\ RowsFollowEntries'
  BY <1>5 DEF TypeOK, OnlyPublished, RowsFollowEntries, Record, Bucket
<1>6. ASSUME NEW p \in Pollers, Ends(p) PROVE OnlyPublished' /\ RowsFollowEntries'
  <2>1. Drops(p)
    BY <1>6, EndsDrops
  <2>2. \A e \in Events : born'[e] = born[e] \/ born'[e] = Never
    BY <1>6 DEF TypeOK, Ends, SourceFails, Finish, Abort, Crash, log
  <2>3. QED
    BY <2>1, <2>2 DEF TypeOK, OnlyPublished, RowsFollowEntries, Drops
<1>7. ASSUME NEW p \in Pollers, NEW s \in todo[p], Serve(p, s)
      PROVE  OnlyPublished' /\ RowsFollowEntries'
  BY <1>1, <1>7 DEF Serve, log
<1>8. ASSUME NEW p \in Pollers, Opens(p) \/ Advance(p)
      PROVE  OnlyPublished' /\ RowsFollowEntries'
  BY <1>1, <1>8, OpensKeeps, AdvanceSteps
<1>9. CASE Aside
  BY <1>1, <1>9, AsideKeeps DEF held
<1> QED
  BY <1>2, <1>3, <1>4, <1>5, <1>6, <1>7, <1>8, <1>9, StepCases

\* A recorded entry of the retention window keeps its row: the prune cutoff is
\* at or before clock - Retention, and no row is older than its entry.
LEMMA WindowStep ==
    TypeOK /\ OnlyPublished /\ RowsFollowEntries /\ LogCoversWindow /\ [Next]_vars
        => LogCoversWindow'
<1> SUFFICES ASSUME TypeOK, OnlyPublished, RowsFollowEntries, LogCoversWindow, [Next]_vars
             PROVE  LogCoversWindow'
  OBVIOUS
<1> USE FeedPollAssumption DEF Published, HasRow, Never
<1>1. CASE UNCHANGED <<at, ever, born>> /\ clock' \in Nat /\ clock <= clock'
  BY <1>1 DEF TypeOK, LogCoversWindow
<1>2. CASE Aside
  <2>1. clock' \in Nat /\ clock <= clock'
    <3>1. clock' = clock \/ clock' = clock + 1
      BY <1>2 DEF Aside, Tick, Expire, Lapse, Seek, SetSources, vars
    <3>2. QED
      BY <3>1 DEF TypeOK
  <2>2. QED
    BY <1>1, <1>2, <2>1, AsideKeeps
<1>3. ASSUME NEW e \in Events, Publish(e) PROVE LogCoversWindow'
  BY <1>3 DEF TypeOK, OnlyPublished, LogCoversWindow, Publish, log
<1>4. ASSUME NEW p \in Pollers, NEW chunk \in SUBSET Bucket(p, cur[p]), Record(p, chunk)
      PROVE  LogCoversWindow'
  BY <1>4 DEF TypeOK, LogCoversWindow, Record, Bucket
<1>5. ASSUME NEW p \in Pollers, Finish(p) PROVE LogCoversWindow'
  <2> SUFFICES ASSUME NEW e \in ever, at[e] >= clock - Retention
               PROVE  born'[e] # -1
    BY <1>5 DEF LogCoversWindow, Finish
  <2>1. born[e] # -1 /\ born[e] >= at[e]
    BY DEF TypeOK, LogCoversWindow, RowsFollowEntries
  <2>2. ~(born[e] < started[p] - Retention)
    BY <2>1 DEF TypeOK
  <2>3. QED
    BY <1>5, <2>1, <2>2 DEF TypeOK, Finish, Outdated
<1>6. ASSUME NEW p \in Pollers, SourceFails(p) \/ Abort(p) \/ Crash(p) PROVE LogCoversWindow'
  BY <1>1, <1>6 DEF TypeOK, SourceFails, Abort, Crash, log
<1>7. ASSUME NEW p \in Pollers, NEW s \in todo[p], Serve(p, s) \/ Fetch(p, s)
      PROVE  LogCoversWindow'
  BY <1>1, <1>7 DEF TypeOK, Serve, Fetch, log
<1>8. ASSUME NEW p \in Pollers, NEW W, FetchGroup(p, W) PROVE LogCoversWindow'
  BY <1>1, <1>8 DEF TypeOK, FetchGroup, log
<1>9. ASSUME NEW p \in Pollers, Opens(p) \/ Advance(p) PROVE LogCoversWindow'
  BY <1>1, <1>9, OpensKeeps, AdvanceSteps DEF TypeOK
<1> QED
  BY <1>2, <1>3, <1>4, <1>5, <1>6, <1>7, <1>8, <1>9, StepCases DEF Ends

-----------------------------------------------------------------------------
\* A combined request reaches an entry's elders of the same subreddit, or strands them.
LEMMA GroupGathers ==
    ASSUME TypeOK, NEW p \in Pollers, NEW W \in SUBSET Merged(p), IsWalk(W, p),
           NEW x \in Kept(p, W), NEW e \in Events, from[x] \in todo[p], from[e] = from[x],
           seen[p][from[x]] <= at[e], at[e] < at[x]
    PROVE  e \in Kept(p, W) \cup Stranded(p, W)
<1>1. x \in W /\ x \in Merged(p) /\ x \in Events
  BY MergedEntries DEF Kept
<1>2. PICK since \in Earliest(p) : TRUE
  BY <1>1 DEF Merged
<1>3. since <= at[e] /\ at[e] # -1
  BY <1>2 DEF TypeOK, Earliest
<1>4. e \in Merged(p)
  BY <1>2, <1>3 DEF Merged, Offered, Published, Never
<1>5. e \in Kept(p, Merged(p)) /\ (e \in W => e \in Kept(p, W))
  BY <1>4 DEF Kept
<1>6. QED
  BY <1>1, <1>5 DEF Stranded

LEMMA GatheredStep ==
    TypeOK /\ Phases /\ OnlyPublished /\ Gathered /\ [Next]_vars => Gathered'
<1> SUFFICES ASSUME TypeOK, Phases, OnlyPublished, Gathered, [Next]_vars PROVE Gathered'
  OBVIOUS
<1> USE DEF Published, Never, Serving
<1>1. CASE UNCHANGED <<from, at, ever, lost, held>>
  BY <1>1 DEF Gathered, held
<1>2. ASSUME NEW e \in Events, Publish(e) PROVE Gathered'
  BY <1>2 DEF TypeOK, OnlyPublished, Gathered, Publish, log, poller
<1>3. ASSUME NEW p \in Pollers, Opens(p) PROVE Gathered'
  <2>1. UNCHANGED <<from, at, ever, lost, got>>
    BY <1>3, OpensKeeps
  <2>2. /\ ~Serving(p)'
        /\ \A q \in Pollers \ {p} : /\ pc'[q] = pc[q] /\ cur'[q] = cur[q]
                                    /\ todo'[q] = todo[q] /\ seen'[q] = seen[q]
    BY <1>3 DEF TypeOK, Opens, StartCycle, ReadGroup, ReadSources, YieldGroup, Reads
  <2>3. QED
    BY <2>1, <2>2 DEF Gathered
<1>4. ASSUME NEW p \in Pollers, Ends(p) PROVE Gathered'
  <2>1. Drops(p) /\ UNCHANGED <<from, at, ever, lost>>
    BY <1>4, EndsDrops
  <2>2. /\ got'[p] = {}
        /\ \A q \in Pollers \ {p} : /\ got'[q] = got[q] /\ todo'[q] = todo[q]
                                    /\ seen'[q] = seen[q] /\ (Serving(q)' <=> Serving(q))
    BY <2>1 DEF TypeOK, Drops
  <2>3. QED
    BY <2>1, <2>2 DEF Gathered
<1>5. ASSUME NEW p \in Pollers, Advance(p) PROVE Gathered'
  <2>1. UNCHANGED <<from, at, ever, lost, got, seen, todo>>
    BY <1>5, AdvanceSteps
  <2>2. \A q \in Pollers : Serving(q)' => Serving(q)
    BY <1>5, AdvanceSteps DEF TypeOK
  <2>3. QED
    BY <2>1, <2>2 DEF Gathered
<1>6. ASSUME NEW p \in Pollers, NEW W \in SUBSET Merged(p), FetchGroup(p, W) PROVE Gathered'
  <2>1. /\ got' = [got EXCEPT ![p] = Kept(p, W)]
        /\ lost' = lost \cup Stranded(p, W)
        /\ pc' = [pc EXCEPT ![p] = "chunk"]
        /\ UNCHANGED <<from, at, ever, seen, todo, cur>>
        /\ IsWalk(W, p)
    BY <1>6 DEF FetchGroup, log
  <2> SUFFICES ASSUME NEW q \in Pollers, Serving(q)', NEW x \in got'[q], NEW e \in Events,
                      from[x] \in todo[q], from[e] = from[x],
                      seen[q][from[x]] <= at[e], at[e] < at[x]
               PROVE  e \in got'[q] \cup ever \cup lost'
    BY <2>1 DEF Gathered
  <2>2. CASE q = p
    BY <2>1, <2>2, GroupGathers DEF TypeOK
  <2>3. CASE q # p
    BY <2>1, <2>3 DEF TypeOK, Gathered
  <2>4. QED
    BY <2>2, <2>3
<1>7. ASSUME NEW p \in Pollers, NEW s \in todo[p], Serve(p, s) PROVE Gathered'
  BY <1>7 DEF TypeOK, Gathered, Serve, log
<1>8. ASSUME NEW p \in Pollers, NEW s \in todo[p], Fetch(p, s) PROVE Gathered'
  BY <1>8 DEF TypeOK, Phases, Gathered, Fetch, log
<1>9. ASSUME NEW p \in Pollers, NEW chunk \in SUBSET Bucket(p, cur[p]), Record(p, chunk)
      PROVE  Gathered'
  BY <1>9 DEF TypeOK, Gathered, Record
<1> QED
  BY <1>1, <1>2, <1>3, <1>4, <1>5, <1>6, <1>7, <1>8, <1>9, StepCases, AsideKeeps

\* What a poller was offered and has not recorded it still holds.  An entry
\* published after the fetch occurs at the clock, never before the newest.
LEMMA InFlightStep ==
    TypeOK /\ OnlyPublished /\ Phases /\ Gathered /\ InFlight /\ [Next]_vars => InFlight'
<1> SUFFICES ASSUME TypeOK, OnlyPublished, Phases, Gathered, InFlight, [Next]_vars
             PROVE  InFlight'
  OBVIOUS
<1> USE DEF Published, Never
<1>1. CASE UNCHANGED <<from, at, ever, lost, held>>
  BY <1>1 DEF InFlight, held
<1>2. ASSUME NEW e \in Events, Publish(e) PROVE InFlight'
  BY <1>2 DEF TypeOK, Phases, InFlight, Publish, log, poller
<1>3. ASSUME NEW p \in Pollers, Opens(p) PROVE InFlight'
  BY <1>3, OpensKeeps DEF TypeOK, InFlight, Opens, StartCycle, ReadGroup, ReadSources,
     YieldGroup, Reads
<1>4. ASSUME NEW p \in Pollers, Ends(p) PROVE InFlight'
  BY <1>4, EndsDrops DEF TypeOK, InFlight, Drops
<1>5. ASSUME NEW p \in Pollers, Advance(p) PROVE InFlight'
  <2>1. UNCHANGED <<from, at, ever, lost, got, seen>>
    BY <1>5, AdvanceSteps
  <2>2. /\ pc'[p] # "source"
        /\ \A q \in Pollers \ {p} : /\ pc'[q] = pc[q] /\ cur'[q] = cur[q]
                                    /\ newest'[q] = newest[q]
    <3>1. /\ pc' = [pc EXCEPT ![p] = IF cur[p] \notin Combined THEN "cycle"
                                     ELSE IF todo[p] = {} THEN "rest" ELSE "chunk"]
          /\ cur' = [cur EXCEPT ![p] = Nobody]
          /\ newest' = [newest EXCEPT ![p] = 0]
      BY <1>5, AdvanceSteps
    <3>2. DOMAIN pc = Pollers /\ DOMAIN cur = Pollers /\ DOMAIN newest = Pollers
      BY DEF TypeOK
    <3>3. pc'[p] # "source"
      BY <3>1, <3>2
    <3>4. ASSUME NEW q \in Pollers \ {p}
          PROVE  pc'[q] = pc[q] /\ cur'[q] = cur[q] /\ newest'[q] = newest[q]
      BY <3>1, <3>2
    <3>5. QED
      BY <3>3, <3>4
  <2>3. QED
    <3>1. ASSUME NEW q \in Pollers, pc'[q] = "source"
          PROVE  q # p /\ pc[q] = "source" /\ cur'[q] = cur[q] /\ newest'[q] = newest[q]
      BY <2>2, <3>1
    <3>2. ASSUME NEW q \in Pollers, pc'[q] = "source", NEW e \in Events,
                 from'[e] = cur'[q], at'[e] # Never,
                 seen'[q][cur'[q]] <= at'[e], at'[e] < newest'[q]
          PROVE  e \in got'[q] \cup ever' \cup lost'
      <4>1. /\ from[e] = cur[q] /\ at[e] # Never
            /\ seen[q][cur[q]] <= at[e] /\ at[e] < newest[q]
        BY <2>1, <3>1, <3>2
      <4>2. e \in got[q] \cup ever \cup lost
        BY <3>1, <3>2, <4>1 DEF InFlight
      <4>3. QED
        BY <2>1, <4>2
    <3>3. QED
      BY <3>2 DEF InFlight
<1>6. ASSUME NEW p \in Pollers, NEW W, FetchGroup(p, W) PROVE InFlight'
  BY <1>6 DEF TypeOK, InFlight, FetchGroup, log
<1>7. ASSUME NEW p \in Pollers, NEW s \in todo[p], Serve(p, s) PROVE InFlight'
  <2>1. PICK n \in OwnNewest(p, s) : newest' = [newest EXCEPT ![p] = n]
    BY <1>7 DEF Serve
  <2>2. /\ pc[p] = "chunk" /\ s \in Sources
        /\ pc' = [pc EXCEPT ![p] = "source"]
        /\ cur' = [cur EXCEPT ![p] = s]
        /\ UNCHANGED <<from, at, ever, lost, seen, got>>
    BY <1>7 DEF TypeOK, Serve, log
  <2> SUFFICES ASSUME NEW q \in Pollers, pc'[q] = "source", NEW e \in Events,
                      from[e] = cur'[q], at[e] # -1,
                      seen[q][cur'[q]] <= at[e], at[e] < newest'[q]
               PROVE  e \in got[q] \cup ever \cup lost
    BY <2>2 DEF InFlight
  <2>3. CASE q = p
    <3>1. from[e] = s /\ seen[p][s] <= at[e] /\ at[e] < n
      BY <2>1, <2>2, <2>3 DEF TypeOK
    <3>2. n # seen[p][s]
      BY <2>2, <3>1 DEF TypeOK
    <3>3. PICK x \in got[p] : from[x] = s /\ n = at[x]
      BY <3>2 DEF OwnNewest, NewestOf, Bucket
    <3>4. QED
      BY <2>2, <2>3, <3>1, <3>3 DEF Gathered, Serving
  <2>4. CASE q # p
    BY <2>1, <2>2, <2>4 DEF TypeOK, InFlight
  <2>5. QED
    BY <2>3, <2>4
<1>8. ASSUME NEW p \in Pollers, NEW s \in todo[p], Fetch(p, s) PROVE InFlight'
  BY <1>8 DEF TypeOK, InFlight, Fetch, Offered, log
<1>9. ASSUME NEW p \in Pollers, NEW chunk \in SUBSET Bucket(p, cur[p]), Record(p, chunk)
      PROVE  InFlight'
  BY <1>9 DEF TypeOK, InFlight, Record
<1> QED
  BY <1>1, <1>2, <1>3, <1>4, <1>5, <1>6, <1>7, <1>8, <1>9, StepCases, AsideKeeps

\* The watermark skips nothing: an advance starts from the mark the poller
\* read, a seek or a new row starts the count anew.
LEMMA SkipStep ==
    TypeOK /\ Phases /\ InFlight /\ NothingSkipped /\ [Next]_vars => NothingSkipped'
<1> SUFFICES ASSUME TypeOK, Phases, InFlight, NothingSkipped, [Next]_vars
             PROVE  NothingSkipped'
  OBVIOUS
<1> USE DEF Published, Never
<1>1. CASE UNCHANGED <<from, at, mark, origin>> /\ ever \subseteq ever' /\ lost \subseteq lost'
  BY <1>1 DEF NothingSkipped
<1>2. ASSUME NEW e \in Events, Publish(e) PROVE NothingSkipped'
  BY <1>2 DEF TypeOK, NothingSkipped, Publish, log, sources
<1>3. ASSUME NEW p \in Pollers, Advance(p) PROVE NothingSkipped'
  <2> DEFINE s == cur[p]
  <2>1. s \in Sources /\ Bucket(p, s) = {}
    BY <1>3 DEF Advance, Phases
  <2>2. UNCHANGED <<from, at, origin, ever, lost>>
    BY <1>3 DEF Advance, log
  <2>3. CASE mark' = mark
    BY <2>2, <2>3 DEF NothingSkipped
  <2>4. CASE mark[s] = seen[p][s] /\ mark' = [mark EXCEPT ![s] = newest[p]]
    <3> SUFFICES ASSUME NEW e \in Events, at[e] # -1,
                        origin[from[e]] <= at[e], at[e] < mark'[from[e]]
                 PROVE  e \in ever \cup lost
      BY <2>2 DEF NothingSkipped
    <3>1. CASE from[e] = s /\ mark[s] <= at[e]
      <4>1. e \in got[p] \cup ever \cup lost
        BY <1>3, <2>1, <2>4, <3>1 DEF TypeOK, InFlight, Advance
      <4>2. QED
        BY <2>1, <3>1, <4>1 DEF Bucket
    <3>2. CASE from[e] # s \/ at[e] < mark[s]
      BY <2>1, <2>4, <3>2 DEF TypeOK, NothingSkipped
    <3>3. QED
      BY <3>1, <3>2 DEF TypeOK
  <2>5. QED
    BY <1>3, <2>3, <2>4 DEF Advance, MarkUnmoved
<1>4. ASSUME NEW S \in SeekScopes, NEW to \in SeekTargets, Seek(S, to)
      PROVE  NothingSkipped'
  BY <1>4 DEF TypeOK, NothingSkipped, Seek, SeekTargets, Existing, log
<1>5. ASSUME NEW S \in SUBSET Sources, NEW to \in 0..clock, SetSources(S, to)
      PROVE  NothingSkipped'
  BY <1>5 DEF TypeOK, NothingSkipped, SetSources, log
<1>6. CASE Tick \/ Expire \/ Lapse \/ UNCHANGED vars
  BY <1>1, <1>6 DEF Tick, Expire, Lapse, vars, log, sources
<1>7. ASSUME NEW p \in Pollers, NEW chunk, Record(p, chunk) PROVE NothingSkipped'
  BY <1>1, <1>7 DEF Record, sources
<1>8. ASSUME NEW p \in Pollers, NEW s \in todo[p], Serve(p, s) \/ Fetch(p, s)
      PROVE  NothingSkipped'
  BY <1>1, <1>8 DEF Serve, Fetch, log, sources
<1>9. ASSUME NEW p \in Pollers, NEW W, FetchGroup(p, W) PROVE NothingSkipped'
  BY <1>1, <1>9 DEF FetchGroup, log, sources
<1>10. ASSUME NEW p \in Pollers, Opens(p) \/ Ends(p) PROVE NothingSkipped'
  BY <1>1, <1>10, OpensKeeps, EndsDrops
<1> QED
  BY <1>2, <1>3, <1>4, <1>5, <1>6, <1>7, <1>8, <1>9, <1>10, StepCases DEF Aside

-----------------------------------------------------------------------------
LEMMA InvStep == IInv /\ [Next]_vars => IInv'
BY TypeStep, PhaseStep, RowsStep, WindowStep, GatheredStep, InFlightStep, SkipStep DEF IInv

\* The inductive invariant holds in every reachable state.
THEOREM Invariance == Spec => []IInv
<1>1. Init => IInv
  BY InitInv
<1>2. IInv /\ [Next]_vars => IInv'
  BY InvStep
<1>3. QED
  BY <1>1, <1>2, PTL DEF Spec

\* No watermark, no copy of one and no cycle start ever lies in the future.
THEOREM TypeCorrect == Spec => []TypeOK
<1>1. IInv => TypeOK
  BY DEF IInv
<1>2. QED
  BY <1>1, Invariance, PTL

\* The watermark never passes over an entry that is not recorded.
THEOREM WatermarkSkipsNothing == Spec => []NothingSkipped
<1>1. IInv => NothingSkipped
  BY DEF IInv
<1>2. QED
  BY <1>1, Invariance, PTL

\* The item log covers the retention window the seek floor relies on.
THEOREM WindowStaysCovered == Spec => []LogCoversWindow
<1>1. IInv => LogCoversWindow
  BY DEF IInv
<1>2. QED
  BY <1>1, Invariance, PTL

-----------------------------------------------------------------------------
(* AgainOnlyAtBoundary.  While there is no trouble, no mark is below an    *)
(* entry that was pruned (GoneBehind), so no poll reads one that is.  That *)
(* a prune keeps to this rests on the whole cycle before it: each source   *)
(* is still to be read, or to be polled from the mark that was read, or    *)
(* its mark is past all that the prune may take (Settled), because a poll  *)
(* brings all of it (Brought, Caught) and nobody else is at work.          *)

\* A poller at work holds the lease.
LeaseHeld == lapses = 0 => \A p \in Pollers : pc[p] # "idle" => lock = p

\* What is to be polled, by place.
Placed ==
    \A p \in Pollers :
        /\ pc[p] \in {"idle", "begun", "rest"} => todo[p] = {}
        /\ pc[p] = "source" => cur[p] \notin todo[p]

\* Nothing below the mark is held.
AboveMark ==
    \A p \in Pollers : pc[p] \in {"chunk", "source"} =>
        \A e \in got[p] : seen[p][from[e]] <= at[e]

\* Recorded and pruned since.
Gone(e) == e \in ever /\ ~HasRow(e)

GoneBehind == \A e \in Events : Gone(e) /\ row[from[e]] # 0 => at[e] <= mark[from[e]]

\* p has yet to read the row of s, or to poll s.
Unread(p, s) ==
    \/ pc[p] = "begun"
    \/ s \notin Combined /\ pc[p] \in {"group", "chunk", "rest"}
    \/ s \notin Combined /\ pc[p] = "source" /\ cur[p] \in Combined
Pending(p, s) == s \in todo[p] \/ (pc[p] = "source" /\ cur[p] = s)

\* Entry e is one that the cycle of p may prune.
Elder(p, e) == Published(e) /\ at[e] < started[p] - Retention

Past(p, s) == \A e \in Events : Elder(p, e) /\ from[e] = s => at[e] <= mark[s]

Settled(p, s) ==
    /\ \/ Past(p, s)
       \/ Unread(p, s)
       \/ Pending(p, s) /\ MarkUnmoved(p, s)
       \/ Sources = {s} /\ ~Pending(p, s) /\ ~healthy[p]
    /\ Sources = {s} => Past(p, s) \/ ~healthy[p]

SeenPastGone(p) ==
    \A e \in Events : Gone(e) /\ Pending(p, from[e]) => at[e] <= seen[p][from[e]]

Caught(p) ==
    pc[p] = "source" =>
        \A e \in Events : Elder(p, e) /\ from[e] = cur[p] => at[e] <= newest[p]

Brought(p) ==
    Serving(p) =>
        \A e \in Events :
            Elder(p, e) /\ from[e] \in todo[p] /\ seen[p][from[e]] <= at[e] => e \in got[p]

Cycle(p) ==
    /\ \A s \in Sources : row[s] # 0 => Settled(p, s)
    /\ SeenPastGone(p)
    /\ Caught(p)
    /\ Brought(p)

Cycles == \A p \in Pollers : pc[p] # "idle" => Cycle(p)

AgainInv ==
    /\ IInv
    /\ LeaseHeld
    /\ Placed
    /\ AboveMark
    /\ ~Trouble => GoneBehind /\ Cycles

-----------------------------------------------------------------------------
\* Trouble is for good.
Worsens ==
    /\ lapses' \in {lapses, lapses + 1}
    /\ cuts' \in {cuts, cuts + 1}
    /\ faults' \in {faults, faults + 1}
    /\ deep => deep'

LEMMA TroubleWorsens == [Next]_vars => Worsens
<1> USE DEF Worsens, sources, budgets
<1>1. CASE Aside
  <2>1. ASSUME NEW S \in SUBSET Sources, NEW to \in 0..clock, SetSources(S, to) PROVE Worsens
    <3>1. deep => deep'
      BY <2>1, Zenon DEF SetSources
    <3>2. QED
      BY <2>1, <3>1 DEF SetSources
  <2>2. ASSUME NEW S \in SeekScopes, NEW to \in SeekTargets, Seek(S, to) PROVE Worsens
    BY <2>2 DEF Seek
  <2>3. CASE Tick \/ Expire \/ Lapse \/ UNCHANGED vars
    BY <2>3 DEF Tick, Expire, Lapse, vars
  <2>4. QED
    BY <1>1, <2>1, <2>2, <2>3 DEF Aside
<1>2. ASSUME NEW e, Publish(e) PROVE Worsens
  BY <1>2 DEF Publish
<1>3. ASSUME NEW p \in Pollers, Opens(p) \/ Ends(p) \/ Advance(p) PROVE Worsens
  BY <1>3, AdvanceSteps DEF Opens, StartCycle, ReadGroup, ReadSources, YieldGroup, Ends,
     SourceFails, Finish, Abort, Crash
<1>4. ASSUME NEW p \in Pollers, NEW W, FetchGroup(p, W) PROVE Worsens
  BY <1>4 DEF FetchGroup
<1>5. ASSUME NEW p \in Pollers, NEW s, Serve(p, s) \/ Fetch(p, s) \/ Record(p, s) PROVE Worsens
  BY <1>5 DEF Serve, Fetch, Record
<1> QED
  BY <1>1, <1>2, <1>3, <1>4, <1>5, StepCases

LEMMA TroubleStays == TypeOK /\ [Next]_vars /\ ~Trouble' => ~Trouble
<1> SUFFICES ASSUME TypeOK, [Next]_vars, Trouble PROVE Trouble'
  OBVIOUS
<1>1. lapses \in Nat /\ cuts \in Nat /\ faults \in Nat
  BY FeedPollAssumption DEF TypeOK
<1>2. QED
  BY <1>1, TroubleWorsens DEF Trouble, Worsens

\* One poller's step leaves the others where they are.
Elsewhere(p) ==
    \A q \in Pollers \ {p} :
        /\ pc'[q] = pc[q] /\ todo'[q] = todo[q] /\ cur'[q] = cur[q]
        /\ seen'[q] = seen[q] /\ got'[q] = got[q]

\* The poller at work keeps the lease, lets go of it as it stops or takes a free one.
HandsOver(p) ==
    \/ pc[p] # "idle" /\ lock' = lock
    \/ pc[p] # "idle" /\ pc'[p] = "idle" /\ (lock = p \/ lock' = lock)
    \/ pc[p] = "idle" /\ lock = Nobody /\ lock' = p

LEMMA OnePoller ==
    ASSUME TypeOK, NEW p \in Pollers,
           \/ Opens(p) \/ Ends(p) \/ Advance(p)
           \/ \E W \in SUBSET Merged(p) : FetchGroup(p, W)
           \/ \E s \in todo[p] : Serve(p, s) \/ Fetch(p, s)
           \/ \E chunk \in SUBSET Bucket(p, cur[p]) : Record(p, chunk)
    PROVE  Elsewhere(p) /\ HandsOver(p)
<1> USE DEF Elsewhere, HandsOver
<1>1. CASE StartCycle(p)
  BY <1>1 DEF TypeOK, StartCycle
<1>2. CASE ReadGroup(p) \/ ReadSources(p) \/ YieldGroup(p)
  BY <1>2 DEF TypeOK, ReadGroup, ReadSources, YieldGroup, Reads
<1>3. CASE SourceFails(p)
  BY <1>3 DEF TypeOK, SourceFails
<1>4. CASE Finish(p) \/ Abort(p) \/ Crash(p)
  BY <1>4 DEF TypeOK, Finish, Abort, Crash, Reset, Release
<1>5. CASE Advance(p)
  BY <1>5, AdvanceSteps DEF TypeOK
<1>6. ASSUME NEW W, FetchGroup(p, W) PROVE Elsewhere(p) /\ HandsOver(p)
  BY <1>6 DEF TypeOK, FetchGroup
<1>7. ASSUME NEW s, Serve(p, s) \/ Fetch(p, s) \/ Record(p, s) PROVE Elsewhere(p) /\ HandsOver(p)
  BY <1>7 DEF TypeOK, Serve, Fetch, Record
<1> QED
  BY <1>1, <1>2, <1>3, <1>4, <1>5, <1>6, <1>7 DEF Opens, Ends

LEMMA LeaseStep == TypeOK /\ LeaseHeld /\ [Next]_vars => LeaseHeld'
<1> SUFFICES ASSUME TypeOK, LeaseHeld, [Next]_vars PROVE LeaseHeld'
  OBVIOUS
<1> USE FeedPollAssumption DEF LeaseHeld
<1>1. lapses' = 0 => lapses = 0
  BY TroubleWorsens DEF Worsens, TypeOK
<1>2. CASE Lapse
  BY <1>2 DEF Lapse, TypeOK
<1>3. CASE Expire
  BY <1>3 DEF Expire, TypeOK, poller, budgets
<1>4. CASE Aside /\ ~Lapse /\ ~Expire
  BY <1>4, <1>1 DEF Aside, Tick, Seek, SetSources, vars, poller
<1>5. ASSUME NEW e, Publish(e) PROVE LeaseHeld'
  BY <1>5, <1>1 DEF Publish, poller
<1>6. ASSUME NEW p \in Pollers, Elsewhere(p), HandsOver(p) PROVE LeaseHeld'
  BY <1>6, <1>1 DEF Elsewhere, HandsOver
<1> QED
  BY <1>2, <1>3, <1>4, <1>5, <1>6, OnePoller, StepCases

LEMMA PlacedStep == TypeOK /\ Phases /\ Placed /\ [Next]_vars => Placed'
<1> SUFFICES ASSUME TypeOK, Phases, Placed, [Next]_vars PROVE Placed'
  OBVIOUS
<1>1. CASE UNCHANGED <<pc, todo, cur>>
  BY <1>1 DEF Placed
<1>2. ASSUME NEW p \in Pollers, Elsewhere(p),
             pc'[p] \in {"idle", "begun", "rest"} => todo'[p] = {},
             pc'[p] = "source" => cur'[p] \notin todo'[p]
      PROVE  Placed'
  BY <1>2 DEF Placed, Elsewhere
<1>3. ASSUME NEW p \in Pollers, Opens(p)
      PROVE  /\ pc'[p] \in {"idle", "begun", "rest"} => todo'[p] = {}
             /\ pc'[p] = "source" => cur'[p] \notin todo'[p]
  BY <1>3 DEF TypeOK, Placed, Opens, StartCycle, ReadGroup, ReadSources, YieldGroup, Reads
<1>4. ASSUME NEW p \in Pollers, Ends(p)
      PROVE  /\ pc'[p] \in {"idle", "begun", "rest"} => todo'[p] = {}
             /\ pc'[p] = "source" => cur'[p] \notin todo'[p]
  BY <1>4 DEF TypeOK, Placed, Ends, SourceFails, Finish, Abort, Crash, Reset
<1>5. ASSUME NEW p \in Pollers, Advance(p)
      PROVE  /\ pc'[p] \in {"idle", "begun", "rest"} => todo'[p] = {}
             /\ pc'[p] = "source" => cur'[p] \notin todo'[p]
  BY <1>5, AdvanceSteps DEF TypeOK
<1>6. ASSUME NEW p \in Pollers, NEW W, FetchGroup(p, W)
      PROVE  /\ pc'[p] \in {"idle", "begun", "rest"} => todo'[p] = {}
             /\ pc'[p] = "source" => cur'[p] \notin todo'[p]
  BY <1>6 DEF TypeOK, FetchGroup
<1>7. ASSUME NEW p \in Pollers, NEW s, Serve(p, s) \/ Fetch(p, s)
      PROVE  /\ pc'[p] \in {"idle", "begun", "rest"} => todo'[p] = {}
             /\ pc'[p] = "source" => cur'[p] \notin todo'[p]
  BY <1>7 DEF TypeOK, Serve, Fetch
<1>8. ASSUME NEW p \in Pollers, NEW chunk, Record(p, chunk) PROVE UNCHANGED <<pc, todo, cur>>
  BY <1>8 DEF Record
<1>9. ASSUME NEW e, Publish(e) PROVE UNCHANGED <<pc, todo, cur>>
  BY <1>9 DEF Publish, poller
<1> QED
  BY <1>1, <1>2, <1>3, <1>4, <1>5, <1>6, <1>7, <1>8, <1>9, OnePoller, StepCases, AsideKeeps
     DEF held

LEMMA AboveStep == TypeOK /\ OnlyPublished /\ AboveMark /\ [Next]_vars => AboveMark'
<1> SUFFICES ASSUME TypeOK, OnlyPublished, AboveMark, [Next]_vars PROVE AboveMark'
  OBVIOUS
<1> USE DEF Published, Never
<1>1. CASE UNCHANGED <<from, at, held>>
  BY <1>1 DEF AboveMark, held
<1>2. ASSUME NEW e \in Events, Publish(e) PROVE AboveMark'
  BY <1>2 DEF TypeOK, OnlyPublished, AboveMark, Publish, poller
<1>3. ASSUME NEW p \in Pollers, Elsewhere(p), UNCHANGED <<from, at>>,
             pc'[p] \in {"chunk", "source"} => \A e \in got'[p] : seen'[p][from[e]] <= at[e]
      PROVE  AboveMark'
  BY <1>3 DEF AboveMark, Elsewhere
<1>4. ASSUME NEW p \in Pollers, Opens(p) \/ Ends(p)
      PROVE  UNCHANGED <<from, at>> /\ pc'[p] \notin {"chunk", "source"}
  BY <1>4, OpensKeeps, EndsDrops
     DEF TypeOK, Opens, StartCycle, ReadGroup, ReadSources, YieldGroup, Drops
<1>5. ASSUME NEW p \in Pollers, Advance(p)
      PROVE  UNCHANGED <<from, at>> /\ \A e \in got'[p] : seen'[p][from[e]] <= at[e]
  BY <1>5, AdvanceSteps DEF AboveMark
<1>6. ASSUME NEW p \in Pollers, NEW W \in SUBSET Merged(p), FetchGroup(p, W)
      PROVE  UNCHANGED <<from, at>> /\ \A e \in got'[p] : seen'[p][from[e]] <= at[e]
  BY <1>6 DEF TypeOK, FetchGroup, Kept
<1>7. ASSUME NEW p \in Pollers, NEW s, Serve(p, s)
      PROVE  UNCHANGED <<from, at>> /\ \A e \in got'[p] : seen'[p][from[e]] <= at[e]
  BY <1>7 DEF AboveMark, Serve
<1>8. ASSUME NEW p \in Pollers, NEW s, Fetch(p, s)
      PROVE  UNCHANGED <<from, at>> /\ \A e \in got'[p] : seen'[p][from[e]] <= at[e]
  BY <1>8 DEF TypeOK, Fetch, Offered
<1>9. ASSUME NEW p \in Pollers, NEW chunk, Record(p, chunk)
      PROVE  UNCHANGED <<from, at>> /\ \A e \in got'[p] : seen'[p][from[e]] <= at[e]
  BY <1>9 DEF TypeOK, AboveMark, Record
<1> QED
  BY <1>1, <1>2, <1>3, <1>4, <1>5, <1>6, <1>7, <1>8, <1>9, OnePoller, StepCases, AsideKeeps

-----------------------------------------------------------------------------
(* While leases hold, one poller at most is at work: the others' cycles    *)
(* are no concern of its steps, and time, publishers and the operator put  *)
(* a mark nowhere below the retention window.                              *)

Base == IInv /\ LeaseHeld /\ Placed /\ AboveMark

\* What the outside does to the marks and the entries.
Remarks ==
    /\ UNCHANGED <<from, born, ever, started, read, pc, seen, todo, cur, got, newest, healthy>>
    /\ \A e \in Events : at'[e] = at[e] \/ (~Published(e) /\ at'[e] = clock)
    /\ \A s \in Sources :
         row'[s] # 0 => \/ row'[s] = row[s] /\ mark'[s] = mark[s]
                        \/ mark'[s] >= clock - Retention

LEMMA OutsideRemarks ==
    ASSUME TypeOK, ~Trouble', Aside \/ \E e \in Events : Publish(e)
    PROVE  Remarks
<1> USE DEF Remarks, log, poller, sources
<1>1. CASE Tick \/ Expire \/ Lapse \/ UNCHANGED vars
  BY <1>1 DEF Tick, Expire, Lapse, vars
<1>2. ASSUME NEW e \in Events, Publish(e) PROVE Remarks
  BY <1>2 DEF Publish, TypeOK
<1>3. ASSUME NEW S \in SeekScopes, NEW to \in SeekTargets, Seek(S, to) PROVE Remarks
  BY <1>3 DEF Seek, SeekTargets, TypeOK
<1>4. ASSUME NEW S \in SUBSET Sources, NEW to \in 0..clock, SetSources(S, to) PROVE Remarks
  <2>1. ~deep'
    BY DEF Trouble
  <2>2. S \subseteq Existing \/ ~(to < clock - Retention)
    BY <1>4, <2>1, Zenon DEF SetSources
  <2>3. S \subseteq Existing \/ to >= clock - Retention
    BY <2>2, FeedPollAssumption DEF TypeOK
  <2>4. \A s \in Sources :
          row'[s] # 0 => \/ row'[s] = row[s] /\ mark'[s] = mark[s]
                         \/ mark'[s] >= clock - Retention
    BY <1>4, <2>3 DEF SetSources, Existing, TypeOK
  <2>5. QED
    BY <1>4, <2>4 DEF SetSources
<1>5. QED
  BY <1>1, <1>2, <1>3, <1>4 DEF Aside

LEMMA RemarkedGone ==
    ASSUME IInv, TypeOK', GoneBehind, Remarks
    PROVE  GoneBehind'
<1> USE FeedPollAssumption DEF Published, HasRow, Never, Gone
<1> SUFFICES ASSUME NEW e \in Events, Gone(e)', row'[from[e]] # 0
             PROVE  at'[e] <= mark'[from[e]]
  BY DEF GoneBehind, Remarks
<1>1. Gone(e) /\ at[e] # -1 /\ at'[e] = at[e]
  BY DEF Remarks, IInv, OnlyPublished
<1>2. from[e] \in Sources /\ at[e] \in Int /\ clock \in Int
  BY DEF IInv, TypeOK
<1>3. at[e] < clock - Retention
  BY <1>1, <1>2 DEF IInv, LogCoversWindow
<1>4. CASE row'[from[e]] = row[from[e]] /\ mark'[from[e]] = mark[from[e]]
  BY <1>1, <1>4 DEF GoneBehind
<1>5. CASE mark'[from[e]] >= clock - Retention
  <2>1. mark'[from[e]] \in Int /\ Retention \in Int
    BY <1>2 DEF TypeOK
  <2>2. QED
    BY <1>1, <1>2, <1>3, <1>5, <2>1
<1>6. QED
  BY <1>2, <1>4, <1>5 DEF Remarks

LEMMA RemarkedElders ==
    ASSUME TypeOK, Remarks, NEW p \in Pollers, NEW e \in Events, Elder(p, e)'
    PROVE  Elder(p, e) /\ at'[e] = at[e] /\ at[e] \in Int /\ started[p] \in Int
           /\ at[e] < started[p] - Retention /\ started[p] <= clock
BY FeedPollAssumption DEF TypeOK, Remarks, Elder, Published, Never

LEMMA RemarkedCycle ==
    ASSUME IInv, TypeOK', Remarks, NEW p \in Pollers, Cycle(p)
    PROVE  Cycle(p)'
<1> USE FeedPollAssumption
<1>1. TypeOK /\ OnlyPublished
  BY DEF IInv
<1>2. \A s \in Sources : /\ Pending(p, s)' <=> Pending(p, s)
                         /\ Unread(p, s)' <=> Unread(p, s)
                         /\ healthy'[p] = healthy[p]
  BY DEF Remarks, Pending, Unread
<1>3. ASSUME NEW s \in Sources, row'[s] # 0 PROVE Settled(p, s)'
  <2>1. CASE row'[s] = row[s] /\ mark'[s] = mark[s]
    <3>1. Settled(p, s)
      BY <1>3, <2>1 DEF Cycle
    <3>2. Past(p, s) => Past(p, s)'
      BY <1>1, <2>1, RemarkedElders DEF Past, Remarks
    <3>3. MarkUnmoved(p, s)' <=> MarkUnmoved(p, s)
      BY <2>1 DEF MarkUnmoved, Remarks
    <3>4. QED
      BY <1>2, <3>1, <3>2, <3>3 DEF Settled
  <2>2. CASE mark'[s] >= clock - Retention
    <3>1. Past(p, s)'
      <4> SUFFICES ASSUME NEW e \in Events, Elder(p, e)' PROVE at'[e] <= mark'[s]
        BY DEF Past
      <4>1. QED
        BY <1>1, <2>2, RemarkedElders DEF TypeOK
    <3>2. QED
      BY <3>1 DEF Settled
  <2>3. QED
    BY <1>3, <2>1, <2>2 DEF Remarks
<1>4. SeenPastGone(p)'
  <2> SUFFICES ASSUME NEW e \in Events, Gone(e)', Pending(p, from[e])'
               PROVE  at'[e] <= seen'[p][from[e]]
    BY DEF SeenPastGone, Remarks
  <2>1. Gone(e) /\ Pending(p, from[e]) /\ at'[e] = at[e]
    BY <1>1, <1>2 DEF Gone, HasRow, Remarks, OnlyPublished, TypeOK
  <2>2. QED
    BY <2>1 DEF Cycle, SeenPastGone, Remarks
<1>5. Caught(p)'
  BY <1>1, RemarkedElders DEF Cycle, Caught, Remarks
<1>6. Brought(p)'
  BY <1>1, RemarkedElders DEF Cycle, Brought, Serving, Remarks
<1>7. QED
  BY <1>3, <1>4, <1>5, <1>6 DEF Cycle

-----------------------------------------------------------------------------
(* The steps of a cycle.                                                   *)

\* What has become of a source stays so while the poller sees to others.
LEMMA SettledStays ==
    ASSUME NEW p \in Pollers, NEW s \in Sources, Settled(p, s),
           UNCHANGED <<from, at, started, mark, row, read, seen, healthy>>,
           Unread(p, s) => Unread(p, s)', Pending(p, s)' <=> Pending(p, s)
    PROVE  Settled(p, s)'
<1>1. Past(p, s)' <=> Past(p, s)
  BY DEF Past, Elder, Published
<1>2. MarkUnmoved(p, s)' <=> MarkUnmoved(p, s)
  BY DEF MarkUnmoved
<1>3. healthy'[p] = healthy[p]
  OBVIOUS
<1>4. QED
  BY <1>1, <1>2, <1>3, Zenon DEF Settled

LEMMA StartCycles ==
    ASSUME TypeOK, Placed, NEW p \in Pollers, StartCycle(p)
    PROVE  Cycle(p)'
<1>1. pc[p] = "idle" /\ pc'[p] = "begun" /\ todo'[p] = {} /\ row' = row
  BY DEF TypeOK, Placed, StartCycle, sources
<1>2. ASSUME NEW s \in Sources, row'[s] # 0 PROVE Settled(p, s)'
  <2>1. Unread(p, s)'
    BY <1>1 DEF Unread
  <2>2. Existing # {}
    BY <1>1, <1>2 DEF Existing
  <2>3. healthy' = [healthy EXCEPT ![p] = (Existing = {})]
    BY DEF StartCycle
  <2>4. ~healthy'[p]
    BY <2>2, <2>3, Zenon DEF TypeOK
  <2>5. QED
    BY <2>1, <2>4, Zenon DEF Settled
<1>3. SeenPastGone(p)' /\ Caught(p)' /\ Brought(p)'
  BY <1>1 DEF SeenPastGone, Pending, Caught, Brought, Serving
<1>4. QED
  BY <1>2, <1>3 DEF Cycle

LEMMA ReadCycles ==
    ASSUME Base, GoneBehind, NEW p \in Pollers, Cycle(p), ReadGroup(p) \/ ReadSources(p)
    PROVE  Cycle(p)'
<1>1. TypeOK /\ Placed
  BY DEF Base, IInv
<1>2. PICK S \in SUBSET Sources :
        /\ Reads(p, S)
        /\ S = Existing \cap (IF ReadGroup(p) THEN Combined ELSE Sources \ Combined)
  BY DEF ReadGroup, ReadSources, Existing
<1>3. /\ UNCHANGED <<from, at, started, mark, row, born, ever, healthy>>
      /\ todo[p] = {} /\ pc[p] \in {"begun", "rest"} /\ pc'[p] \in {"group", "rest", "cycle"}
  BY <1>1 DEF ReadGroup, ReadSources, sources, log, Placed, TypeOK
<1>4. /\ todo'[p] = S
      /\ \A s \in S : read'[p][s] = row[s] /\ seen'[p][s] = mark[s]
  BY <1>1, <1>2 DEF Reads, TypeOK
<1>5. \A s \in Sources : Pending(p, s)' <=> s \in S
  BY <1>3, <1>4 DEF Pending
<1>6. ASSUME NEW s \in Sources, row'[s] # 0 PROVE Settled(p, s)'
  <2>1. Settled(p, s)
    BY <1>3, <1>6 DEF Cycle
  <2>2. (Past(p, s)' <=> Past(p, s)) /\ healthy'[p] = healthy[p]
    BY <1>3 DEF Past, Elder, Published
  <2>3. CASE s \in S
    <3>1. MarkUnmoved(p, s)'
      BY <1>3, <1>4, <2>3 DEF MarkUnmoved
    <3>2. QED
      BY <1>5, <2>1, <2>2, <2>3, <3>1, Zenon DEF Settled
  <2>4. CASE s \notin S
    <3>1. s \in Existing
      BY <1>3, <1>6 DEF Existing
    <3>2. CASE ReadGroup(p)
      <4>1. Unread(p, s)'
        BY <1>1, <1>2, <2>4, <3>1, <3>2 DEF Unread, ReadGroup, TypeOK
      <4>2. QED
        BY <2>1, <2>2, <4>1, Zenon DEF Settled
    <3>3. CASE ~ReadGroup(p)
      <4>1. s \in Combined /\ pc[p] = "rest"
        BY <1>2, <2>4, <3>1, <3>3 DEF ReadSources
      <4>2. ~Unread(p, s) /\ ~Pending(p, s) /\ ~Pending(p, s)'
        BY <1>3, <1>5, <2>4, <4>1 DEF Unread, Pending
      <4>3. QED
        BY <2>1, <2>2, <4>2, Zenon DEF Settled
    <3>4. QED
      BY <3>2, <3>3
  <2>5. QED
    BY <2>3, <2>4
<1>7. SeenPastGone(p)'
  <2> SUFFICES ASSUME NEW e \in Events, Gone(e), from[e] \in S
               PROVE  at[e] <= seen'[p][from[e]]
    BY <1>1, <1>3, <1>5 DEF SeenPastGone, Gone, HasRow, TypeOK
  <2>1. row[from[e]] # 0
    BY <1>2 DEF Existing
  <2>2. QED
    BY <1>4, <2>1 DEF GoneBehind
<1>8. Caught(p)' /\ Brought(p)'
  BY <1>3 DEF Caught, Brought, Serving
<1>9. QED
  BY <1>6, <1>7, <1>8 DEF Cycle

LEMMA LeastOf ==
    ASSUME NEW S \in SUBSET Nat, S # {}
    PROVE  \E m \in S : \A n \in S : m <= n
<1> DEFINE R == {ss \in Nat \X Nat : ss[1] < ss[2]}
<1>1. IsWellFoundedOn(R, Nat)
  BY NatLessThanWellFounded DEF OpToRel
<1>2. \A x, y \in Nat : <<y, x>> \in R <=> y < x
  OBVIOUS
<1> HIDE DEF R
<1>3. PICK x \in S : \A y \in S : ~(<<y, x>> \in R)
  BY <1>1, WFMin
<1>4. ASSUME NEW y \in S PROVE x <= y
  <2>1. x \in Nat /\ y \in Nat
    OBVIOUS
  <2>2. ~(<<y, x>> \in R)
    BY <1>3
  <2>3. ~(y < x)
    BY <1>2, <2>1, <2>2, Zenon
  <2>4. QED
    BY <2>1, <2>3
<1>5. QED
  BY <1>4

\* A request that goes back to the earliest mark and is not cut misses nothing.
LEMMA GroupBrings ==
    ASSUME TypeOK, NEW p \in Pollers, NEW e \in Events, Published(e), from[e] \in todo[p],
           seen[p][from[e]] <= at[e]
    PROVE  e \in Kept(p, Merged(p))
<1> DEFINE S == {seen[p][s] : s \in todo[p]}
<1>1. S \in SUBSET Nat /\ S # {}
  BY DEF TypeOK
<1>2. PICK t \in S : \A n \in S : t <= n
  BY <1>1, LeastOf
<1>3. t \in Earliest(p)
  BY <1>2 DEF Earliest
<1>4. t <= at[e]
  <2>1. t \in Nat /\ t <= seen[p][from[e]] /\ seen[p][from[e]] \in Nat /\ at[e] \in Int
    BY <1>1, <1>2 DEF TypeOK, Never
  <2>2. QED
    BY <2>1
<1>5. QED
  BY <1>3, <1>4 DEF Merged, Offered, Kept

LEMMA FetchGroupCycles ==
    ASSUME Base, ~Trouble', NEW p \in Pollers, Cycle(p), NEW W \in SUBSET Merged(p), FetchGroup(p, W)
    PROVE  Cycle(p)'
<1>1. TypeOK
  BY DEF Base, IInv
<1>2. /\ pc[p] = "group" /\ pc'[p] = "chunk" /\ W = Merged(p)
      /\ got'[p] = Kept(p, W)
      /\ UNCHANGED <<from, at, started, mark, row, read, seen, healthy, todo, cur, born, ever>>
  <2>1. cuts' = 0 \/ ~(cuts' \in Nat)
    BY DEF Trouble
  <2>2. cuts \in Nat
    BY <1>1, FeedPollAssumption DEF TypeOK
  <2>3. W = Merged(p)
    BY <2>1, <2>2 DEF FetchGroup
  <2>4. QED
    BY <1>1, <2>3 DEF FetchGroup, TypeOK, sources, log
<1>3. ASSUME NEW s \in Sources, row'[s] # 0 PROVE Settled(p, s)'
  BY <1>2, <1>3, SettledStays DEF Cycle, Unread, Pending
<1>4. SeenPastGone(p)' /\ Caught(p)'
  BY <1>2 DEF Cycle, SeenPastGone, Caught, Pending, Gone, HasRow
<1>5. Brought(p)'
  BY <1>1, <1>2, GroupBrings DEF Brought, Elder, Published
<1>6. QED
  BY <1>3, <1>4, <1>5 DEF Cycle

LEMMA ServeCycles ==
    ASSUME Base, NEW p \in Pollers, Cycle(p), NEW s \in todo[p], Serve(p, s)
    PROVE  Cycle(p)'
<1>1. TypeOK /\ todo[p] \subseteq Combined /\ s \in Sources
  BY DEF Base, IInv, Phases, Serve, TypeOK
<1>2. PICK n \in OwnNewest(p, s) : newest' = [newest EXCEPT ![p] = n]
  BY DEF Serve
<1>3. /\ pc[p] = "chunk" /\ pc'[p] = "source" /\ cur'[p] = s /\ newest'[p] = n
      /\ todo'[p] = todo[p] \ {s}
      /\ UNCHANGED <<from, at, started, mark, row, read, seen, healthy, got, born, ever>>
  BY <1>1, <1>2 DEF Serve, TypeOK, sources, log
<1>4. \A r \in Sources : (Pending(p, r)' <=> Pending(p, r)) /\ (Unread(p, r) => Unread(p, r)')
  BY <1>1, <1>3 DEF Pending, Unread
<1>5. ASSUME NEW r \in Sources, row'[r] # 0 PROVE Settled(p, r)'
  BY <1>3, <1>4, <1>5, SettledStays DEF Cycle
<1>6. SeenPastGone(p)'
  BY <1>1, <1>3, <1>4 DEF Cycle, SeenPastGone, Gone, HasRow, TypeOK
<1>7. Caught(p)'
  <2> SUFFICES ASSUME NEW e \in Events, Elder(p, e), from[e] = s PROVE at[e] <= n
    BY <1>3 DEF Caught, Elder, Published
  <2>1. at[e] \in Int /\ seen[p][s] \in Int /\ n \in Int /\ n >= seen[p][s]
        /\ \A x \in Bucket(p, s) : at[x] <= n
    BY <1>1, <1>2 DEF TypeOK, OwnNewest, NewestOf, Bucket, Never
  <2>2. CASE seen[p][s] <= at[e]
    <3>1. e \in Bucket(p, s)
      BY <1>3, <2>2 DEF Cycle, Brought, Serving, Bucket
    <3>2. QED
      BY <2>1, <3>1
  <2>3. QED
    BY <2>1, <2>2
<1>8. Brought(p)'
  BY <1>1, <1>3 DEF Cycle, Brought, Serving, Elder, Published
<1>9. QED
  BY <1>5, <1>6, <1>7, <1>8 DEF Cycle

LEMMA FetchCycles ==
    ASSUME Base, NEW p \in Pollers, Cycle(p), NEW s \in todo[p], Fetch(p, s)
    PROVE  Cycle(p)'
<1>1. TypeOK /\ todo[p] \cap Combined = {} /\ s \in Sources
  BY DEF Base, IInv, Phases, Fetch, TypeOK
<1>2. PICK n \in NewestOf(Offered(s, seen[p][s]), seen[p][s]) : newest' = [newest EXCEPT ![p] = n]
  BY DEF Fetch
<1>3. /\ pc[p] = "cycle" /\ pc'[p] = "source" /\ cur'[p] = s /\ newest'[p] = n
      /\ todo'[p] = todo[p] \ {s}
      /\ UNCHANGED <<from, at, started, mark, row, read, seen, healthy, born, ever>>
  BY <1>1, <1>2 DEF Fetch, TypeOK, sources, log
<1>4. \A r \in Sources : (Pending(p, r)' <=> Pending(p, r)) /\ (Unread(p, r) => Unread(p, r)')
  BY <1>1, <1>3 DEF Pending, Unread
<1>5. ASSUME NEW r \in Sources, row'[r] # 0 PROVE Settled(p, r)'
  BY <1>3, <1>4, <1>5, SettledStays DEF Cycle
<1>6. SeenPastGone(p)'
  BY <1>1, <1>3, <1>4 DEF Cycle, SeenPastGone, Gone, HasRow, TypeOK
<1>7. Caught(p)'
  <2> SUFFICES ASSUME NEW e \in Events, Elder(p, e), from[e] = s PROVE at[e] <= n
    BY <1>3 DEF Caught, Elder, Published
  <2>1. at[e] \in Int /\ seen[p][s] \in Int /\ n \in Int /\ n >= seen[p][s]
        /\ \A x \in Offered(s, seen[p][s]) : at[x] <= n
    BY <1>1, <1>2 DEF TypeOK, NewestOf, Offered, Never
  <2>2. CASE seen[p][s] <= at[e]
    <3>1. e \in Offered(s, seen[p][s])
      BY <2>1, <2>2 DEF Offered, Elder
    <3>2. QED
      BY <2>1, <3>1
  <2>3. QED
    BY <2>1, <2>2
<1>8. Brought(p)'
  BY <1>1, <1>3 DEF Brought, Serving
<1>9. QED
  BY <1>5, <1>6, <1>7, <1>8 DEF Cycle

LEMMA RecordCycles ==
    ASSUME Base, NEW p \in Pollers, Cycle(p), NEW chunk \in SUBSET Bucket(p, cur[p]), Record(p, chunk)
    PROVE  Cycle(p)'
<1>1. TypeOK /\ pc[p] = "source" /\ cur[p] \notin todo[p]
  BY DEF Base, IInv, Placed, Record
<1>2. /\ got'[p] = got[p] \ chunk
      /\ UNCHANGED <<from, at, started, mark, row, read, seen, healthy, pc, todo, cur, newest>>
  BY <1>1 DEF Record, TypeOK, sources
<1>3. ASSUME NEW s \in Sources, row'[s] # 0 PROVE Settled(p, s)'
  BY <1>2, <1>3, SettledStays DEF Cycle, Unread, Pending
<1>4. \A e \in Events : Gone(e)' => Gone(e)
  BY <1>1 DEF Record, Gone, HasRow, Bucket, TypeOK, Never
<1>5. SeenPastGone(p)'
  BY <1>2, <1>4 DEF Cycle, SeenPastGone, Pending
<1>6. Caught(p)'
  BY <1>2 DEF Cycle, Caught, Elder, Published
<1>7. Brought(p)'
  BY <1>1, <1>2 DEF Cycle, Brought, Serving, Elder, Published, Bucket
<1>8. QED
  BY <1>3, <1>5, <1>6, <1>7 DEF Cycle

LEMMA AdvanceCycles ==
    ASSUME Base, TypeOK', NEW p \in Pollers, Cycle(p), Advance(p)
    PROVE  Cycle(p)' /\ \A s \in Sources : mark[s] <= mark'[s]
<1> PICK c \in Sources : c = cur[p]
  BY DEF Base, IInv, Phases, Advance
<1>1. TypeOK /\ c = cur[p] /\ c \notin todo[p] /\ pc[p] = "source"
  BY DEF Base, IInv, Placed, Advance
<1>2. /\ pc'[p] = (IF c \notin Combined THEN "cycle"
                   ELSE IF todo[p] = {} THEN "rest" ELSE "chunk")
      /\ UNCHANGED <<from, at, row, born, ever, started, read, seen, todo, got>>
  BY <1>1, AdvanceSteps DEF TypeOK
<1>3. mark' = IF row[c] # 0 /\ MarkUnmoved(p, c) /\ mark[c] < newest[p]
              THEN [mark EXCEPT ![c] = newest[p]] ELSE mark
  BY <1>1 DEF Advance
<1>4. \A s \in Sources : mark[s] <= mark'[s]
  BY <1>1, <1>3 DEF TypeOK
<1>5. \A s \in Sources : Past(p, s) => Past(p, s)'
  BY <1>1, <1>2, <1>4 DEF Past, Elder, Published, TypeOK, Never
<1>6. ASSUME row[c] # 0 PROVE Past(p, c)'
  <2>1. CASE MarkUnmoved(p, c)
    <3>1. newest[p] <= mark'[c]
      BY <1>1, <1>3, <1>6, <2>1 DEF TypeOK
    <3>2. \A e \in Events : Elder(p, e) /\ from[e] = c => at[e] <= newest[p]
      BY <1>1 DEF Cycle, Caught
    <3>3. QED
      BY <1>1, <1>2, <3>1, <3>2 DEF Past, Elder, Published, TypeOK, Never
  <2>2. CASE ~MarkUnmoved(p, c)
    <3>1. ~Unread(p, c) /\ Pending(p, c)
      BY <1>1 DEF Unread, Pending
    <3>2. Past(p, c)
      BY <1>1, <1>6, <2>2, <3>1 DEF Cycle, Settled
    <3>3. QED
      BY <1>1, <1>5, <3>2
  <2>3. QED
    BY <2>1, <2>2
<1>7. ASSUME NEW s \in Sources, row'[s] # 0 PROVE Settled(p, s)'
  <2>1. CASE s = c
    BY <1>2, <1>6, <1>7, <2>1 DEF Settled
  <2>2. CASE s # c
    <3>1. Settled(p, s) /\ Sources # {s}
      BY <1>1, <1>2, <1>7, <2>2 DEF Cycle
    <3>2. (Unread(p, s) => Unread(p, s)') /\ (Pending(p, s) => Pending(p, s)')
      BY <1>1, <1>2, <2>2 DEF Unread, Pending
    <3>3. MarkUnmoved(p, s) => MarkUnmoved(p, s)'
      BY <1>1, <1>2, <1>3, <2>2 DEF MarkUnmoved, TypeOK
    <3>4. QED
      BY <1>5, <3>1, <3>2, <3>3, Zenon DEF Settled
  <2>3. QED
    BY <2>1, <2>2
<1>8. SeenPastGone(p)'
  BY <1>1, <1>2 DEF Cycle, SeenPastGone, Pending, Gone, HasRow
<1>9. Caught(p)' /\ Brought(p)'
  BY <1>1, <1>2 DEF Cycle, Caught, Brought, Serving, Elder, Published
<1>10. QED
  BY <1>4, <1>7, <1>8, <1>9 DEF Cycle

LEMMA FailsCycles ==
    ASSUME Base, ~Trouble', NEW p \in Pollers, Cycle(p), SourceFails(p)
    PROVE  Cycle(p)'
<1>1. TypeOK /\ Placed
  BY DEF Base, IInv
<1>2. /\ pc[p] \in {"source", "chunk", "group"}
      /\ pc'[p] = (IF pc[p] = "source" /\ cur[p] \notin Combined THEN "cycle" ELSE "rest")
      /\ todo'[p] = (IF pc[p] = "source" /\ cur[p] \notin Combined THEN todo[p] ELSE {})
      /\ UNCHANGED <<from, at, started, mark, row, read, seen, healthy, born, ever>>
  BY <1>1 DEF SourceFails, TypeOK, sources, log
<1>3. \A r, s \in Sources : r = s
  <2>1. faults' > 0
    BY <1>1, FeedPollAssumption DEF SourceFails, TypeOK
  <2>2. QED
    BY <2>1 DEF Trouble
<1>4. ASSUME NEW s \in Sources, row'[s] # 0 PROVE Settled(p, s)'
  <2>1. Sources = {s}
    BY <1>3
  <2>2. Settled(p, s)
    BY <1>2, <1>4 DEF Cycle
  <2>3. ~Pending(p, s)'
    BY <1>1, <1>2, <2>1 DEF Pending, Placed, TypeOK, Phases, Base, IInv
  <2>4. (Past(p, s)' <=> Past(p, s)) /\ healthy'[p] = healthy[p]
    BY <1>2 DEF Past, Elder, Published
  <2>5. QED
    BY <2>1, <2>2, <2>3, <2>4, Zenon DEF Settled
<1>5. SeenPastGone(p)'
  BY <1>2 DEF Cycle, SeenPastGone, Pending, Gone, HasRow
<1>6. Caught(p)' /\ Brought(p)'
  BY <1>2 DEF Caught, Brought, Serving
<1>7. QED
  BY <1>4, <1>5, <1>6 DEF Cycle

\* A cycle that ends well has seen the mark past everything it prunes.
LEMMA FinishGone ==
    ASSUME Base, ~Trouble, GoneBehind, NEW p \in Pollers, Cycle(p), Finish(p)
    PROVE  GoneBehind'
<1>1. TypeOK /\ pc[p] = "cycle" /\ UNCHANGED <<from, at, row, mark, ever>>
  BY DEF Base, IInv, Finish, sources
<1>2. todo[p] = {}
  <2>1. lapses = 0
    BY <1>1, FeedPollAssumption DEF Trouble, TypeOK
  <2>2. QED
    BY <1>1, <2>1 DEF Base, LeaseHeld, Finish
<1>3. ASSUME NEW e \in Events, Gone(e)', row[from[e]] # 0 PROVE at[e] <= mark[from[e]]
  <2>1. CASE Gone(e)
    BY <1>3, <2>1 DEF GoneBehind
  <2>2. CASE ~Gone(e)
    <3>1. HasRow(e) /\ ~HasRow(e)' /\ e \in ever
      BY <1>1, <1>3, <2>2 DEF Gone
    <3>2. Prunes(p) /\ Outdated(e, started[p] - Retention)
      BY <3>1 DEF Finish, HasRow, Never
    <3>3. Elder(p, e)
      <4>1. at[e] <= born[e] /\ born[e] < started[p] - Retention /\ Published(e)
        BY <3>1, <3>2 DEF Base, IInv, RowsFollowEntries, OnlyPublished, Outdated
      <4>2. at[e] \in Int /\ born[e] \in Int /\ started[p] - Retention \in Int
        BY <1>1, FeedPollAssumption DEF TypeOK, Never
      <4>3. QED
        BY <4>1, <4>2 DEF Elder
    <3>4. ~Unread(p, from[e]) /\ ~Pending(p, from[e]) /\ from[e] \in Sources
      BY <1>1, <1>2 DEF Unread, Pending, TypeOK
    <3>5. Settled(p, from[e]) /\ healthy[p]
      BY <1>3, <3>2, <3>4 DEF Cycle, Prunes
    <3>6. Past(p, from[e])
      BY <3>4, <3>5, Zenon DEF Settled
    <3>7. QED
      BY <3>3, <3>6 DEF Past
  <2>3. QED
    BY <2>1, <2>2
<1>4. QED
  BY <1>1, <1>3 DEF GoneBehind

-----------------------------------------------------------------------------
LEMMA AgainInit == Init => AgainInv
<1> SUFFICES ASSUME Init PROVE AgainInv
  OBVIOUS
<1>1. LeaseHeld /\ Placed /\ AboveMark
  BY DEF Init, LeaseHeld, Placed, AboveMark
<1>2. GoneBehind /\ Cycles
  BY DEF Init, GoneBehind, Gone, Cycles
<1>3. QED
  BY <1>1, <1>2, InitInv DEF AgainInv

LEMMA AgainStep == AgainInv /\ [Next]_vars => AgainInv'
<1> SUFFICES ASSUME AgainInv, [Next]_vars PROVE AgainInv'
  OBVIOUS
<1>1. Base /\ TypeOK
  BY DEF AgainInv, Base, IInv
<1>2. IInv' /\ LeaseHeld' /\ Placed' /\ AboveMark'
  BY InvStep, LeaseStep, PlacedStep, AboveStep DEF AgainInv, IInv
<1>3. TypeOK'
  BY <1>2 DEF IInv
<1> SUFFICES ASSUME ~Trouble' PROVE GoneBehind' /\ Cycles'
  BY <1>2 DEF AgainInv
<1>4. ~Trouble /\ GoneBehind /\ Cycles
  BY <1>1, TroubleStays DEF AgainInv
<1>5. lapses = 0
  BY <1>1, <1>4, FeedPollAssumption DEF Trouble, TypeOK
<1>6. CASE Aside \/ \E e \in Events : Publish(e)
  <2>1. Remarks
    BY <1>1, <1>6, OutsideRemarks
  <2>2. GoneBehind'
    BY <1>1, <1>3, <1>4, <2>1, RemarkedGone DEF Base
  <2>3. \A p \in Pollers : pc'[p] = pc[p]
    BY <2>1 DEF Remarks
  <2>4. Cycles'
    BY <1>1, <1>3, <1>4, <2>1, <2>3, RemarkedCycle DEF Cycles, Base
  <2>5. QED
    BY <2>2, <2>4
<1>7. ASSUME NEW p \in Pollers,
             \/ Opens(p) \/ Ends(p) \/ Advance(p)
             \/ \E W \in SUBSET Merged(p) : FetchGroup(p, W)
             \/ \E s \in todo[p] : Serve(p, s) \/ Fetch(p, s)
             \/ \E chunk \in SUBSET Bucket(p, cur[p]) : Record(p, chunk)
      PROVE  GoneBehind' /\ Cycles'
  <2>1. Elsewhere(p) /\ HandsOver(p)
    BY <1>1, <1>7, OnePoller
  <2>2. \A q \in Pollers \ {p} : pc'[q] = "idle"
    BY <1>1, <1>5, <2>1, FeedPollAssumption DEF Base, LeaseHeld, Elsewhere, HandsOver, TypeOK
  <2> SUFFICES GoneBehind' /\ (pc'[p] # "idle" => Cycle(p)')
    BY <2>2 DEF Cycles
  <2>3. ASSUME UNCHANGED <<from, at, row, mark, born, ever>> PROVE GoneBehind'
    BY <1>4, <2>3 DEF GoneBehind, Gone, HasRow
  <2>4. CASE StartCycle(p)
    BY <1>1, <2>3, <2>4, StartCycles DEF Base, StartCycle, sources, log
  <2>5. CASE ~StartCycle(p)
    <3>1. pc[p] # "idle" /\ lock = p /\ Cycle(p)
      BY <1>1, <1>4, <1>5, <1>7, <2>5 DEF Base, LeaseHeld, Cycles, Opens, Ends, ReadGroup,
         ReadSources, YieldGroup, SourceFails, Finish, Abort, Crash, Advance, FetchGroup,
         Serve, Fetch, Record
    <3>2. CASE ReadGroup(p) \/ ReadSources(p)
      <4>1. UNCHANGED <<from, at, row, mark, born, ever>>
        BY <3>2 DEF ReadGroup, ReadSources, sources, log
      <4>2. QED
        BY <1>1, <1>4, <2>3, <3>1, <3>2, <4>1, ReadCycles
    <3>3. ~YieldGroup(p)
      BY <3>1 DEF YieldGroup
    <3>4. CASE SourceFails(p)
      <4>1. UNCHANGED <<from, at, row, mark, born, ever>>
        BY <3>4 DEF SourceFails, sources, log
      <4>2. QED
        BY <1>1, <2>3, <3>1, <3>4, <4>1, FailsCycles
    <3>5. CASE Abort(p) \/ Crash(p)
      <4>1. UNCHANGED <<from, at, row, mark, born, ever>> /\ pc'[p] = "idle"
        BY <1>1, <3>5 DEF Abort, Crash, Reset, TypeOK, sources, log
      <4>2. QED
        BY <2>3, <4>1
    <3>6. CASE Finish(p)
      <4>1. pc'[p] = "idle"
        BY <1>1, <3>6 DEF Finish, Reset, TypeOK
      <4>2. QED
        BY <1>1, <1>4, <3>1, <3>6, <4>1, FinishGone
    <3>7. CASE Advance(p)
      <4>1. Cycle(p)' /\ \A s \in Sources : mark[s] <= mark'[s]
        BY <1>1, <1>3, <3>1, <3>7, AdvanceCycles
      <4>2. UNCHANGED <<from, at, row, born, ever>>
        BY <3>7, AdvanceSteps
      <4>3. GoneBehind'
        BY <1>1, <1>3, <1>4, <4>1, <4>2 DEF GoneBehind, Gone, HasRow, TypeOK, Never
      <4>4. QED
        BY <4>1, <4>3
    <3>8. ASSUME NEW W \in SUBSET Merged(p), FetchGroup(p, W) PROVE GoneBehind' /\ Cycle(p)'
      <4>1. UNCHANGED <<from, at, row, mark, born, ever>>
        BY <3>8 DEF FetchGroup, sources, log
      <4>2. QED
        BY <1>1, <2>3, <3>1, <3>8, <4>1, FetchGroupCycles
    <3>9. ASSUME NEW s \in todo[p], Serve(p, s) \/ Fetch(p, s) PROVE GoneBehind' /\ Cycle(p)'
      <4>1. UNCHANGED <<from, at, row, mark, born, ever>>
        BY <3>9 DEF Serve, Fetch, sources, log
      <4>2. QED
        BY <1>1, <2>3, <3>1, <3>9, <4>1, ServeCycles, FetchCycles
    <3>10. ASSUME NEW chunk \in SUBSET Bucket(p, cur[p]), Record(p, chunk)
           PROVE  GoneBehind' /\ Cycle(p)'
      <4>1. \A e \in Events : Gone(e)' => Gone(e)
        BY <1>1, <3>10 DEF Record, Gone, HasRow, Bucket, TypeOK, Never
      <4>2. GoneBehind'
        BY <1>4, <3>10, <4>1 DEF GoneBehind, Record, sources
      <4>3. QED
        BY <1>1, <3>1, <3>10, <4>2, RecordCycles
    <3>11. QED
      BY <1>7, <2>5, <3>2, <3>3, <3>4, <3>5, <3>6, <3>7, <3>8, <3>9, <3>10 DEF Opens, Ends
  <2>6. QED
    BY <2>4, <2>5
<1>8. QED
  BY <1>6, <1>7, StepCases

\* What is recorded again was in the poll whose mark is its own instant.
LEMMA AgainSteps ==
    ASSUME AgainInv, [Next]_vars, ~Trouble, NEW e \in Events, RecordedAgain(e)
    PROVE  \E p \in Pollers : e \in got[p] /\ at[e] = seen[p][from[e]]
<1>1. TypeOK /\ Base
  BY DEF AgainInv, Base, IInv
<1>2. e \in ever /\ born[e] = Never /\ born'[e] # Never
  BY DEF RecordedAgain, HasRow
<1>3. PICK p \in Pollers : \E chunk \in SUBSET Bucket(p, cur[p]) : Record(p, chunk)
  <2>1. ~Aside /\ \A x \in Events : ~Publish(x)
    BY <1>2, AsideKeeps DEF Publish, log
  <2>2. \A p \in Pollers : ~Opens(p) /\ ~Advance(p) /\ ~Ends(p)
    BY <1>1, <1>2, OpensKeeps, AdvanceSteps
       DEF Ends, SourceFails, Finish, Abort, Crash, log, TypeOK
  <2>3. \A p \in Pollers : \A W \in SUBSET Merged(p) : ~FetchGroup(p, W)
    BY <1>2 DEF FetchGroup, log
  <2>4. \A p \in Pollers : \A s \in todo[p] : ~Serve(p, s) /\ ~Fetch(p, s)
    BY <1>2 DEF Serve, Fetch, log
  <2>5. QED
    BY <2>1, <2>2, <2>3, <2>4, StepCases
<1>4. PICK chunk \in SUBSET Bucket(p, cur[p]) : Record(p, chunk)
  BY <1>3
<1>5. pc[p] = "source" /\ e \in got[p] /\ from[e] = cur[p]
  BY <1>1, <1>2, <1>4 DEF Record, Bucket, TypeOK
<1>6. seen[p][from[e]] <= at[e]
  BY <1>1, <1>5 DEF Base, AboveMark
<1>7. at[e] <= seen[p][from[e]]
  BY <1>2, <1>5 DEF AgainInv, Cycles, Cycle, SeenPastGone, Gone, HasRow, Pending
<1>8. at[e] \in Int /\ seen[p][from[e]] \in Int
  BY <1>1 DEF TypeOK, Never
<1>9. QED
  BY <1>5, <1>6, <1>7, <1>8

\* Nothing but an entry of the mark's own instant is ever recorded twice while
\* no lease lapses, no walk is cut, no row is made below the floor and no source
\* fails beside others.
THEOREM NotRecordedAgain == Spec => AgainOnlyAtBoundary
<1>1. AgainInv /\ [Next]_vars =>
        [\A e \in Events : RecordedAgain(e) /\ ~Trouble =>
           \E p \in Pollers : e \in got[p] /\ at[e] = seen[p][from[e]]]_vars
  BY AgainSteps
<1>2. QED
  BY <1>1, AgainInit, AgainStep, PTL DEF Spec, AgainOnlyAtBoundary
=============================================================================
