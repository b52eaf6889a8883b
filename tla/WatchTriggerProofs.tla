------------------------- MODULE WatchTriggerProofs -------------------------
(***************************************************************************)
(* NothingSkipped and LogOrdered for any number of items, feeds, pollers   *)
(* and overlapping passes and any bounds.                                  *)
(*                                                                         *)
(* NothingSkipped is not inductive: what a pass writes as the watermark it *)
(* computed steps ago, and rows keep appearing meanwhile.  The             *)
(* strengthening says of every mark anyone holds, in a WatchFeed row or in *)
(* a pass, that it is Done: the log has shown a ULID at or above it (so    *)
(* rows that appear in order appear above it), and the rows at or below it *)
(* have runs.  LogOrdered has an invariant of its own (OrderInv, at the    *)
(* end).                                                                   *)
(***************************************************************************)
EXTENDS WatchTrigger, FiniteSetTheorems, TLAPS

\* The log has shown a ULID of feed f at or above m.
Reached(f, m) ==
  m = Blank \/ \E i \in Items : Visible(i) /\ home[i] = f /\ m <= ulid[i]

\* The rows of f up to m have runs, or are among P, which are about to.
Covered(f, m, P) ==
  \A i \in Items :
    state[i] = "row" /\ home[i] = f /\ ulid[i] <= m /\ i \notin late => i \in runs \cup P

Done(f, m, P) == Reached(f, m) /\ Covered(f, m, P)

Stamps ==
  /\ \A i \in Items : state[i] # "none" => ulid[i] \in Ulids
  /\ \A i, j \in Items : ulid[i] = ulid[j] /\ ulid[i] # Blank => i = j

SubsDone == \A f \in Feeds, m \in Marks : sub[f].mark = m => Done(f, m, {})

PageDone(p) ==
  /\ p.page # {}
  /\ \A j \in p.page : Visible(j) /\ home[j] = p.feed
  /\ \A j \in p.page : Done(p.feed, ulid[j], p.page)
  /\ Cardinality(p.page) < PageSize => Done(p.feed, p.through, p.page)

PassDone(p) ==
  /\ \A f \in Feeds : Done(f, p.subs[f].mark, {})
  /\ p.pc \in {"scanning", "paged", "scanned"} => p.feed \in Feeds /\ Reached(p.feed, p.through)
  /\ p.pc \in {"scanning", "paged"} => Done(p.feed, p.cursor, {})
  /\ p.pc = "paged" => PageDone(p)
  /\ p.pc = "scanned" => Done(p.feed, p.through, {})

PassesDone == \A t \in Passes, p \in PassType : pass[t] = p => PassDone(p)

IInv ==
  /\ TypeOK
  /\ Stamps
  /\ SubsDone
  /\ PassesDone

-----------------------------------------------------------------------------
(* Types.                                                                  *)

LEMMA UlidBounds ==
  ASSUME NEW c \in Times, NEW tie \in 0 .. Ties - 1
  PROVE  c * Ties + tie \in Ulids
<1>1. c * Ties <= MaxTime * Ties
  BY SettingsAssumption, BoundsAssumption DEF Times
<1>2. (MaxTime + 1) * Ties = MaxTime * Ties + Ties
  BY SettingsAssumption, BoundsAssumption
<1>3. c * Ties \in Nat /\ MaxTime * Ties \in Nat
  BY SettingsAssumption, BoundsAssumption DEF Times
<1>4. QED
  BY <1>1, <1>2, <1>3, SettingsAssumption, BoundsAssumption DEF Times, Ulids

LEMMA NoSubType == NoSub \in SubType
BY DEF NoSub, SubType, Marks, Blank

LEMMA IdlePassType == IdlePass \in PassType
BY NoSubType DEF IdlePass, PassType, Marks, Blank

LEMMA NextFeedType ==
  ASSUME TypeOK, NEW t \in Passes, NEW rest \in SUBSET Feeds
  PROVE  NextFeed(t, rest) \in PassType
<1>1. pass[t].subs \in [Feeds -> SubType]
  BY DEF TypeOK, PassType
<1>2. [f \in Feeds |-> IF f \in rest THEN pass[t].subs[f] ELSE NoSub] \in [Feeds -> SubType]
  BY <1>1, NoSubType
<1>3. QED
  BY <1>2, IdlePassType DEF NextFeed, IdlePass, PassType, Marks, Blank

\* Steps that write pass[t] alone keep the types.
LEMMA PassWrite ==
  ASSUME TypeOK, NEW t \in Passes, NEW q \in PassType, pass' = [pass EXCEPT ![t] = q],
         UNCHANGED <<clock, state, ulid, home, writer, late, lease, poll, active, sub, subs,
                     lapses, edits>>,
         runs' \subseteq Items
  PROVE  TypeOK'
BY DEF TypeOK, PollType, SubType, Times, Marks, Ulids

\* The records a pass moves to.
LEMMA BoundPassType ==
  ASSUME NEW r \in PassType, NEW T \in SUBSET Feeds, NEW f \in Feeds, NEW m \in Marks,
         NEW n \in Marks
  PROVE  [r EXCEPT !.pc = "scanning", !.todo = T, !.feed = f, !.through = n, !.cursor = m]
           \in PassType
BY DEF PassType

LEMMA PagePassType ==
  ASSUME NEW r \in PassType, NEW m \in Marks, NEW S \in SUBSET Items,
         NEW pc \in {"scanning", "paged", "scanned"}
  PROVE  /\ [r EXCEPT !.page = S, !.pc = pc] \in PassType
         /\ [r EXCEPT !.cursor = m, !.page = S, !.pc = pc] \in PassType
<1>1. [r EXCEPT !.page = S, !.pc = pc] \in PassType
  BY DEF PassType
<1>2. [r EXCEPT !.cursor = m, !.page = S, !.pc = pc] \in PassType
  BY DEF PassType
<1>3. QED
  BY <1>1, <1>2

LEMMA InitTypeOK == Init => TypeOK
BY NoSubType, IdlePassType, BoundsAssumption
DEF Init, TypeOK, IdlePoll, PollType, SubType, Times, Marks, Blank

LEMMA TypeStep == TypeOK /\ [Next]_vars => TypeOK'
<1> SUFFICES ASSUME TypeOK, [Next]_vars PROVE TypeOK'
  OBVIOUS
<1> USE SettingsAssumption, BoundsAssumption
<1> USE DEF world, log, watch
<1>1. ASSUME NEW p \in Pollers, NEW f \in Feeds, PollStart(p, f) PROVE TypeOK'
  BY <1>1 DEF TypeOK, PollStart, PollType
<1>2. ASSUME NEW p \in Pollers, NEW i \in Items, NEW tie \in 0 .. Ties - 1, Stamp(p, i, tie)
      PROVE TypeOK'
  <2>1. clock * Ties + tie \in Marks
    BY UlidBounds DEF TypeOK, Marks
  <2>2. ulid' \in [Items -> Marks]
    BY <1>2, <2>1 DEF TypeOK, Stamp
  <2>3. QED
    BY <1>2, <2>2 DEF TypeOK, Stamp
<1>3. ASSUME NEW p \in Pollers, Commit(p) PROVE TypeOK'
  BY <1>3 DEF TypeOK, Commit, Chunk
<1>4. ASSUME NEW p \in Pollers, PollEnd(p) PROVE TypeOK'
  BY <1>4 DEF TypeOK, PollEnd, PollType, IdlePoll, Times
<1>5. ASSUME NEW f \in Feeds, Lapse(f) PROVE TypeOK'
  BY <1>5 DEF TypeOK, Lapse
<1>6. ASSUME NEW t \in Passes, Begin(t) PROVE TypeOK'
  <2>1. [IdlePass EXCEPT !.pc = "loop", !.subs = sub,
                         !.todo = {f \in Feeds : sub[f].row # 0}] \in PassType
    BY IdlePassType DEF TypeOK, IdlePass, PassType
  <2>2. QED
    BY <1>6, <2>1, PassWrite DEF Begin, TypeOK
<1>7. ASSUME NEW t \in Passes, NEW f \in Feeds, PassOver(t, f) PROVE TypeOK'
  <2>1. pass[t].todo \ {f} \in SUBSET Feeds
    BY DEF TypeOK, PassType
  <2>2. QED
    BY <1>7, <2>1, NextFeedType, PassWrite DEF PassOver, TypeOK
<1>8. ASSUME NEW t \in Passes, NEW f \in Feeds, NEW n \in Ulids, Bound(t, f, n) PROVE TypeOK'
  <2> DEFINE q == [pass[t] EXCEPT !.pc = "scanning", !.todo = @ \ {f}, !.feed = f,
                                  !.through = n, !.cursor = pass[t].subs[f].mark]
  <2>1. /\ pass[t] \in PassType /\ pass[t].subs[f].mark \in Marks
        /\ pass[t].todo \ {f} \in SUBSET Feeds /\ n \in Marks
    BY DEF TypeOK, PassType, SubType, Marks
  <2>2. q \in PassType
    BY <2>1, BoundPassType
  <2>3. pass' = [pass EXCEPT ![t] = q]
    BY <1>8 DEF Bound
  <2>4. QED
    BY <1>8, <2>2, <2>3, PassWrite DEF Bound, TypeOK
<1>9. ASSUME NEW t \in Passes, NEW S \in SUBSET Items, ReadPage(t, S) PROVE TypeOK'
  <2> DEFINE q == [pass[t] EXCEPT !.page = S, !.pc = IF S = {} THEN "scanned" ELSE "paged"]
  <2>1. pass[t] \in PassType /\ Blank \in Marks
    BY DEF TypeOK, Marks
  <2>2. q \in PassType
    BY <2>1, PagePassType
  <2>3. pass' = [pass EXCEPT ![t] = q]
    BY <1>9 DEF ReadPage
  <2>4. QED
    BY <1>9, <2>2, <2>3, PassWrite DEF ReadPage, TypeOK
<1>10. ASSUME NEW t \in Passes, NEW c \in Ulids, EnqueuePage(t, c) PROVE TypeOK'
  <2> DEFINE q == [pass[t] EXCEPT !.cursor = c, !.page = {},
                     !.pc = IF Cardinality(pass[t].page) < PageSize THEN "scanned" ELSE "scanning"]
  <2>1. pass[t] \in PassType /\ c \in Marks
    BY DEF TypeOK, Marks
  <2>2. q \in PassType
    BY <2>1, PagePassType
  <2>5. pass' = [pass EXCEPT ![t] = q]
    BY <1>10 DEF EnqueuePage
  <2>3. runs' \subseteq Items
    BY <1>10 DEF EnqueuePage, TypeOK, PassType
  <2>4. QED
    BY <1>10, <2>2, <2>3, <2>5, PassWrite DEF EnqueuePage
<1>11. ASSUME NEW t \in Passes, Advance(t) PROVE TypeOK'
  <2> DEFINE f == pass[t].feed
             ours == sub[f].row = pass[t].subs[f].row
             q == IF ours THEN NextFeed(t, pass[t].todo) ELSE IdlePass
  <2>1. q \in PassType
    BY NextFeedType, IdlePassType DEF TypeOK, PassType
  <2>2. pass' = [pass EXCEPT ![t] = q]
    BY <1>11 DEF Advance
  <2>3. sub' \in [Feeds -> SubType]
    <3>1. sub' = sub \/ sub' = [sub EXCEPT ![f].mark = pass[t].through]
      BY <1>11 DEF Advance, MarkOf
    <3>2. pass[t].through \in Marks
      BY DEF TypeOK, PassType
    <3>3. QED
      BY <3>1, <3>2 DEF TypeOK, SubType
  <2>4. pass' \in [Passes -> PassType]
    BY <2>1, <2>2 DEF TypeOK
  <2>5. QED
    BY <1>11, <2>3, <2>4 DEF Advance, TypeOK
<1>12. CASE SetActive
  BY <1>12 DEF TypeOK, SetActive, Edit
<1>13. ASSUME NEW F \in SUBSET Feeds, SetFeeds(F) PROVE TypeOK'
  <2>1. [row |-> subs + 1, mark |-> Blank] \in SubType
    BY DEF TypeOK, SubType, Marks, Blank
  <2>2. sub' \in [Feeds -> SubType]
    BY <1>13, <2>1, NoSubType DEF TypeOK, SetFeeds
  <2>3. QED
    BY <1>13, <2>2 DEF TypeOK, SetFeeds, Edit
<1>14. CASE Tick
  BY <1>14 DEF TypeOK, Tick, Times, PollType
<1>15. CASE UNCHANGED vars
  BY <1>15 DEF TypeOK, vars
<1>16. QED
  BY <1>1, <1>2, <1>3, <1>4, <1>5, <1>6, <1>7, <1>8, <1>9, <1>10, <1>11, <1>12, <1>13,
     <1>14, <1>15 DEF Next, PollStep, Work

\* Every variable keeps its type for all values of the constants.
THEOREM TypeCorrect == Spec => []TypeOK
<1>1. QED
  BY InitTypeOK, TypeStep, PTL DEF Spec

-----------------------------------------------------------------------------
(* The log.                                                                *)

\* What a step does to the log: rows stay where they are, and a row that
\* appears is late or lies above everything its feed has shown.
LogChange ==
  /\ home' = home
  /\ late \subseteq late'
  /\ runs \subseteq runs'
  /\ \A i \in Items : state[i] # "none" => state'[i] # "none" /\ ulid'[i] = ulid[i]
  /\ \A i \in Items : Visible(i) => Visible(i)'
  /\ \A i \in Items : state'[i] = "row" =>
       \/ state[i] = "row"
       \/ i \in late'
       \/ /\ ulid'[i] = ulid[i]
          /\ \A j \in Items : Visible(j) /\ home[j] = home[i] => ulid[j] < ulid[i]

LEMMA LogStep == TypeOK /\ Stamps /\ [Next]_vars => LogChange
<1> SUFFICES ASSUME TypeOK, Stamps, [Next]_vars PROVE LogChange
  OBVIOUS
<1> USE DEF world, log, watch, LogChange, Visible
<1>1. ASSUME UNCHANGED <<state, ulid, home, late>>, runs \subseteq runs' PROVE LogChange
  BY <1>1
<1>2. ASSUME NEW p \in Pollers, NEW i \in Items, NEW tie \in 0 .. Ties - 1, Stamp(p, i, tie)
      PROVE LogChange
  BY <1>2 DEF TypeOK, Stamp
<1>3. ASSUME NEW p \in Pollers, Commit(p) PROVE LogChange
  <2>1. ASSUME NEW i \in Items, state'[i] = "row", state[i] # "row", i \notin late',
               NEW j \in Items, Visible(j), home[j] = home[i]
        PROVE ulid[j] < ulid[i]
    <3>1. i \in Chunk(p) /\ ~Overtaken(i)
      BY <1>3, <2>1 DEF TypeOK, Commit
    <3>2. ulid[j] \in Ulids /\ ulid[i] \in Ulids /\ i # j
      BY <2>1, <3>1 DEF Stamps, Chunk
    <3>3. ulid[j] # ulid[i]
      BY <3>2 DEF Stamps, Ulids, Blank
    <3>4. ~(ulid[j] > ulid[i])
      BY <2>1, <3>1 DEF Overtaken
    <3>5. QED
      BY <3>2, <3>3, <3>4 DEF Ulids
  <2>2. \A i \in Items : Visible(i) => Visible(i)'
    BY <1>3 DEF TypeOK, Commit
  <2>3. \A i \in Items : state[i] # "none" => state'[i] # "none"
    BY <1>3 DEF TypeOK, Commit
  <2>4. home' = home /\ late \subseteq late' /\ runs' = runs /\ ulid' = ulid
    BY <1>3 DEF Commit
  <2>5. QED
    BY <2>1, <2>2, <2>3, <2>4
<1>4. ASSUME NEW p \in Pollers, PollEnd(p) PROVE LogChange
  BY <1>4 DEF TypeOK, PollEnd, Rows
<1>5. ASSUME NEW t \in Passes, Begin(t) \/ Work(t) PROVE LogChange
  <2>1. UNCHANGED <<state, ulid, home, late>> /\ runs \subseteq runs'
    BY <1>5 DEF Begin, Work, PassOver, Bound, ReadPage, EnqueuePage, Advance
  <2>2. QED
    BY <1>1, <2>1
<1>6. QED
  BY <1>1, <1>2, <1>3, <1>4, <1>5
  DEF Next, PollStep, PollStart, Lapse, SetActive, SetFeeds, Edit, Tick, vars

LEMMA StampsStep == TypeOK /\ Stamps /\ [Next]_vars => Stamps'
<1> SUFFICES ASSUME TypeOK, Stamps, [Next]_vars PROVE Stamps'
  OBVIOUS
<1> USE DEF world, log, watch
<1>1. ASSUME NEW p \in Pollers, NEW i \in Items, NEW tie \in 0 .. Ties - 1, Stamp(p, i, tie)
      PROVE Stamps'
  <2>1. clock * Ties + tie \in Ulids
    BY UlidBounds DEF TypeOK
  <2>2. QED
    BY <1>1, <2>1 DEF Stamp, Stamps, TypeOK
<1>2. ASSUME NEW p \in Pollers, Commit(p) \/ PollEnd(p) PROVE Stamps'
  BY <1>2 DEF Stamps, TypeOK, Commit, PollEnd, Chunk, Rows
<1>3. ASSUME UNCHANGED <<state, ulid>> PROVE Stamps'
  BY <1>3 DEF Stamps
<1>4. ASSUME NEW t \in Passes, Begin(t) \/ Work(t) PROVE UNCHANGED <<state, ulid>>
  BY <1>4 DEF Begin, Work, PassOver, Bound, ReadPage, EnqueuePage, Advance
<1>5. QED
  BY <1>1, <1>2, <1>3, <1>4
  DEF Next, PollStep, PollStart, Lapse, SetActive, SetFeeds, Edit, Tick, vars

\* What is done stays done.
LEMMA StaysReached ==
  ASSUME TypeOK, LogChange, NEW f \in Feeds, NEW m \in Marks, Reached(f, m)
  PROVE  Reached(f, m)'
BY DEF Reached, LogChange, Visible

LEMMA StaysDone ==
  ASSUME TypeOK, Stamps, Stamps', LogChange, NEW f \in Feeds, NEW m \in Marks,
         NEW P \in SUBSET Items, Done(f, m, P)
  PROVE  Done(f, m, P)'
<1>1. Reached(f, m)'
  BY StaysReached DEF Done
<1>2. ASSUME NEW i \in Items, state'[i] = "row", home'[i] = f, ulid'[i] <= m, i \notin late'
      PROVE i \in runs' \cup P
  <2>1. CASE state[i] = "row"
    BY <1>2, <2>1 DEF LogChange, Done, Covered
  <2>2. CASE state[i] # "row"
    <3>1. ulid'[i] = ulid[i] /\ \A j \in Items : Visible(j) /\ home[j] = f => ulid[j] < ulid[i]
      BY <1>2, <2>2 DEF LogChange
    <3>2. ulid[i] \in Ulids
      BY <1>2, <3>1 DEF Stamps
    <3>3. m # Blank
      BY <1>2, <3>1, <3>2 DEF Ulids, Blank
    <3>4. PICK j \in Items : Visible(j) /\ home[j] = f /\ m <= ulid[j]
      BY <3>3 DEF Done, Reached
    <3>5. ulid[j] \in Ulids
      BY <3>4 DEF Stamps, Visible
    <3>6. QED
      BY <1>2, <3>1, <3>2, <3>4, <3>5 DEF Marks, Ulids, Blank
  <2>3. QED
    BY <2>1, <2>2
<1>3. QED
  BY <1>1, <1>2 DEF Done, Covered

LEMMA StaysPageDone ==
  ASSUME TypeOK, Stamps, Stamps', LogChange, NEW q \in PassType, q.feed \in Feeds, PageDone(q)
  PROVE  PageDone(q)'
<1>1. q.page \in SUBSET Items /\ q.through \in Marks
  BY DEF PassType
<1>2. \A j \in q.page : (Visible(j) /\ home[j] = q.feed)' /\ ulid'[j] = ulid[j]
  BY <1>1 DEF PageDone, LogChange, Visible
<1>3. ASSUME NEW j \in q.page PROVE Done(q.feed, ulid[j], q.page)'
  <2>1. Done(q.feed, ulid[j], q.page) /\ ulid[j] \in Marks
    BY <1>1, <1>3 DEF PageDone, TypeOK
  <2> DEFINE m == ulid[j]
  <2>2. m' = m
    BY <1>2, <1>3
  <2>3. QED
    BY <1>1, <2>1, <2>2, StaysDone DEF Done, Reached, Covered
<1>4. Cardinality(q.page) < PageSize => Done(q.feed, q.through, q.page)'
  BY <1>1, StaysDone DEF PageDone
<1>5. QED
  BY <1>2, <1>3, <1>4 DEF PageDone

LEMMA StaysPassDone ==
  ASSUME TypeOK, Stamps, Stamps', LogChange, NEW q \in PassType, PassDone(q)
  PROVE  PassDone(q)'
<1>1. q.through \in Marks /\ q.cursor \in Marks /\ \A f \in Feeds : q.subs[f].mark \in Marks
  BY DEF PassType, SubType
<1>2. \A f \in Feeds : Done(f, q.subs[f].mark, {})'
  BY <1>1, StaysDone DEF PassDone
<1>3. q.pc \in {"scanning", "paged", "scanned"} => q.feed \in Feeds /\ Reached(q.feed, q.through)'
  BY <1>1, StaysReached DEF PassDone
<1>4. q.pc \in {"scanning", "paged"} => Done(q.feed, q.cursor, {})'
  BY <1>1, StaysDone DEF PassDone
<1>5. q.pc = "paged" => PageDone(q)'
  BY StaysPageDone DEF PassDone
<1>6. q.pc = "scanned" => Done(q.feed, q.through, {})'
  BY <1>1, StaysDone DEF PassDone
<1>7. QED
  BY <1>2, <1>3, <1>4, <1>5, <1>6 DEF PassDone

-----------------------------------------------------------------------------
(* The passes.                                                             *)

LEMMA BlankIsDone == Stamps => \A f \in Feeds : Done(f, Blank, {})
BY DEF Stamps, Done, Reached, Covered, Ulids, Blank

LEMMA IdleIsDone == Stamps => PassDone(IdlePass)
BY BlankIsDone DEF IdlePass, PassDone, NoSub

LEMMA NextFeedIsDone ==
  ASSUME TypeOK, Stamps, PassesDone, NEW t \in Passes, NEW rest \in SUBSET Feeds
  PROVE  PassDone(NextFeed(t, rest))
<1>1. PassDone(pass[t])
  BY DEF TypeOK, PassesDone
<1>2. ASSUME NEW f \in Feeds PROVE Done(f, pass[t].subs[f].mark, {}) /\ Done(f, Blank, {})
  BY <1>1, BlankIsDone DEF PassDone
<1>3. CASE rest = {}
  BY <1>3, IdleIsDone DEF NextFeed
<1>4. CASE rest # {}
  <2> DEFINE q == NextFeed(t, rest)
  <2>1. q.pc = "loop"
    BY <1>4 DEF NextFeed, IdlePass
  <2>2. \A f \in Feeds : q.subs[f].mark = Blank \/ q.subs[f].mark = pass[t].subs[f].mark
    BY <1>4 DEF NextFeed, IdlePass, NoSub
  <2>3. \A f \in Feeds : Done(f, q.subs[f].mark, {})
    BY <1>2, <2>2
  <2>4. QED
    BY <2>1, <2>3 DEF PassDone
<1>5. QED
  BY <1>3, <1>4

\* One pass moves to q, which is Done after the step; the others stay.
LEMMA OnePassMoves ==
  ASSUME TypeOK, TypeOK', Stamps, Stamps', PassesDone, LogChange, NEW t \in Passes,
         NEW q \in PassType, pass' = [pass EXCEPT ![t] = q], PassDone(q)'
  PROVE  PassesDone'
<1>1. ASSUME NEW u \in Passes, NEW p \in PassType, pass'[u] = p PROVE PassDone(p)'
  <2>1. CASE u = t
    <3>1. p = q
      BY <1>1, <2>1 DEF TypeOK
    <3>2. QED
      BY <3>1
  <2>2. CASE u # t
    <3>1. pass[u] = p
      BY <1>1, <2>2 DEF TypeOK
    <3>2. QED
      BY <3>1, StaysPassDone DEF PassesDone
  <2>3. QED
    BY <2>1, <2>2
<1>2. QED
  BY <1>1 DEF PassesDone

\* The page a pass read is in order, and a short one is all there was.
LEMMA PageRead ==
  ASSUME TypeOK, Stamps, PassesDone, NEW t \in Passes, pass[t].pc = "scanning",
         NEW S \in SUBSET Items, IsPage(t, S),
         NEW q \in PassType,
         q = [pass[t] EXCEPT !.page = S, !.pc = IF S = {} THEN "scanned" ELSE "paged"]
  PROVE  PassDone(q)
<1> DEFINE p == pass[t]
<1>1. PassDone(p) /\ p \in PassType
  BY DEF TypeOK, PassesDone
<1>2. /\ p.feed \in Feeds /\ Reached(p.feed, p.through) /\ Done(p.feed, p.cursor, {})
      /\ \A f \in Feeds : Done(f, p.subs[f].mark, {})
      /\ p.cursor \in Marks /\ p.through \in Marks
  BY <1>1 DEF PassDone, PassType
<1>3. /\ q.feed = p.feed /\ q.through = p.through /\ q.cursor = p.cursor /\ q.subs = p.subs
      /\ q.page = S /\ q.pc = IF S = {} THEN "scanned" ELSE "paged"
  BY <1>1 DEF PassType
<1>4. S \subseteq Ahead(t) /\ \A i \in S, j \in Ahead(t) \ S : ulid[i] < ulid[j]
  BY DEF IsPage
<1>5. ASSUME Cardinality(S) < PageSize PROVE S = Ahead(t)
  <2>1. IsFiniteSet(Ahead(t))
    BY ProcessAssumption, FS_Subset DEF Ahead, Rows
  <2>2. Cardinality(S) = Cardinality(Ahead(t))
    BY <1>5, SettingsAssumption DEF IsPage
  <2>3. QED
    BY <1>4, <2>1, <2>2, FS_Subset
<1>6. S = {} => S = Ahead(t)
  <2>1. Cardinality({}) = 0
    BY FS_EmptySet
  <2>2. QED
    BY <1>5, <2>1, SettingsAssumption
<1>7. ASSUME NEW i \in Items, state[i] = "row", home[i] = p.feed, ulid[i] <= p.through, i \notin late
      PROVE i \in runs \/ i \in Ahead(t)
  <2>1. ulid[i] \in Ulids
    BY <1>7 DEF Stamps
  <2>2. CASE ulid[i] <= p.cursor
    BY <1>2, <1>7, <2>2 DEF Done, Covered
  <2>3. CASE p.cursor < ulid[i]
    BY <1>7, <2>3 DEF Ahead, Rows
  <2>4. QED
    BY <1>2, <2>1, <2>2, <2>3 DEF Marks, Ulids, Blank
<1>8. ASSUME S = Ahead(t) PROVE Done(p.feed, p.through, S)
  BY <1>2, <1>7, <1>8 DEF Done, Covered
<1>9. ASSUME NEW j \in S
      PROVE Visible(j) /\ home[j] = p.feed /\ Done(p.feed, ulid[j], S)
  <2>1. j \in Items /\ state[j] = "row" /\ home[j] = p.feed /\ ulid[j] <= p.through
    BY <1>4, <1>9 DEF Ahead, Rows
  <2>2. ulid[j] \in Ulids
    BY <2>1 DEF Stamps
  <2>3. Reached(p.feed, ulid[j])
    BY <2>1, <2>2 DEF Reached, Visible, Ulids
  <2>4. ASSUME NEW i \in Items, state[i] = "row", home[i] = p.feed, ulid[i] <= ulid[j], i \notin late
        PROVE i \in runs \cup S
    <3>1. ulid[i] \in Ulids
      BY <2>4 DEF Stamps
    <3>2. ulid[i] <= p.through
      BY <1>2, <2>1, <2>2, <2>4, <3>1 DEF Marks, Ulids, Blank
    <3>3. CASE i \in Ahead(t) \ S
      BY <1>4, <1>9, <2>2, <2>4, <3>1, <3>3 DEF Ulids
    <3>4. QED
      BY <1>7, <2>4, <3>2, <3>3
  <2>5. QED
    BY <2>1, <2>3, <2>4 DEF Done, Covered, Visible
<1>10. CASE S = {}
  <2>1. Done(p.feed, p.through, {})
    BY <1>6, <1>8, <1>10
  <2>2. QED
    BY <1>2, <1>3, <1>10, <2>1 DEF PassDone
<1>11. CASE S # {}
  <2>1. PageDone(q)
    BY <1>3, <1>5, <1>8, <1>9, <1>11 DEF PageDone
  <2>2. q.pc = "paged"
    BY <1>3, <1>11
  <2>3. /\ q.feed \in Feeds /\ Reached(q.feed, q.through) /\ Done(q.feed, q.cursor, {})
        /\ \A f \in Feeds : Done(f, q.subs[f].mark, {})
    BY <1>2, <1>3
  <2>4. QED
    BY <2>1, <2>2, <2>3 DEF PassDone
<1>12. QED
  BY <1>10, <1>11

\* The steps of one pass.
LEMMA PassStep ==
  ASSUME IInv, TypeOK', Stamps', LogChange, NEW t \in Passes, Begin(t) \/ Work(t)
  PROVE  PassesDone'
<1> USE DEF IInv
<1> DEFINE p == pass[t]
<1>0. p \in PassType /\ PassDone(p)
  BY DEF TypeOK, PassesDone
<1>1. CASE Begin(t)
  <2> DEFINE q == [IdlePass EXCEPT !.pc = "loop", !.subs = sub,
                                   !.todo = {f \in Feeds : sub[f].row # 0}]
  <2>1. q \in PassType /\ q.pc = "loop" /\ q.subs = sub
    BY IdlePassType DEF TypeOK, IdlePass, PassType
  <2>2. \A f \in Feeds : Done(f, sub[f].mark, {})
    BY DEF SubsDone, TypeOK, SubType
  <2>3. PassDone(q)
    BY <2>1, <2>2 DEF PassDone
  <2>4. pass' = [pass EXCEPT ![t] = q]
    BY <1>1 DEF Begin
  <2>5. QED
    BY <2>1, <2>3, <2>4, StaysPassDone, OnePassMoves
<1>2. ASSUME NEW f \in Feeds, PassOver(t, f) PROVE PassesDone'
  <2> DEFINE rest == p.todo \ {f}
  <2>1. rest \in SUBSET Feeds
    BY <1>0 DEF PassType
  <2>2. NextFeed(t, rest) \in PassType /\ PassDone(NextFeed(t, rest))
    BY <2>1, NextFeedType, NextFeedIsDone
  <2>3. pass' = [pass EXCEPT ![t] = NextFeed(t, rest)]
    BY <1>2 DEF PassOver
  <2>4. QED
    BY <2>2, <2>3, StaysPassDone, OnePassMoves
<1>3. ASSUME NEW f \in Feeds, NEW n \in Ulids, Bound(t, f, n) PROVE PassesDone'
  <2> DEFINE q == [p EXCEPT !.pc = "scanning", !.todo = @ \ {f}, !.feed = f,
                            !.through = n, !.cursor = p.subs[f].mark]
  <2>1. p.subs[f].mark \in Marks
    BY <1>0 DEF PassType, SubType
  <2>2. /\ q \in PassType /\ q.pc = "scanning" /\ q.feed = f /\ q.through = n
        /\ q.cursor = p.subs[f].mark /\ q.subs = p.subs
    BY <1>0, <2>1 DEF PassType, Marks
  <2>3. Reached(f, n)
    BY <1>3 DEF Bound, Newest, Rows, Reached, Visible, Ulids
  <2>4. \A g \in Feeds : Done(g, p.subs[g].mark, {})
    BY <1>0 DEF PassDone
  <2>5. PassDone(q)
    BY <2>2, <2>3, <2>4 DEF PassDone
  <2>6. pass' = [pass EXCEPT ![t] = q]
    BY <1>3 DEF Bound
  <2>7. QED
    BY <2>2, <2>5, <2>6, StaysPassDone, OnePassMoves
<1>4. ASSUME NEW S \in SUBSET Items, ReadPage(t, S) PROVE PassesDone'
  <2> DEFINE q == [p EXCEPT !.page = S, !.pc = IF S = {} THEN "scanned" ELSE "paged"]
  <2>1. q \in PassType
    BY <1>0 DEF PassType
  <2>2. PassDone(q)
    BY <1>4, <2>1, PageRead DEF ReadPage
  <2>3. pass' = [pass EXCEPT ![t] = q]
    BY <1>4 DEF ReadPage
  <2>4. QED
    BY <2>1, <2>2, <2>3, StaysPassDone, OnePassMoves
<1>5. ASSUME NEW c \in Ulids, EnqueuePage(t, c) PROVE PassesDone'
  <2>0. PICK o \in PassType : o = pass[t]
    BY <1>0
  <2> DEFINE last == Cardinality(o.page) < PageSize
             q == [o EXCEPT !.cursor = c, !.page = {},
                            !.pc = IF last THEN "scanned" ELSE "scanning"]
  <2>1. /\ q \in PassType /\ q.cursor = c /\ q.feed = o.feed /\ q.through = o.through
        /\ q.subs = o.subs /\ q.pc = IF last THEN "scanned" ELSE "scanning"
    BY DEF PassType, Marks
  <2>2. /\ o.pc = "paged" /\ IsLast(o.page, c) /\ runs' = runs \cup o.page
        /\ pass' = [pass EXCEPT ![t] = q] /\ UNCHANGED <<state, ulid, home, late>>
    BY <1>5, <2>0 DEF EnqueuePage, log
  <2>3. PageDone(o) /\ Reached(o.feed, o.through) /\ o.feed \in Feeds
    BY <1>0, <2>0, <2>2 DEF PassDone
  <2>4. ASSUME NEW m \in Marks, Done(o.feed, m, o.page) PROVE Done(o.feed, m, {})'
    BY <2>2, <2>4 DEF Done, Reached, Covered, Visible
  <2>5. Done(o.feed, c, {})'
    <3>1. PICK j \in o.page : ulid[j] = c
      BY <2>2 DEF IsLast
    <3>2. Done(o.feed, c, o.page)
      BY <2>3, <3>1 DEF PageDone
    <3>3. QED
      BY <2>4, <3>2 DEF Marks
  <2>6. last => Done(o.feed, o.through, {})'
    BY <2>3, <2>4 DEF PageDone, PassType
  <2>7. Reached(o.feed, o.through)'
    BY <2>3, StaysReached DEF PassType
  <2>8. \A f \in Feeds : Done(f, o.subs[f].mark, {})'
    <3>1. \A f \in Feeds : Done(f, o.subs[f].mark, {}) /\ o.subs[f].mark \in Marks
      BY <1>0, <2>0 DEF PassDone, PassType, SubType
    <3>2. QED
      BY <3>1, StaysDone
  <2>9. PassDone(q)'
    BY <2>1, <2>3, <2>5, <2>6, <2>7, <2>8 DEF PassDone
  <2>10. QED
    BY <2>1, <2>2, <2>9, OnePassMoves
<1>6. CASE Advance(t)
  <2> DEFINE q == IF sub[p.feed].row = p.subs[p.feed].row THEN NextFeed(t, p.todo) ELSE IdlePass
  <2>1. p.todo \in SUBSET Feeds
    BY <1>0 DEF PassType
  <2>2. q \in PassType /\ PassDone(q)
    BY <2>1, NextFeedType, NextFeedIsDone, IdlePassType, IdleIsDone
  <2>3. pass' = [pass EXCEPT ![t] = q]
    BY <1>6 DEF Advance
  <2>4. QED
    BY <2>2, <2>3, StaysPassDone, OnePassMoves
<1>7. QED
  BY <1>1, <1>2, <1>3, <1>4, <1>5, <1>6 DEF Work

\* Only an advance and an edit of the feeds write watermarks.
LEMMA SubsStep ==
  ASSUME IInv, TypeOK', Stamps', LogChange, [Next]_vars
  PROVE  SubsDone'
<1> USE DEF IInv
<1>1. ASSUME NEW f \in Feeds, NEW m \in Marks, Done(f, m, {}) PROVE Done(f, m, {})'
  BY <1>1, StaysDone
<1>2. ASSUME UNCHANGED sub PROVE SubsDone'
  BY <1>1, <1>2 DEF SubsDone
<1>3. ASSUME NEW t \in Passes, Advance(t) PROVE SubsDone'
  <2> DEFINE f == pass[t].feed
  <2>1. f \in Feeds /\ pass[t].through \in Marks /\ Done(f, pass[t].through, {})
    <3>1. pass[t] \in PassType /\ PassDone(pass[t])
      BY DEF TypeOK, PassesDone
    <3>2. QED
      BY <1>3, <3>1 DEF Advance, PassDone, PassType
  <2>2. sub' = sub \/ sub' = [sub EXCEPT ![f].mark = pass[t].through]
    BY <1>3 DEF Advance, MarkOf
  <2>3. ASSUME NEW g \in Feeds, NEW m \in Marks, sub'[g].mark = m PROVE Done(g, m, {})'
    <3>1. sub[g].mark = m \/ (g = f /\ m = pass[t].through)
      BY <2>1, <2>2, <2>3 DEF TypeOK, SubType
    <3>2. Done(g, m, {})
      BY <2>1, <3>1 DEF SubsDone
    <3>3. QED
      BY <1>1, <3>2
  <2>4. QED
    BY <2>3 DEF SubsDone
<1>4. ASSUME NEW F \in SUBSET Feeds, SetFeeds(F) PROVE SubsDone'
  <2>1. ASSUME NEW g \in Feeds, NEW m \in Marks, sub'[g].mark = m PROVE Done(g, m, {})'
    <3>1. sub[g].mark = m \/ m = Blank
      BY <1>4, <2>1 DEF SetFeeds, NoSub
    <3>2. Done(g, m, {})
      BY <3>1, BlankIsDone DEF SubsDone
    <3>3. QED
      BY <1>1, <3>2
  <2>2. QED
    BY <2>1 DEF SubsDone
<1>5. ASSUME NEW p \in Pollers, PollStep(p) PROVE UNCHANGED sub
  BY <1>5 DEF PollStep, PollStart, Stamp, Commit, PollEnd, watch
<1>6. ASSUME NEW t \in Passes, Begin(t) \/ Work(t) PROVE UNCHANGED sub \/ Advance(t)
  BY <1>6 DEF Begin, Work, PassOver, Bound, ReadPage, EnqueuePage, watch
<1>7. ASSUME NEW f \in Feeds, Lapse(f) PROVE UNCHANGED sub
  BY <1>7 DEF Lapse, watch
<1>8. CASE SetActive \/ Tick \/ UNCHANGED vars
  BY <1>8, <1>2 DEF SetActive, Tick, vars, watch
<1>9. QED
  BY <1>2, <1>3, <1>4, <1>5, <1>6, <1>7, <1>8 DEF Next

LEMMA InitInv == Init => IInv
<1> SUFFICES ASSUME Init PROVE IInv
  OBVIOUS
<1>1. Stamps
  BY DEF Init, Stamps
<1>2. SubsDone
  BY <1>1, BlankIsDone DEF Init, SubsDone
<1>3. PassesDone
  BY <1>1, IdleIsDone DEF Init, PassesDone
<1>4. QED
  BY <1>1, <1>2, <1>3, InitTypeOK DEF IInv

LEMMA StepInv == IInv /\ [Next]_vars => IInv'
<1> SUFFICES ASSUME IInv, [Next]_vars PROVE IInv'
  OBVIOUS
<1>1. TypeOK' /\ Stamps' /\ LogChange
  BY TypeStep, StampsStep, LogStep DEF IInv
<1>2. SubsDone'
  BY <1>1, SubsStep
<1>3. CASE UNCHANGED pass
  <2>1. ASSUME NEW u \in Passes, NEW p \in PassType, pass'[u] = p PROVE PassDone(p)'
    BY <1>1, <1>3, <2>1, StaysPassDone DEF IInv, PassesDone
  <2>2. QED
    BY <1>1, <1>2, <2>1 DEF IInv, PassesDone
<1>4. ASSUME NEW t \in Passes, Begin(t) \/ Work(t) PROVE IInv'
  BY <1>1, <1>2, <1>4, PassStep DEF IInv
<1>5. UNCHANGED pass \/ \E t \in Passes : Begin(t) \/ Work(t)
  <2>1. ASSUME NEW p \in Pollers, PollStep(p) PROVE UNCHANGED pass
    BY <2>1 DEF PollStep, PollStart, Stamp, Commit, PollEnd
  <2>2. ASSUME NEW f \in Feeds, Lapse(f) PROVE UNCHANGED pass
    BY <2>2 DEF Lapse
  <2>3. ASSUME NEW F \in SUBSET Feeds, SetFeeds(F) PROVE UNCHANGED pass
    BY <2>3 DEF SetFeeds
  <2>4. CASE SetActive \/ Tick \/ UNCHANGED vars
    BY <2>4 DEF SetActive, Tick, vars
  <2>5. QED
    BY <2>1, <2>2, <2>3, <2>4 DEF Next
<1>6. QED
  BY <1>3, <1>4, <1>5

\* Every row at or below a watermark has a run, unless it appeared under a
\* greater ULID: for any number of feeds, pollers and overlapping passes.
THEOREM WatermarkSkipsNothing == Spec => []NothingSkipped
<1>1. IInv => NothingSkipped
  BY DEF IInv, NothingSkipped, SubsDone, TypeOK, SubType, Done, Covered
<1>2. QED
  BY <1>1, InitInv, StepInv, PTL DEF Spec

-----------------------------------------------------------------------------
(* LogOrdered.  While no poll lease has lapsed, a feed's stamped rows are  *)
(* all in the chunk of the one poller that holds the feed's lease.  So a   *)
(* row that is visible under a greater ULID than a stamped row's was       *)
(* visible when that one was stamped: its millisecond cannot be later than *)
(* the clock then, nor, its ULID being greater, earlier.                   *)

SameMs(m, n) == m \div Ties = n \div Ties

\* A poller of a feed holds its lease.
PollsLeased ==
  lapses = 0 => \A p \in Pollers : poll[p].feed # Nobody => lease[poll[p].feed] = p

\* A stamped row is in the chunk of a poller of its feed.
ChunksPolled ==
  \A i \in Items : state[i] = "stamped" => writer[i] \in Pollers /\ poll[writer[i]].feed = home[i]

\* No ULID is of a millisecond to come.
NoneAhead == \A i \in Items : state[i] # "none" => ulid[i] < clock * Ties + Ties

\* Rows are visible under a stamped row's ULID, or share its millisecond.
StampedLast ==
  lapses = 0 =>
    \A i, j \in Items :
      state[i] = "stamped" /\ Visible(j) /\ home[j] = home[i] /\ ulid[j] > ulid[i]
        => SameMs(ulid[j], ulid[i])

OrderInv ==
  /\ TypeOK
  /\ Stamps
  /\ PollsLeased
  /\ ChunksPolled
  /\ NoneAhead
  /\ StampedLast
  /\ \A i \in late : Visible(i)
  /\ LogOrdered

LEMMA Millisecond ==
  ASSUME NEW c \in Nat, NEW n \in Nat, c * Ties <= n, n < c * Ties + Ties
  PROVE  n \div Ties = c
<1> DEFINE q == n \div Ties
           r == n % Ties
<1>1. Ties \in Nat /\ Ties > 0
  BY SettingsAssumption
<1>2. q \in Int /\ r \in 0 .. Ties - 1 /\ n = Ties * q + r
  BY <1>1
<1> HIDE DEF q, r
<1>3. ASSUME q >= c + 1 PROVE FALSE
  <2>1. Ties * q >= Ties * (c + 1)
    BY <1>1, <1>2, <1>3
  <2>2. Ties * (c + 1) = c * Ties + Ties
    BY <1>1
  <2>3. QED
    BY <1>1, <1>2, <2>1, <2>2
<1>4. ASSUME q <= c - 1 PROVE FALSE
  <2>1. Ties * q <= Ties * (c - 1)
    BY <1>1, <1>2, <1>4
  <2>2. Ties * (c - 1) = c * Ties - Ties
    BY <1>1
  <2>3. QED
    BY <1>1, <1>2, <2>1, <2>2
<1>5. q = c
  BY <1>2, <1>3, <1>4
<1>6. QED
  BY <1>5 DEF q

LEMMA PollsLeasedStep == TypeOK /\ PollsLeased /\ [Next]_vars => PollsLeased'
<1> SUFFICES ASSUME TypeOK, PollsLeased, [Next]_vars PROVE PollsLeased'
  OBVIOUS
<1> USE DEF world, log, watch
<1>1. ASSUME NEW p \in Pollers, NEW f \in Feeds, PollStart(p, f) PROVE PollsLeased'
  BY <1>1, ProcessAssumption DEF PollStart, MayPoll, PollsLeased, TypeOK, PollType
<1>2. ASSUME NEW p \in Pollers, PollEnd(p) PROVE PollsLeased'
  BY <1>2, ProcessAssumption DEF PollEnd, PollsLeased, TypeOK, PollType, IdlePoll
<1>3. ASSUME NEW f \in Feeds, Lapse(f) PROVE PollsLeased'
  <2>1. lapses' # 0
    BY <1>3, BoundsAssumption DEF Lapse, TypeOK
  <2>2. QED
    BY <2>1 DEF PollsLeased
<1>4. ASSUME UNCHANGED <<poll, lease, lapses>> PROVE PollsLeased'
  BY <1>4 DEF PollsLeased
<1>5. ASSUME NEW p \in Pollers, PollStep(p) PROVE PollsLeased'
  BY <1>5, <1>1, <1>2, <1>4 DEF PollStep, Stamp, Commit
<1>6. ASSUME NEW t \in Passes, Begin(t) \/ Work(t) PROVE UNCHANGED <<poll, lease, lapses>>
  BY <1>6 DEF Begin, Work, PassOver, Bound, ReadPage, EnqueuePage, Advance
<1>7. ASSUME NEW F \in SUBSET Feeds, SetFeeds(F) PROVE UNCHANGED <<poll, lease, lapses>>
  BY <1>7 DEF SetFeeds
<1>8. CASE SetActive \/ Tick \/ UNCHANGED vars
  BY <1>8, <1>4 DEF SetActive, Tick, vars
<1>9. QED
  BY <1>3, <1>4, <1>5, <1>6, <1>7, <1>8 DEF Next

\* What a step that neither polls nor ticks leaves alone.
LEMMA LogAlone ==
  ASSUME [Next]_vars
  PROVE  \/ \E p \in Pollers : PollStep(p)
         \/ UNCHANGED <<log, poll>> /\ lapses' = lapses /\ UNCHANGED clock
         \/ UNCHANGED <<log, poll, clock>> /\ \E f \in Feeds : Lapse(f)
         \/ UNCHANGED <<log, poll, lapses>> /\ clock' = clock + 1
<1> USE DEF world, watch, log
<1>1. ASSUME NEW f \in Feeds, Lapse(f) PROVE UNCHANGED <<log, poll, clock>>
  BY <1>1 DEF Lapse
<1>2. ASSUME NEW t \in Passes, Begin(t) \/ Work(t) PROVE UNCHANGED <<log, poll, lapses, clock>>
  BY <1>2 DEF Begin, Work, PassOver, Bound, ReadPage, EnqueuePage, Advance
<1>3. ASSUME NEW F \in SUBSET Feeds, SetFeeds(F) PROVE UNCHANGED <<log, poll, lapses, clock>>
  BY <1>3 DEF SetFeeds
<1>4. CASE SetActive \/ UNCHANGED vars
  BY <1>4 DEF SetActive, vars
<1>5. CASE Tick
  BY <1>5 DEF Tick
<1>6. QED
  BY <1>1, <1>2, <1>3, <1>4, <1>5 DEF Next

LEMMA OrderStep == OrderInv /\ [Next]_vars => OrderInv'
<1> SUFFICES ASSUME OrderInv, [Next]_vars PROVE OrderInv'
  OBVIOUS
<1> USE DEF OrderInv
<1>1. TypeOK' /\ Stamps' /\ PollsLeased'
  BY TypeStep, StampsStep, PollsLeasedStep
<1> DEFINE Rest == ChunksPolled /\ NoneAhead /\ StampedLast /\ (\A i \in late : Visible(i)) /\ LogOrdered
<1>2. ASSUME NEW p \in Pollers, NEW f \in Feeds, PollStart(p, f) PROVE Rest'
  <2>1. UNCHANGED <<log, clock, lapses>>
    BY <1>2 DEF PollStart, world
  <2>2. ChunksPolled'
    BY <1>2, ProcessAssumption DEF PollStart, log, ChunksPolled, TypeOK
  <2>3. NoneAhead' /\ StampedLast' /\ (\A i \in late : Visible(i))' /\ LogOrdered'
    BY <2>1 DEF log, NoneAhead, StampedLast, LogOrdered, Visible, SameMs
  <2>4. QED
    BY <2>2, <2>3
<1>3. ASSUME NEW p \in Pollers, NEW i \in Items, NEW tie \in 0 .. Ties - 1, Stamp(p, i, tie)
      PROVE Rest'
  <2>1. /\ state[i] = "none" /\ poll[p].feed = home[i]
        /\ state' = [state EXCEPT ![i] = "stamped"]
        /\ ulid' = [ulid EXCEPT ![i] = clock * Ties + tie]
        /\ writer' = [writer EXCEPT ![i] = p]
        /\ UNCHANGED <<clock, lapses, home, late, poll>>
    BY <1>3 DEF Stamp, world
  <2>2. /\ clock \in Nat /\ Ties \in Nat /\ tie \in Nat /\ tie < Ties /\ clock * Ties \in Nat
        /\ \A j \in Items : state[j] # "none" => ulid[j] \in Nat
    BY SettingsAssumption, BoundsAssumption DEF TypeOK, Times, Stamps, Ulids
  <2>3. ChunksPolled'
    BY <2>1 DEF ChunksPolled, TypeOK
  <2>4. NoneAhead'
    BY <2>1, <2>2 DEF NoneAhead, TypeOK
  <2>5. \A j \in Items : Visible(j)' => Visible(j) /\ j # i /\ ulid'[j] = ulid[j]
    BY <2>1 DEF Visible, TypeOK
  <2>6. \A j \in Items : Visible(j) => Visible(j)' /\ j # i /\ ulid'[j] = ulid[j]
    BY <2>1 DEF Visible, TypeOK
  <2>7. (\A j \in late : Visible(j))'
    BY <2>1, <2>6 DEF TypeOK
  <2>8. LogOrdered'
    BY <2>1, <2>6 DEF LogOrdered, TypeOK
  <2>9. ASSUME NEW k \in Items, NEW j \in Items, lapses' = 0, state'[k] = "stamped", Visible(j)',
               home'[j] = home'[k], ulid'[j] > ulid'[k]
        PROVE  SameMs(ulid'[j], ulid'[k])
    <3>1. CASE k # i
      BY <3>1, <2>1, <2>5, <2>9 DEF StampedLast, TypeOK
    <3>2. CASE k = i
      <4>1. ulid'[k] = clock * Ties + tie /\ ulid[j] > clock * Ties + tie /\ ulid'[j] = ulid[j]
        BY <3>2, <2>1, <2>5, <2>9 DEF TypeOK
      <4>2. ulid[j] \in Nat /\ ulid[j] < clock * Ties + Ties
        BY <2>2, <2>5, <2>9 DEF NoneAhead, Visible
      <4>3. ulid[j] \div Ties = clock /\ (clock * Ties + tie) \div Ties = clock
        BY <4>1, <4>2, <2>2, Millisecond
      <4>4. QED
        BY <4>1, <4>3 DEF SameMs
    <3>3. QED
      BY <3>1, <3>2
  <2>10. StampedLast'
    BY <2>9 DEF StampedLast
  <2>11. QED
    BY <2>3, <2>4, <2>7, <2>8, <2>10
<1>4. ASSUME NEW p \in Pollers, Commit(p) PROVE Rest'
  <2>1. /\ state' = [i \in Items |-> IF i \in Chunk(p) THEN "row" ELSE state[i]]
        /\ late' = late \cup {i \in Chunk(p) : Overtaken(i)}
        /\ writer' = [i \in Items |-> IF i \in Chunk(p) THEN Nobody ELSE writer[i]]
        /\ UNCHANGED <<clock, lapses, ulid, home, poll>>
    BY <1>4 DEF Commit, world
  <2>2. \A j \in Items : Visible(j)' <=> Visible(j) \/ j \in Chunk(p)
    BY <2>1 DEF Visible, Chunk
  <2>3. \A j \in Items : state'[j] = "stamped" => state[j] = "stamped" /\ j \notin Chunk(p)
    BY <2>1
  <2>4. ChunksPolled'
    BY <2>1, <2>3 DEF ChunksPolled
  <2>5. NoneAhead'
    BY <2>1 DEF NoneAhead, Chunk
  <2>6. ASSUME lapses' = 0, NEW k \in Items, state'[k] = "stamped",
               NEW j \in Items, Visible(j)', home[j] = home[k]
        PROVE  Visible(j)
    <3>1. state[k] = "stamped" /\ k \notin Chunk(p)
      BY <2>3, <2>6
    <3>2. /\ writer[k] \in Pollers /\ poll[writer[k]].feed = home[k]
          /\ writer[k] # p
      BY <3>1 DEF ChunksPolled, Chunk
    <3>3. home[k] # Nobody
      BY ProcessAssumption DEF TypeOK
    <3>4. lease[home[k]] = writer[k]
      BY <2>1, <2>6, <3>2, <3>3 DEF PollsLeased
    <3>5. ASSUME j \in Chunk(p) PROVE FALSE
      <4>1. writer[j] = p /\ poll[p].feed = home[k]
        BY <3>5, <2>6 DEF Chunk, ChunksPolled
      <4>2. QED
        BY <4>1, <3>2, <3>3, <3>4, <2>1, <2>6 DEF PollsLeased
    <3>6. QED
      BY <2>2, <2>6, <3>5
  <2>7. StampedLast'
    BY <2>1, <2>3, <2>6 DEF StampedLast, SameMs
  <2>8. (\A i \in late : Visible(i))'
    BY <2>1, <2>2 DEF Chunk, TypeOK
  <2>9. ASSUME lapses' = 0, NEW i \in late'
        PROVE  \E j \in Items \ {i} :
                 Visible(j)' /\ home'[j] = home'[i] /\ ulid'[j] \div Ties = ulid'[i] \div Ties
    <3>1. CASE i \in late
      BY <3>1, <2>1, <2>2, <2>9 DEF LogOrdered, TypeOK
    <3>2. CASE i \in Chunk(p) /\ Overtaken(i)
      <4>1. PICK j \in Items : Visible(j) /\ home[j] = home[i] /\ ulid[j] > ulid[i]
        BY <3>2 DEF Overtaken
      <4>2. state[i] = "stamped" /\ i \in Items
        BY <3>2 DEF Chunk
      <4>3. j # i
        BY <4>1, <4>2 DEF Visible
      <4>4. ulid[j] \div Ties = ulid[i] \div Ties
        BY <4>1, <4>2, <2>1, <2>9 DEF StampedLast, SameMs
      <4>5. QED
        BY <4>1, <4>3, <4>4, <2>1, <2>2
    <3>3. QED
      BY <3>1, <3>2, <2>1
  <2>10. LogOrdered'
    BY <2>9 DEF LogOrdered
  <2>11. QED
    BY <2>4, <2>5, <2>7, <2>8, <2>10
<1>5. ASSUME NEW p \in Pollers, PollEnd(p) PROVE Rest'
  <2>1. /\ Chunk(p) = {} /\ poll' = [poll EXCEPT ![p] = IdlePoll]
        /\ UNCHANGED <<clock, lapses, ulid, home, writer, late>>
    BY <1>5 DEF PollEnd, world
  <2>2. \A i \in Items : state'[i] = state[i] \/ (state[i] = "row" /\ state'[i] = "pruned")
    BY <1>5 DEF PollEnd, Rows
  <2>3. \A i \in Items : /\ Visible(i)' <=> Visible(i)
                         /\ state'[i] = "stamped" <=> state[i] = "stamped"
                         /\ state'[i] = "none" <=> state[i] = "none"
    BY <2>2 DEF Visible
  <2>4. ChunksPolled'
    BY <2>1, <2>3 DEF ChunksPolled, Chunk, TypeOK
  <2>5. NoneAhead'
    BY <2>1, <2>3 DEF NoneAhead
  <2>6. StampedLast'
    BY <2>1, <2>3 DEF StampedLast, SameMs
  <2>7. (\A i \in late : Visible(i))' /\ LogOrdered'
    BY <2>1, <2>3 DEF LogOrdered, TypeOK
  <2>8. QED
    BY <2>4, <2>5, <2>6, <2>7
<1>6. ASSUME NEW p \in Pollers, PollStep(p) PROVE Rest'
  BY <1>6, <1>2, <1>3, <1>4, <1>5 DEF PollStep
<1>7. ASSUME UNCHANGED <<log, poll>>, clock' = clock \/ clock' = clock + 1,
             lapses' = lapses \/ lapses' # 0
      PROVE  Rest'
  <2>1. ChunksPolled' /\ (\A i \in late : Visible(i))'
    BY <1>7 DEF log, ChunksPolled, Visible
  <2>2. clock * Ties + Ties <= clock' * Ties + Ties /\ clock * Ties \in Nat /\ clock' * Ties \in Nat
    BY <1>7, SettingsAssumption, BoundsAssumption DEF TypeOK, Times
  <2>3. NoneAhead'
    BY <1>7, <2>2, SettingsAssumption DEF log, NoneAhead, Stamps, Ulids
  <2>4. StampedLast' /\ LogOrdered'
    BY <1>7 DEF log, StampedLast, LogOrdered, Visible, SameMs
  <2>5. QED
    BY <2>1, <2>3, <2>4
<1>8. ASSUME NEW f \in Feeds, Lapse(f) PROVE lapses' # 0
  BY <1>8, BoundsAssumption DEF Lapse, TypeOK
<1>9. Rest'
  BY <1>6, <1>7, <1>8, LogAlone
<1>10. QED
  BY <1>1, <1>9

LEMMA OrderInit == Init => OrderInv
BY InitTypeOK, InitInv
DEF Init, OrderInv, IInv, PollsLeased, ChunksPolled, NoneAhead, StampedLast, LogOrdered, Visible, IdlePoll

\* While poll leases hold, ULID order is commit order but for rows of one
\* millisecond, for any number of feeds, items and pollers.
THEOREM LeasedLogOrdered == Spec => []LogOrdered
<1>1. OrderInv => LogOrdered
  BY DEF OrderInv
<1>2. QED
  BY <1>1, OrderInit, OrderStep, PTL DEF Spec
=============================================================================
