--------------------------- MODULE DigestTrickle ---------------------------
(***************************************************************************)
(* DigestWindow where new items may arrive for ever: the member of Items   *)
(* whose run is settled comes to stand for a new item.  A few members are  *)
(* then enough for an endless stream, so many of whose runs are unsettled  *)
(* at a time.                                                              *)
(***************************************************************************)
EXTENDS DigestWindow

(* A flush or the drain still has the run's id. *)
InHand(i) ==
  \/ \E f \in Flushers : i \in flush[f].batch \cup flush[f].gone
  \/ i \in drain.run
  \/ drain.seen[i] # "none"

(* A settled run is done with; a publisher brings something new. *)
NewItem(i) ==
  /\ Settled(i)
  /\ ~InHand(i)
  /\ row' = [row EXCEPT ![i] = Absent]
  /\ successors' = successors \ {i}
  /\ emits' = [emits EXCEPT ![i] = 0]
  /\ UNCHANGED <<cadence, window, fence, feeder, flush, drain, clock, spent>>

TrickleNext == Next \/ \E i \in Items : NewItem(i)

TrickleSpec == Init /\ [][TrickleNext]_vars /\ Fairness

-----------------------------------------------------------------------------
Arrival == \E i \in Items : row[i] = Absent /\ row'[i] # Absent

(* Runs of new items are queued for ever. *)
ArrivalsGoOn == []<><<Arrival>>_vars

(* Once arrivals stop, every open window is closed, although flushes fail  *)
(* and crash, slices are smaller than the window and arrivals joined during *)
(* every emit.  As long as they go on it may stay open: "a continuous      *)
(* trickle into a down destination can keep the WINDOW from ever fully     *)
(* terminal-draining" (fail_batch).                                        *)
EveryWindowCloses == ArrivalsGoOn \/ (window.open ~> ~window.open)

(* ... and every queued run settles.  While arrivals go on a run that has  *)
(* failed once may wait, since the runs never tried are gathered first.    *)
EveryRunSettles == ArrivalsGoOn \/ \A i \in Items : row[i] # Absent ~> Settled(i)
=============================================================================
