----------------------------- MODULE MCFeedPoll -----------------------------
(* The small instances of FeedPoll that TLC checks. *)
EXTENDS FeedPoll, TLC

Symmetry == Permutations(Sources) \cup Permutations(Events) \cup Permutations(Pollers)
=============================================================================
