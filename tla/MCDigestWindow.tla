--------------------------- MODULE MCDigestWindow ---------------------------
(* The small instances of DigestWindow that TLC checks. *)
EXTENDS DigestWindow, TLC

Symmetry == Permutations(Items) \cup Permutations(Flushers)
=============================================================================
