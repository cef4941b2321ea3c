---------------------------- MODULE MCReviewApply ----------------------------
(* ReviewApply on small instances. *)
EXTENDS ReviewApply, TLC

MCSymmetry == Permutations(Hashes) \cup Permutations(Humans)
=============================================================================
