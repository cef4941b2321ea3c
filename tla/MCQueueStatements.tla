-------------------------- MODULE MCQueueStatements --------------------------
(* QueueStatements on a small instance. *)
EXTENDS QueueStatements, TLC

MCSymmetry == Permutations(Sessions) \cup Permutations(Runs)
=============================================================================
