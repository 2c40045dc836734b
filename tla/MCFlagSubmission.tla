-------------------------- MODULE MCFlagSubmission --------------------------
(* Submissions for TLC: concurrent requests are interchangeable.           *)
EXTENDS FlagSubmission, TLC

RequestSymmetry == Permutations(Submitters)
=============================================================================
