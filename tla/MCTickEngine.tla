---------------------------- MODULE MCTickEngine ----------------------------
(* The tick engine for TLC: the deployed teams are interchangeable.        *)
EXTENDS TickEngine, TLC

TeamSymmetry == Permutations(Owners)
=============================================================================
