-------------------------- MODULE MCAutonomousLoop --------------------------
(* Operation lists of custom proposals.  Runs are alike, and so are jobs when none
   of them is singled out by Timed. *)
EXTENDS AutonomousLoop, TLC
CONSTANTS f1, f2
TwoOps == {<<f1, f2>>}
NoOps == {}
Alike == Permutations(Runs) \cup Permutations(Jobs)
=============================================================================
