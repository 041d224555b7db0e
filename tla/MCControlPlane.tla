--------------------------- MODULE MCControlPlane ---------------------------
EXTENDS ControlPlane, TLC

CONSTANTS i1

OneId == {i1}
KeysOfOne == {"dispatch", "pipeline"} \X OneId

\* The calls are alike: no action, property or constant names one.
Alike == Permutations(Calls)
=============================================================================
