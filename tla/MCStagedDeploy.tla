--------------------------- MODULE MCStagedDeploy ---------------------------
(* Values for the constants of StagedDeploy.                               *)
EXTENDS StagedDeploy, TLC

NameSymmetry == Permutations(Names)

=============================================================================
