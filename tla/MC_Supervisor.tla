--------------------------- MODULE MC_Supervisor ---------------------------
(* Versions 1 and 2 are sound, 3 is not; the package is version 1.         *)
EXTENDS Supervisor, TLC

CONSTANTS p1, p2, p3

MCVersions == 1..3
MCSound == {1, 2}
MCPids == {p1, p2, p3}

MCSymmetry == Permutations(Pids)
=============================================================================
