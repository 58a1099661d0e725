----------------------------- MODULE MCRelease -----------------------------
(* Small instances of Release for TLC.                                      *)
EXTENDS Release, TLC

CONSTANTS a1, a2, d1, x1

EveryHandler == AllHandlers
CuratorSymmetry == Permutations(Curators)
TaskSymmetry == Permutations(Tasks)
ProcSymmetry == CuratorSymmetry \cup TaskSymmetry

=============================================================================
