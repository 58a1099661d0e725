--------------------------- MODULE MCColdStorage ---------------------------
(* Small instances of ColdStorage for TLC.                                  *)
EXTENDS ColdStorage, TLC

CONSTANTS r1, r2, f1, f2

\* One record with two files, or with one.
OneRecord == f1 :> r1 @@ f2 :> r1
OneFile == f1 :> r1

AllOptions == {o \in Options : ~o.register => ~o.force}
Registering == {[register |-> TRUE, force |-> FALSE, dry |-> FALSE]}

FileSymmetry == Permutations(Files)
IdSymmetry == Permutations(Requests) \cup Permutations(Jobs)
FullSymmetry == FileSymmetry \cup IdSymmetry

=============================================================================
