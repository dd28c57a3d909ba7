-------------------------- MODULE MCSessionReentry --------------------------
(* Instances of SessionReentry and of StartupRecovery for TLC *)
EXTENDS StartupRecovery, TLC

(* Every packet was made in the first epoch. *)
FirstEpoch == [c \in Packets |-> 1]

Symmetry == Permutations(Controllers)
=============================================================================
