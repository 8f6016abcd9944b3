-------------------------- MODULE MCExecutorBridge --------------------------
(* A small instance of ExecutorBridge; command identifiers and keys are     *)
(* interchangeable.                                                         *)
EXTENDS ExecutorBridge, TLC

Symmetry == Permutations(Commands) \cup Permutations(Keys)
=============================================================================
