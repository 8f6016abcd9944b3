--------------------------- MODULE MCExecutorQueue --------------------------
(* A small instance of ExecutorQueue: identifiers, workers and receipts are *)
(* interchangeable.                                                         *)
EXTENDS ExecutorQueue, TLC

Symmetry == Permutations(Commands) \cup Permutations(Workers)
              \cup Permutations(Receipts) \cup Permutations(Keys)
=============================================================================
