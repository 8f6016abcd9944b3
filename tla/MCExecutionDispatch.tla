------------------------ MODULE MCExecutionDispatch ------------------------
(* A small instance of ExecutionDispatch for TLC; the calls are            *)
(* interchangeable.                                                        *)
EXTENDS ExecutionDispatch, TLC

ActiveRoom == [base |-> 1, reconciliation |-> 1, emergency |-> 1]
KeyRoom == [base |-> 2, reconciliation |-> 1, emergency |-> 1]

Symmetry == Permutations(Callers)
=============================================================================
