---------------------------- MODULE MCComputeJobs ---------------------------
(* Small instances of ComputeJobs: all jobs of the same content, the       *)
(* jobs in Exact with a client_request_id, the same one.                   *)
EXTENDS ComputeJobs, TLC

CONSTANTS Exact, Second   \* the jobs with a request id; the second owner's

MCOwnerOf == [j \in Jobs |-> IF j \in Second THEN "bob" ELSE "alice"]
MCKeyOf == [j \in Jobs |-> IF j \in Exact THEN CHOOSE k \in Keys : TRUE ELSE None]
MCContentOf == [j \in Jobs |-> CHOOSE c \in Contents : TRUE]

Symmetry == Permutations(Workers) \cup Permutations(Lanes)
=============================================================================
