-------------------------- MODULE MCExecutionLock --------------------------
(* Instances of ExecutionLock: three writers that may all fail or be slow, *)
(* and one that may fail beside two that contend for the lock it leaves.   *)
EXTENDS ExecutionLock

CONSTANTS w1, w2, w3

BusyTrio == [w \in {w1, w2, w3} |-> IF w = w1 THEN 2 ELSE 1]
TrioCalls == [w \in {w1, w2, w3} |-> 1]
=============================================================================
