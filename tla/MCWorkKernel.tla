--------------------------- MODULE MCWorkKernel ----------------------------
(* Instances of WorkKernel: a worker that may stop beside one that does    *)
(* not, each with an owner_id and lease_ids of its own; and one worker     *)
(* alone.                                                                  *)
EXTENDS WorkKernel

CONSTANTS p1, p2, l1, l2, l3, o1, o2

PairOwner == [p \in {p1, p2} |-> IF p = p1 THEN o1 ELSE o2]
PairLeases == [p \in {p1, p2} |-> IF p = p1 THEN {l1} ELSE {l2, l3}]
SoleOwner == [p \in {p2} |-> o2]
SoleLeases == [p \in {p2} |-> {l2}]
=============================================================================
