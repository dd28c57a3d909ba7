--------------------------- MODULE MCGitPromotion ---------------------------
(* One WorkItem and one ref; the worker of the kernel may lose its lease   *)
(* once and take it again.                                                 *)
EXTENDS GitPromotion

CONSTANTS w, p1, p2, l1, o1, k1, r1, commit

SoleOwner == [p \in {w} |-> o1]
SoleLeases == [p \in {w} |-> {l1}]
SoleTarget == [k \in {k1} |-> r1]
SoleExpected == [k \in {k1} |-> Absent]
SoleCommit == [k \in {k1} |-> commit]
=============================================================================
