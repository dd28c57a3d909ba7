--------------------------- MODULE AtomicDocument ---------------------------
(***************************************************************************)
(* What write_transaction promises of the project memory document: it is   *)
(* the sequence of committed transitions, each applied to the document the *)
(* one before it left.  Revision n is the document after n commits.        *)
(***************************************************************************)
EXTENDS Sequences

CONSTANT Transitions

VARIABLE doc

Init == doc = <<>>

Commit(x) == doc' = Append(doc, x)

Next == \E x \in Transitions : Commit(x)

Spec == Init /\ [][Next]_doc
=============================================================================
