------------------------- MODULE MCReconciliation -------------------------
(* A base of two documents: d1 holds a block and a branch of it, both      *)
(* shown by a snapshot, the branch annotated; d2 holds one block.          *)
EXTENDS Reconciliation

CONSTANTS d1, d2, d3, b1, b2, b3, b4, b5, c1, c2, p1, p2, a1, a2

MCBase ==
    [documents   |-> [d \in {d1, d2} |->
                        [words |-> "base", title |-> "short", blocks |-> IF d = d1 THEN <<b1, b2>> ELSE <<b3>>]],
     connections |-> [c \in {c1} |-> [from |-> b1, to |-> b2]],
     annotations |-> [a \in {a1} |-> b2],
     snapshots   |-> [p \in {p1} |-> [document |-> d1, blocks |-> {b1, b2}]],
     settings    |-> [f \in {"active", "dictation"} |-> "base"]]
=============================================================================
