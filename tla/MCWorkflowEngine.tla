------------------------- MODULE MCWorkflowEngine -------------------------
(***************************************************************************)
(* Three workflows: the one drawn in docs/17-workflow (a decision, a       *)
(* split, a join, an approval and a rollback), one whose branches have two *)
(* tasks each or none, and one with an approval inside a branch, which     *)
(* validate() accepts and the walk refuses.                                *)
(***************************************************************************)
EXTENDS WorkflowEngine

Edge(from, condition, to) == [from |-> from, to |-> to, condition |-> condition]

Nodes == {"t1", "d", "p", "t3", "t4", "j", "h", "t5", "rb", "t2", "e"}

Documented ==
    [start |-> "t1",
     type |-> [n \in Nodes |->
                 CASE n = "d" -> "decision" [] n = "p" -> "parallel_split" [] n = "j" -> "join"
                   [] n = "h" -> "human_approval" [] n = "rb" -> "rollback" [] n = "e" -> "end"
                   [] OTHER -> "task"],
     edges |-> <<Edge("t1", "always", "d"), Edge("d", "A", "p"), Edge("d", "B", "t2"),
                 Edge("p", "always", "t3"), Edge("p", "always", "t4"),
                 Edge("t3", "always", "j"), Edge("t4", "always", "j"),
                 Edge("j", "always", "h"), Edge("h", "approved", "t5"),
                 Edge("h", "denied", "rb"), Edge("t2", "always", "e"),
                 Edge("t5", "always", "e"), Edge("rb", "always", "e")>>]

LongBranches ==
    [start |-> "p",
     type |-> [n \in Nodes |->
                 CASE n = "d" -> "decision" [] n = "p" -> "parallel_split" [] n = "j" -> "join"
                   [] n = "e" -> "end" [] OTHER -> "task"],
     edges |-> <<Edge("p", "always", "t1"), Edge("p", "always", "t3"), Edge("p", "always", "j"),
                 Edge("t1", "always", "t2"), Edge("t2", "always", "j"),
                 Edge("t3", "always", "t4"), Edge("t4", "always", "j"),
                 Edge("j", "always", "d"), Edge("d", "A", "t5"), Edge("d", "B", "e"),
                 Edge("t5", "always", "e")>>]

Malformed ==
    [start |-> "p",
     type |-> [n \in Nodes |->
                 CASE n = "p" -> "parallel_split" [] n = "j" -> "join"
                   [] n = "h" -> "human_approval" [] n = "e" -> "end" [] OTHER -> "task"],
     edges |-> <<Edge("p", "always", "t1"), Edge("p", "always", "t3"),
                 Edge("t1", "always", "t2"), Edge("t2", "always", "j"),
                 Edge("t3", "always", "h"), Edge("h", "always", "j"),
                 Edge("j", "always", "e")>>]

Definitions == {Documented, LongBranches, Malformed}

\* Where their branches lie: <<edge, nodes in order>>.
Lanes(d) == IF d = Documented THEN {<<4, <<"t3">>>>, <<5, <<"t4">>>>}
            ELSE IF d = LongBranches THEN {<<1, <<"t1", "t2">>>>, <<2, <<"t3", "t4">>>>}
            ELSE {<<1, <<"t1", "t2">>>>, <<2, <<"t3", "h">>>>}

InLane(n, l) == \E i \in DOMAIN l[2] : l[2][i] = n

ASSUME AllAreWellBranched ==
    \A d \in Definitions :
        BranchesAreLanes(d,
            [n \in Nodes |-> IF \E l \in Lanes(d) : InLane(n, l)
                             THEN (CHOOSE l \in Lanes(d) : InLane(n, l))[1] ELSE 0],
            [n \in Nodes |-> IF \E l \in Lanes(d) : InLane(n, l)
                             THEN LET l == CHOOSE l \in Lanes(d) : InLane(n, l)
                                  IN  (CHOOSE i \in DOMAIN l[2] : l[2][i] = n) - 1 ELSE 0])
============================================================================
