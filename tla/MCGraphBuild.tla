---------------------------- MODULE MCGraphBuild -----------------------------
(* Three ids: the smallest set with a cycle that is neither a self-loop nor *)
(* a pair, and with a node before, in and after a cycle.                    *)
EXTENDS GraphBuild, TLC

Symmetry == Permutations(Node) \union Permutations(Caller)

(* Bounds on the product of the two halves: graphs of two and three edges   *)
(* are sorted while the callers are idle and have created nothing, and one  *)
(* edge at most comes after the sort has begun.                             *)
LargeGraphsAlone ==
  Len(edges) > 1 =>
    \A c \in Caller : pc[c] = "idle" /\ c \notin {adder[n] : n \in Node}
OneLateEdge == phase # "idle" => Len(edges) <= sortedFrom.edges + 1
=============================================================================
