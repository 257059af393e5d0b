--------------------------- MODULE LogicGraphInv -----------------------------
(* The inductive invariant behind the properties of LogicGraph. *)
EXTENDS LogicGraph

Current(c) == topoOrder[pos[c]]

(* A walk inside a node is at a gate and has read no more inputs than that *)
(* gate looks at; two walks are never inside the same node.                *)
WalkOK ==
  /\ \A c \in Caller : pc[c] = "read" =>
       /\ pos[c] \in 1..Last
       /\ Current(c) \in Gate
       /\ Len(seen[c]) <= ReadCount(Current(c))
  /\ \A c, d \in Caller :
       pc[c] = "read" /\ pc[d] = "read" /\ pos[c] = pos[d] => c = d

(* Sealed is the same as TRUE. *)
LatchOK == \A n \in Latch : latched[n] = value[n]

(* The inputs a walk has read at its node are still what they were. *)
Fresh(c) == \A k \in 1..Len(seen[c]) : seen[c][k] = value[Inputs[Current(c)][k]]

(* A walk that will still enter position i. *)
NotReached(c, i) == \/ pc[c] = "eval" /\ pos[c] <= i
                    \/ pc[c] = "read" /\ pos[c] < i

(* Whoever may leave node i with the wrong value is followed by a walk     *)
(* that will see the right inputs: an unsettled gate is yet to be entered, *)
(* or is being evaluated from fresh inputs, or something was set since the *)
(* last walk began ...                                                     *)
Covered(i) == \/ stale
              \/ \E c \in Caller : NotReached(c, i)
              \/ \E c \in Caller : pc[c] = "read" /\ pos[c] = i /\ Fresh(c)

SettledOrCovered ==
  \A i \in 1..Last :
    topoOrder[i] \in Gate => Settled(topoOrder[i]) \/ Covered(i)

(* ... and a walk holding outdated inputs has another one behind it. *)
OutdatedFollowed ==
  \A c \in Caller : pc[c] = "read" /\ ~Fresh(c) =>
    stale \/ \E d \in Caller : NotReached(d, pos[c])

FixpointInv == WalkOK /\ LatchOK /\ SettledOrCovered /\ OutdatedFollowed
=============================================================================
