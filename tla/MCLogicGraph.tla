---------------------------- MODULE MCLogicGraph -----------------------------
(* Goroutines on a graph with every kind of stateful node.  The timer      *)
(* operates at once and delays its release, so the XOR of the input and    *)
(* the timer is TRUE after the input has come and gone; it seals the latch *)
(* that feeds the trip output.  A walk may read the two inputs of the XOR  *)
(* before and after a change, and the latch may be reset and sealed again  *)
(* while another goroutine is anywhere in its walk.                        *)
EXTENDS LogicGraphInv

GraphNode == {"a", "t", "x", "l", "o"}
GraphType == [a |-> "INPUT", t |-> "TIMER", x |-> "XOR", l |-> "LATCH",
              o |-> "OUTPUT"]
GraphInputs == [a |-> <<>>, t |-> <<"a">>, x |-> <<"a", "t">>, l |-> <<"x">>,
                o |-> <<"l">>]
GraphOrder == <<"a", "t", "x", "l", "o">>
NoDelay == [n \in Node |-> 0]
ReleaseDelay == [n \in Node |-> IF n = "t" THEN 1 ELSE 0]
TripOutputs == {"o"}
=============================================================================
