------------------------------ MODULE GateLogic ------------------------------
(***************************************************************************)
(* What one node of the protection logic computes from its inputs          *)
(* (pkg/logic/dag.go, evaluate and evaluateTimer).  The inputs are the     *)
(* sequence `in` of the values read from node.Inputs; the node's own state *)
(* (Value, PrevValue, Latched, LastChanged) comes in as parameters.        *)
(***************************************************************************)
EXTENDS Integers, Sequences, FiniteSets

NodeType == {"INPUT", "AND", "OR", "NOT", "NAND", "NOR", "XOR",
             "TIMER", "LATCH", "OUTPUT"}

(* Types that look at Inputs[0] alone. *)
SingleInput == {"NOT", "TIMER", "LATCH", "OUTPUT"}

First(in)   == in # <<>> /\ in[1]
AllButFirst(in) == \A k \in DOMAIN in : k > 1 => in[k]
AllTrue(in) == \A k \in DOMAIN in : in[k]
AnyTrue(in) == \E k \in DOMAIN in : in[k]

(* The loop of the XOR case flips its result once per TRUE input. *)
Odd(in) == Cardinality({k \in DOMAIN in : in[k]}) % 2 = 1

(* The gates without state.  An unconnected NAND or NOR is TRUE, every    *)
(* other unconnected gate is FALSE, and so is an XOR of one input.        *)
GateValue(type, in) ==
  CASE type = "AND"    -> in # <<>> /\ AllTrue(in)
    [] type = "OR"     -> AnyTrue(in)
    [] type = "NOT"    -> in # <<>> /\ ~in[1]
    [] type = "NAND"   -> in = <<>> \/ ~AllTrue(in)
    [] type = "NOR"    -> ~AnyTrue(in)
    [] type = "XOR"    -> Len(in) >= 2 /\ Odd(in)
    [] type = "OUTPUT" -> First(in)
    [] OTHER           -> FALSE

(* A latch keeps its value once sealed and seals on a TRUE input. *)
UnsealedLatch(latched, value, in) == First(in)
LatchValue(latched, value, in) == IF latched THEN value ELSE First(in)

(* evaluateTimer restarts its clock when the input differs from PrevValue, *)
(* which Evaluate has set to the timer's own OUTPUT a moment before.       *)
NoRestart(in, prev, changed, now) == changed
TimerChanged(in, prev, changed, now) == IF in # prev THEN now ELSE changed

TimerValue(in, prev, value, changed, on, off, now) ==
  LET delay   == IF in THEN on ELSE off
      elapsed == now - TimerChanged(in, prev, changed, now)
  IN  IF delay > 0 /\ elapsed < delay THEN value ELSE in
=============================================================================
