----------------------------- MODULE LogicGraph ------------------------------
(***************************************************************************)
(* The logic graph of pkg/logic/dag.go once BuildTopology has run, and the *)
(* goroutines (Caller) that share it: any of them may set an input, walk   *)
(* the graph with Evaluate, or reset the latches, at any time.             *)
(*                                                                         *)
(* Locks.  The graph's own lock is only ever taken for reading by these    *)
(* operations and is not modelled.  Evaluate holds node.mu from EnterNode  *)
(* to CommitNode, so that lock is the derived predicate NodeFree; it reads *)
(* the VALUES OF THE INPUTS WITHOUT THEIR LOCKS, which is why an input is  *)
(* read by a step of its own.  The loops of evaluate() may stop before     *)
(* the last input when the result is known; reading on changes nothing but *)
(* this caller's own copy, so the model reads them all.                    *)
(*                                                                         *)
(* PrevValue and the LastChanged of a node that is not a timer are never   *)
(* read after they are written and are left out.                           *)
(***************************************************************************)
EXTENDS GateLogic

CONSTANTS Node,         \* the nodes of the graph
          Type,         \* Type[n]: its NodeType
          Inputs,       \* Inputs[n]: the nodes it reads, in edge order
          DelayOn,      \* delays of the timers, in clock ticks
          DelayOff,
          TripOutput,   \* the OUTPUT nodes configured to trip a breaker
          topoOrder,    \* the order BuildTopology stored
          Caller,       \* goroutines that use the graph
          MaxTime       \* bound on the clock

ASSUME GraphAssumption ==
  /\ Type \in [Node -> NodeType]
  /\ Inputs \in [Node -> Seq(Node)]
  /\ DelayOn \in [Node -> Int]
  /\ DelayOff \in [Node -> Int]
  /\ TripOutput \subseteq {n \in Node : Type[n] = "OUTPUT"}
  /\ MaxTime \in Nat

(* What a successful TopologicalSort returns: every node once, after the *)
(* nodes it reads.                                                       *)
ASSUME TopoAssumption ==
  /\ topoOrder \in Seq(Node)
  /\ \A n \in Node : \E i \in DOMAIN topoOrder : topoOrder[i] = n
  /\ \A i, j \in DOMAIN topoOrder : topoOrder[i] = topoOrder[j] => i = j
  /\ \A i \in DOMAIN topoOrder : \A k \in DOMAIN Inputs[topoOrder[i]] :
       \E j \in 1..(i-1) : topoOrder[j] = Inputs[topoOrder[i]][k]

VARIABLES
  value,    \* node.Value
  latched,  \* node.Latched
  changed,  \* node.LastChanged of the timers
  now,      \* time.Now()
  pc,       \* where each caller is
  pos,      \* Evaluate: index of the loop over topoOrder
  seen,     \* Evaluate: the inputs of the current node read so far
  start,    \* Evaluate: its `start` time
  clock,    \* evaluateTimer: its `now`
  trips,    \* result.TripSignals of the current or last Evaluate
  todo,     \* ResetLatches: nodes the loop has not reached
  stale     \* auxiliary: a value was set or reset since an Evaluate began

nodeVars == <<value, latched, changed>>
evalVars == <<pos, seen, start, clock, trips>>
vars     == <<value, latched, changed, now, pc, pos, seen, start, clock,
              trips, todo, stale>>

Input  == {n \in Node : Type[n] = "INPUT"}
Latch  == {n \in Node : Type[n] = "LATCH"}
Timer  == {n \in Node : Type[n] = "TIMER"}
Gate   == Node \ Input
Last   == Len(topoOrder)
PC     == {"idle", "eval", "read", "reset"}
Time   == 0..MaxTime

(* How many inputs evaluate() looks at. *)
ReadCount(n) ==
  IF Type[n] \in SingleInput /\ Len(Inputs[n]) > 1 THEN 1 ELSE Len(Inputs[n])

InputValues(n) == [k \in 1..ReadCount(n) |-> value[Inputs[n][k]]]

Init ==
  /\ value   = [n \in Node |-> FALSE]
  /\ latched = [n \in Node |-> FALSE]
  /\ changed = [n \in Node |-> 0]
  /\ now = 0
  /\ pc    = [c \in Caller |-> "idle"]
  /\ pos   = [c \in Caller |-> 1]
  /\ seen  = [c \in Caller |-> <<>>]
  /\ start = [c \in Caller |-> 0]
  /\ clock = [c \in Caller |-> 0]
  /\ trips = [c \in Caller |-> {}]
  /\ todo  = [c \in Caller |-> {}]
  /\ stale = TRUE
-----------------------------------------------------------------------------
(* node.SetInput under node.mu, which Evaluate never takes for an INPUT. *)
SetInput(c, n, v) ==
  /\ pc[c] = "idle"
  /\ n \in Input
  /\ value' = [value EXCEPT ![n] = v]
  /\ stale' = (stale \/ value[n] # v)
  /\ UNCHANGED <<latched, changed, now, pc, evalVars, todo>>

BeginEvaluate(c) ==
  /\ pc[c] = "idle"
  /\ pc' = [pc EXCEPT ![c] = "eval"]
  /\ pos' = [pos EXCEPT ![c] = 1]
  /\ start' = [start EXCEPT ![c] = now]
  /\ trips' = [trips EXCEPT ![c] = {}]
  /\ stale' = FALSE
  /\ UNCHANGED <<nodeVars, now, seen, clock, todo>>

NextNode(i) == i + 1

SkipInput(c) ==
  /\ pc[c] = "eval"
  /\ pos[c] <= Last
  /\ Type[topoOrder[pos[c]]] = "INPUT"
  /\ pos' = [pos EXCEPT ![c] = NextNode(@)]
  /\ UNCHANGED <<nodeVars, now, pc, seen, start, clock, trips, todo, stale>>

(* node.mu of a node that is not an INPUT. *)
NodeNeverLocked(n) == TRUE
NodeFree(n) == \A c \in Caller : pc[c] = "read" => topoOrder[pos[c]] # n

EnterNode(c) ==
  /\ pc[c] = "eval"
  /\ pos[c] <= Last
  /\ Type[topoOrder[pos[c]]] # "INPUT"
  /\ NodeFree(topoOrder[pos[c]])
  /\ pc' = [pc EXCEPT ![c] = "read"]
  /\ seen' = [seen EXCEPT ![c] = <<>>]
  /\ UNCHANGED <<nodeVars, now, pos, start, clock, trips, todo, stale>>

(* evaluateTimer takes the time right after it has read its input. *)
ReadInput(c) ==
  LET n == topoOrder[pos[c]]
      k == Len(seen[c]) + 1
  IN  /\ pc[c] = "read"
      /\ k <= ReadCount(n)
      /\ seen' = [seen EXCEPT ![c] = Append(@, value[Inputs[n][k]])]
      /\ clock' = [clock EXCEPT ![c] = IF n \in Timer THEN now ELSE @]
      /\ UNCHANGED <<nodeVars, now, pc, pos, start, trips, todo, stale>>

(* node.evaluate() on the inputs `in` read at time t, for a node with the  *)
(* Value (and PrevValue) v, Latched l and LastChanged ch.                  *)
NodeValue(n, in, t, v, l, ch) ==
  CASE n \in Latch -> LatchValue(l, v, in)
    [] n \in Timer -> /\ in # <<>>
                      /\ TimerValue(in[1], v, v, ch, DelayOn[n], DelayOff[n], t)
    [] OTHER       -> GateValue(Type[n], in)

Evaluated(n, in, t) == NodeValue(n, in, t, value[n], latched[n], changed[n])

(* LastChanged of a timer: set by evaluateTimer, and again by Evaluate, to *)
(* the time its walk started, when the output changes.                     *)
ChangedAt(n, in, t, from, v) ==
  IF n \notin Timer THEN changed[n]
  ELSE IF v # value[n] THEN from
  ELSE IF in = <<>> THEN changed[n]
  ELSE TimerChanged(in[1], value[n], changed[n], t)

(* A trip signal is raised by level: on every Evaluate that finds it TRUE. *)
TripOnEdge(n, v) == n \in TripOutput /\ v /\ ~value[n]
TripSignal(n, v) == n \in TripOutput /\ v

CommitNode(c) ==
  LET n  == topoOrder[pos[c]]
      in == seen[c]
      v  == Evaluated(n, in, clock[c])
  IN  /\ pc[c] = "read"
      /\ Len(in) = ReadCount(n)
      /\ value'   = [value EXCEPT ![n] = v]
      /\ latched' = [latched EXCEPT ![n] = n \in Latch /\ (@ \/ v)]
      /\ changed' = [changed EXCEPT ![n] =
                       ChangedAt(n, in, clock[c], start[c], v)]
      /\ trips'   = [trips EXCEPT ![c] =
                       IF TripSignal(n, v) THEN @ \union {n} ELSE @]
      /\ pc'      = [pc EXCEPT ![c] = "eval"]
      /\ pos'     = [pos EXCEPT ![c] = NextNode(@)]
      /\ UNCHANGED <<now, seen, start, clock, todo, stale>>

EndEvaluate(c) ==
  /\ pc[c] = "eval"
  /\ pos[c] > Last
  /\ pc' = [pc EXCEPT ![c] = "idle"]
  /\ UNCHANGED <<nodeVars, now, evalVars, todo, stale>>

Evaluate(c) == \/ BeginEvaluate(c) \/ SkipInput(c) \/ EnterNode(c)
               \/ ReadInput(c) \/ CommitNode(c) \/ EndEvaluate(c)
-----------------------------------------------------------------------------
(* ResetLatches visits the latches in map order, each under its own lock,  *)
(* and evaluates nothing.                                                  *)
BeginReset(c) ==
  /\ pc[c] = "idle"
  /\ pc' = [pc EXCEPT ![c] = "reset"]
  /\ todo' = [todo EXCEPT ![c] = Latch]
  /\ UNCHANGED <<nodeVars, now, evalVars, stale>>

ResetOne(c, n) ==
  /\ pc[c] = "reset"
  /\ n \in todo[c]
  /\ NodeFree(n)
  /\ latched' = [latched EXCEPT ![n] = FALSE]
  /\ value' = [value EXCEPT ![n] = FALSE]
  /\ todo' = [todo EXCEPT ![c] = @ \ {n}]
  /\ stale' = (stale \/ value[n])
  /\ UNCHANGED <<changed, now, pc, evalVars>>

EndReset(c) ==
  /\ pc[c] = "reset"
  /\ todo[c] = {}
  /\ pc' = [pc EXCEPT ![c] = "idle"]
  /\ UNCHANGED <<nodeVars, now, evalVars, todo, stale>>

Tick ==
  /\ now < MaxTime
  /\ now' = now + 1
  /\ UNCHANGED <<nodeVars, pc, evalVars, todo, stale>>

Next ==
  \/ \E c \in Caller :
       \/ \E n \in Node, v \in BOOLEAN : SetInput(c, n, v)
       \/ Evaluate(c)
       \/ BeginReset(c)
       \/ \E n \in Node : ResetOne(c, n)
       \/ EndReset(c)
  \/ Tick

Spec == Init /\ [][Next]_vars
-----------------------------------------------------------------------------
TypeOK ==
  /\ value \in [Node -> BOOLEAN]
  /\ latched \in [Node -> BOOLEAN]
  /\ changed \in [Node -> Time]
  /\ now \in Time
  /\ pc \in [Caller -> PC]
  /\ pos \in [Caller -> 1..(Last + 1)]
  /\ seen \in [Caller -> Seq(BOOLEAN)]
  /\ start \in [Caller -> Time]
  /\ clock \in [Caller -> Time]
  /\ trips \in [Caller -> SUBSET TripOutput]
  /\ todo \in [Caller -> SUBSET Latch]
  /\ stale \in BOOLEAN

(* Evaluating the node here and now would leave its value as it is. *)
Settled(n) == value[n] = Evaluated(n, InputValues(n), now)

Evaluating(c) == pc[c] \in {"eval", "read"}

(* However the walks of several goroutines interleave, and although they   *)
(* read inputs without a lock, the graph ends in a fixpoint of its own     *)
(* logic: when no Evaluate is running and nothing was set or reset since   *)
(* the last one began, every node has the value its inputs call for.       *)
QuiescentFixpoint ==
  (~stale /\ \A c \in Caller : ~Evaluating(c)) => \A n \in Gate : Settled(n)

(* Evaluate (dag.go:414) never loses a trip: while a trip output is TRUE,  *)
(* the last walk of some goroutine reported it, or a walk has yet to reach *)
(* it and will decide.                                                     *)
Pending(c, n) == /\ Evaluating(c)
                 /\ \E i \in pos[c]..Last : topoOrder[i] = n
NoMissedTrip ==
  \A n \in TripOutput :
    value[n] => \E c \in Caller : n \in trips[c] \/ Pending(c, n)

(* Only ResetLatches opens a sealed latch, whatever the walks that hold    *)
(* older values of its input write (dag.go:267-275, 469-481).              *)
LatchSealed ==
  [][\A n \in Latch : value[n] /\ ~value'[n] =>
        \E c \in Caller : pc[c] = "reset" /\ n \in todo[c]]_vars

(* A wired timer never changes its output in a direction for which a delay *)
(* is configured: evaluateTimer compares its input with its own output and *)
(* so restarts the delay on every walk (dag.go:299-305 after 405).         *)
DelayedTimerFrozen ==
  [][\A n \in Timer : Inputs[n] # <<>> /\ value[n] # value'[n] =>
        (IF value'[n] THEN DelayOn[n] ELSE DelayOff[n]) <= 0]_vars
=============================================================================
