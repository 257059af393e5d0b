-------------------------- MODULE LogicGraphProofs ---------------------------
(***************************************************************************)
(* Theorems about LogicGraph, for every graph, every number of goroutines  *)
(* and every delay; and the one about the protection scheme the gateway    *)
(* runs, which is what its graph's fixpoint comes to.                      *)
(***************************************************************************)
EXTENDS LogicGraphInv, OverCurrentScheme, SequenceTheorems, TLAPS

(* What a node becomes, without the clock: TimerLemma shows that the clock *)
(* and LastChanged make no difference.                                     *)
Result(n, in, v, l) ==
  IF n \in Latch THEN IF l THEN v ELSE First(in)
  ELSE IF n \in Timer
       THEN IF in = <<>> THEN FALSE
            ELSE IF in[1] = v \/ (IF in[1] THEN DelayOn[n] ELSE DelayOff[n]) > 0
                 THEN v ELSE in[1]
  ELSE GateValue(Type[n], in)

(* A timer whose PrevValue is its own Value never sees a delay elapse: it  *)
(* follows its input at once when no delay is configured for that          *)
(* direction, and stays as it is for ever when one is (dag.go:291-326).    *)
LEMMA TimerLemma ==
  ASSUME NEW i \in BOOLEAN, NEW v \in BOOLEAN, NEW ch \in Int,
         NEW on \in Int, NEW off \in Int, NEW t \in Int
  PROVE  TimerValue(i, v, v, ch, on, off, t) =
           IF i = v \/ (IF i THEN on ELSE off) > 0 THEN v ELSE i
<1>1. CASE i = v
  BY <1>1 DEF TimerValue
<1>2. CASE i # v
  <2>1. TimerChanged(i, v, ch, t) = t
    BY <1>2 DEF TimerChanged
  <2>2. t - t = 0
    OBVIOUS
  <2> DEFINE d == IF i THEN on ELSE off
  <2>3. d \in Int
    OBVIOUS
  <2>4. (d > 0 /\ t - TimerChanged(i, v, ch, t) < d) <=> d > 0
    <3> HIDE DEF d
    <3> QED BY <2>1, <2>2, <2>3
  <2> QED BY <1>2, <2>4 DEF TimerValue
<1> QED BY <1>1, <1>2

(* A gate of any type yields a Boolean. *)
LEMMA GateBoolean ==
  ASSUME NEW type, NEW in \in Seq(BOOLEAN)
  PROVE  GateValue(type, in) \in BOOLEAN
BY Zenon DEF GateValue, AllTrue, AnyTrue, First, Odd

LEMMA FirstBoolean ==
  ASSUME NEW in \in Seq(BOOLEAN)
  PROVE  /\ First(in) \in BOOLEAN
         /\ in # <<>> => in[1] \in BOOLEAN
BY DEF First

LEMMA ResultBoolean ==
  ASSUME NEW n \in Node, NEW in \in Seq(BOOLEAN), NEW v \in BOOLEAN,
         NEW l \in BOOLEAN
  PROVE  Result(n, in, v, l) \in BOOLEAN
BY GateBoolean, FirstBoolean, Zenon DEF Result

(* The clock-free result is what the model's node.evaluate() returns: the  *)
(* facts about the data, then the operator of the model, before and after  *)
(* a step.                                                                 *)
LEMMA TimerResult ==
  ASSUME NEW n \in Timer, NEW in \in Seq(BOOLEAN), in # <<>>, NEW t \in Int,
         NEW v \in BOOLEAN, NEW l, NEW ch \in Int
  PROVE  TimerValue(in[1], v, v, ch, DelayOn[n], DelayOff[n], t)
           = Result(n, in, v, l)
<1>1. n \in Node /\ n \notin Latch
  BY DEF Latch, Timer
<1>2. in[1] \in BOOLEAN /\ DelayOn[n] \in Int /\ DelayOff[n] \in Int
  BY <1>1, FirstBoolean, GraphAssumption
<1>3. TimerValue(in[1], v, v, ch, DelayOn[n], DelayOff[n], t)
        = IF in[1] = v \/ (IF in[1] THEN DelayOn[n] ELSE DelayOff[n]) > 0
          THEN v ELSE in[1]
  BY <1>2, TimerLemma
<1>4. Result(n, in, v, l)
        = IF in[1] = v \/ (IF in[1] THEN DelayOn[n] ELSE DelayOff[n]) > 0
          THEN v ELSE in[1]
  BY <1>1, Zenon DEF Result
<1> QED BY <1>3, <1>4

LEMMA NotBoth == \A n \in Latch : n \notin Timer
BY DEF Latch, Timer

LEMMA NodeValueLemma ==
  ASSUME NEW n \in Node, NEW in \in Seq(BOOLEAN), NEW t \in Int,
         NEW v \in BOOLEAN, NEW l \in BOOLEAN, NEW ch \in Int
  PROVE  NodeValue(n, in, t, v, l, ch) = Result(n, in, v, l)
<1>1. CASE n \in Timer /\ in # <<>>
  <2>1. TimerValue(in[1], v, v, ch, DelayOn[n], DelayOff[n], t)
          = Result(n, in, v, l)
    BY <1>1, TimerResult
  <2>2. Result(n, in, v, l) \in BOOLEAN
    BY ResultBoolean
  <2>3. NodeValue(n, in, t, v, l, ch)
          = TimerValue(in[1], v, v, ch, DelayOn[n], DelayOff[n], t)
    BY <1>1, <2>1, <2>2, NotBoth, Zenon DEF NodeValue
  <2> QED BY <2>1, <2>3
<1>2. CASE n \in Timer /\ in = <<>>
  BY <1>2, NotBoth, Zenon DEF NodeValue, Result
<1>3. CASE n \in Latch
  BY <1>3, NotBoth, Zenon DEF NodeValue, Result, LatchValue
<1>4. CASE n \notin Timer /\ n \notin Latch
  BY <1>4, Zenon DEF NodeValue, Result
<1> QED BY <1>1, <1>2, <1>3, <1>4

(* Evaluating a node twice on the same inputs changes nothing the second   *)
(* time.                                                                   *)
LEMMA ResultIdempotent ==
  ASSUME NEW n \in Node, NEW in \in Seq(BOOLEAN), NEW v \in BOOLEAN,
         NEW l \in BOOLEAN, n \in Latch => l = v,
         NEW w, w = Result(n, in, v, l),
         NEW m, n \in Latch => m = w
  PROVE  Result(n, in, w, m) = w
<1>0. w \in BOOLEAN
  BY ResultBoolean
<1>1. CASE n \in Latch
  BY <1>0, <1>1, Zenon DEF Result
<1>2. CASE n \in Timer /\ n \notin Latch
  BY <1>0, <1>2, FirstBoolean, Zenon DEF Result
<1>3. CASE n \notin Latch /\ n \notin Timer
  BY <1>3, Zenon DEF Result
<1> QED BY <1>1, <1>2, <1>3
-----------------------------------------------------------------------------
LEMMA OrderType ==
  /\ Last \in Nat
  /\ DOMAIN topoOrder = 1..Last
  /\ \A i \in 1..Last : topoOrder[i] \in Node
BY TopoAssumption DEF Last

LEMMA InputType ==
  ASSUME NEW n \in Node
  PROVE  /\ ReadCount(n) \in Nat
         /\ ReadCount(n) <= Len(Inputs[n])
         /\ \A k \in 1..ReadCount(n) : Inputs[n][k] \in Node
BY GraphAssumption DEF ReadCount

LEMMA FunctionSeq ==
  ASSUME NEW S, NEW m \in Nat, NEW f \in [1..m -> S]
  PROVE  f \in Seq(S) /\ Len(f) = m
<1>1. f \in Seq(S)
  OBVIOUS
<1>2. DOMAIN f = 1..m
  OBVIOUS
<1>3. DOMAIN f = 1..Len(f) /\ Len(f) \in Nat
  BY <1>1, LenProperties
<1> QED BY <1>1, <1>2, <1>3

LEMMA InputSequence ==
  ASSUME NEW n \in Node, NEW val \in [Node -> BOOLEAN],
         NEW f, f = [k \in 1..ReadCount(n) |-> val[Inputs[n][k]]]
  PROVE  /\ f \in Seq(BOOLEAN)
         /\ Len(f) = ReadCount(n)
         /\ \A k \in 1..ReadCount(n) : f[k] = val[Inputs[n][k]]
<1>1. ReadCount(n) \in Nat
      /\ \A k \in 1..ReadCount(n) : val[Inputs[n][k]] \in BOOLEAN
  BY InputType
<1>2. f \in [1..ReadCount(n) -> BOOLEAN]
  BY <1>1
<1>3. f \in Seq(BOOLEAN) /\ Len(f) = ReadCount(n)
  BY <1>1, <1>2, FunctionSeq
<1> QED BY <1>3

(* A node never reads a node at or after its own place in the order. *)
LEMMA InputsBefore ==
  ASSUME NEW i \in 1..Last, NEW k \in 1..ReadCount(topoOrder[i]),
         NEW j \in 1..Last, Inputs[topoOrder[i]][k] = topoOrder[j]
  PROVE  j < i
<1>1. topoOrder[i] \in Node
  BY OrderType
<1>2. k \in DOMAIN Inputs[topoOrder[i]]
  BY <1>1, InputType, GraphAssumption
<1>3. PICK m \in 1..(i-1) : topoOrder[m] = Inputs[topoOrder[i]][k]
  BY <1>2, OrderType, TopoAssumption
<1>4. m = j
  BY <1>3, OrderType, TopoAssumption
<1> QED BY <1>3, <1>4, OrderType

(* WalkOK holds positions and nodes together. *)
LEMMA ReaderType ==
  ASSUME TypeOK, WalkOK, NEW c \in Caller, pc[c] = "read"
  PROVE  /\ pos[c] \in 1..Last
         /\ Current(c) \in Node
         /\ Current(c) \notin Input
         /\ seen[c] \in Seq(BOOLEAN)
         /\ Len(seen[c]) <= ReadCount(Current(c))
BY OrderType DEF TypeOK, WalkOK, Gate, Current

(* What a walk writes at its node. *)
LEMMA CommitValue ==
  ASSUME TypeOK, WalkOK, NEW c \in Caller, pc[c] = "read"
  PROVE  /\ Evaluated(Current(c), seen[c], clock[c])
              = Result(Current(c), seen[c], value[Current(c)],
                       latched[Current(c)])
         /\ Evaluated(Current(c), seen[c], clock[c]) \in BOOLEAN
<1> DEFINE n == Current(c)
<1>1. /\ clock[c] \in Int
      /\ n \in Node
      /\ seen[c] \in Seq(BOOLEAN)
      /\ value[n] \in BOOLEAN
      /\ latched[n] \in BOOLEAN
      /\ changed[n] \in Int
  BY ReaderType DEF TypeOK, Time
<1> HIDE DEF n
<1>2. NodeValue(n, seen[c], clock[c], value[n], latched[n], changed[n])
        = Result(n, seen[c], value[n], latched[n])
  BY <1>1, NodeValueLemma
<1>3. Result(n, seen[c], value[n], latched[n]) \in BOOLEAN
  BY <1>1, ResultBoolean
<1> QED BY <1>2, <1>3 DEF Evaluated, n

-----------------------------------------------------------------------------
LEMMA InitInv == Init => TypeOK /\ WalkOK /\ LatchOK
<1> SUFFICES ASSUME Init PROVE TypeOK /\ WalkOK /\ LatchOK
  OBVIOUS
<1>1. TypeOK
  BY OrderType, GraphAssumption DEF Init, TypeOK, Time, PC
<1>2. WalkOK
  BY DEF Init, WalkOK
<1>3. LatchOK
  BY DEF Init, LatchOK, Latch
<1> QED BY <1>1, <1>2, <1>3

LEMMA TypeStep ==
  ASSUME TypeOK, WalkOK, [Next]_vars
  PROVE  TypeOK'
<1> USE OrderType, GraphAssumption
<1>1. ASSUME NEW c \in Caller, NEW n \in Node, NEW v \in BOOLEAN, SetInput(c, n, v)
      PROVE  TypeOK'
  <2>1. value' \in [Node -> BOOLEAN]
    BY <1>1 DEF SetInput, TypeOK
  <2>2. stale' \in BOOLEAN
    BY <1>1, Zenon DEF SetInput, TypeOK
  <2> QED BY <1>1, <2>1, <2>2 DEF SetInput, TypeOK, evalVars
<1>2. ASSUME NEW c \in Caller, BeginEvaluate(c) PROVE TypeOK'
  <2>1. pos' \in [Caller -> 1..(Last + 1)] /\ pc' \in [Caller -> PC]
    BY <1>2 DEF BeginEvaluate, TypeOK, PC
  <2>2. start' \in [Caller -> Time] /\ trips' \in [Caller -> SUBSET TripOutput]
    BY <1>2 DEF BeginEvaluate, TypeOK
  <2> QED BY <1>2, <2>1, <2>2 DEF BeginEvaluate, TypeOK, nodeVars
<1>3. ASSUME NEW c \in Caller, SkipInput(c) PROVE TypeOK'
  <2>1. pos[c] + 1 \in 1..(Last + 1)
    BY <1>3 DEF SkipInput, TypeOK
  <2> QED BY <1>3, <2>1 DEF SkipInput, TypeOK, nodeVars, NextNode
<1>4. ASSUME NEW c \in Caller, EnterNode(c) PROVE TypeOK'
  BY <1>4 DEF EnterNode, TypeOK, nodeVars, PC
<1>5. ASSUME NEW c \in Caller, ReadInput(c) PROVE TypeOK'
  <2>1. value[Inputs[Current(c)][Len(seen[c]) + 1]] \in BOOLEAN
    <3>1. Current(c) \in Node /\ seen[c] \in Seq(BOOLEAN)
      BY <1>5, ReaderType DEF ReadInput
    <3>2. Len(seen[c]) + 1 \in 1..ReadCount(Current(c))
      <4>1. Len(seen[c]) \in Nat
        BY <3>1, LenProperties
      <4>2. Len(seen[c]) + 1 <= ReadCount(Current(c))
        BY <1>5 DEF ReadInput, Current
      <4> QED BY <3>1, <4>1, <4>2, InputType
    <3>3. Inputs[Current(c)][Len(seen[c]) + 1] \in Node
      BY <3>1, <3>2, InputType
    <3> QED BY <3>3 DEF TypeOK
  <2>2. seen' \in [Caller -> Seq(BOOLEAN)]
    BY <1>5, <2>1 DEF ReadInput, Current, TypeOK
  <2> QED BY <1>5, <2>2 DEF ReadInput, TypeOK, nodeVars
<1>6. ASSUME NEW c \in Caller, CommitNode(c) PROVE TypeOK'
  <2> DEFINE n == Current(c)
             v == Evaluated(n, seen[c], clock[c])
  <2>1. v \in BOOLEAN /\ n \in Node /\ pos[c] \in 1..Last
    BY <1>6, CommitValue, ReaderType DEF CommitNode
  <2>2. ChangedAt(n, seen[c], clock[c], start[c], v) \in Time
    BY <2>1 DEF ChangedAt, TimerChanged, TypeOK
  <2>3. value' = [value EXCEPT ![n] = v]
    BY <1>6 DEF CommitNode, Current
  <2>4. \A x \in {n} : latched' = [latched EXCEPT ![x] = x \in Latch /\ (@ \/ v)]
    BY <1>6 DEF CommitNode, Current
  <2>5. latched' \in [Node -> BOOLEAN]
    <3>1. (n \in Latch /\ (latched[n] \/ v)) \in BOOLEAN
      BY Zenon
    <3> QED BY <2>1, <2>4, <3>1 DEF TypeOK
  <2>6. changed' \in [Node -> Time]
    BY <1>6, <2>1, <2>2 DEF CommitNode, Current, TypeOK
  <2>7. trips' \in [Caller -> SUBSET TripOutput]
    BY <1>6 DEF CommitNode, Current, TypeOK, TripSignal
  <2>8. pc' \in [Caller -> PC] /\ pos' \in [Caller -> 1..(Last + 1)]
    <3>1. pc' = [pc EXCEPT ![c] = "eval"] /\ pos' = [pos EXCEPT ![c] = pos[c] + 1]
      BY <1>6 DEF CommitNode, NextNode
    <3>2. pos[c] + 1 \in 1..(Last + 1)
      BY <2>1, OrderType
    <3> QED BY <3>1, <3>2 DEF TypeOK, PC
  <2>9. value' \in [Node -> BOOLEAN]
    BY <2>1, <2>3 DEF TypeOK
  <2>10. UNCHANGED <<now, seen, start, clock, todo, stale>>
    BY <1>6 DEF CommitNode
  <2> HIDE DEF n, v
  <2> QED BY <2>5, <2>6, <2>7, <2>8, <2>9, <2>10 DEF TypeOK
<1>7. ASSUME NEW c \in Caller, EndEvaluate(c) PROVE TypeOK'
  BY <1>7 DEF EndEvaluate, TypeOK, nodeVars, evalVars, PC
<1>8. ASSUME NEW c \in Caller, BeginReset(c) PROVE TypeOK'
  BY <1>8 DEF BeginReset, TypeOK, nodeVars, evalVars, PC
<1>9. ASSUME NEW c \in Caller, NEW n \in Node, ResetOne(c, n) PROVE TypeOK'
  <2>1. stale' \in BOOLEAN
    BY <1>9, Zenon DEF ResetOne, TypeOK
  <2> QED BY <1>9, <2>1 DEF ResetOne, TypeOK, evalVars
<1>10. ASSUME NEW c \in Caller, EndReset(c) PROVE TypeOK'
  BY <1>10 DEF EndReset, TypeOK, nodeVars, evalVars, PC
<1>11. CASE Tick
  BY <1>11 DEF Tick, TypeOK, nodeVars, evalVars, Time
<1>12. CASE UNCHANGED vars
  BY <1>12 DEF vars, TypeOK
<1> QED BY <1>1, <1>2, <1>3, <1>4, <1>5, <1>6, <1>7, <1>8, <1>9, <1>10,
           <1>11, <1>12, Zenon DEF Next, Evaluate

(* NodeFree keeps two walks out of the same node. *)
LEMMA WalkStep ==
  ASSUME TypeOK, WalkOK, [Next]_vars
  PROVE  WalkOK'
<1> USE OrderType DEF WalkOK, Current, TypeOK
<1>1. ASSUME NEW c \in Caller, NEW n \in Node, NEW v \in BOOLEAN, SetInput(c, n, v)
      PROVE  WalkOK'
  BY <1>1 DEF SetInput, evalVars
<1>2. ASSUME NEW c \in Caller, BeginEvaluate(c) PROVE WalkOK'
  BY <1>2 DEF BeginEvaluate
<1>3. ASSUME NEW c \in Caller, SkipInput(c) PROVE WalkOK'
  BY <1>3 DEF SkipInput
<1>4. ASSUME NEW c \in Caller, EnterNode(c) PROVE WalkOK'
  <2>1. Current(c) \in Gate /\ pos[c] \in 1..Last
    BY <1>4 DEF EnterNode, Gate, Input
  <2>2. ReadCount(Current(c)) >= 0
    BY <2>1, InputType DEF Gate
  <2>3. \A d \in Caller : pc[d] = "read" => pos[d] # pos[c]
    BY <1>4 DEF EnterNode, NodeFree
  <2> QED BY <1>4, <2>1, <2>2, <2>3 DEF EnterNode
<1>5. ASSUME NEW c \in Caller, ReadInput(c) PROVE WalkOK'
  BY <1>5 DEF ReadInput
<1>6. ASSUME NEW c \in Caller, CommitNode(c) PROVE WalkOK'
  BY <1>6 DEF CommitNode
<1>7. ASSUME NEW c \in Caller, EndEvaluate(c) PROVE WalkOK'
  BY <1>7 DEF EndEvaluate, evalVars
<1>8. ASSUME NEW c \in Caller, BeginReset(c) PROVE WalkOK'
  BY <1>8 DEF BeginReset, evalVars
<1>9. ASSUME NEW c \in Caller, NEW n \in Node, ResetOne(c, n) PROVE WalkOK'
  BY <1>9 DEF ResetOne, evalVars
<1>10. ASSUME NEW c \in Caller, EndReset(c) PROVE WalkOK'
  BY <1>10 DEF EndReset, evalVars
<1>11. CASE Tick
  BY <1>11 DEF Tick, evalVars
<1>12. CASE UNCHANGED vars
  BY <1>12 DEF vars
<1> QED BY <1>1, <1>2, <1>3, <1>4, <1>5, <1>6, <1>7, <1>8, <1>9, <1>10,
           <1>11, <1>12, Zenon DEF Next, Evaluate

(* A latch is sealed and set by one write and opened by one write. *)
LEMMA LatchStep ==
  ASSUME TypeOK, WalkOK, LatchOK, [Next]_vars
  PROVE  LatchOK'
<1> USE DEF LatchOK, TypeOK
<1>1. ASSUME NEW c \in Caller, NEW n \in Node, NEW v \in BOOLEAN, SetInput(c, n, v)
      PROVE  LatchOK'
  BY <1>1 DEF SetInput, Latch, Input
<1>2. ASSUME NEW c \in Caller, Evaluate(c), ~CommitNode(c) PROVE LatchOK'
  BY <1>2 DEF Evaluate, BeginEvaluate, SkipInput, EnterNode, ReadInput,
              EndEvaluate, nodeVars
<1>3. ASSUME NEW c \in Caller, CommitNode(c) PROVE LatchOK'
  <2> DEFINE n == Current(c)
             v == Evaluated(n, seen[c], clock[c])
  <2>1. v \in BOOLEAN /\ n \in Node
    BY <1>3, CommitValue, ReaderType DEF CommitNode
  <2>2. value' = [value EXCEPT ![n] = v]
    BY <1>3 DEF CommitNode, Current
  <2>3. latched' = [latched EXCEPT ![n] = n \in Latch /\ (@ \/ v)]
    BY <1>3 DEF CommitNode, Current
  <2>4. ASSUME n \in Latch, latched[n] PROVE v = value[n]
    BY <1>3, <2>4, CommitValue DEF CommitNode, Result
  <2>5. n \in Latch => (latched[n] \/ v) = v
    BY <2>1, <2>4
  <2> HIDE DEF n, v
  <2> QED BY <2>1, <2>2, <2>3, <2>5 DEF Latch
<1>4. ASSUME NEW c \in Caller, NEW n \in Node, ResetOne(c, n) PROVE LatchOK'
  BY <1>4 DEF ResetOne, Latch
<1>5. ASSUME NEW c \in Caller, BeginReset(c) \/ EndReset(c) PROVE LatchOK'
  BY <1>5 DEF BeginReset, EndReset, nodeVars
<1>6. CASE Tick \/ UNCHANGED vars
  BY <1>6 DEF Tick, vars, nodeVars
<1> QED BY <1>1, <1>2, <1>3, <1>4, <1>5, <1>6 DEF Next

(* Settled, before and after a step, in terms of Result. *)
LEMMA SettledNow ==
  ASSUME TypeOK, NEW n \in Node
  PROVE  Settled(n) <=>
           value[n] = Result(n, InputValues(n), value[n], latched[n])
<1>1. /\ now \in Int
      /\ value[n] \in BOOLEAN
      /\ latched[n] \in BOOLEAN
      /\ changed[n] \in Int
  BY DEF TypeOK, Time
<1>2. InputValues(n) \in Seq(BOOLEAN)
  BY InputSequence DEF InputValues, TypeOK
<1>3. NodeValue(n, InputValues(n), now, value[n], latched[n], changed[n])
        = Result(n, InputValues(n), value[n], latched[n])
  BY <1>1, <1>2, NodeValueLemma
<1> QED BY <1>3 DEF Settled, Evaluated

LEMMA SettledNext ==
  ASSUME TypeOK', NEW n \in Node
  PROVE  Settled(n)' <=>
           value'[n] = Result(n, InputValues(n)', value'[n], latched'[n])
<1>1. /\ now' \in Int
      /\ value'[n] \in BOOLEAN
      /\ latched'[n] \in BOOLEAN
      /\ changed'[n] \in Int
  BY DEF TypeOK, Time
<1>2. InputValues(n)' \in Seq(BOOLEAN)
  BY InputSequence DEF InputValues, TypeOK
<1>3. NodeValue(n, InputValues(n)', now', value'[n], latched'[n], changed'[n])
        = Result(n, InputValues(n)', value'[n], latched'[n])
  BY <1>1, <1>2, NodeValueLemma
<1> QED BY <1>3 DEF Settled, Evaluated

(* A settled node stays settled while neither it nor its inputs change. *)
LEMMA SettledFrame ==
  ASSUME TypeOK, TypeOK', NEW n \in Node, Settled(n),
         value'[n] = value[n], latched'[n] = latched[n],
         \A k \in 1..ReadCount(n) : value'[Inputs[n][k]] = value[Inputs[n][k]]
  PROVE  Settled(n)'
<1>1. InputValues(n)' = InputValues(n)
  BY DEF InputValues
<1> QED BY <1>1, SettledNow, SettledNext

(* ... and so does every node when nothing changes but the clock. *)
LEMMA AllSettledFrame ==
  ASSUME TypeOK, TypeOK', UNCHANGED <<value, latched>>
  PROVE  \A n \in Node : Settled(n) => Settled(n)'
BY SettledFrame

(* Steps that write no node: it is enough that nobody leaves uncovered a   *)
(* node it covered.                                                        *)
LEMMA SettledOrCoveredFrame ==
  ASSUME TypeOK, TypeOK', UNCHANGED <<value, latched>>, SettledOrCovered,
         \A i \in 1..Last : topoOrder[i] \in Gate /\ Covered(i) => Covered(i)'
  PROVE  SettledOrCovered'
BY AllSettledFrame, OrderType DEF SettledOrCovered

LEMMA FixpointStep ==
  ASSUME TypeOK, TypeOK', WalkOK, WalkOK', LatchOK,
         SettledOrCovered, OutdatedFollowed, [Next]_vars
  PROVE  SettledOrCovered' /\ OutdatedFollowed'
<1> USE OrderType
<1> DEFINE Goal == SettledOrCovered' /\ OutdatedFollowed'
<1>1. ASSUME stale' PROVE Goal
  BY <1>1 DEF SettledOrCovered, OutdatedFollowed, Covered
<1>2. ASSUME NEW c \in Caller, NEW n \in Node, NEW v \in BOOLEAN, SetInput(c, n, v)
      PROVE  Goal
  <2>1. CASE value[n] # v
    BY <1>1, <1>2, <2>1 DEF SetInput
  <2>2. CASE value[n] = v
    <3>1. UNCHANGED <<value, latched, pc, pos, seen>> /\ stale' = stale
      BY <1>2, <2>2, Zenon DEF SetInput, evalVars, TypeOK
    <3> QED BY <3>1, SettledOrCoveredFrame
            DEF OutdatedFollowed, Covered, NotReached, Fresh, Current
  <2> QED BY <2>1, <2>2
<1>3. ASSUME NEW c \in Caller, BeginEvaluate(c) PROVE Goal
  <2>1. \A i \in 1..Last : NotReached(c, i)'
    BY <1>3 DEF BeginEvaluate, NotReached, TypeOK
  <2>2. SettledOrCovered'
    BY <2>1 DEF SettledOrCovered, Covered
  <2>3. \A d \in Caller : pc'[d] = "read" => pos'[d] \in 1..Last
    BY DEF WalkOK
  <2>4. OutdatedFollowed'
    BY <2>1, <2>3 DEF OutdatedFollowed
  <2> QED BY <2>2, <2>4
<1>4. ASSUME NEW c \in Caller, SkipInput(c) PROVE Goal
  <2>1. /\ UNCHANGED <<value, latched, pc, seen, stale>>
        /\ pos' = [pos EXCEPT ![c] = @ + 1]
        /\ pc[c] = "eval"
        /\ pos[c] \in 1..Last
        /\ topoOrder[pos[c]] \notin Gate
    BY <1>4 DEF SkipInput, NextNode, TypeOK, nodeVars, Gate, Input
  <2>2. \A d \in Caller, i \in 1..Last :
          topoOrder[i] \in Gate /\ NotReached(d, i) => NotReached(d, i)'
    BY <2>1 DEF NotReached, TypeOK
  <2>3. \A d \in Caller : pc[d] = "read" =>
          d # c /\ pos'[d] = pos[d] /\ (Fresh(d)' <=> Fresh(d))
    BY <2>1 DEF Fresh, Current, TypeOK
  <2>4. SettledOrCovered'
    BY <2>1, <2>2, <2>3, SettledOrCoveredFrame DEF Covered
  <2>5. OutdatedFollowed'
    BY <2>1, <2>2, <2>3 DEF OutdatedFollowed, WalkOK, Current
  <2> QED BY <2>4, <2>5
<1>5. ASSUME NEW c \in Caller, EnterNode(c) PROVE Goal
  <2>1. /\ UNCHANGED <<value, latched, pos, stale>>
        /\ pc' = [pc EXCEPT ![c] = "read"]
        /\ seen' = [seen EXCEPT ![c] = <<>>]
        /\ pc[c] = "eval"
        /\ pos[c] \in 1..Last
        /\ \A d \in Caller : pc[d] = "read" => pos[d] # pos[c]
    BY <1>5 DEF EnterNode, NodeFree, TypeOK, nodeVars
  <2>2. \A d \in Caller, i \in 1..Last :
          NotReached(d, i) /\ ~(d = c /\ i = pos[c]) => NotReached(d, i)'
    BY <2>1 DEF NotReached, TypeOK
  <2>3. pc'[c] = "read" /\ pos'[c] = pos[c] /\ Fresh(c)'
    BY <2>1 DEF Fresh, TypeOK
  <2>4. \A d \in Caller : d # c =>
          /\ pc'[d] = pc[d]
          /\ pos'[d] = pos[d]
          /\ Fresh(d)' <=> Fresh(d)
    BY <2>1 DEF Fresh, Current, TypeOK
  <2>5. \A i \in 1..Last : Covered(i) => Covered(i)'
    BY <2>1, <2>2, <2>3, <2>4 DEF Covered
  <2>6. OutdatedFollowed'
    BY <2>1, <2>2, <2>3, <2>4 DEF OutdatedFollowed, WalkOK
  <2> QED BY <2>1, <2>5, <2>6, SettledOrCoveredFrame
<1>6. ASSUME NEW c \in Caller, ReadInput(c) PROVE Goal
  <2>1. /\ UNCHANGED <<value, latched, pc, pos, stale>>
        /\ \E x : seen' = [seen EXCEPT ![c] = Append(@, x)]
                  /\ x = value[Inputs[Current(c)][Len(seen[c]) + 1]]
    BY <1>6 DEF ReadInput, nodeVars, Current
  <2>2. \A d \in Caller : Fresh(d)' <=> Fresh(d)
    BY <2>1 DEF Fresh, Current, TypeOK
  <2>3. \A d \in Caller, i \in 1..Last : NotReached(d, i)' <=> NotReached(d, i)
    BY <2>1 DEF NotReached
  <2>4. \A i \in 1..Last : Covered(i)' <=> Covered(i)
    BY <2>1, <2>2, <2>3 DEF Covered
  <2>5. OutdatedFollowed'
    BY <2>1, <2>2, <2>3 DEF OutdatedFollowed, WalkOK
  <2> QED BY <2>1, <2>4, <2>5, SettledOrCoveredFrame
<1>7. ASSUME NEW c \in Caller, CommitNode(c) PROVE Goal
  <2>1. PICK p \in 1..Last, n \in Node, v \in BOOLEAN, in \in Seq(BOOLEAN) :
          /\ pc[c] = "read" /\ pos[c] = p /\ Current(c) = n /\ seen[c] = in
          /\ n = topoOrder[p]
          /\ Len(in) = ReadCount(n)
          /\ v = Evaluated(n, in, clock[c])
          /\ v = Result(n, in, value[n], latched[n])
    BY <1>7, ReaderType, CommitValue DEF CommitNode, Current
  <2>2. /\ value' = [value EXCEPT ![n] = v]
        /\ latched' = [latched EXCEPT ![n] = n \in Latch /\ (@ \/ v)]
        /\ pc' = [pc EXCEPT ![c] = "eval"]
        /\ pos' = [pos EXCEPT ![c] = @ + 1]
        /\ UNCHANGED <<seen, stale>>
    BY <1>7, <2>1 DEF CommitNode, Current, NextNode
  <2>3. /\ value'[n] = v
        /\ \A m \in Node : m # n => value'[m] = value[m] /\ latched'[m] = latched[m]
    BY <2>1, <2>2 DEF TypeOK
  <2>4. \A i \in 1..Last : i # p => topoOrder[i] # n
    BY <2>1, TopoAssumption
  (* Only nodes after p read n. *)
  <2>5. ASSUME NEW i \in 1..Last, i <= p, NEW k \in 1..ReadCount(topoOrder[i])
        PROVE  value'[Inputs[topoOrder[i]][k]] = value[Inputs[topoOrder[i]][k]]
    <3>1. Inputs[topoOrder[i]][k] \in Node
      BY InputType
    <3>2. Inputs[topoOrder[i]][k] # n
      BY <2>1, <2>5, InputsBefore
    <3> QED BY <2>3, <3>1, <3>2
  (* The walk itself is behind every node after p. *)
  <2>6. \A i \in 1..Last : i > p => NotReached(c, i)'
    BY <2>1, <2>2 DEF NotReached, TypeOK
  <2>7. \A d \in Caller, i \in 1..Last : NotReached(d, i) => NotReached(d, i)'
    BY <2>1, <2>2 DEF NotReached, TypeOK
  <2>8. \A d \in Caller : d # c =>
          pc'[d] = pc[d] /\ pos'[d] = pos[d] /\ seen'[d] = seen[d]
    BY <2>2 DEF TypeOK
  <2>9. pc'[c] # "read"
    BY <2>2 DEF TypeOK
  <2>10. \A d \in Caller : pc[d] = "read" /\ d # c => pos[d] # p
    BY <2>1 DEF WalkOK
  (* Whoever is inside a node before p keeps fresh inputs. *)
  <2>11. ASSUME NEW d \in Caller, pc[d] = "read", d # c, pos[d] <= p
         PROVE  Fresh(d)' <=> Fresh(d)
    <3>1. pos[d] \in 1..Last /\ Len(seen[d]) <= ReadCount(topoOrder[pos[d]])
      BY <2>11, ReaderType DEF Current
    <3>2. topoOrder[pos[d]] \in Node /\ Len(seen[d]) \in Nat
      BY <3>1 DEF TypeOK
    <3>3. \A k \in 1..Len(seen[d]) : k \in 1..ReadCount(topoOrder[pos[d]])
      BY <3>1, <3>2, InputType
    <3>4. \A k \in 1..Len(seen[d]) :
            value'[Inputs[topoOrder[pos[d]]][k]] = value[Inputs[topoOrder[pos[d]]][k]]
      BY <2>5, <2>11, <3>1, <3>3
    <3>5. pos'[d] = pos[d] /\ seen'[d] = seen[d]
      BY <2>8, <2>11
    <3>6. Fresh(d)' <=> \A k \in 1..Len(seen[d]) :
            seen[d][k] = value'[Inputs[topoOrder[pos[d]]][k]]
      BY <3>5 DEF Fresh, Current
    <3> QED BY <3>4, <3>6 DEF Fresh, Current
  (* The node itself: settled if its inputs were fresh. *)
  <2>12. ASSUME Fresh(c) PROVE Settled(n)'
    <3>1. \A k \in 1..ReadCount(n) : in[k] = value'[Inputs[n][k]]
      <4>1. \A k \in 1..ReadCount(n) : in[k] = value[Inputs[n][k]]
        BY <2>1, <2>12 DEF Fresh, Current
      <4>2. \A k \in 1..ReadCount(n) : value'[Inputs[n][k]] = value[Inputs[n][k]]
        BY <2>1, <2>5
      <4> QED BY <4>1, <4>2
    <3>2. InputValues(n)' = in
      <4>1. /\ InputValues(n)' \in Seq(BOOLEAN)
            /\ Len(InputValues(n)') = ReadCount(n)
            /\ \A k \in 1..ReadCount(n) : InputValues(n)'[k] = value'[Inputs[n][k]]
        <5>1. InputValues(n)' = [k \in 1..ReadCount(n) |-> value'[Inputs[n][k]]]
          BY DEF InputValues
        <5>2. value' \in [Node -> BOOLEAN]
          BY DEF TypeOK
        <5> QED BY <5>1, <5>2, InputSequence
      <4> QED BY <2>1, <3>1, <4>1, SeqEqual
    <3>3. /\ value[n] \in BOOLEAN /\ latched[n] \in BOOLEAN
          /\ n \in Latch => latched[n] = value[n]
      BY <2>1 DEF TypeOK, LatchOK
    <3>4. n \in Latch => latched'[n] = v
      BY <2>1, <2>3, LatchStep DEF LatchOK
    <3>5. Result(n, in, v, latched'[n]) = v
      BY <2>1, <3>3, <3>4, ResultIdempotent
    <3> QED BY <2>1, <2>3, <3>2, <3>5, SettledNext
  <2>13. ASSUME NEW i \in 1..Last, topoOrder[i] \in Gate
         PROVE  Settled(topoOrder[i])' \/ Covered(i)'
    <3>1. CASE i > p
      BY <2>6, <3>1 DEF Covered
    <3>2. CASE i = p
      <4>1. CASE Fresh(c)
        BY <2>1, <2>12, <3>2, <4>1
      <4>2. CASE ~Fresh(c)
        <5>1. stale \/ \E d \in Caller : NotReached(d, p)
          BY <2>1, <4>2 DEF OutdatedFollowed
        <5> QED BY <2>1, <2>2, <2>7, <3>2, <5>1 DEF Covered
      <4> QED BY <4>1, <4>2
    <3>3. CASE i < p
      <4>1. CASE Covered(i)
        <5>1. CASE stale \/ \E d \in Caller : NotReached(d, i)
          BY <2>2, <2>7, <5>1 DEF Covered
        <5>2. CASE \E d \in Caller : pc[d] = "read" /\ pos[d] = i /\ Fresh(d)
          <6>1. PICK d \in Caller : pc[d] = "read" /\ pos[d] = i /\ Fresh(d)
            BY <5>2
          <6>2. d # c /\ pos[d] <= p
            BY <2>1, <3>3, <6>1
          <6> QED BY <2>8, <2>11, <6>1, <6>2 DEF Covered
        <5> QED BY <4>1, <5>1, <5>2 DEF Covered
      <4>2. CASE Settled(topoOrder[i])
        <5>1. PICK m \in Node : m = topoOrder[i] /\ m # n
          BY <2>1, <2>4, <3>3
        <5>2. \A k \in 1..ReadCount(m) : value'[Inputs[m][k]] = value[Inputs[m][k]]
          BY <2>1, <2>5, <3>3, <5>1
        <5>3. value'[m] = value[m] /\ latched'[m] = latched[m] /\ Settled(m)
          BY <2>3, <4>2, <5>1
        <5>4. Settled(m)'
          BY <5>2, <5>3, SettledFrame
        <5> QED BY <5>1, <5>4
      <4> QED BY <2>13, <4>1, <4>2 DEF SettledOrCovered
    <3> QED BY <2>1, <3>1, <3>2, <3>3
  <2>14. ASSUME NEW d \in Caller, pc'[d] = "read", ~Fresh(d)'
         PROVE  stale' \/ \E e \in Caller : NotReached(e, pos[d])'
    <3>1. d # c /\ pc[d] = "read" /\ pos'[d] = pos[d] /\ pos[d] \in 1..Last
      BY <2>8, <2>9, <2>14, ReaderType
    <3>2. PICK i \in 1..Last : i = pos[d] /\ i = pos'[d]
      BY <3>1
    <3>3. stale \/ \E e \in Caller : NotReached(e, i)'
      <4>1. CASE i > p
        BY <2>6, <4>1
      <4>2. CASE i <= p
        <5>1. ~Fresh(d)
          BY <2>11, <2>14, <3>1, <3>2, <4>2
        <5>2. stale \/ \E e \in Caller : NotReached(e, i)
          BY <3>1, <3>2, <5>1 DEF OutdatedFollowed
        <5> QED BY <2>7, <5>2
      <4> QED BY <2>1, <4>1, <4>2
    <3> QED BY <2>2, <3>2, <3>3 DEF NotReached
  <2>15. SettledOrCovered'
    BY <2>13 DEF SettledOrCovered
  <2>16. OutdatedFollowed'
    BY <2>14 DEF OutdatedFollowed
  <2> QED BY <2>15, <2>16
<1>8. ASSUME NEW c \in Caller, EndEvaluate(c) PROVE Goal
  <2>1. /\ UNCHANGED <<value, latched, pos, seen, stale>>
        /\ pc' = [pc EXCEPT ![c] = "idle"]
        /\ pc[c] = "eval"
        /\ pos[c] > Last
    BY <1>8 DEF EndEvaluate, nodeVars, evalVars
  <2>2. \A d \in Caller, i \in 1..Last : NotReached(d, i) => NotReached(d, i)'
    BY <2>1 DEF NotReached, TypeOK
  <2>3. \A d \in Caller : Fresh(d)' <=> Fresh(d)
    BY <2>1 DEF Fresh, Current
  <2>4. \A d \in Caller : pc'[d] = "read" <=> pc[d] = "read"
    BY <2>1 DEF TypeOK
  <2>5. \A i \in 1..Last : Covered(i) => Covered(i)'
    BY <2>1, <2>2, <2>3, <2>4 DEF Covered
  <2>6. OutdatedFollowed'
    BY <2>1, <2>2, <2>3, <2>4 DEF OutdatedFollowed, WalkOK
  <2> QED BY <2>1, <2>5, <2>6, SettledOrCoveredFrame
<1>9. ASSUME NEW c \in Caller, NEW n \in Node, ResetOne(c, n) PROVE Goal
  <2>1. CASE value[n]
    BY <1>1, <1>9, <2>1 DEF ResetOne
  <2>2. CASE ~value[n]
    <3>1. n \in Latch /\ value[n] = FALSE /\ latched[n] = FALSE
      BY <1>9, <2>2 DEF ResetOne, TypeOK, LatchOK
    <3>2. UNCHANGED <<value, latched, pc, pos, seen>> /\ stale' = stale
      BY <1>9, <3>1, Zenon DEF ResetOne, evalVars, TypeOK
    <3> QED BY <3>2, SettledOrCoveredFrame
            DEF OutdatedFollowed, Covered, NotReached, Fresh, Current
  <2> QED BY <2>1, <2>2
<1>10. ASSUME NEW c \in Caller, BeginReset(c) \/ EndReset(c) PROVE Goal
  <2>1. /\ UNCHANGED <<value, latched, pos, seen, stale>>
        /\ \A d \in Caller : /\ pc'[d] = "read" <=> pc[d] = "read"
                             /\ pc'[d] = "eval" <=> pc[d] = "eval"
    BY <1>10 DEF BeginReset, EndReset, nodeVars, evalVars, TypeOK
  <2>2. SettledOrCovered'
    BY <2>1, SettledOrCoveredFrame DEF Covered, NotReached, Fresh, Current
  <2>3. OutdatedFollowed'
    BY <2>1 DEF OutdatedFollowed, NotReached, Fresh, Current
  <2> QED BY <2>2, <2>3
<1>11. CASE Tick \/ UNCHANGED vars
  <2>1. UNCHANGED <<value, latched, pc, pos, seen, stale>>
    BY <1>11 DEF Tick, vars, nodeVars, evalVars
  <2> QED BY <2>1, SettledOrCoveredFrame
          DEF OutdatedFollowed, Covered, NotReached, Fresh, Current
<1> QED BY <1>2, <1>3, <1>4, <1>5, <1>6, <1>7, <1>8, <1>9, <1>10, <1>11
        DEF Next, Evaluate

-----------------------------------------------------------------------------
(* Every variable keeps its type. *)
THEOREM TypeCorrect == Spec => []TypeOK
<1>1. TypeOK /\ WalkOK /\ [Next]_vars => TypeOK' /\ WalkOK'
  BY TypeStep, WalkStep
<1> QED BY <1>1, InitInv, PTL DEF Spec

(* Whoever may leave a node with a wrong value is followed by a walk that  *)
(* will see the right inputs (dag.go:386-424).                             *)
THEOREM Invariance == Spec => [](TypeOK /\ FixpointInv)
<1>1. Init => TypeOK /\ FixpointInv
  <2>1. Init => SettledOrCovered /\ OutdatedFollowed
    BY DEF Init, SettledOrCovered, OutdatedFollowed, Covered
  <2> QED BY <2>1, InitInv DEF FixpointInv
<1>2. TypeOK /\ FixpointInv /\ [Next]_vars => TypeOK' /\ FixpointInv'
  <2> SUFFICES ASSUME TypeOK, FixpointInv, [Next]_vars
               PROVE  TypeOK' /\ FixpointInv'
    OBVIOUS
  <2>1. WalkOK /\ LatchOK /\ SettledOrCovered /\ OutdatedFollowed
    BY DEF FixpointInv
  <2>2. TypeOK' /\ WalkOK' /\ LatchOK'
    BY <2>1, TypeStep, WalkStep, LatchStep
  <2>3. SettledOrCovered' /\ OutdatedFollowed'
    BY <2>1, <2>2, FixpointStep
  <2> QED BY <2>2, <2>3 DEF FixpointInv
<1> QED BY <1>1, <1>2, PTL DEF Spec

(* However the walks of any number of goroutines interleave on any acyclic *)
(* graph, the graph comes to rest in a fixpoint of its logic.              *)
THEOREM Fixpoint == Spec => []QuiescentFixpoint
<1>1. TypeOK /\ FixpointInv => QuiescentFixpoint
  <2> SUFFICES ASSUME FixpointInv, ~stale, \A c \in Caller : ~Evaluating(c),
                      NEW n \in Gate
               PROVE  Settled(n)
    BY DEF QuiescentFixpoint
  <2>1. PICK i \in 1..Last : topoOrder[i] = n
    BY OrderType, TopoAssumption DEF Gate
  <2>2. ~Covered(i)
    BY DEF Covered, NotReached, Evaluating
  <2> QED BY <2>1, <2>2 DEF FixpointInv, SettledOrCovered
<1> QED BY <1>1, Invariance, PTL

(* What a step may do to the value of a node that is not an input. *)
LEMMA ValueStep ==
  ASSUME TypeOK, WalkOK, LatchOK, [Next]_vars, NEW n \in Gate,
         value'[n] # value[n]
  PROVE  \/ \E in \in Seq(BOOLEAN) :
              /\ Len(in) = ReadCount(n)
              /\ value'[n] = Result(n, in, value[n], latched[n])
         \/ n \in Latch /\ \E c \in Caller : pc[c] = "reset" /\ n \in todo[c]
<1>1. ASSUME NEW c \in Caller, NEW m \in Node, NEW v \in BOOLEAN, SetInput(c, m, v)
      PROVE  FALSE
  BY <1>1 DEF SetInput, TypeOK, Gate
<1>2. ASSUME NEW c \in Caller, Evaluate(c), ~CommitNode(c) PROVE FALSE
  BY <1>2 DEF Evaluate, BeginEvaluate, SkipInput, EnterNode, ReadInput,
              EndEvaluate, nodeVars
<1>3. ASSUME NEW c \in Caller, CommitNode(c)
      PROVE  \E in \in Seq(BOOLEAN) :
               /\ Len(in) = ReadCount(n)
               /\ value'[n] = Result(n, in, value[n], latched[n])
  <2>1. PICK m \in Node, v \in BOOLEAN :
                             /\ m = Current(c)
                             /\ Len(seen[c]) = ReadCount(m)
                             /\ value' = [value EXCEPT ![m] = v]
                             /\ v = Result(m, seen[c], value[m], latched[m])
    BY <1>3, ReaderType, CommitValue DEF CommitNode, Current
  <2>2. m = n
    BY <2>1 DEF TypeOK, Gate
  <2>3. seen[c] \in Seq(BOOLEAN)
    BY DEF TypeOK
  <2> QED BY <2>1, <2>2, <2>3 DEF TypeOK
<1>4. ASSUME NEW c \in Caller, NEW m \in Node, ResetOne(c, m)
      PROVE  n \in Latch /\ pc[c] = "reset" /\ n \in todo[c]
  BY <1>4 DEF ResetOne, TypeOK, Gate
<1>5. ASSUME NEW c \in Caller, BeginReset(c) \/ EndReset(c) PROVE FALSE
  BY <1>5 DEF BeginReset, EndReset, nodeVars
<1>6. CASE Tick \/ UNCHANGED vars
  BY <1>6 DEF Tick, vars, nodeVars
<1> QED BY <1>1, <1>2, <1>3, <1>4, <1>5, <1>6 DEF Next

(* No walk opens a sealed latch; only ResetLatches does. *)
THEOREM LatchStaysSealed == Spec => LatchSealed
<1> DEFINE A == \A n \in Latch : value[n] /\ ~value'[n] =>
                  \E c \in Caller : pc[c] = "reset" /\ n \in todo[c]
<1>1. TypeOK /\ FixpointInv /\ [Next]_vars => A
  <2> SUFFICES ASSUME TypeOK, WalkOK, LatchOK, [Next]_vars, NEW n \in Latch,
                      value[n], ~value'[n]
               PROVE  \E c \in Caller : pc[c] = "reset" /\ n \in todo[c]
    BY DEF FixpointInv
  <2>1. n \in Gate /\ value[n] = TRUE /\ latched[n] = TRUE
    BY DEF Latch, Gate, Input, TypeOK, LatchOK
  <2>2. \A in : Result(n, in, value[n], latched[n]) = TRUE
    BY <2>1, Zenon DEF Result
  <2> QED BY <2>1, <2>2, ValueStep
<1> QED BY <1>1, Invariance, PTL DEF Spec, LatchSealed

(* A delay configured on a timer is never served: in that direction the    *)
(* output cannot change at all, for every delay and every course of time.  *)
THEOREM DelayNeverServed == Spec => DelayedTimerFrozen
<1> DEFINE A == \A n \in Timer : Inputs[n] # <<>> /\ value[n] # value'[n] =>
                  (IF value'[n] THEN DelayOn[n] ELSE DelayOff[n]) <= 0
<1>1. TypeOK /\ FixpointInv /\ [Next]_vars => A
  <2> SUFFICES ASSUME TypeOK, WalkOK, LatchOK, [Next]_vars, NEW n \in Timer,
                      Inputs[n] # <<>>, value[n] # value'[n]
               PROVE  (IF value'[n] THEN DelayOn[n] ELSE DelayOff[n]) <= 0
    BY DEF FixpointInv
  <2>1. n \in Gate /\ n \notin Latch /\ n \in Node
    BY DEF Latch, Gate, Input, Timer
  <2>2. PICK in \in Seq(BOOLEAN) :
          /\ Len(in) = ReadCount(n)
          /\ value'[n] = Result(n, in, value[n], latched[n])
    BY <2>1, ValueStep
  <2>3. value'[n] \in BOOLEAN /\ DelayOn[n] \in Int /\ DelayOff[n] \in Int
    BY <2>1, TypeStep, GraphAssumption DEF TypeOK
  <2>4. in # <<>>
    <3>1. Len(Inputs[n]) \in Nat /\ Len(Inputs[n]) # 0
      BY <2>1, GraphAssumption, EmptySeq
    <3> QED BY <2>2, <3>1 DEF ReadCount
  <2>5. /\ value'[n] = in[1]
        /\ ~((IF in[1] THEN DelayOn[n] ELSE DelayOff[n]) > 0)
    BY <2>1, <2>2, <2>4, Zenon DEF Result
  <2> QED BY <2>3, <2>5
<1> QED BY <1>1, Invariance, PTL DEF Spec, DelayedTimerFrozen

(* While a trip output stands, a walk has reported it or will decide it. *)
THEOREM TripReported == Spec => []NoMissedTrip
<1>1. Init => NoMissedTrip
  BY GraphAssumption DEF Init, NoMissedTrip
<1>2. TypeOK /\ FixpointInv /\ NoMissedTrip /\ [Next]_vars => NoMissedTrip'
  <2> SUFFICES ASSUME TypeOK, WalkOK, NoMissedTrip, [Next]_vars,
                      NEW n \in TripOutput, value'[n]
               PROVE  \E c \in Caller : n \in trips'[c] \/ Pending(c, n)'
    BY DEF FixpointInv, NoMissedTrip
  <2> USE OrderType
  <2>1. n \in Node /\ n \notin Input /\ n \notin Latch
    BY GraphAssumption DEF Input, Latch
  <2>2. ASSUME value'[n] = value[n],
               \A c \in Caller : \/ n \in trips[c] => n \in trips'[c]
                                 \/ Pending(c, n)',
               \A c \in Caller : Pending(c, n) => Pending(c, n)'
        PROVE  \E c \in Caller : n \in trips'[c] \/ Pending(c, n)'
    BY <2>2 DEF NoMissedTrip
  <2>3. ASSUME NEW c \in Caller, NEW m \in Node, NEW v \in BOOLEAN, SetInput(c, m, v)
        PROVE  value'[n] = value[n] /\ UNCHANGED <<trips, pc, pos>>
    BY <2>1, <2>3 DEF SetInput, TypeOK, evalVars
  <2>4. ASSUME NEW c \in Caller, BeginEvaluate(c) PROVE Pending(c, n)'
    <3>1. \E i \in 1..Last : topoOrder[i] = n
      BY <2>1, TopoAssumption
    <3> QED BY <2>4, <3>1 DEF BeginEvaluate, Pending, Evaluating, TypeOK
  <2>5. ASSUME NEW c \in Caller, SkipInput(c)
        PROVE  /\ value'[n] = value[n] /\ trips' = trips
               /\ \A d \in Caller : Pending(d, n) => Pending(d, n)'
    BY <2>1, <2>5 DEF SkipInput, NextNode, Pending, Evaluating, TypeOK,
                      nodeVars, Input
  <2>6. ASSUME NEW c \in Caller, EnterNode(c) \/ ReadInput(c)
        PROVE  /\ value'[n] = value[n] /\ trips' = trips
               /\ \A d \in Caller : Pending(d, n) => Pending(d, n)'
    BY <2>6 DEF EnterNode, ReadInput, Pending, Evaluating, TypeOK, nodeVars
  <2>7. ASSUME NEW c \in Caller, CommitNode(c)
        PROVE  \E d \in Caller : n \in trips'[d] \/ Pending(d, n)'
    <3>1. PICK m \in Node, v \in BOOLEAN :
            /\ m = Current(c) /\ m = topoOrder[pos[c]] /\ pos[c] \in 1..Last
            /\ value' = [value EXCEPT ![m] = v]
            /\ trips' = [trips EXCEPT ![c] = IF TripSignal(m, v)
                                             THEN @ \union {m} ELSE @]
            /\ pc' = [pc EXCEPT ![c] = "eval"]
            /\ pos' = [pos EXCEPT ![c] = @ + 1]
      BY <2>7, ReaderType, CommitValue DEF CommitNode, Current, NextNode
    <3>2. CASE m = n
      <4>1. TripSignal(m, v)
        BY <2>1, <3>1, <3>2 DEF TripSignal, TypeOK
      <4> QED BY <3>1, <3>2, <4>1 DEF TypeOK
    <3>3. CASE m # n
      <4>1. value'[n] = value[n]
        BY <2>1, <3>1, <3>3 DEF TypeOK
      <4>2. \A d \in Caller : n \in trips[d] => n \in trips'[d]
        BY <3>1 DEF TypeOK
      <4>3. \A d \in Caller : Pending(d, n) => Pending(d, n)'
        <5>1. ASSUME Pending(c, n) PROVE Pending(c, n)'
          <6>1. PICK i \in pos[c]..Last : topoOrder[i] = n
            BY <5>1 DEF Pending
          <6>2. i \in (pos[c] + 1)..Last
            BY <3>1, <3>3, <6>1
          <6>3. pc'[c] = "eval" /\ pos'[c] = pos[c] + 1
            BY <3>1 DEF TypeOK
          <6> QED BY <6>1, <6>2, <6>3 DEF Pending, Evaluating
        <5>2. \A d \in Caller : d # c => pc'[d] = pc[d] /\ pos'[d] = pos[d]
          BY <3>1 DEF TypeOK
        <5> QED BY <5>1, <5>2 DEF Pending, Evaluating
      <4> QED BY <2>2, <4>1, <4>2, <4>3
    <3> QED BY <3>2, <3>3
  <2>8. ASSUME NEW c \in Caller, EndEvaluate(c)
        PROVE  /\ value'[n] = value[n] /\ trips' = trips
               /\ \A d \in Caller : Pending(d, n) => Pending(d, n)'
    <3>1. ~Pending(c, n)
      BY <2>8 DEF EndEvaluate, Pending, TypeOK
    <3>2. \A d \in Caller : d # c => pc'[d] = pc[d] /\ pos'[d] = pos[d]
      BY <2>8 DEF EndEvaluate, TypeOK, evalVars
    <3>3. value' = value /\ trips' = trips
      BY <2>8 DEF EndEvaluate, nodeVars, evalVars
    <3> QED BY <3>1, <3>2, <3>3 DEF Pending, Evaluating
  <2>9. ASSUME NEW c \in Caller, NEW m \in Node, ResetOne(c, m)
        PROVE  value'[n] = value[n] /\ UNCHANGED <<trips, pc, pos>>
    BY <2>1, <2>9 DEF ResetOne, TypeOK, evalVars
  <2>10. ASSUME NEW c \in Caller, BeginReset(c) \/ EndReset(c)
         PROVE  /\ value'[n] = value[n] /\ trips' = trips
                /\ \A d \in Caller : Pending(d, n) => Pending(d, n)'
    BY <2>10 DEF BeginReset, EndReset, Pending, Evaluating, TypeOK, nodeVars,
                 evalVars
  <2>11. CASE Tick \/ UNCHANGED vars
    BY <2>11 DEF Tick, vars, nodeVars, evalVars, NoMissedTrip, Pending, Evaluating
  <2>12. ASSUME value'[n] = value[n], UNCHANGED <<trips, pc, pos>>
         PROVE  \E c \in Caller : n \in trips'[c] \/ Pending(c, n)'
    BY <2>12 DEF NoMissedTrip, Pending, Evaluating
  <2> QED BY <2>2, <2>3, <2>4, <2>5, <2>6, <2>7, <2>8, <2>9, <2>10, <2>11,
             <2>12 DEF Next, Evaluate
<1> QED BY <1>1, <1>2, Invariance, PTL DEF Spec
-----------------------------------------------------------------------------
LEMMA NotEmpty ==
  ASSUME NEW S, NEW s \in Seq(S), Len(s) > 0
  PROVE  s # <<>> /\ s[1] \in S
<1>1. Len(s) # 0 /\ 1 \in 1..Len(s)
  BY LenProperties
<1> QED BY <1>1

(* A settled node has what its gate makes of the values it reads.          *)
LEMMA SettledIs ==
  ASSUME TypeOK, NEW n \in Gate, Settled(n)
  PROVE  /\ InputValues(n) \in Seq(BOOLEAN)
         /\ Len(InputValues(n)) = ReadCount(n)
         /\ \A k \in 1..ReadCount(n) : InputValues(n)[k] = value[Inputs[n][k]]
         /\ value[n] = Result(n, InputValues(n), value[n], latched[n])
<1>1. n \in Node /\ value \in [Node -> BOOLEAN]
  BY DEF Gate, TypeOK
<1>2. /\ InputValues(n) \in Seq(BOOLEAN) /\ Len(InputValues(n)) = ReadCount(n)
      /\ \A k \in 1..ReadCount(n) : InputValues(n)[k] = value[Inputs[n][k]]
  BY <1>1, InputSequence DEF InputValues
<1>3. now \in Int /\ value[n] \in BOOLEAN /\ latched[n] \in BOOLEAN /\ changed[n] \in Int
  BY <1>1 DEF TypeOK, Time
<1>4. NodeValue(n, InputValues(n), now, value[n], latched[n], changed[n])
        = Result(n, InputValues(n), value[n], latched[n])
  BY <1>1, <1>2, <1>3, NodeValueLemma
<1> QED BY <1>2, <1>4 DEF Settled, Evaluated

(* The types of the scheme's nodes, and what they read.                    *)
LEMMA SchemeIs ==
  ASSUME IsScheme
  PROVE  /\ SchemeNode = Node
         /\ \A n \in SchemeInput : Type[n] = "INPUT"
         /\ \A n \in SchemeTimer : Type[n] = "TIMER" /\ DelayOff[n] = 0
         /\ \A n \in SchemeOutput : Type[n] = "OUTPUT" /\ Inputs[n] = <<"trip_final">>
         /\ DelayOn["timer_I"] = 0
         /\ Inputs["timer_I"] = <<"in_i1_oper">>
         /\ Inputs["timer_II"] = <<"in_i2_oper">>
         /\ Inputs["timer_III"] = <<"in_i3_oper">>
         /\ Type["not_lockout"] = "NOT" /\ Inputs["not_lockout"] = <<"in_lockout">>
         /\ Type["trip_enable"] = "AND"
         /\ Inputs["trip_enable"] = <<"in_i_start", "not_lockout">>
         /\ Type["trip_or"] = "OR"
         /\ Inputs["trip_or"] = <<"timer_I", "timer_II", "timer_III">>
         /\ Type["trip_final"] = "AND" /\ Inputs["trip_final"] = <<"trip_enable", "trip_or">>
<1> USE DEF IsScheme, SchemeNode, SchemeInput, SchemeTimer, SchemeOutput
<1>1. SchemeNode = Node
  OBVIOUS
<1>2. /\ \A n \in SchemeInput : Type[n] = "INPUT"
      /\ \A n \in SchemeTimer : Type[n] = "TIMER"
      /\ \A n \in SchemeOutput : Type[n] = "OUTPUT"
  BY DEF SchemeType
<1>3. /\ Type["not_lockout"] = "NOT" /\ Type["trip_or"] = "OR"
      /\ Type["trip_enable"] = "AND" /\ Type["trip_final"] = "AND"
  BY DEF SchemeType
<1>4. \A n \in SchemeOutput : Inputs[n] = <<"trip_final">>
  BY DEF SchemeInputs
<1>5. /\ Inputs["timer_I"] = <<"in_i1_oper">> /\ Inputs["timer_II"] = <<"in_i2_oper">>
      /\ Inputs["timer_III"] = <<"in_i3_oper">> /\ Inputs["not_lockout"] = <<"in_lockout">>
  BY DEF SchemeInputs
<1>6. /\ Inputs["trip_enable"] = <<"in_i_start", "not_lockout">>
      /\ Inputs["trip_or"] = <<"timer_I", "timer_II", "timer_III">>
      /\ Inputs["trip_final"] = <<"trip_enable", "trip_or">>
  BY DEF SchemeInputs
<1>7. DelayOn["timer_I"] = 0 /\ \A n \in SchemeTimer : DelayOff[n] = 0
  BY DEF SchemeDelayOn, SchemeDelayOff
<1> QED BY <1>1, <1>2, <1>3, <1>4, <1>5, <1>6, <1>7

(* A timer of the scheme that has settled is not TRUE without its input:   *)
(* there is no release delay; and stage I has no delay at all.             *)
LEMMA SettledTimer ==
  ASSUME TypeOK, IsScheme, NEW n \in SchemeTimer, Settled(n), NEW i, Inputs[n] = <<i>>
  PROVE  /\ value[n] => value[i]
         /\ n = "timer_I" /\ value[i] => value[n]
<1>1. Type[n] = "TIMER" /\ DelayOff[n] = 0 /\ (n = "timer_I" => DelayOn[n] = 0)
      /\ n \in Node
  BY SchemeIs DEF SchemeNode
<1>2. n \in Gate /\ n \in Timer /\ n \notin Latch
  BY <1>1 DEF Gate, Input, Timer, Latch
<1>3. ReadCount(n) = 1 /\ Inputs[n][1] = i
  BY DEF ReadCount
<1>0. PICK in : in = InputValues(n)
  OBVIOUS
<1>4. /\ in \in Seq(BOOLEAN) /\ Len(in) = 1 /\ in[1] = value[i]
      /\ value[n] = Result(n, in, value[n], latched[n])
  <2>1. /\ in \in Seq(BOOLEAN) /\ Len(in) = ReadCount(n)
        /\ \A k \in 1..ReadCount(n) : in[k] = value[Inputs[n][k]]
        /\ value[n] = Result(n, in, value[n], latched[n])
    BY <1>0, <1>2, SettledIs
  <2> QED BY <1>3, <2>1
<1>5. in # <<>> /\ in[1] \in BOOLEAN /\ value[n] \in BOOLEAN
  <2>1. in # <<>> /\ in[1] \in BOOLEAN
    BY <1>4, NotEmpty
  <2> QED BY <1>1, <2>1 DEF TypeOK
<1>6. value[n] = IF in[1] = value[n] \/ (IF in[1] THEN DelayOn[n] ELSE DelayOff[n]) > 0
                 THEN value[n] ELSE in[1]
  BY <1>2, <1>4, <1>5, Zenon DEF Result
<1>7. CASE in[1] = FALSE
  BY <1>1, <1>4, <1>5, <1>6, <1>7
<1>8. CASE in[1] = TRUE
  BY <1>1, <1>4, <1>5, <1>6, <1>8
<1> QED BY <1>5, <1>7, <1>8

(* The nodes of the scheme that keep nothing.                              *)
Computed(n, type, m) ==
  \E in \in Seq(BOOLEAN) :
    /\ Len(in) = m /\ \A k \in 1..m : in[k] = value[Inputs[n][k]]
    /\ value[n] = GateValue(type, in)

LEMMA SettledGate ==
  ASSUME TypeOK, NEW n \in Gate, n \notin Latch, n \notin Timer, Settled(n),
         NEW m, m = ReadCount(n), NEW type, type = Type[n]
  PROVE  Computed(n, type, m)
<1>1. PICK in : in = InputValues(n)
  OBVIOUS
<1>2. /\ in \in Seq(BOOLEAN) /\ Len(in) = ReadCount(n)
      /\ \A k \in 1..ReadCount(n) : in[k] = value[Inputs[n][k]]
      /\ value[n] = Result(n, in, value[n], latched[n])
  BY <1>1, SettledIs
<1>3. value[n] = GateValue(type, in)
  BY <1>2, Zenon DEF Result
<1> QED BY <1>2, <1>3 DEF Computed

LEMMA SettledNot ==
  ASSUME TypeOK, IsScheme, Settled("not_lockout")
  PROVE  value["not_lockout"] <=> ~value["in_lockout"]
<1>1. Type["not_lockout"] = "NOT" /\ Inputs["not_lockout"] = <<"in_lockout">>
      /\ "not_lockout" \in Node
  BY SchemeIs DEF SchemeNode
<1>2. "not_lockout" \in Gate /\ "not_lockout" \notin Latch /\ "not_lockout" \notin Timer
  BY <1>1 DEF Gate, Input, Timer, Latch
<1>3. 1 = ReadCount("not_lockout")
  BY <1>1 DEF ReadCount
<1>0. Computed("not_lockout", "NOT", 1)
  BY <1>1, <1>2, <1>3, SettledGate, Zenon
<1>4. PICK in \in Seq(BOOLEAN) :
        /\ Len(in) = 1 /\ \A k \in 1..1 : in[k] = value[Inputs["not_lockout"][k]]
        /\ value["not_lockout"] = GateValue("NOT", in)
  BY <1>0 DEF Computed
<1>5. in # <<>> /\ in[1] = value["in_lockout"]
  <2>1. Len(in) > 0
    BY <1>4
  <2>2. in # <<>>
    BY <2>1, NotEmpty, Zenon
  <2> QED BY <1>1, <1>4, <2>2
<1>6. GateValue("NOT", in) <=> in # <<>> /\ ~in[1]
  BY Zenon DEF GateValue
<1> QED BY <1>4, <1>5, <1>6

LEMMA SettledAnd ==
  ASSUME TypeOK, NEW n \in Node, Type[n] = "AND", Settled(n), NEW a, NEW b,
         Inputs[n] = <<a, b>>
  PROVE  value[n] <=> value[a] /\ value[b]
<1>1. n \in Gate /\ n \notin Latch /\ n \notin Timer
  BY DEF Gate, Input, Timer, Latch
<1>2. 2 = ReadCount(n)
  BY DEF ReadCount, SingleInput
<1>0. Computed(n, "AND", 2)
  BY <1>1, <1>2, SettledGate, Zenon
<1>3. PICK in \in Seq(BOOLEAN) :
        /\ Len(in) = 2 /\ \A k \in 1..2 : in[k] = value[Inputs[n][k]]
        /\ value[n] = GateValue("AND", in)
  BY <1>0 DEF Computed
<1>4. in # <<>> /\ in[1] = value[a] /\ in[2] = value[b] /\ DOMAIN in = 1..2
  <2>1. Len(in) > 0
    BY <1>3
  <2>2. in # <<>>
    BY <2>1, NotEmpty, Zenon
  <2>3. DOMAIN in = 1..2
    BY <1>3, LenProperties
  <2> QED BY <1>3, <2>2, <2>3
<1>5. GateValue("AND", in) <=> in # <<>> /\ AllTrue(in)
  BY Zenon DEF GateValue
<1>6. AllTrue(in) <=> in[1] /\ in[2]
  BY <1>4 DEF AllTrue
<1> QED BY <1>3, <1>4, <1>5, <1>6

LEMMA SettledOr ==
  ASSUME TypeOK, IsScheme, Settled("trip_or")
  PROVE  value["trip_or"] <=> value["timer_I"] \/ value["timer_II"] \/ value["timer_III"]
<1>1. Type["trip_or"] = "OR" /\ Inputs["trip_or"] = <<"timer_I", "timer_II", "timer_III">>
      /\ "trip_or" \in Node
  BY SchemeIs DEF SchemeNode
<1>2. "trip_or" \in Gate /\ "trip_or" \notin Latch /\ "trip_or" \notin Timer
  BY <1>1 DEF Gate, Input, Timer, Latch
<1>3. 3 = ReadCount("trip_or")
  BY <1>1 DEF ReadCount, SingleInput
<1>0. Computed("trip_or", "OR", 3)
  BY <1>1, <1>2, <1>3, SettledGate, Zenon
<1>4. PICK in \in Seq(BOOLEAN) :
        /\ Len(in) = 3 /\ \A k \in 1..3 : in[k] = value[Inputs["trip_or"][k]]
        /\ value["trip_or"] = GateValue("OR", in)
  BY <1>0 DEF Computed
<1>5. /\ in[1] = value["timer_I"] /\ in[2] = value["timer_II"] /\ in[3] = value["timer_III"]
      /\ DOMAIN in = 1..3
  BY <1>1, <1>4, LenProperties
<1>6. GateValue("OR", in) <=> AnyTrue(in)
  BY Zenon DEF GateValue
<1>7. AnyTrue(in) <=> in[1] \/ in[2] \/ in[3]
  BY <1>5 DEF AnyTrue
<1> QED BY <1>4, <1>5, <1>6, <1>7

LEMMA SettledOutput ==
  ASSUME TypeOK, IsScheme, NEW n \in SchemeOutput, Settled(n)
  PROVE  value[n] <=> value["trip_final"]
<1>1. Type[n] = "OUTPUT" /\ Inputs[n] = <<"trip_final">> /\ n \in Node
  BY SchemeIs DEF SchemeNode
<1>2. n \in Gate /\ n \notin Latch /\ n \notin Timer
  BY <1>1 DEF Gate, Input, Timer, Latch
<1>3. 1 = ReadCount(n)
  BY <1>1 DEF ReadCount
<1>0. Computed(n, "OUTPUT", 1)
  BY <1>1, <1>2, <1>3, SettledGate, Zenon
<1>4. PICK in \in Seq(BOOLEAN) :
        /\ Len(in) = 1 /\ \A k \in 1..1 : in[k] = value[Inputs[n][k]]
        /\ value[n] = GateValue("OUTPUT", in)
  BY <1>0 DEF Computed
<1>5. in # <<>> /\ in[1] = value["trip_final"]
  <2>1. Len(in) > 0
    BY <1>4
  <2>2. in # <<>>
    BY <2>1, NotEmpty, Zenon
  <2> QED BY <1>1, <1>4, <2>2
<1>6. GateValue("OUTPUT", in) <=> in # <<>> /\ in[1]
  BY Zenon DEF GateValue, First
<1> QED BY <1>4, <1>5, <1>6

(* The over-current scheme that BuildOverCurrentProtection configures, at  *)
(* rest: it trips on the start and stage I, and on nothing but the start,  *)
(* a stage and no lockout, whatever order the graph was sorted into and    *)
(* however many goroutines evaluate it (config.go:165-198).                *)
THEOREM SchemeCharacteristic == IsScheme => (Spec => []TripCharacteristic)
<1> SUFFICES ASSUME IsScheme PROVE Spec => []TripCharacteristic
  OBVIOUS
<1>1. ASSUME TypeOK, QuiescentFixpoint PROVE TripCharacteristic
  <2> SUFFICES ASSUME AtRest, NEW n \in SchemeOutput
               PROVE  /\ Permitted /\ value["in_i1_oper"] => value[n]
                      /\ value[n] => Permitted /\ SomeStage
    BY DEF TripCharacteristic
  <2>1. \A g \in Gate : Settled(g)
    BY <1>1 DEF AtRest, QuiescentFixpoint
  <2>2. \A g \in SchemeNode \ SchemeInput : g \in Gate
    <3> SUFFICES ASSUME NEW g \in SchemeNode \ SchemeInput, Type[g] = "INPUT" PROVE FALSE
      BY <1>1, SchemeIs DEF Gate, Input
    <3>1. \/ g \in SchemeTimer \/ g \in SchemeOutput
          \/ g \in {"not_lockout", "trip_enable", "trip_or", "trip_final"}
      BY DEF SchemeNode
    <3> QED BY <1>1, <3>1, SchemeIs
  <2>3. \A g \in SchemeNode \ SchemeInput : Settled(g)
    BY <2>1, <2>2
  <2>4. /\ Settled("timer_I") /\ Settled("timer_II") /\ Settled("timer_III")
        /\ Settled("not_lockout") /\ Settled("trip_enable") /\ Settled("trip_or")
        /\ Settled("trip_final") /\ Settled(n)
    BY <2>3 DEF SchemeNode, SchemeInput, SchemeTimer, SchemeOutput
  <2>5. value["not_lockout"] <=> ~value["in_lockout"]
    BY <1>1, <2>4, SettledNot
  <2>6. value["trip_or"] <=> value["timer_I"] \/ value["timer_II"] \/ value["timer_III"]
    BY <1>1, <2>4, SettledOr
  <2>7. value["trip_enable"] <=> value["in_i_start"] /\ value["not_lockout"]
    BY <1>1, <2>4, SchemeIs, SettledAnd DEF SchemeNode
  <2>8. value["trip_final"] <=> value["trip_enable"] /\ value["trip_or"]
    BY <1>1, <2>4, SchemeIs, SettledAnd DEF SchemeNode
  <2>9. value[n] <=> value["trip_final"]
    BY <1>1, <2>4, SettledOutput
  <2>10. /\ value["timer_I"] <=> value["in_i1_oper"]
         /\ value["timer_II"] => value["in_i2_oper"]
         /\ value["timer_III"] => value["in_i3_oper"]
    BY <1>1, <2>4, SchemeIs, SettledTimer DEF SchemeTimer
  <2> QED BY <2>5, <2>6, <2>7, <2>8, <2>9, <2>10 DEF Permitted, SomeStage
<1>2. TypeOK /\ QuiescentFixpoint => TripCharacteristic
  BY <1>1
<1> QED BY <1>2, TypeCorrect, Fixpoint, PTL
=============================================================================
