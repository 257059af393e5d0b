---------------------------- MODULE GatewayProofs -----------------------------
(***************************************************************************)
(* Safety of the gateway, for every set of signals and nodes, any delay of *)
(* the mock client, any deadline and any number of trips and frames: who   *)
(* reaches the logic, when the trip client is closed, and what a timeout   *)
(* of a trip command means.                                                *)
(***************************************************************************)
EXTENDS Gateway, FiniteSetTheorems, TLAPS

HandlerState == Answer \union {"none", "begun", "waiting", "sending"}

GatewayType ==
  /\ main \in {"init", "running", "capture", "captureWait", "engine", "engineWait",
               "wait", "close", "closed", "exited"}
  /\ packetChan \in Seq(SUBSET Signal)
  /\ delay \in Nat
  /\ hpc \in [Trip -> HandlerState]
  /\ left \in [Trip -> Nat] /\ rest \in [Trip -> Nat] /\ ahead \in [Trip -> Nat]

(* What Stop has waited for stays stopped, and the client is closed last.  *)
StopInv ==
  /\ main \in {"wait", "close", "closed", "exited"} => loop = "off"
  /\ main \in {"close", "closed", "exited"} => packet = "off"
  /\ main \in {"init", "running", "capture", "captureWait", "engine", "engineWait",
               "wait", "close"} => connected = (client = "grpc")

(* The packet loop never finds an input, so it never evaluates.            *)
PacketInv == packet # "evaluating" /\ "packet" \notin evaluator

(* The time a handler has used up of its deadline is covered by the delays *)
(* of the handlers before it and its own; who holds the client's lock has  *)
(* `rest` of a delay still to come.                                        *)
Used(k) == Timeout - left[k]
QueueInv ==
  /\ \A j, k \in Sending : j = k
  /\ \A k \in Sending : rest[k] <= delay
  /\ \A k \in Waiting : Sending = {} => Used(k) <= ahead[k] * delay
  /\ \A k \in Waiting, j \in Sending : Used(k) + rest[j] <= ahead[k] * delay
  /\ \A k \in Sending : Used(k) + rest[k] <= (ahead[k] + 1) * delay
  /\ \A k \in Trip : hpc[k] = "timeout" => Timeout <= (ahead[k] + 1) * delay

GatewayInv == GatewayType /\ StopInv /\ PacketInv /\ QueueInv

LEMMA GatewayInit == Init => GatewayInv
<1> SUFFICES ASSUME Init PROVE GatewayInv
  OBVIOUS
<1>1. delay \in Nat
  BY GatewayAssumption DEF Init
<1>2. Sending = {} /\ Waiting = {}
  BY DEF Init, Sending, Waiting
<1>3. GatewayType /\ StopInv /\ PacketInv
  BY <1>1 DEF Init, GatewayType, StopInv, PacketInv, HandlerState
<1>4. QueueInv
  BY <1>2 DEF Init, QueueInv
<1> QED BY <1>3, <1>4 DEF GatewayInv

LEMMA SpawnType ==
  ASSUME hpc \in [Trip -> HandlerState], NEW n \in Nat, Spawn(n)
  PROVE  hpc' \in [Trip -> HandlerState]
BY DEF Spawn, HandlerState

LEMMA TypeNext == GatewayType /\ [Next]_vars => GatewayType'
<1> SUFFICES ASSUME GatewayType, [Next]_vars PROVE GatewayType'
  OBVIOUS
<1> USE DEF GatewayType, startVars, captureVars, engineVars, handlerVars
<1>1. ASSUME NEW opens \in BOOLEAN, Start(opens) PROVE GatewayType'
  BY <1>1 DEF Start
<1>2. CASE StopStep
  BY <1>2 DEF StopStep, Following
<1>3. CASE OpenSource \/ CaptureEnds \/ PacketEnds \/ ReporterEnds
  BY <1>3 DEF OpenSource, CaptureEnds, PacketEnds, ReporterEnds
<1>4. ASSUME NEW names \in SUBSET Signal, ReadFrame(names) PROVE GatewayType'
  BY <1>4 DEF ReadFrame
<1>5. CASE ProcessPacket
  BY <1>5 DEF ProcessPacket
<1>6. CASE Report \/ SimulateInput \/ LoopSelects \/ LoopReturns \/ CheckTimers
  BY <1>6 DEF Report, SimulateInput, LoopSelects, LoopReturns, CheckTimers
<1>7. ASSUME NEW t \in {"loop", "packet"}, NEW n \in 0..Poles, Evaluate(t, n)
      PROVE  GatewayType'
  <2>1. n \in Nat
    BY GatewayAssumption
  <2> QED BY <1>7, <2>1, SpawnType DEF Evaluate
<1>8. ASSUME NEW k \in Trip, Handler(k) PROVE GatewayType'
  <2> USE DEF OthersUnchanged, Goto, HandlerState, Answer
  <2>1. CASE HandleTrip(k)
    <3>1. Sending \subseteq Trip /\ IsFiniteSet(Trip)
      BY FS_Interval, GatewayAssumption DEF Sending, Trip
    <3>2. Cardinality(Sending) \in Nat
      BY <3>1, FS_Subset, FS_CardinalityType
    <3> QED BY <2>1, <3>2, GatewayAssumption DEF HandleTrip
  <2>2. CASE GRPCSend(k)
    BY <2>2 DEF GRPCSend
  <2>3. CASE MockLock(k)
    BY <2>3 DEF MockLock, DelayTicks
  <2>4. CASE MockAnswer(k)
    BY <2>4 DEF MockAnswer, Release
  <2> QED BY <1>8, <2>1, <2>2, <2>3, <2>4 DEF Handler
<1>9. CASE Tick
  <2>1. left' \in [Trip -> Nat] /\ rest' \in [Trip -> Nat]
    BY <1>9 DEF Tick, Shorter
  <2> QED BY <1>9, <2>1 DEF Tick, OthersUnchanged
<1>10. CASE UNCHANGED vars
  BY <1>10 DEF vars
<1> QED BY <1>1, <1>2, <1>3, <1>4, <1>5, <1>6, <1>7, <1>8, <1>9, <1>10 DEF Next

LEMMA StopNext == GatewayType /\ StopInv /\ [Next]_vars => StopInv'
<1> SUFFICES ASSUME GatewayType, StopInv, [Next]_vars PROVE StopInv'
  OBVIOUS
<1> USE DEF StopInv, startVars, captureVars, engineVars, handlerVars
<1>1. ASSUME NEW opens \in BOOLEAN, Start(opens) PROVE StopInv'
  BY <1>1 DEF Start
<1>2. CASE StopStep
  BY <1>2 DEF StopStep, Following, Waits, GatewayType
<1>3. CASE OpenSource \/ CaptureEnds \/ PacketEnds \/ ReporterEnds
  BY <1>3 DEF OpenSource, CaptureEnds, PacketEnds, ReporterEnds
<1>4. ASSUME NEW names \in SUBSET Signal, ReadFrame(names) PROVE StopInv'
  BY <1>4 DEF ReadFrame
<1>5. CASE ProcessPacket
  BY <1>5 DEF ProcessPacket
<1>6. CASE Report \/ SimulateInput
  BY <1>6 DEF Report, SimulateInput
<1>7. CASE LoopSelects \/ LoopReturns \/ CheckTimers
  BY <1>7 DEF LoopSelects, LoopReturns, CheckTimers
<1>8. ASSUME NEW t \in {"loop", "packet"}, NEW n \in 0..Poles, Evaluate(t, n)
      PROVE  StopInv'
  BY <1>8 DEF Evaluate
<1>9. ASSUME NEW k \in Trip, Handler(k) PROVE StopInv'
  BY <1>9 DEF Handler, HandleTrip, GRPCSend, MockLock, MockAnswer, OthersUnchanged
<1>10. CASE Tick \/ UNCHANGED vars
  BY <1>10 DEF Tick, OthersUnchanged, vars
<1> QED BY <1>1, <1>2, <1>3, <1>4, <1>5, <1>6, <1>7, <1>8, <1>9, <1>10 DEF Next

LEMMA PacketNext == GatewayType /\ PacketInv /\ [Next]_vars => PacketInv'
<1> SUFFICES ASSUME GatewayType, PacketInv, [Next]_vars PROVE PacketInv'
  OBVIOUS
<1> USE DEF PacketInv, startVars, captureVars, engineVars, handlerVars
<1>1. ASSUME NEW opens \in BOOLEAN, Start(opens) PROVE PacketInv'
  BY <1>1 DEF Start
<1>2. CASE StopStep
  BY <1>2 DEF StopStep
<1>3. CASE OpenSource \/ CaptureEnds \/ PacketEnds \/ ReporterEnds
  BY <1>3 DEF OpenSource, CaptureEnds, PacketEnds, ReporterEnds
<1>4. ASSUME NEW names \in SUBSET Signal, ReadFrame(names) PROVE PacketInv'
  BY <1>4 DEF ReadFrame
<1>5. CASE ProcessPacket
  <2>1. Head(packetChan) \subseteq Signal
    BY <1>5 DEF ProcessPacket, GatewayType
  <2>2. DOMAIN signalMap = LogicNode
    BY GatewayAssumption DEF signalMap
  <2>3. {signalMap[s] : s \in Head(packetChan) \intersect DOMAIN signalMap} = {}
    BY <2>1, <2>2, GatewayAssumption
  <2> QED BY <1>5, <2>3 DEF ProcessPacket
<1>6. CASE Report \/ SimulateInput
  BY <1>6 DEF Report, SimulateInput
<1>7. CASE LoopSelects \/ LoopReturns \/ CheckTimers
  BY <1>7 DEF LoopSelects, LoopReturns, CheckTimers
<1>8. ASSUME NEW t \in {"loop", "packet"}, NEW n \in 0..Poles, Evaluate(t, n)
      PROVE  PacketInv'
  BY <1>8 DEF Evaluate
<1>9. ASSUME NEW k \in Trip, Handler(k) PROVE PacketInv'
  BY <1>9 DEF Handler, HandleTrip, GRPCSend, MockLock, MockAnswer, OthersUnchanged
<1>10. CASE Tick \/ UNCHANGED vars
  BY <1>10 DEF Tick, OthersUnchanged, vars
<1> QED BY <1>1, <1>2, <1>3, <1>4, <1>5, <1>6, <1>7, <1>8, <1>9, <1>10 DEF Next

-----------------------------------------------------------------------------
LEMMA OneMore == ASSUME NEW a \in Nat, NEW d \in Nat
                 PROVE  (a + 1) * d = a * d + d /\ a * d \in Nat
OBVIOUS

(* A handler that leaves the queue, or never was in it, disturbs nobody.   *)
LEMMA LeavesQueue ==
  ASSUME GatewayType, QueueInv, UNCHANGED <<left, rest, ahead, delay>>,
         \A k \in Trip : hpc'[k] = hpc[k] \/ hpc'[k] \notin {"waiting", "sending", "timeout"}
  PROVE  QueueInv'
<1>1. Sending' \subseteq Sending /\ Waiting' \subseteq Waiting
  BY DEF Sending, Waiting
<1>2. ASSUME NEW k \in Waiting PROVE Used(k) <= ahead[k] * delay
  <2>1. CASE Sending = {}
    BY <1>2, <2>1 DEF QueueInv
  <2>2. ASSUME NEW j \in Sending PROVE Used(k) <= ahead[k] * delay
    <3>1. Used(k) + rest[j] <= ahead[k] * delay
      BY <1>2, <2>2 DEF QueueInv
    <3>2. rest[j] \in Nat /\ Used(k) \in Int /\ ahead[k] * delay \in Int
      BY <1>2, <2>2, GatewayAssumption, OneMore DEF Used, GatewayType, Sending, Waiting
    <3> QED BY <3>1, <3>2
  <2> QED BY <2>1, <2>2
<1>3. \A k \in Trip : Used(k)' = Used(k)
  BY DEF Used
<1>4. /\ \A j, k \in Sending' : j = k
      /\ \A k \in Sending' : rest'[k] <= delay'
      /\ \A k \in Sending' : Used(k)' + rest'[k] <= (ahead'[k] + 1) * delay'
  BY <1>1, <1>3 DEF QueueInv, Sending
<1>5. /\ \A k \in Waiting' : Sending' = {} => Used(k)' <= ahead'[k] * delay'
      /\ \A k \in Waiting', j \in Sending' : Used(k)' + rest'[j] <= ahead'[k] * delay'
  BY <1>1, <1>2, <1>3 DEF QueueInv, Waiting
<1>6. \A k \in Trip : hpc'[k] = "timeout" => Timeout <= (ahead'[k] + 1) * delay'
  BY DEF QueueInv
<1> QED BY <1>4, <1>5, <1>6 DEF QueueInv

LEMMA QueueNext == GatewayType /\ QueueInv /\ [Next]_vars => QueueInv'
<1> SUFFICES ASSUME GatewayType, QueueInv, [Next]_vars PROVE QueueInv'
  OBVIOUS
<1>0. /\ delay \in Nat /\ Timeout \in Nat
      /\ \A k \in Trip : left[k] \in Nat /\ rest[k] \in Nat /\ ahead[k] \in Nat
      /\ Sending \subseteq Trip /\ Waiting \subseteq Trip
  BY GatewayAssumption DEF GatewayType, Sending, Waiting
<1>1. ASSUME UNCHANGED <<handlerVars, delay>> PROVE QueueInv'
  BY <1>1, LeavesQueue DEF handlerVars
<1>2. CASE \/ \E opens \in BOOLEAN : Start(opens)
           \/ StopStep \/ OpenSource \/ CaptureEnds
           \/ \E names \in SUBSET Signal : ReadFrame(names)
           \/ ProcessPacket \/ PacketEnds \/ Report \/ ReporterEnds
           \/ SimulateInput \/ LoopSelects \/ LoopReturns \/ CheckTimers
           \/ UNCHANGED vars
  BY <1>1, <1>2 DEF Start, StopStep, OpenSource, CaptureEnds, ReadFrame, ProcessPacket,
     PacketEnds, Report, ReporterEnds, SimulateInput, LoopSelects, LoopReturns,
     CheckTimers, vars, startVars
<1>3. ASSUME NEW t \in {"loop", "packet"}, NEW n \in 0..Poles, Evaluate(t, n)
      PROVE  QueueInv'
  <2>1. UNCHANGED <<left, rest, ahead, delay>>
    BY <1>3 DEF Evaluate, startVars
  <2>2. \A k \in Trip : hpc'[k] = hpc[k] \/ hpc'[k] = "begun"
    BY <1>3 DEF Evaluate, Spawn
  <2> QED BY <2>1, <2>2, LeavesQueue
<1>4. ASSUME NEW k \in Trip, HandleTrip(k) PROVE QueueInv'
  <2>1. /\ hpc[k] = "begun" /\ UNCHANGED <<delay, rest>>
        /\ hpc' = [hpc EXCEPT ![k] = IF client = "none" THEN "noClient" ELSE "waiting"]
        /\ left' = [left EXCEPT ![k] = IF client = "none" THEN 0 ELSE Timeout]
        /\ ahead' = [ahead EXCEPT ![k] = Cardinality(Sending)]
    BY <1>4 DEF HandleTrip, Goto, OthersUnchanged, startVars
  <2>2. /\ Sending' = Sending /\ k \notin Sending /\ k \notin Waiting
        /\ Waiting' \subseteq Waiting \union {k}
    BY <2>1 DEF GatewayType, Sending, Waiting
  <2>3. \A j \in Trip \ {k} : left'[j] = left[j] /\ ahead'[j] = ahead[j] /\ Used(j)' = Used(j)
    BY <2>1 DEF GatewayType, Used
  <2>4. k \in Waiting' => left'[k] = Timeout /\ Used(k)' = 0
    BY <1>0, <2>1 DEF GatewayType, Used, Waiting
  <2>5. ahead'[k] = Cardinality(Sending)
    BY <2>1 DEF GatewayType
  <2>6. CASE Sending = {}
    <3>1. ahead'[k] = 0
      BY <2>5, <2>6, FS_EmptySet
    <3>2. ahead'[k] * delay' = 0
      BY <1>0, <2>1, <3>1
    <3>3. \A j \in Waiting' : Used(j)' <= ahead'[j] * delay'
      BY <1>0, <2>1, <2>2, <2>3, <2>4, <2>6, <3>2 DEF QueueInv
    <3>4. \A j \in Trip : hpc'[j] = "timeout" =>
                            j # k /\ Timeout <= (ahead'[j] + 1) * delay'
      BY <2>1, <2>3 DEF QueueInv, GatewayType
    <3> QED BY <2>2, <2>6, <3>3, <3>4 DEF QueueInv
  <2>7. ASSUME NEW s \in Sending PROVE QueueInv'
    <3>1. Sending = {s}
      BY <2>7 DEF QueueInv
    <3>2. ahead'[k] = 1
      BY <2>5, <3>1, FS_Singleton
    <3>3. ahead'[k] * delay' = delay
      BY <1>0, <2>1, <3>2
    <3>4. \A j \in Waiting' : Used(j)' + rest'[s] <= ahead'[j] * delay'
      <4>1. k \in Waiting' => Used(k)' + rest'[s] <= ahead'[k] * delay'
        BY <1>0, <2>1, <2>4, <2>7, <3>3 DEF QueueInv
      <4>2. \A j \in Waiting : Used(j)' + rest'[s] <= ahead'[j] * delay'
        BY <1>0, <2>1, <2>2, <2>3, <2>7 DEF QueueInv
      <4> QED BY <2>2, <4>1, <4>2
    <3>5. Used(s)' + rest'[s] <= (ahead'[s] + 1) * delay' /\ rest'[s] <= delay'
      BY <1>0, <2>1, <2>2, <2>3, <2>7 DEF QueueInv
    <3>6. \A j \in Trip : hpc'[j] = "timeout" => Timeout <= (ahead'[j] + 1) * delay'
      <4>1. \A j \in Trip : hpc'[j] = "timeout" => j # k /\ hpc[j] = "timeout"
        BY <2>1 DEF GatewayType
      <4> QED BY <2>1, <2>3, <4>1 DEF QueueInv
    <3> QED BY <2>2, <3>1, <3>4, <3>5, <3>6 DEF QueueInv
  <2> QED BY <2>6, <2>7
<1>5. ASSUME NEW k \in Trip, GRPCSend(k) PROVE QueueInv'
  <2>1. UNCHANGED <<left, rest, ahead, delay>>
    BY <1>5 DEF GRPCSend, OthersUnchanged, startVars
  <2>2. \A j \in Trip : hpc'[j] = hpc[j] \/ hpc'[j] \in {"sent", "notConnected"}
    BY <1>5 DEF GRPCSend, Goto, GatewayType
  <2> QED BY <2>1, <2>2, LeavesQueue
<1>6. ASSUME NEW k \in Trip, MockLock(k) PROVE QueueInv'
  <2>1. /\ hpc[k] = "waiting" /\ Sending = {} /\ UNCHANGED <<delay, left>>
        /\ hpc' = [hpc EXCEPT ![k] = IF delay = 0 THEN "sent" ELSE "sending"]
        /\ rest' = [rest EXCEPT ![k] = delay]
        /\ ahead' = [j \in Trip |-> IF j \in Waiting \ {k} THEN ahead[j] + 1 ELSE ahead[j]]
    BY <1>6 DEF MockLock, MockBusy, DelayTicks, Goto, OthersUnchanged, startVars
  <2>2. k \in Waiting /\ Sending' \subseteq {k} /\ Waiting' = Waiting \ {k}
    BY <2>1 DEF GatewayType, Sending, Waiting
  <2>3. \A j \in Trip : Used(j)' = Used(j)
    BY <2>1 DEF Used
  <2>4. \A j \in Waiting : Used(j) <= ahead[j] * delay
    BY <2>1 DEF QueueInv
  <2>5. rest'[k] = delay /\ ahead'[k] = ahead[k]
    BY <2>1 DEF GatewayType
  <2>6. \A j \in Waiting' : ahead'[j] = ahead[j] + 1
    BY <1>0, <2>1, <2>2
  <2>7. Used(k)' + rest'[k] <= (ahead'[k] + 1) * delay'
    <3>1. (ahead[k] + 1) * delay = ahead[k] * delay + delay /\ ahead[k] * delay \in Nat
      BY <1>0, OneMore
    <3>2. Used(k) \in Int /\ Used(k) <= ahead[k] * delay
      BY <1>0, <2>2, <2>4 DEF Used
    <3> QED BY <1>0, <2>1, <2>3, <2>5, <3>1, <3>2
  <2>8. ASSUME NEW j \in Waiting'
        PROVE  /\ Used(j)' <= ahead'[j] * delay'
               /\ Used(j)' + rest'[k] <= ahead'[j] * delay'
    <3>1. j \in Waiting /\ j \in Trip
      BY <1>0, <2>2
    <3>2. (ahead[j] + 1) * delay = ahead[j] * delay + delay /\ ahead[j] * delay \in Nat
      BY <1>0, <3>1, OneMore
    <3>3. Used(j) \in Int /\ Used(j) <= ahead[j] * delay
      BY <1>0, <2>4, <3>1 DEF Used
    <3>4. ahead'[j] * delay' = ahead[j] * delay + delay
      BY <2>1, <2>6, <3>2, Zenon
    <3>5. Used(j)' = Used(j) /\ rest'[k] = delay
      BY <2>3, <2>5, <3>1
    <3> QED BY <1>0, <3>2, <3>3, <3>4, <3>5
  <2>9. \A j \in Trip : hpc'[j] = "timeout" => Timeout <= (ahead'[j] + 1) * delay'
    <3>1. \A j \in Trip : hpc'[j] = "timeout" => hpc[j] = "timeout" /\ ahead'[j] = ahead[j]
      BY <2>1 DEF GatewayType, Waiting
    <3> QED BY <2>1, <3>1 DEF QueueInv
  <2>10. rest'[k] <= delay'
    BY <1>0, <2>1, <2>5
  <2> QED BY <2>2, <2>7, <2>8, <2>9, <2>10 DEF QueueInv
<1>7. ASSUME NEW k \in Trip, MockAnswer(k) PROVE QueueInv'
  <2>1. /\ hpc[k] = "sending" /\ UNCHANGED <<left, rest, ahead, delay>>
        /\ \/ hpc' = [hpc EXCEPT ![k] = "sent"]
           \/ left[k] = 0 /\ hpc' = [hpc EXCEPT ![k] = "timeout"]
    BY <1>7 DEF MockAnswer, Goto, Release, OthersUnchanged, startVars
  <2>2. CASE hpc' = [hpc EXCEPT ![k] = "sent"]
    <3>1. \A j \in Trip : hpc'[j] = hpc[j] \/ hpc'[j] = "sent"
      BY <2>2 DEF GatewayType
    <3> QED BY <2>1, <3>1, LeavesQueue
  <2>3. CASE left[k] = 0 /\ hpc' = [hpc EXCEPT ![k] = "timeout"]
    <3>1. k \in Sending /\ Sending = {k}
      BY <2>1 DEF Sending, QueueInv
    <3>2. Sending' = {} /\ Waiting' = Waiting
      BY <2>1, <2>3, <3>1 DEF GatewayType, Sending, Waiting
    <3>3. Timeout <= (ahead[k] + 1) * delay
      <4>1. Used(k) + rest[k] <= (ahead[k] + 1) * delay /\ Used(k) = Timeout
        BY <1>0, <2>3, <3>1 DEF QueueInv, Used
      <4>2. (ahead[k] + 1) * delay \in Int
        BY <1>0, OneMore
      <4> QED BY <1>0, <4>1, <4>2
    <3>4. \A j \in Waiting' : Used(j)' <= ahead'[j] * delay'
      <4> SUFFICES ASSUME NEW j \in Waiting PROVE Used(j) <= ahead[j] * delay
        BY <2>1, <3>2 DEF Used
      <4>1. Used(j) + rest[k] <= ahead[j] * delay
        BY <3>1 DEF QueueInv
      <4>2. Used(j) \in Int /\ rest[k] \in Nat /\ ahead[j] * delay \in Nat
        BY <1>0, OneMore DEF Used
      <4> QED BY <4>1, <4>2
    <3>5. \A j \in Trip : hpc'[j] = "timeout" => Timeout <= (ahead'[j] + 1) * delay'
      BY <2>1, <2>3, <3>3 DEF QueueInv, GatewayType
    <3> QED BY <3>2, <3>4, <3>5 DEF QueueInv
  <2> QED BY <2>1, <2>2, <2>3
<1>8. CASE Tick
  <2>1. /\ UNCHANGED <<hpc, ahead, delay>>
        /\ left' = Shorter(left) /\ rest' = Shorter(rest)
        /\ Waiting \union Sending # {}
        /\ \A k \in Trip : ~CanGoOn(k)
    BY <1>8 DEF Tick, OthersUnchanged, startVars
  <2>2. Sending' = Sending /\ Waiting' = Waiting
    BY <2>1 DEF Sending, Waiting
  <2>3. Sending # {}
    BY <1>0, <2>1 DEF CanGoOn, MockBusy, Waiting
  <2>4. PICK s \in Sending : TRUE
    BY <2>3
  <2>5. Sending = {s} /\ s \in Trip
    BY <1>0, <2>4 DEF QueueInv
  <2>6. rest[s] # 0 /\ left[s] # 0
    BY <2>1, <2>4, <2>5 DEF CanGoOn, Sending
  <2>7. rest'[s] = rest[s] - 1 /\ left'[s] = left[s] - 1
    BY <1>0, <2>1, <2>4, <2>5, <2>6 DEF Shorter, Sending
  <2>8. \A k \in Waiting : left'[k] \in {left[k], left[k] - 1}
    BY <1>0, <2>1 DEF Shorter
  <2>9. rest'[s] <= delay' /\ Used(s)' + rest'[s] <= (ahead'[s] + 1) * delay'
    <3>1. rest[s] <= delay /\ Used(s) + rest[s] <= (ahead[s] + 1) * delay
      BY <2>4 DEF QueueInv
    <3>2. Used(s)' + rest'[s] = Used(s) + rest[s]
      BY <1>0, <2>5, <2>7 DEF Used
    <3> QED BY <1>0, <2>1, <2>5, <2>7, <3>1, <3>2
  <2>10. ASSUME NEW k \in Waiting PROVE Used(k)' + rest'[s] <= ahead'[k] * delay'
    <3>1. Used(k) + rest[s] <= ahead[k] * delay
      BY <2>4 DEF QueueInv
    <3>2. Used(k)' + rest'[s] <= Used(k) + rest[s]
      BY <1>0, <2>5, <2>7, <2>8 DEF Used
    <3>3. ahead[k] * delay \in Int /\ Used(k) \in Int /\ Used(k)' \in Int /\ rest'[s] \in Int
      BY <1>0, <2>5, <2>7, <2>8, OneMore DEF Used
    <3> QED BY <1>0, <2>1, <2>5, <3>1, <3>2, <3>3
  <2>11. \A k \in Trip : hpc'[k] = "timeout" => Timeout <= (ahead'[k] + 1) * delay'
    BY <2>1 DEF QueueInv
  <2> QED BY <2>2, <2>5, <2>9, <2>10, <2>11 DEF QueueInv
<1> QED BY <1>2, <1>3, <1>4, <1>5, <1>6, <1>7, <1>8 DEF Next, Handler
-----------------------------------------------------------------------------
THEOREM GatewayInvariant == Spec => []GatewayInv
<1>1. GatewayInv /\ [Next]_vars => GatewayInv'
  BY TypeNext, StopNext, PacketNext, QueueNext DEF GatewayInv
<1> QED BY GatewayInit, <1>1, PTL DEF Spec

(* Nothing a GOOSE frame carries sets an input of the scheme               *)
(* (main.go:95, 224).                                                      *)
THEOREM NoInputFromFrames == Spec => []FramesReachNoInput
<1>1. GatewayInv => FramesReachNoInput
  BY DEF GatewayInv, PacketInv, FramesReachNoInput
<1> QED BY GatewayInvariant, <1>1, PTL

(* The trip client is closed after the last trip was raised                *)
(* (main.go:319-329).                                                      *)
THEOREM ClientClosedLast == Spec => NoTripAfterClose
<1>1. GatewayInv /\ [Next]_vars =>
        [client = "grpc" /\ main # "init" /\ ~connected => Spawned' = Spawned]_vars
  <2> SUFFICES ASSUME GatewayInv, Next, client = "grpc", ~connected
               PROVE  Spawned' = Spawned
    BY DEF Spawned, vars, handlerVars
  <2>1. loop = "off" /\ packet = "off" /\ main \in {"closed", "exited"}
    BY DEF GatewayInv, GatewayType, StopInv
  <2>2. hpc \in [Trip -> HandlerState]
    BY DEF GatewayInv, GatewayType
  <2>3. ASSUME NEW t \in {"loop", "packet"}, NEW n \in 0..Poles, Evaluate(t, n)
        PROVE  FALSE
    BY <2>1, <2>3 DEF Evaluate
  <2>4. ASSUME NEW k \in Trip, Handler(k) PROVE Spawned' = Spawned
    <3>1. hpc[k] # "none" /\ \A j \in Trip \ {k} : hpc'[j] = hpc[j]
      BY <2>2, <2>4 DEF Handler, HandleTrip, GRPCSend, MockLock, MockAnswer, Goto
    <3>2. hpc'[k] # "none"
      BY <2>2, <2>4 DEF Handler, HandleTrip, GRPCSend, MockLock, MockAnswer, Goto, Release
    <3> QED BY <3>1, <3>2 DEF Spawned
  <2>5. ASSUME UNCHANGED hpc PROVE Spawned' = Spawned
    BY <2>5 DEF Spawned
  <2> QED
    BY <2>3, <2>4, <2>5 DEF Next, Start, StopStep, OpenSource, CaptureEnds, ReadFrame,
       ProcessPacket, PacketEnds, Report, ReporterEnds, SimulateInput, LoopSelects,
       LoopReturns, CheckTimers, Tick, handlerVars
<1> QED BY GatewayInvariant, <1>1, PTL DEF Spec, NoTripAfterClose

(* A trip command times out only behind others (main.go:253,               *)
(* trip_client.go:195-204).                                                *)
THEOREM TimeoutsQueued == Spec => []TimeoutMeansQueue
<1>1. GatewayInv => TimeoutMeansQueue
  <2> SUFFICES ASSUME GatewayInv PROVE TimeoutMeansQueue
    OBVIOUS
  <2>1. Cardinality(Sending) <= 1
    <3>1. CASE Sending = {}
      BY <3>1, FS_EmptySet
    <3>2. ASSUME NEW s \in Sending PROVE Cardinality(Sending) <= 1
      <4>1. Sending = {s}
        BY <3>2 DEF GatewayInv, QueueInv
      <4> QED BY <4>1, FS_Singleton
    <3> QED BY <3>1, <3>2
  <2>2. ASSUME NEW k \in Trip, hpc[k] = "timeout"
        PROVE  (ahead[k] + 1) * delay >= Timeout
    <3>1. Timeout <= (ahead[k] + 1) * delay
      BY <2>2 DEF GatewayInv, QueueInv
    <3>2. ahead[k] \in Nat /\ delay \in Nat /\ Timeout \in Nat
      BY GatewayAssumption DEF GatewayInv, GatewayType
    <3>3. (ahead[k] + 1) * delay \in Nat
      BY <3>2
    <3> QED BY <3>1, <3>2, <3>3
  <2> QED BY <2>1, <2>2 DEF TimeoutMeansQueue
<1> QED BY GatewayInvariant, <1>1, PTL
=============================================================================
