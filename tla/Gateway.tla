------------------------------ MODULE Gateway --------------------------------
(***************************************************************************)
(* The gateway of cmd/gateway/main.go with what it starts: the GOOSE       *)
(* capture loop, the packet loop, the statistics reporter, the loop of the *)
(* protection engine, the simulation, and one goroutine per trip signal    *)
(* that sends a command through the trip client.  `main` is the program    *)
(* counter of main(), from Start to the steps of Stop.                     *)
(*                                                                         *)
(* The engine is cut down to what the others see of it: its loop holds an  *)
(* event or a timer check ("busy") until it gets e.mu, which Stop keeps    *)
(* from StopEngine to EngineStopped; an evaluation raises any number of    *)
(* trips (ProtectionEngine and LogicGraph have the rest).  Statistics are  *)
(* only logged and are left out.                                           *)
(*                                                                         *)
(* Time is counted down: Tick makes every running timer one tick shorter.  *)
(***************************************************************************)
EXTENDS Integers, Sequences, FiniteSets

CONSTANTS Signal,      \* names of GOOSE signals
          LogicNode,   \* input nodes of the protection scheme
          SignalOf,    \* SignalOf[n]: the SignalName configured for node n
          Clients,     \* the trip clients: Initialize makes "mock" or "none", and
                       \*   "grpc" is the one the mock stands in for
          Delays,      \* the mock client's delay, in ticks
          Timeout,     \* the 100 ms of handleTripSignal, in ticks
          PacketBuffer, EventBuffer,   \* capacities of the channels
          Poles,       \* trip signals one evaluation can raise
          MaxTrips,    \* bounds: trip signals in all,
          MaxEvents,   \*   inputs the simulation sets,
          MaxFrames    \*   frames on the wire

ASSUME GatewayAssumption ==
  /\ Signal \intersect LogicNode = {}
  /\ SignalOf \in [LogicNode -> Signal]
  /\ Clients \subseteq {"none", "mock", "grpc"}
  /\ Delays \subseteq Nat /\ Timeout \in Nat \ {0}
  /\ PacketBuffer \in Nat /\ EventBuffer \in Nat /\ Poles \in Nat
  /\ MaxTrips \in Nat /\ MaxEvents \in Nat /\ MaxFrames \in Nat

VARIABLES
  main,        \* main(): where Start and Stop are
  captureReady,
  client, delay, connected,       \* the trip client
  capture, packet, reporter, loop, \* the goroutines
  packetChan,  \* frames the capture has queued: the signals each one carries
  events,      \* number of events in the engine's channel
  frames, inputs,                 \* frames seen, inputs simulated so far
  crashed,     \* a nil pcap handle was used
  evaluator,   \* auxiliary: goroutines that ever evaluated the graph
  hpc,         \* per trip signal: where its handler is
  left, rest,  \* per handler: ticks to its deadline, to the end of the delay
  ahead        \* auxiliary: handlers that had the client while this one waited

startVars   == <<client, delay, captureReady>>
captureVars == <<capture, packetChan, frames, crashed>>
engineVars  == <<loop, events, inputs, evaluator>>
handlerVars == <<hpc, left, rest, ahead>>
vars == <<main, startVars, connected, captureVars, packet, reporter,
          engineVars, handlerVars>>

Trip     == 1..MaxTrips
Answer   == {"sent", "timeout", "notConnected", "noClient"}
StopSteps == <<"capture", "captureWait", "engine", "engineWait", "wait",
               "close", "closed", "exited">>
Main     == {"init", "running"} \union {StopSteps[i] : i \in DOMAIN StopSteps}

(* main has done the step of Stop that leads to s. *)
Reached(s) == \E i, j \in DOMAIN StopSteps :
                main = StopSteps[j] /\ s = StopSteps[i] /\ i <= j

Alive         == main # "exited" /\ ~crashed
StopChan      == Reached("capture")      \* g.stopChan is closed
HandleGone    == Reached("captureWait")  \* capture.handle is nil
EngineChan    == Reached("engineWait")   \* the engine's stopChan is closed
MuKept        == ~Reached("engineWait")
MuFree        == main # "engineWait"     \* e.mu

Init ==
  /\ main = "init" /\ captureReady = TRUE
  /\ client \in Clients
  /\ delay \in Delays \union {0} /\ (client # "mock" => delay = 0)
  /\ connected = (client = "grpc")
  /\ capture = "off" /\ packet = "off" /\ reporter = "off" /\ loop = "off"
  /\ packetChan = <<>> /\ events = 0 /\ frames = 0 /\ inputs = 0
  /\ crashed = FALSE /\ evaluator = {}
  /\ hpc = [k \in Trip |-> "none"]
  /\ left = [k \in Trip |-> 0] /\ rest = [k \in Trip |-> 0]
  /\ ahead = [k \in Trip |-> 0]
-----------------------------------------------------------------------------
(* Start: the engine, then the capture unless its interface will not open. *)
Start(opens) ==
  /\ main = "init"
  /\ main' = "running"
  /\ loop' = "select" /\ reporter' = "select"
  /\ captureReady' = opens
  /\ capture' = IF opens THEN "begin" ELSE "off"
  /\ packet'  = IF opens THEN "select" ELSE "off"
  /\ UNCHANGED <<client, delay, connected, packetChan, frames, crashed,
                 events, inputs, evaluator, handlerVars>>

(* The steps of Stop, each of which has to wait for somebody. *)
Waits(s) ==
  CASE s = "captureWait" -> capture = "off"
    [] s = "engineWait"  -> loop = "off"
    [] s = "wait"        -> packet = "off" /\ reporter = "off"
    [] OTHER             -> TRUE

FollowingNoWait(s) ==
  CASE s = "running" -> IF captureReady THEN "capture" ELSE "engine"
    [] s = "capture" -> "captureWait"  [] s = "captureWait" -> "close"
    [] s = "close"   -> "engine"       [] s = "engine"      -> "engineWait"
    [] s = "engineWait" -> "wait"      [] s = "wait"        -> "closed"
    [] OTHER         -> "exited"
Following(s) ==
  CASE s = "running" -> IF captureReady THEN "capture" ELSE "engine"
    [] s = "capture" -> "captureWait"  [] s = "captureWait" -> "engine"
    [] s = "engine"  -> "engineWait"   [] s = "engineWait"  -> "wait"
    [] s = "wait"    -> "close"        [] s = "close"       -> "closed"
    [] OTHER         -> "exited"

StopStep ==
  /\ main \notin {"init", "exited"} /\ ~crashed
  /\ Waits(main)
  /\ main' = Following(main)
  /\ connected' = (connected /\ main # "close")
  /\ UNCHANGED <<startVars, captureVars, packet, reporter, engineVars,
                 handlerVars>>
-----------------------------------------------------------------------------
(* GOOSECapture.captureLoop.  Stop sets the handle to nil before it waits, *)
(* also for a loop that has not made its packet source yet.                *)
OpenSource ==
  /\ capture = "begin" /\ Alive
  /\ capture' = "reading"
  /\ crashed' = HandleGone
  /\ UNCHANGED <<main, startVars, connected, packetChan, frames, packet,
                 reporter, engineVars, handlerVars>>

(* A frame that finds the channel full is dropped. *)
ReadFrame(names) ==
  /\ capture = "reading" /\ Alive /\ ~HandleGone
  /\ frames < MaxFrames
  /\ frames' = frames + 1
  /\ packetChan' = IF Len(packetChan) < PacketBuffer
                   THEN Append(packetChan, names) ELSE packetChan
  /\ UNCHANGED <<main, startVars, connected, capture, crashed, packet,
                 reporter, engineVars, handlerVars>>

CaptureEnds ==
  /\ capture = "reading" /\ Alive /\ HandleGone
  /\ capture' = "off"
  /\ UNCHANGED <<main, startVars, connected, packetChan, frames, crashed,
                 packet, reporter, engineVars, handlerVars>>
-----------------------------------------------------------------------------
(* g.signalMap goes from node to signal name, and processPacket looks up   *)
(* the signal names of the frame in it.                                    *)
SignalToNode == [s \in {SignalOf[n] : n \in LogicNode} |->
                   CHOOSE n \in LogicNode : SignalOf[n] = s]
signalMap == SignalOf

(* A frame that is no GOOSE frame, or cannot be decoded, carries {}. *)
ProcessPacket ==
  LET names    == Head(packetChan)
      inputMap == {signalMap[s] : s \in names \intersect DOMAIN signalMap}
  IN  /\ packet = "select" /\ Alive
      /\ packetChan # <<>>
      /\ packetChan' = Tail(packetChan)
      /\ packet' = IF inputMap = {} THEN "select" ELSE "evaluating"
      /\ UNCHANGED <<main, startVars, connected, capture, frames, crashed,
                     reporter, engineVars, handlerVars>>

PacketEnds ==
  /\ packet = "select" /\ Alive /\ StopChan
  /\ packet' = "off"
  /\ UNCHANGED <<main, startVars, connected, captureVars, reporter,
                 engineVars, handlerVars>>

(* printStats asks the engine for its statistics, under e.mu. *)
Report ==
  /\ Alive
  /\ \/ reporter = "select" /\ reporter' = "printing"
     \/ reporter = "printing" /\ MuFree /\ reporter' = "select"
  /\ UNCHANGED <<main, startVars, connected, captureVars, packet, engineVars,
                 handlerVars>>

ReporterEnds ==
  /\ reporter = "select" /\ Alive /\ StopChan
  /\ reporter' = "off"
  /\ UNCHANGED <<main, startVars, connected, captureVars, packet, engineVars,
                 handlerVars>>
-----------------------------------------------------------------------------
(* runSimulation goes on whatever main does; a full channel drops its      *)
(* event.                                                                  *)
SimulateInput ==
  /\ main # "init" /\ Alive
  /\ inputs < MaxEvents
  /\ inputs' = inputs + 1
  /\ events' = IF events < EventBuffer THEN events + 1 ELSE events
  /\ UNCHANGED <<main, startVars, connected, captureVars, packet, reporter,
                 loop, evaluator, handlerVars>>

LoopSelects ==
  /\ loop = "select" /\ Alive
  /\ \/ events > 0 /\ events' = events - 1 /\ loop' = "evaluating"
     \/ UNCHANGED events /\ loop' = "timers"
  /\ UNCHANGED <<main, startVars, connected, captureVars, packet, reporter,
                 inputs, evaluator, handlerVars>>

LoopReturns ==
  /\ loop = "select" /\ Alive /\ EngineChan
  /\ loop' = "off"
  /\ UNCHANGED <<main, startVars, connected, captureVars, packet, reporter,
                 events, inputs, evaluator, handlerVars>>

CheckTimers ==
  /\ loop = "timers" /\ Alive /\ MuFree
  /\ loop' = "select"
  /\ UNCHANGED <<main, startVars, connected, captureVars, packet, reporter,
                 events, inputs, evaluator, handlerVars>>

(* An evaluation, by the loop or by the packet loop's SetInputsBatch, and  *)
(* the goroutines dispatchTrips spawns for n trips.                        *)
Spawned == {k \in Trip : hpc[k] # "none"}
Spawn(n) ==
  /\ Cardinality(Spawned) + n <= MaxTrips
  /\ hpc' = [k \in Trip |->
               IF k > Cardinality(Spawned) /\ k <= Cardinality(Spawned) + n
               THEN "begun" ELSE hpc[k]]

Evaluate(t, n) ==
  /\ Alive /\ MuFree
  /\ \/ t = "loop" /\ loop = "evaluating" /\ loop' = "select"
        /\ UNCHANGED packet
     \/ t = "packet" /\ packet = "evaluating" /\ packet' = "select"
        /\ UNCHANGED loop
  /\ evaluator' = evaluator \union {t}
  /\ Spawn(n)
  /\ UNCHANGED <<main, startVars, connected, captureVars, reporter, events,
                 inputs, left, rest, ahead>>
-----------------------------------------------------------------------------
(* handleTripSignal and the client's SendTrip, for trip signal k.          *)
Waiting == {k \in Trip : hpc[k] = "waiting"}
Sending == {k \in Trip : hpc[k] = "sending"}
Goto(k, s) == hpc' = [hpc EXCEPT ![k] = s]
OthersUnchanged == UNCHANGED <<main, startVars, connected, captureVars,
                               packet, reporter, engineVars>>

(* The deadline runs from here, before the client's lock is asked for. *)
HandleTrip(k) ==
  /\ hpc[k] = "begun" /\ Alive
  /\ Goto(k, IF client = "none" THEN "noClient" ELSE "waiting")
  /\ left' = [left EXCEPT ![k] = IF client = "none" THEN 0 ELSE Timeout]
  /\ ahead' = [ahead EXCEPT ![k] = Cardinality(Sending)]
  /\ UNCHANGED rest
  /\ OthersUnchanged

GRPCSend(k) ==
  /\ client = "grpc"
  /\ hpc[k] = "waiting" /\ Alive
  /\ Goto(k, IF connected THEN "sent" ELSE "notConnected")
  /\ UNCHANGED <<left, rest, ahead>>
  /\ OthersUnchanged

(* MockTripClient.SendTrip keeps m.mu to the end of its delay; it looks at *)
(* the deadline only if it has a delay.                                    *)
MockBusy == Sending # {}
DoubleDelay      == 2 * delay
DelayTicks       == delay
NeverReleases(s) == IF s = "timeout" THEN "sending" ELSE s
Release(s)       == s

MockLock(k) ==
  /\ client = "mock"
  /\ hpc[k] = "waiting" /\ Alive
  /\ ~MockBusy
  /\ Goto(k, IF delay = 0 THEN "sent" ELSE "sending")
  /\ rest' = [rest EXCEPT ![k] = DelayTicks]
  /\ ahead' = [j \in Trip |-> IF j \in Waiting \ {k} THEN ahead[j] + 1
                              ELSE ahead[j]]
  /\ UNCHANGED left
  /\ OthersUnchanged

(* The select of the delay: whichever timer runs out first, and either one *)
(* if they run out together.                                               *)
MockAnswer(k) ==
  /\ hpc[k] = "sending" /\ Alive
  /\ \/ rest[k] = 0 /\ Goto(k, "sent")
     \/ left[k] = 0 /\ Goto(k, Release("timeout"))
  /\ UNCHANGED <<left, rest, ahead>>
  /\ OthersUnchanged

(* A goroutine that can go on does so before the timers move. *)
CanGoOn(k) ==
  \/ hpc[k] = "begun"
  \/ hpc[k] = "waiting" /\ (client = "grpc" \/ ~MockBusy)
  \/ hpc[k] = "sending" /\ (rest[k] = 0 \/ left[k] = 0)

Shorter(f) == [k \in Trip |-> IF f[k] > 0 /\ hpc[k] \in {"waiting", "sending"}
                              THEN f[k] - 1 ELSE f[k]]
Tick ==
  /\ Alive
  /\ Waiting \union Sending # {}
  /\ \A k \in Trip : ~CanGoOn(k)
  /\ left' = Shorter(left)
  /\ rest' = Shorter(rest)
  /\ UNCHANGED <<hpc, ahead>>
  /\ OthersUnchanged

Handler(k) == HandleTrip(k) \/ GRPCSend(k) \/ MockLock(k) \/ MockAnswer(k)

Next ==
  \/ \E opens \in BOOLEAN : Start(opens)
  \/ StopStep
  \/ OpenSource \/ CaptureEnds
  \/ \E names \in SUBSET Signal : ReadFrame(names)
  \/ ProcessPacket \/ PacketEnds
  \/ Report \/ ReporterEnds
  \/ SimulateInput
  \/ LoopSelects \/ LoopReturns \/ CheckTimers
  \/ \E t \in {"loop", "packet"}, n \in 0..Poles : Evaluate(t, n)
  \/ \E k \in Trip : Handler(k)
  \/ Tick

(* Goroutines run, and select picks at random among the ready cases.  The  *)
(* signal that makes main stop need not come.                              *)
Fairness ==
  /\ WF_vars(main # "running" /\ StopStep)
  /\ WF_vars(OpenSource) /\ WF_vars(CaptureEnds)
  /\ SF_vars(PacketEnds) /\ SF_vars(ReporterEnds) /\ SF_vars(LoopReturns)
  /\ WF_vars(CheckTimers)
  /\ WF_vars(\E t \in {"loop", "packet"}, n \in 0..Poles : Evaluate(t, n))
  /\ WF_vars(Report)
  /\ \A k \in Trip : SF_vars(Handler(k))
  /\ WF_vars(Tick)

Spec == Init /\ [][Next]_vars /\ Fairness
-----------------------------------------------------------------------------
TypeOK ==
  /\ main \in Main /\ captureReady \in BOOLEAN
  /\ client \in Clients /\ delay \in Nat /\ connected \in BOOLEAN
  /\ capture \in {"off", "begin", "reading"}
  /\ packet \in {"off", "select", "evaluating"}
  /\ reporter \in {"off", "select", "printing"}
  /\ loop \in {"off", "select", "evaluating", "timers"}
  /\ packetChan \in Seq(SUBSET Signal) /\ Len(packetChan) <= PacketBuffer
  /\ events \in 0..EventBuffer
  /\ frames \in 0..MaxFrames /\ inputs \in 0..MaxEvents
  /\ crashed \in BOOLEAN /\ evaluator \subseteq {"loop", "packet"}
  /\ hpc \in [Trip -> Answer \union {"none", "begun", "waiting", "sending"}]
  /\ left \in [Trip -> 0..Timeout] /\ rest \in [Trip -> Nat]
  /\ ahead \in [Trip -> Nat]

(* Stop closes the trip client when nobody can raise a trip any more: a    *)
(* command the closed client refuses was raised before (main.go:319-329).  *)
NoTripAfterClose ==
  [][client = "grpc" /\ main # "init" /\ ~connected => Spawned' = Spawned]_vars

(* A trip command times out only behind others: unless the delay alone     *)
(* reaches the deadline, so many handlers had the client's lock since this *)
(* one began that their delays and its own fill the time it has, and one   *)
(* at a time has the lock (main.go:253, trip_client.go:195-204).           *)
TimeoutMeansQueue ==
  /\ Cardinality(Sending) <= 1
  /\ \A k \in Trip :
       hpc[k] = "timeout" => (ahead[k] + 1) * delay >= Timeout

(* Nothing a GOOSE frame carries sets an input of the scheme, whatever     *)
(* data sets the parser knows: only simulated inputs and SV lines reach    *)
(* the logic (main.go:95, 224).                                            *)
FramesReachNoInput == "packet" \notin evaluator

(* Every trip signal gets its answer, also when Stop hangs, unless the     *)
(* process ends first: main does not wait for the handlers.                *)
TripAnswered == \A k \in Trip : hpc[k] = "begun" ~> hpc[k] \in Answer \/ ~Alive

(* Stop comes to its end, unless it took e.mu while the engine's loop was  *)
(* about to ask for it, or the capture loop had not read its handle yet    *)
(* (engine.go:110-121, goose_capture.go:111, 155).                         *)
StopEnds ==
  StopChan ~> \/ ~Alive
              \/ main = "engineWait" /\ loop \in {"evaluating", "timers"}
=============================================================================
