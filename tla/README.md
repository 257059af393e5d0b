# Verification of smartgrid-relay-protect

TLA+ models of the relay protection gateway, the TLC configurations that check
them on small instances, and TLAPS proofs of what matters most for every size.
Paths such as `dag.go:299` are relative to the repository; `logic/` stands for
`src/pkg/logic/`.

## 1. The system

A gateway captures GOOSE frames, decodes them, feeds their booleans into a logic
graph that a protection engine evaluates, and sends the trips that the graph
finds to the breakers over gRPC. A second path captures sampled values (SV) and
runs differential protection on them.

| Component (source) | State | Operations | Talks to |
|---|---|---|---|
| Gate logic (`logic/dag.go` 194-326) | none | `evaluate`, `evaluateTimer` | the graph |
| Logic graph (`logic/dag.go`) | nodes, edges, topological order; per node value, latch, time of change | `AddNode`, `AddEdge`, `TopologicalSort`, `BuildTopology`, `SetInput`, `GetOrAddInputNode`, `Evaluate`, `ResetLatches` | called by the engine and by the gateway's packet loop |
| Over-current scheme (`config/config.go` 149-201) | a graph of 15 nodes | built by `RelayGateway.Initialize` | the graph |
| Protection engine (`logic/engine.go`) | life cycle, event channel, handlers, lockouts, metrics | `Start`, `Stop`, `SetInput`, `SetInputsBatch`, `SetLockout`, `ClearLockout`, event loop, `checkTimers`, `dispatchTrips` | graph; handler goroutines |
| Gateway (`cmd/gateway/main.go`) | wiring, running flag | `Initialize`, `Start`, `Stop`, packet loop, `handleTripSignal`, simulation | all |
| Trip client (`grpcclient/trip_client.go`) | connection, counters | `SendTrip`, `SendBatchTrip`, `Close`; a mock | breakers |
| Ring buffer, SPSC queue (`internal/capture/ringbuffer.go`) | slots, head, tail, drop counter | `Enqueue`, `Dequeue`, batch forms | capture pipeline |
| High performance capture (`high_perf_capture.go`) | ring buffer, channels, filters, statistics | `Start`, capture loop, dispatch loop, `Stop` | ring buffer, Bloom filter |
| GOOSE capture, SV capture and simulators (`goose_capture.go`, `sv_capture.go`, `pcap_cgo.go`) | running flag, channels | `Start`, loop, `Stop` | libpcap |
| Bloom and MAC filters (`bloomfilter.go`) | bit set, table | `Add`, `Test`, snapshot, `Clear` | capture pipeline |
| BPF builder (`bpf_builder.go`) | a program | generators | libpcap |
| BER decoder, GOOSE and SV parsers (`internal/decoder`, `goose/parser.go`, `sv/parser.go`) | data set definitions | `ParseBER`, decoders, `ParseGOOSE`, `ParseSV` | packet loop |
| SV buffers, differential protection, SV engine (`sv/`) | sample windows, lines, events | `Push`, `PushSamples`, `PushBothSides`, `evaluate`, simulator `Start`/`Stop` | SV capture |

**Who runs concurrently.** The engine's event loop and the gateway's packet loop
(`main.go:229`, through `SetInputsBatch`) may evaluate the *same* graph; a
goroutine per trip and handler runs outside both (`engine.go:257`) and waits for
the trip client's lock; capture has its own producer and consumer; the SV
simulator's goroutine and any caller push samples of both sides of a line;
`Stop` may be called from anywhere.

**What is hard.** `Evaluate` locks one node at a time and reads the inputs of
that node without their locks; latches are reset meanwhile; timers detect edges
with a field that has just been overwritten; a graph is sorted in one critical
section and its order stored in another; the lockout check, the copy of the
handlers and the handlers themselves are separate critical sections;
`checkTimers` decides on a snapshot and acts by name; `Stop` waits for the loop
under the lock the loop takes; the deadline of a trip command runs while it
waits for the client; channels and buffers are bounded and drop; a restarted
simulator may have two goroutines; a decoder parses every tag and length twice
and skips what it cannot decode; each side of a line is evaluated as it arrives.

**What makes each part correct.**

- Graph: the order is an order of the graph that was sorted; once the inputs
  rest, the graph rests in the fixpoint of its own logic; no trip is lost between
  walks; a seal holds until it is reset; delays are served (they are not).
- Scheme: trips for each stage after its delay; never under lockout or without
  the start.
- Engine: no trip of a device that is locked out; every trip reaches every
  handler; lockouts keep their term and end; accepted events are applied; metrics
  are consistent.
- Gateway and trip client: what a frame may reach; no trip after the client is
  closed; a trip command is answered, and times out only for a reason; `Stop` ends.
- Ring buffer and capture: first in first out, nothing duplicated or torn, every
  frame counted once; filters exact.
- Decoders: inverse to the encoding; values keep their names; a malformed data
  set is not used in part.
- Differential protection: trips in an internal fault and in nothing else;
  the engine learns the last result.

Every hazard found, at its line, with the properties that cover it or the reason
none does, is listed under `hazards` in `PROJECT.json`.

## 2. The modules

### GraphBuild
How the graph comes about (`dag.go` 83-192, 355-381): `AddNode`, `AddEdge`,
`BuildTopology` as its two critical sections (sort under the read lock, store
under the write lock) with Kahn's algorithm node by node, and
`GetOrAddInputNode` as look-up and insertion by any number of goroutines
(`Caller`). `edges` is every edge in order, parallel ones and self-loops
included; `ready` is the queue, whose order starts from a map iteration and is
left open. The order it stores is what `LogicGraph` assumes (`TopoAssumption`).

### GateLogic
One operator per gate of `LogicNode.evaluate`, on the sequence of values it
reads. Closed forms stand for the loops (an XOR loop flips once per TRUE input,
hence `Odd`). `TimerChanged` and `TimerValue` are `evaluateTimer`.

### LogicGraph
`dag.go` once `BuildTopology` has run, shared by any number of goroutines
(`Caller`). Any graph, any delays, any order allowed by `TopoAssumption` (each
node once, after what it reads).

| In the model | In the code |
|---|---|
| `value`, `latched`, `changed` | `node.Value`, `Latched`, `LastChanged` |
| `SetInput` | `LogicGraph.SetInput` under `node.mu` |
| `BeginEvaluate` .. `EndEvaluate` | the loop of `LogicGraph.Evaluate` |
| `EnterNode` .. `CommitNode` | from `node.mu.Lock` to `Unlock` |
| `ReadInput` | one unlocked read of an input's value |
| `BeginReset`, `ResetOne`, `EndReset` | `ResetLatches`, a latch at a time, any order |
| `stale` | auxiliary: something was set or reset since a walk last began |

Abstracted: names and parameters; evaluation time and metrics; `PrevValue`
(always overwritten by `Value` before it is read); the graph's read-write lock,
which these operations only take for reading. A racing read of a Go `bool`
returns the old or the new value, which is what a step per read gives. The early
exits of the loops of `evaluate()` only shorten the caller's own reading.

### OverCurrentScheme
The constants of `LogicGraph` for the graph that `Initialize` builds from
`BuildOverCurrentProtection`; one tick is 500 ms. `IsScheme` says that a graph is
this one, in whatever order it was sorted; `MCOverCurrentScheme` assumes it, so TLC
confirms it of the run's constants. `FairSpec` has the clock
advance and the graph evaluated for ever: more than the gateway guarantees, so
what does not happen even then never happens.

### ProtectionEngine
`engine.go`: the loop, and goroutines (`Client`) that call every public
operation. `e.mu` is held across steps only by `Stop` (`stopper`); all other
critical sections are single steps, enabled while nobody is in `Stop`
(`MuFree`). The select of the loop is the three actions `LoopReturns`,
`LoopReceives` and `LoopTicks`. An evaluation is the steps
`Evaluate`, `CountEval`, `UpdateMetrics`, `CopyHandlers`, per device
`SkipLockedOut` or `PassLockout` and `Fire`, then `EndDispatch`: the points
where another goroutine can come in between. `CheckTimers` is the snapshot, one
look per lockout object, and `ClearLockout` by name. What the graph finds is an
arbitrary set of devices (`LogicGraph` says which). Trip handlers run in
goroutines of their own that do not touch the engine, so `Fire` only records
for which device each was called (`got`); `Gateway` has what they do. `wanted`,
`refused` and `had` (what the evaluation of a goroutine found, what of it was
locked out, who was registered then), `got`, `shield` and `snapped` are auxiliary
and guard nothing.

### BoundedFifo, RingBuffer
`BoundedFifo` is what a packet buffer promises: first in, first out, turning away
only when full, counting what it turns away. `RingBuffer` is
`LockFreeRingBuffer` for any number of producers
and consumers: each atomic load, store and add is an action, and a slot is
written and read in two parts (bytes; length and timestamp), so that a torn
packet can be seen. `head` and `tail` wrap at `Width` as the `uint64` counters do.
The refinement mapping `Fifo` takes a packet to be put when `head` is published,
taken when `tail` is published and turned away when `tail` is loaded; a drop is
counted by the code a step later, which the mapping makes up for.

### CapturePipeline
`HighPerfGOOSECapture`: life cycle, `captureLoop`, `dispatchLoop`, statistics and
the reader of `PacketChan`. The ring buffer between the two loops is the
`BoundedFifo`, which `RingBuffer` implements for one producer and one consumer;
the two loops are exactly that. `Filter` and `EnqueueFrame`/`FindFull` are the two
answers of `fastPreFilter`.

### MacFilter
`bloomfilter.go` and its use by the capture: the exact table, the Bloom filter
as a set of bit positions over a constant `Hash` (addresses may share positions,
hence false positives), `Contains` in its two critical sections, `AddTargetMAC`
and the capture loop's refresh as take-then-assign of a snapshot. `Add` and
`Clear` change the table under `f.mu` and then, still holding it, the bits under
`bf.mu`: two steps each (`AddToTable`, `AddToBloom`; `ClearTable`, `ClearBloom`),
with `f.mu` held in between (`Inside`), because the Bloom test of `Contains` and
the snapshots take `bf.mu` alone. A rejected frame changes only a counter and is
not an action. `added`, `sure` and `possible` are auxiliary.

### Gateway
`main()` with what it starts (`main.go`, `trip_client.go`, `goose_capture.go`),
composed: the capture loop, the packet loop, the statistics reporter, the loop
of the engine, the simulation, and one goroutine per trip signal.

| In the model | In the code |
|---|---|
| `main` | where `Start` and then `Stop` are (`captureWait`, `engineWait`, `wait` are the three `wg.Wait`) |
| `capture`, `packet`, `reporter`, `loop` | the goroutines, each with its select |
| `packetChan`, `events` | `PacketChan`; the engine's event channel, by length |
| `client`, `delay`, `connected` | which trip client there is, the mock's delay, whether it is open |
| `hpc`, `left`, `rest` | a handler: where it is, what remains of its 100 ms, of the delay |
| `evaluator`, `ahead` | auxiliary: which goroutines ever evaluated; how many had the client before a handler got it |

The engine is cut down to what the others see of it: its loop holds an event or
a timer check until it gets `e.mu`, which `Stop` keeps; an evaluation raises any
number of trips. Time is counted down: `Tick` makes every timer a tick shorter,
and happens only when no handler can go on without time passing. `main` does not
wait for handlers; when it exits, they are gone.

### Ber, GooseParser, SvParser, FramePath, WireFormat
`Ber` is `internal/decoder/ber.go` on sequences of octets: tags (32 bits,
wrapping at `TagRange`), short and long lengths, the iterator that parses tag
and length again to advance, and the decoders. `GooseParser` and `SvParser` are
`pkg/goose/parser.go` and `pkg/sv/parser.go` on top of it. `FramePath` takes one
frame from the wire through the kernel filter, the test of the capture or its
reader, and the parser, an element of the PDU per step, for each of three ways
in: the plain GOOSE capture and `processPacket`, the fast capture, and the SV
capture. A kernel filter is whether libpcap compiles it and whether it admits
the frame: the configured one (`configured`), taken as it is, or else the plain
capture's `ether proto` or what `buildBPFFilter` generates, which loads
`ether[0:3]`; libpcap has loads of 1, 2 and 4 octets (`LoadSizes`). With a
filter that does not compile, `Start` fails and the frame is missed (`Miss`).
`FramePath` takes any octets; `WireFormat` adds the sending device, `Encode`,
from a tree of items that may pad a length or make it exceed its contents, and
the properties that relate what was sent to what was parsed: `Item` is any set
of items closed under `parts`, and `Encode`, `EncodedUpTo` and
`NumberOctetsBefore` are written as recursive functions, as are `NumberUpTo`,
`ElementsFrom` and `ParseAllData`, so that they can be proved about. The fast
capture's reader is not in the repository; it is taken to parse with
`GOOSEParser.Parse`.

### Phasor, DifferentialEngine
`Phasor` is the arithmetic of `sv/buffer.go` and `sv/differential.go`: the sample
ring, the one-cycle DFT, the restraint characteristic. With four samples a cycle
every entry of the sine and cosine tables is 0, 1 or -1, so integers are exact;
currents, phasors and the transformers' ratio are in thousandths (what is behind
the transformers in millionths), and magnitudes are rounded down to thousandths.
A fault has any amplitude in thousandths, zero and those below the pickup of 0.2
included. `DifferentialEngine` is a line with
its two zero sequence processors, the handler that hands each result to the
protection engine, and what pushes samples: the goroutines of `SVSimulator`,
with `Start`, `Stop` and restart, or a caller (`Feed`) of `PushSamples` and
`PushBothSides`. A push is a list of steps in `todo`; `dp.mu` is held from
`lock` to `handle`, and each side is read in a step of its own. Samples are
numbered (`n`), which the code does not do: only by its number is a sample told
from one that a second simulator goroutine makes with the same index and
condition. `recent`, `seen[..].from` and the numbers are auxiliary; they guard
nothing, except that `recent.N = <<>>` keeps the simulator from starting on a line
that a feed has pushed to. `decided` is the event's `Trip`, which the handler takes
from the event and not from the line.

### Proof modules, MC modules
`LogicGraphInv` has the inductive invariant of `LogicGraph`; `GraphBuildProofs`,
`LogicGraphProofs` (also of `OverCurrentScheme`), `ProtectionEngineProofs`,
`RingBufferProofs`, `CapturePipelineProofs`, `FrameProofs` (of `FramePath`,
`WireFormat` and `MacFilter`), `GatewayProofs` and `DifferentialEngineProofs` have the
proofs (section 4). An MC module defines the instance of its run: a small graph, a hash
in which one address is covered by two others, the frames of `wire`, the
bounds.

### Slips
Some helpers have a sibling above them (`NodeNeverLocked` above `NodeFree`,
`DeactivateCopy` above `Deactivate`, ...): the same helper with a mistake a
programmer could make in that place. No action uses them. Put in place of the
helper, each makes a property below fail, which shows that the property depends
on that line of code; the pairs are under `mutants` in `PROJECT.json`.

## 3. The runs

| Run | Properties | Bounds | Shows |
|---|---|---|---|
| `build` | `OrderSound`, `CycleExact`, `InputsOnce`, `FailsOnlyToAnother` | 3 ids, 3 edges (parallel ones, self-loops), 2 callers, symmetry | the order, cycles, and two critical sections twice over |
| `graph` | `QuiescentFixpoint`, `NoMissedTrip`, `LatchSealed`, `DelayedTimerFrozen` | 5 nodes (input, timer with an off-delay, XOR of both, latch, trip output), 2 callers, clock to 1 | every interleaving of two walks, with inputs, latches and time changing in between |
| `scheme` | `TripCharacteristic` | the real scheme, 1 caller, clock to 1 | what the configured protection does |
| `scheme_stage_two` (violated) | `StageTwoTrips` | clock to 2 (a second, twice the delay) | the finding of section 5 |
| `engine_safe` | `ShieldHolds`, `AverageExact`, `EveryTripSignalled`, `NoEarlyExpiry` | 1 client and the loop, 1 device, 1 handler, 2 events on a buffer of 1, 1 batch, 2 lockouts of 1, clock to 2 | dispatch racing lockouts; a lockout replaced while `checkTimers` runs; restart; full buffer |
| `engine_live` | `EventServed`, `LockoutEnds`, `DispatchEnds` | 1 client, 2 events, 1 batch, 1 lockout, no handler | progress under fairness |
| `ring_spsc` | `ImplementsFifo`, `AcceptedDelivered` | 2 slots, counters modulo 4, 6 packets, 1 producer, 1 consumer | the buffer as the capture uses it |
| `pipeline` | `EveryFrameCounted`, `QueuedWaitsOrWasTaken`, `InOrder`, `CrashCauses`, `QueuedOffered`, `StopReturns` | 4 frames, ring of 2, batch of 2, channel of 1, 2 starts, 2 clients | accounting, order, stop and restart, progress under fairness |
| `filter_exact` | `ContainsExact` | 3 addresses on 4 bits, one goroutine each that adds, asks, clears | `Contains` between the two steps of `Add` and of `Clear` |
| `gateway` | `TimeoutMeansQueue`, `FramesReachNoInput`, `NoTripAfterClose`, `TripAnswered`, `StopEnds` | each client, 1 input, 1 signal, 2 trips, delay 2, deadline 3, buffers of 1, 1 event, 1 frame | trips in flight, the queue for the client, what a frame reaches, the end of `Stop` |
| `wire` | `ParsedAsSent`, `NamesFollowKept`, `WholeDataSetOrNone`, `HeaderNeverRead`, `SamplesInPlace` | data sets of up to 3 items, 15 kinds of item, 5 headers, 3 ways in, a configured filter of each kind or none | frames of every kind filters and parsers tell apart |
| `sv` | `PhasorOfLastCycle`, `TripNeedsFaultOrSkew`, `FaultTrips`, `NodeFollowsTrip`, `RunnersEnd` | buffer of one cycle of 4, 2 runners, 2 starts, 1 change, event queue of 2; scenario `line`: 7, 6 or 2 samples, amplitudes 0.199, 0.201, 1.5; scenario `order`: 0, 3 or 5 samples, amplitude 1.5 | a line through load, internal and through faults below and above the pickup; two goroutines whose evaluations differ, in order, and their end |

*Why these bounds are enough.* The interference the graph properties are about
is between two walks (one with outdated inputs, one behind it), or a walk and a
reset; a third walk adds no kind of step, and the proofs cover every number. The
graph has a gate of two inputs (so a walk can read one before and one after a
change), a stateful node before it, one behind it and a trip output behind that.
Three ids are the fewest with a cycle that is neither a loop nor a pair, and
with a node before and one behind a cycle; `LargeGraphsAlone` and `OneLateEdge`
keep the product of graphs and callers small (graphs of two and more edges are
sorted while the callers rest; one edge comes after the sort began), and the
proofs again need neither. In the engine the loop and one client are the two
evaluators the gateway has; early expiry needs two lockouts on one device, the
first expired when `checkTimers` begins at time 1, the second set behind its
snapshot and due at 2, hence the clock to 2; a buffer of one with two events is
full and drops. Six packets go round two slots three times and the counters
modulo four more than once; four frames fill ring buffer, batch and channel and
leave one to drop. In the gateway one delay of 2 fits the deadline of 3 and two
do not, as with a mock delay (`SetDelay`) of two thirds of the 100 ms; that a
frame reaches no input follows from the names (section 5) and not from the
bound. In `wire` a third item shows that a value moves past one that was
skipped; `TagRange = 16384` makes a tag of four octets wrap as 32 bits do with
six; lengths above `MaxLength = 1000` are all beyond any frame. `sv` has two
scenarios, chosen in the first state, with bounds of their own by number of
starts (`MostSamples`). In `line` seven samples of a feed and six of a simulator
wrap the ring while there is one source; of the amplitudes, 0.199 is the last
below the pickup of 0.2, 0.201 the first above it, and 1.5 has its restraint on
the first slope of the characteristic. In `order` the old runner has pushed
three samples when it meets the new one, the fourth fills the ring and is
evaluated, the fifth changes the window: of the two evaluations, one by each
runner, one trips and the other does not, and a queue of two holds both in
either order; both runners can be at `dp.mu` when they are stopped. The `VIEW`
(`MCView`) leaves out, in `order` only, the auxiliary variables and the numbers
of the samples, on which neither a step nor `NodeFollowsTrip` and `RunnersEnd`
depend, except for `recent.N = <<>>`, which it keeps. What is said of windows
and phasors is therefore checked by `line`. `MaxTime`, `MaxEvents`,
`MaxBatches`, `MaxLockouts`, `MaxPackets`, `MaxFrames`, `MaxStarts`, `MaxTrips`,
`MaxEdges`, `MaxSamples` and `MaxChanges` bound calls and appear as guards.
`CHECK_DEADLOCK FALSE` is set where calls are bounded and the system really
stops: the engine and the capture after `Stop` or a panic, the gateway after its
exit or in a `Stop` that hangs, a graph that is built, a frame that is parsed, a
simulator that is stopped. All other runs check deadlock.

*Fairness.* A goroutine that can run does, and time passes; `select`, which Go
resolves at random among ready cases, picks a case that is ready again and again
(strong fairness of each case that matters). In particular:

- Engine: weak fairness of each evaluation, of `checkTimers` and of the `wg.Wait`
  of `Stop`; strong fairness of the three cases of the select. Nothing is assumed
  of the clients, nor of acquiring `e.mu`: nothing but `Stop` holds it across
  steps.
- Capture: the loops run, their selects are fair; no frame need ever arrive and
  the reader need never read. In `RingBuffer` the consumer polls (the ticker of
  the dispatch loop); the producer need not produce.
- Gateway: each goroutine, `Stop` once it is called, and time go on; strong
  fairness of the exits of the selects and of each handler (the lock of the
  trip client is handed on by Go's `sync.Mutex`, which starves nobody). No
  frame, event or trip need ever come, and `Stop` need never be called.
- SV: each pusher and the engine's loop go on; strong fairness of a runner's exit.

The progress properties of the engine end in `\/ stopClosed`: after `Stop` the
loop is gone, accepted events remain in the channel and lockouts remain active.
`LockoutEnds` does not bound the delay; the loop clears on its tick.
`NoEarlyExpiry` has one exception, which is what the code does: a lockout set
between `checkTimers`' snapshot and its `ClearLockout` by name is cleared with
the one it replaced (`engine.go:154-163`). Likewise `ShieldHolds` is about devices
locked out *since the evaluation*: a lockout set between the check
(`engine.go:251`) and the handler does not stop the trip. `TripNeedsFaultOrSkew`
and `FaultTrips` are about evaluations that compared the same cycle of both
sides: between the pushes of the two sides they do not. `ContainsExact` allows
`Contains` to deny an address that is in the table and whose bits are not yet set, or no
longer: that is what two locks give. `EveryTripSignalled` is about a
dispatch at every moment, by the devices it has dealt with so far: an evaluation's
own devices, not refused, and the handlers that were registered when it was made.

## 4. Proofs

All theorems are of the specifications the runs check, for every value of the
constants that satisfies the module's assumption (`GraphAssumption`,
`TopoAssumption`, `BuildAssumption`, `EngineAssumption`, `RingAssumption`,
`PipelineAssumption`, `BerAssumption`, `FrameAssumption`, `ItemAssumption`,
`SentAssumption`, `HashAssumption`, `AddressAssumption`,
`GatewayAssumption`, `PhasorAssumption`, `DifferentialAssumption`: types of the
constants and, where the code guarantees it, a relation between them).
`DifferentialAssumption` allows every natural amplitude and ratio in thousandths,
zero included. `ItemAssumption` says
what an item is (a class, a number, octets, a form of length that its length
fits, and contents that encode the parts if it has any) and `SentAssumption` that
a frame's octets are the encoding of such an item, itself made of its parts; the
theorems of `FramePath` do not rest on them and hold of any octets.
`SchemeCharacteristic` has the hypothesis `IsScheme`: the graph is the configured
one.

| Module | Theorem | States |
|---|---|---|
| `GraphBuildProofs` | `TypeCorrect` | `Spec => []TypeOK` |
| | `OrderIsSound` | `Spec => []OrderSound` |
| | `CyclesFound` | `Spec => []CycleExact` |
| | `InputsListedOnce` | `Spec => []InputsOnce` |
| | `LoserFoundItTaken` | `Spec => []FailsOnlyToAnother` |
| `LogicGraphProofs` | `TypeCorrect` | `Spec => []TypeOK` |
| | `Invariance` | `Spec => [](TypeOK /\ FixpointInv)` |
| | `Fixpoint` | `Spec => []QuiescentFixpoint` |
| | `LatchStaysSealed` | `Spec => LatchSealed` |
| | `DelayNeverServed` | `Spec => DelayedTimerFrozen` |
| | `TripReported` | `Spec => []NoMissedTrip` |
| | `SchemeCharacteristic` | `IsScheme => (Spec => []TripCharacteristic)` |
| `ProtectionEngineProofs` | `EngineInvariant` | `Spec => []EngineInv` |
| | `LockoutsHold` | `Spec => []ShieldHolds` |
| | `AverageIsExact` | `Spec => []AverageExact` |
| | `EveryTripReachesHandlers` | `Spec => []EveryTripSignalled` |
| | `LockoutsKeepTheirTerm` | `Spec => NoEarlyExpiry` |
| `RingBufferProofs` | `RingInvariant` | `Spec => []RingInv(P, C)` |
| | `IsFifo` | `Spec => ImplementsFifo`, for one producer and one consumer |
| `CapturePipelineProofs` | `FramesAddUp` | `Spec => []EveryFrameCounted` |
| | `QueuedAddUp` | `Spec => []QueuedWaitsOrWasTaken` |
| | `CrashesHaveCauses` | `Spec => []CrashCauses` |
| | `ReadInOrder` | `Spec => []InOrder` |
| `FrameProofs` | `PathInvariant` | `Spec => []PathInv` |
| | `HeaderStaysZero` | `Spec => []HeaderNeverRead` |
| | `ParserAdvances` | `Spec => RoundsAdvance` |
| | `ItemRead` | one item, encoded and parsed |
| | `ElementsOfItems` | items one after the other, encoded and iterated over |
| | `ParseAllDataIs` | `ParseAllData[d] = DataOf(ParseAllData, d)` for all octets |
| | `WireInvariant`, `FiledInvariant` | `Spec => []WireInv`, `Spec => []FiledInv` |
| | `ParsesWhatWasSent` | `Spec => []ParsedAsSent` |
| | `SamplesKeepTheirPlaces` | `Spec => []SamplesInPlace` |
| | `DataSetsAreWhole` | `Spec => []WholeDataSetOrNone` |
| | `NamesGetTheKeptValues` | `Spec => []NamesFollowKept` |
| | `ContainsIsExact` | `FilterSpec => ContainsExact` |
| `GatewayProofs` | `GatewayInvariant` | `Spec => []GatewayInv` |
| | `NoInputFromFrames` | `Spec => []FramesReachNoInput` |
| | `ClientClosedLast` | `Spec => NoTripAfterClose` |
| | `TimeoutsQueued` | `Spec => []TimeoutMeansQueue` |
| `DifferentialEngineProofs` | `DifferentialInvariant` | `Spec => []DifferentialInv` |
| | `NodeFollows` | `Spec => []NodeFollowsTrip` |
| | `PhasorIsOfLastCycle` | `Spec => []PhasorOfLastCycle` |
| | `TripNeedsFault` | `Spec => []TripNeedsFaultOrSkew` |
| | `WholeFaultTrips` | `Spec => []FaultTrips` |

**Graph construction.** While the sort runs, what is placed is closed under
predecessors of the snapshot it reads, and the nodes that are ready are exactly
those without a pending edge (`Placing`, in `SortInv`). When nothing is ready
and nodes are left, each of them waits for another: a cycle; conversely, no node
of a cycle is ever placed. `RaceInv` says who inserted a node that somebody
found missing. `OrderIsSound` is what `LogicGraph` takes as `TopoAssumption`.

**Graph evaluation.** `QuiescentFixpoint` is not inductive: it says nothing while
somebody walks.
`FixpointInv` strengthens it with an account of who will repair an unsettled
gate. `SettledOrCovered`: a gate is settled, or a walk has yet to enter it, or a
walk is inside it with fresh inputs, or something was set since the last walk
began (`stale`). The last case but one would break when an input changes under
the walk; then the walk that changed it is at an earlier position, because the
order is topological, and so is still to come: `OutdatedFollowed`. `WalkOK` is
mutual exclusion on `node.mu`, without which a later commit from outdated inputs
could overwrite an earlier one from fresh inputs (slip `NodeNeverLocked`).
`LatchOK` makes a sealed latch TRUE, so a latch is settled independently of how
it was reached. A timer is settled independently of the time: without a delay its
value is its input; with one, its clock restarts whenever input and output differ,
so its value stays (this is also `DelayNeverServed`).

**Scheme.** At rest every gate is settled (`Fixpoint`), so the value of each of the
ten nodes behind the inputs is what its gate makes of the values of its inputs
(`SettledGate`, then one lemma per kind of gate). A stage's timer that is TRUE has
its input TRUE, because no timer of the scheme has a release delay; only that of
stage I, which has no operating delay either, is TRUE whenever its input is. Hence
the characteristic is an implication for stage I one way and for all stages the
other (`SettledTimer`). Nothing depends on the order or on who evaluates.

**Engine.** `EngineInv` adds to the properties what they rest on: who runs
before the graph is built and after `Stop` (`RunInv`); that what an evaluation
holds shielded is locked out now, so that the look-up in `PassLockout` decides
(`ShieldInv`); that the evaluations counted are those recorded and those between
the two critical sections, hence exact when nobody is there (`CountInv`); that
whoever dispatches has every handler registered at its evaluation in its copy,
and has called it for exactly the devices dealt with (`SignalInv`); and that a
lockout in the snapshot is still its device's or was replaced by one made after
the snapshot (`TimerInv`), which is why `ClearLockout` by name ends no other one
early.

**Ring buffer.** `RingInv`: the counter a side loaded is its own and still so
(`RoomInv`); what it found out about the other's, that there is room or that
there is a packet, can only become more true; and what is written or copied so
far agrees with the slot (`SlotInv`). Neither is a lock, so the proof must show
that the two are never in the same slot: the slot at `head` is that at distance
`Used` from `tail`, and neighbours at less than `Capacity` have different slots
also when the counters wrap, because the capacity divides their width
(`IndexWraps`, `IndexApart`). Publishing `head` appends (`PublishPuts`) and
publishing `tail` takes the oldest (`ReleaseGets`); everything else stutters.

**Capture.** `LifeInv` ties the loops to `running`, the stopper and the number of
starts; with it the accounting and the crash causes are inductive, and a restart
finds the dispatch loop off and its batch empty (`BatchNext`). For the order,
`OrderInv` says that each of the four places a frame passes (ring buffer,
batch, channel, reader) is in order and older than those before it, and that none
has a frame not yet received.

**Frames.** `ParseBER` of any octets returns nothing or an element of two octets at
least that ends within them (`HeaderIs`, `ElementIs`: the least octet that ends a
tag exists, and a length of up to four octets is a natural number). With it the
iterator stays in the PDU and moves in every round, so no input keeps a parser
busy for ever (`RoundsAdvance`). An element filed under a context tag is decoded by
a function that parses it again and asks for the tag of a universal type, 1 or 2,
which none of the tags 4 to 9 is (`HeaderUntouched`): `HeaderStaysZero` says of every
frame what `wire` shows of some.

**What was sent and what is parsed.** The argument goes up the encoding.

1. *Recursion.* A recursive definition in TLA+ is a `CHOOSE`: before anything can be
   said of its values, a function with these equations must be shown to exist.
   `Recursion` does so for equations that look only at places of a lower rank
   (the functions good below n agree, `Counting` goes from n to n + 1, and the
   values of all of them make one function), `Iteration` for loops. The ranks are
   the number itself (`NumberOctetsBeforeIs`), the position (`NumberUpToIs`,
   `EncodedUpToIs`, `InOrderIs`), what is left of the data (`ElementsFromIs`) and
   the length of the octets (`ParseAllDataIs`: the contents of an element are shorter
   than what it is in).
2. *One item* (`ItemRead`). The last octet of a tag number is the first below 128, and
   reducing modulo `TagRange` in every round or once comes to the same (`WrapIs`,
   `NumberBeforeRead`, `TagRead`). A length in one to five octets is read back,
   clipping in every round or once alike (`ClipTwice`, `LongLengthRead`,
   `HeaderRead`). So `ParseBER` gives back class, number and contents whatever
   follows, and `GetElementLength`, which parses it all again, counts exactly the
   item's octets.
3. *Items in a row.* Behind k items the rest begins with the next (`FollowsIs`), so a
   boundary leads to a boundary. For the iterator of a PDU that is a state
   invariant, `WireInv`: it stands behind k uncut items or has gone past an item
   that is cut with others behind it (of which nothing is claimed, the octets
   behind it being read as something else). `StopsAtItems` and `RejectedForCause`
   are not inductive: they do not say what has been read. For the loops inside
   an element it is `ElementsOfItems`, by going back from the last item
   (`ReadFromIs`).
4. *The message.* `FiledInv`: the data set is that of the last of the first k items
   with its number; `LastUnder` moves with every round (`DataSetFiled`,
   `AllDataFiled`), and at the end k is their number.
5. *Data sets.* `SamplesInPlace` follows with `ElementsOfItems` of the contents,
   `WholeDataSetOrNone` because the loop over cut contents fails. For
   `NamesFollowKept`, an element decodes to an attribute exactly when its item is
   `Decodable` (`AttributeIs`), so both are chosen at the same positions
   (`ChosenIs`, `DataIs`), once for the data set and once more for the first part
   of a structure (`LeafIs`); injective names then give each position a value of
   its own (`ValuesAre`).

**MAC filter.** While a goroutine holds `f.mu` between the table and the bits, the two
disagree. `FilterInv` says how far: the addresses whose Add has ended (`added`) are
in the table with their bits set, and a Clear under way has emptied `added` and
`sure` with the table; what was added before a call and not cleared since (`sure`)
still is, and all the table has was in it during the call (`possible`); and
`f.mu` has one holder.

**Gateway.** `StopInv` follows the order of `Stop`: the loops that raise trips are
off before the client is closed. `PacketInv`: the packet loop looks a node up by
the name of a signal, and no signal has the name of a node
(`GatewayAssumption`; the scheme's do not, `config.go`). `QueueInv` accounts for the
time a handler has used by the delays of the handlers that had the client since
it began.

**Differential protection.** `DifferentialInv` has nine parts. For the node:
`LockInv` (`dp.mu` is held by exactly the one between `lock` and the end of the
handler; what is left of a push never begins in the middle of an evaluation,
`StepsOK`) and `ResultInv` (a handler to come has the line's result in
`decided`; while none is to come, the last result queued, or taken, is that of
the line). For the phasor: `BufferInv` keeps the samples of the last cycle at
the four cells behind the write index, counted around the end of the ring
(`BehindIndex`), so that a push puts the new sample there and moves the others
one further back, and `GetLastN` reads them in order. For the trips: `WaveInv`
(a window has what the current of its samples was at its side), `ReadInv` (what
an evaluation has read is a cycle and its phasor, and the result is the decision
on the two), and `SampleInv` (a sample is told from all others by its number),
by which windows with equal numbers are of the same samples in the same
conditions. Under load and in a through fault the two phasors are then equal, so
the differential current is the magnitude of zero; in a whole cycle of an
internal fault one is zero and the other has the square of twice the amplitude,
so that the magnitudes are the amplitude and zero (`MagOfSquare`, `MagOfZero`);
a differential current above the pickup is then above the threshold on each of
the three sections of the characteristic, and one below is not (`AbovePickup`,
`BelowPickup`). The magnitude is an integer root that the model chooses; that
there is one (`RootExists`) is by the least element of a set of naturals.

*Only model-checked.* Liveness, which is out of the prover's reach: `EventServed`,
`LockoutEnds`, `DispatchEnds`, `AcceptedDelivered`, `QueuedOffered`, `StopReturns`,
`TripAnswered`, `StopEnds` and `RunnersEnd`. Every invariant and action property
that a run checks is also a theorem. `TwosComplement`
and `Unsigned` are folds of the community modules, recursive operators over
sequences: the theorems carry their values along and say nothing of what they
compute.
`StageTwoTrips` is temporal, and violated. `TypeOK` of each module and `FixpointInv` are
proved or are parts of a proved invariant, and no run lists them.

## 5. Findings

**Stages II and III never trip** (`dag.go:299`). `Evaluate` assigns
`node.PrevValue = node.Value` (405) just before `evaluateTimer` compares it
with the input, so the comparison is with the timer's own output and not with
its last input: while a timer waits, each evaluation restarts its delay, although
`config.go:152` announces a three-stage protection and `config.go:175` a delay of
500 ms. `scheme_stage_two` shows it, `DelayedTimerFrozen` states it for one step
and `DelayNeverServed` proves it for every graph and delay. With `TimerChanged`
keeping the time of the last change of the input, the run's property holds.

Other behaviour worth knowing, of which no text of the repository says that it
should be otherwise:

- The engine's `Stop` may never return. It holds `e.mu` (`engine.go:112`) while it
  waits for the loop (121), and a loop past its select waits for `e.mu`: in
  `checkTimers` (154) after a tick, in `recordEvalMetrics` (226) and `dispatchTrips`
  (245) after an event. The exceptions in `StopEnds` and `DispatchEnds` are this.
- The fast capture does not start unless a filter is configured: both filters it
  generates load `ether[0:3]` (`bpf_builder.go:108`, `334`), and libpcap refuses a load of
  three octets (`high_perf_capture.go:185`; `MissedForCause`).
- `MACExactFilter.Contains` may deny an address that is already in the table while
  `Add` has yet to set its bits (`bloomfilter.go:273-274`).
- A restarted engine or capture has a closed `stopChan`: its loops return at once
  and its next `Stop` panics (`CrashCauses`; `sv_capture.go` has the same form).
- A capture's `Stop` right after `Start` may set the handle to nil before the
  capture loop reads it (`CrashCauses`, `StopEnds`).
- The gateway looks nodes up by the name of a signal in a map from nodes to signals
  (`main.go:95`), and `Initialize` builds that map the other way round: no frame
  sets an input (`FramesReachNoInput`). It only ever makes the mock client.
- The GOOSE header's fields carry context tags and are decoded by functions that ask
  for universal ones: they keep their zero values (`HeaderNeverRead`). A context tag
  inside a data set is decoded as the universal type of its number, whatever it
  means in IEC 61850.
- After an element of a data set that cannot be decoded, every value carries the
  name of the one before it (`NamesFollowKept`).
- The filter for SV frames of the BPF builder returns the filter for GOOSE; the
  simulated SV frames have an empty payload, which the parser refuses.
- Each side of a line is evaluated as it is pushed: a through fault, seen at
  different cycles of the two sides, can trip the line for an evaluation. The
  trip count counts each evaluation that trips. Settings `K1` and `Iset1` are not read.
- A simulator restarted before its goroutine has seen the closed channel runs twice,
  and samples of two waves then mix in one window.
- The trip node of a line added after `BuildTopology` is in no order, which for an
  input node does not matter.
- With several producers or consumers the ring buffer overwrites and repeats slots;
  the capture has one of each.
- `refreshBloomSnapshot` and `AddTargetMAC` may assign an older snapshot last; it is
  replaced at the earliest after `bloomRefresh`, by an accepted frame.

## 6. Not modelled

- `pcap_cgo.go` (a binding to a C library) and `trip.proto` (an interface
  description) have no behaviour of their own.
- `DefaultConfig`, `Validate`, logging, statistics printing, flags and signals of
  `main()` are plain data or text. The generated gRPC stub is one that answers at
  once.
- The DFT at other sample rates, and floating point rounding: only at four samples
  per cycle are the tables integers.
- Operations without a caller: `LockFreeRingBuffer.Reset`, `SPSCLockFreeQueue` (a
  benchmark has it, in one goroutine), the other BPF generators,
  `DecodeSequence`, `DecodeContextSpecific`, `SkipElement`, `SampleBufferPool`,
  `ThreePhaseBuffer`, `SendBatchTrip`.
- The frame loop of `HighPerfSVCapture` (it opens no interface), the restart of the
  plain GOOSE capture (its life cycle is that of the fast one) and the network
  simulator (its life cycle is that of `SVSimulator`).
- The arithmetic of the hash and of the size of the Bloom filter: `Hash` is any.

The notes of the components in `PROJECT.json` say the same, part by part.

## 7. What is left

The modules were written in the order of the code's layers: graph, engine, ring
buffer and capture, then construction, gateway, wire and SV. What could follow:
a proof that the loops of `evaluate()` compute the closed forms of `GateLogic`,
which needs induction over the inputs; frames whose cut items have others behind
them, of which `WireInv` claims nothing; several lines and several devices in one
run of the whole gateway.
