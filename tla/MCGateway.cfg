SPECIFICATION Spec
CONSTANTS
  node1 = node1
  signal1 = signal1
  Signal = {signal1}
  LogicNode = {node1}
  SignalOf <- MCSignalOf
  Clients = {"none", "mock", "grpc"}
  Delays = {2}
  Timeout = 3
  PacketBuffer = 1
  EventBuffer = 1
  Poles = 2
  MaxTrips = 2
  MaxEvents = 1
  MaxFrames = 1
CHECK_DEADLOCK FALSE
INVARIANTS TimeoutMeansQueue FramesReachNoInput
PROPERTIES NoTripAfterClose TripAnswered StopEnds
