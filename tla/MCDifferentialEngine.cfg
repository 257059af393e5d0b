CONSTANTS
  Runner = {r1, r2}
  Feed = feed
  BufferCycles = 1
  FaultCurrent = {199, 201, 1500}
  CTRatio = 1000
  EventBuffer = 2
  MaxSamples <- MCMaxSamples
  MaxStarts = 2
  MaxChanges = 1
SPECIFICATION MCSpec
INVARIANTS
  PhasorOfLastCycle
  TripNeedsFaultOrSkew
  FaultTrips
  NodeFollowsTrip
PROPERTIES
  RunnersEnd
VIEW MCView
CHECK_DEADLOCK FALSE
