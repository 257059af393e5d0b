SPECIFICATION Spec
CONSTANTS
  Node <- GraphNode
  Type <- GraphType
  Inputs <- GraphInputs
  DelayOn <- NoDelay
  DelayOff <- ReleaseDelay
  TripOutput <- TripOutputs
  topoOrder <- GraphOrder
  Caller = {c1, c2}
  MaxTime = 1
INVARIANTS QuiescentFixpoint NoMissedTrip
PROPERTIES LatchSealed DelayedTimerFrozen
