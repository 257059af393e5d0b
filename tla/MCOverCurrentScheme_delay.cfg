SPECIFICATION FairSpec
CONSTANTS
  Node <- SchemeNode
  Type <- SchemeType
  Inputs <- SchemeInputs
  DelayOn <- SchemeDelayOn
  DelayOff <- SchemeDelayOff
  TripOutput <- SchemeOutput
  topoOrder <- SchemeOrder
  Caller = {c1}
  MaxTime = 2
PROPERTIES StageTwoTrips
