SPECIFICATION Spec
CONSTANTS
  Node <- SchemeNode
  Type <- SchemeType
  Inputs <- SchemeInputs
  DelayOn <- SchemeDelayOn
  DelayOff <- SchemeDelayOff
  TripOutput <- SchemeOutput
  topoOrder <- SchemeOrder
  Caller = {c1}
  MaxTime = 1
INVARIANTS TripCharacteristic 
