SPECIFICATION FairSpec
CONSTANTS
  Client = {c1}
  Loop = loop
  NoClient = none
  Device = {A}
  Handler = {}
  Duration = {1}
  EventBufferSize = 1
  MaxTime = 1
  MaxEvents = 2
  MaxBatches = 1
  MaxLockouts = 1
PROPERTIES EventServed LockoutEnds DispatchEnds
CHECK_DEADLOCK FALSE
