SPECIFICATION Spec
CONSTANTS
  Client = {c1}
  Loop = loop
  NoClient = none
  Device = {A}
  Handler = {h1}
  Duration = {1}
  EventBufferSize = 1
  MaxTime = 2
  MaxEvents = 2
  MaxBatches = 1
  MaxLockouts = 2
INVARIANTS ShieldHolds AverageExact EveryTripSignalled
PROPERTIES NoEarlyExpiry
CHECK_DEADLOCK FALSE
