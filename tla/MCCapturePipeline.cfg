SPECIFICATION FairSpec
CONSTANTS
  Item <- Frames
  Room = 2
  Client = {c1, c2}
  NoClient = none
  BatchSize = 2
  ChannelSize = 1
  MaxFrames = 4
  MaxStarts = 2
INVARIANTS EveryFrameCounted QueuedWaitsOrWasTaken InOrder CrashCauses
PROPERTIES QueuedOffered StopReturns
CHECK_DEADLOCK FALSE
