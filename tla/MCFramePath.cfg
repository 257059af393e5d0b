CONSTANTS
  n1 = n1
  n2 = n2
  n3 = n3
  TagRange = 16384
  MaxLength = 1000
  NamesOf <- MCNamesOf
  Frames <- MCFrames
  Item <- MCItem
SPECIFICATION Spec
INVARIANTS
  ParsedAsSent
  NamesFollowKept
  WholeDataSetOrNone
  HeaderNeverRead
  SamplesInPlace
CHECK_DEADLOCK FALSE
