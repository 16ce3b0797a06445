SPECIFICATION FairSpec
CONSTANTS
  BufferSize = 2
  Seconds = 2
  MaxSent = 5
INVARIANTS
  NothingLost
  ResultFits
PROPERTIES
  RequestEnds
\* The program ends.
CHECK_DEADLOCK FALSE
