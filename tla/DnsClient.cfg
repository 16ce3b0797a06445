SPECIFICATION FairSpec
CONSTANTS
  Hosts <- MCHosts
  Ids <- MCIds
  Rests <- MCRests
  Zones <- MCZones
  Stack <- MCStack
INVARIANTS
  RequestReadBack
  RecordsInStep
PROPERTIES
  ClientEnds
\* The program ends, and it waits for ever when its request is lost.
CHECK_DEADLOCK FALSE
