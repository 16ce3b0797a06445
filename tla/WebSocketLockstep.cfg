CONSTANTS
  Conns = {c1, c2}
  Listen = listen
  MaxConns = 1
  MaxEvents = 1
  BUFFER_LENGTH = 5
  MaxFrames = 2
  Pipelining = FALSE
  Splitting = FALSE
  CutKeys = {c2}
  LongLines = {}
  Payloads <- MCPayloads
  Masks <- MCMasks
SPECIFICATION FairSpec
INVARIANT
  LockstepEcho
  EchoHasPayload
PROPERTIES
  EchoComes
  Accepted
CHECK_DEADLOCK FALSE
