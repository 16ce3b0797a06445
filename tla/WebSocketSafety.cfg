CONSTANTS
  Conns = {c1, c2}
  Listen = listen
  MaxConns = 2
  MaxEvents = 2
  BUFFER_LENGTH = 4
  MaxFrames = 2
  Pipelining = TRUE
  Splitting = TRUE
  CutKeys = {}
  LongLines = {c1, c2}
  Payloads = {}
  Masks = {}
SPECIFICATION Spec
INVARIANTS
  CallbackMatches
  BatchLive
  ReadNotMissed
  HandshakeFirst
  EchoInOrder
SYMMETRY MCSymmetry
CHECK_DEADLOCK FALSE
