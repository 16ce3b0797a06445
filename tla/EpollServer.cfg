CONSTANTS
  c1 = c1
  c2 = c2
  c3 = c3
  p1 = p1
  p2 = p2
  Clients = {c1, c2, c3}
  Ports = {p1, p2}
  PortOf <- TwoShareAPort
  MaxFds = 2
  Backlog = 1
  EPOLL_SIZE = 2
  BUFFER_LENGTH = 1
  MaxSends <- TwoPiecesOneNone
SPECIFICATION FairSpec
INVARIANTS
  EdgeNotLost
  NobodyForgotten
  NeverBlocks
PROPERTY
  LookedAt
CHECK_DEADLOCK FALSE
