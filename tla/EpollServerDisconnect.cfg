CONSTANTS
  Clients = {c1}
  Ports = {p1}
  PortOf <- OnePort
  MaxFds = 1
  Backlog = 1
  EPOLL_SIZE = 2
  BUFFER_LENGTH = 1
  MaxSends <- OnePiece
  c1 = c1
  c2 = c2
  c3 = c3
  p1 = p1
  p2 = p2
SPECIFICATION FairSpec
PROPERTY
  DisconnectClosed
CHECK_DEADLOCK FALSE
