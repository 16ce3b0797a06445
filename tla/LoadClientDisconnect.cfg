SPECIFICATION Spec
CONSTANTS
  Fds = {4, 5, 6}
  MaxConnections = 3
  Batch = 3
PROPERTIES
  DisconnectsEnded
\* The program ends when it cannot connect.
CHECK_DEADLOCK FALSE
