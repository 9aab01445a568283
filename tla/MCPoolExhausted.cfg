\* As many handlers as connections.
SPECIFICATION Spec
CONSTANTS
  Connections = {k1, k2}
  Calls = {c1, c2}
  Loops = {}
  Due = {1}
  None = none
PROPERTY ShutdownEnds
CHECK_DEADLOCK FALSE
