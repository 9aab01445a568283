\* A pool that two handlers, or a handler and the scan, can exhaust.
SPECIFICATION Spec
CONSTANTS
  Connections = {k1, k2}
  Calls = {c1, c2}
  Loops = {l1}
  Due = {0, 1, 2}
  None = none
INVARIANTS  NothingLeaks
  
CHECK_DEADLOCK FALSE
