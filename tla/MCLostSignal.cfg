\* A signal that comes while a worker replays an older history.
SPECIFICATION Spec
CONSTANTS
  Workflows = {wf}
  NoWorkflow = noWorkflow
  MaxRuns = 1
  Keys = {0}
  MaxAttempts = 1
  MaxEvents = 4
  Workers = {w1}
  Clients = {c1}
  Scanners = {}
  CommandLists <- MCCommandLists
  Decides <- MCReceive
  ScanLimit = 2
SYMMETRY MCSymmetry
INVARIANTS SignalNotLost
