\* Starts of one workflow that overlap.
SPECIFICATION Spec
CONSTANTS
  Workflows = {wf}
  NoWorkflow = noWorkflow
  MaxRuns = 2
  Keys = {0}
  MaxAttempts = 1
  MaxEvents = 2
  Workers = {w1}
  Clients = {c1, c2}
  Scanners = {}
  CommandLists <- MCCommandLists
  Decides <- MCReceive
  ScanLimit = 2
SYMMETRY MCSymmetry
INVARIANTS OneRunningPerWorkflow
