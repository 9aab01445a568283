\* Two activities at once, then a third; two worker processes, no faults.
SPECIFICATION SystemSpec
CONSTANTS
  Workflows = {wf}
  NoWorkflow = noWorkflow
  MaxRuns = 1
  Keys = {0, 1, 2}
  MaxAttempts = 1
  MaxEvents = 12
  Workers = {w1, w2, a1, a2}
  WorkflowLoops = {w1, w2}
  ActivityLoops = {a1, a2}
  Clients = {c1}
  Scanners = {}
  CommandLists <- MCJoinCommandLists
  Decides <- ReplayDecides
  ScanLimit = 1
  Names <- MCNames
  Function <- Join
  SignalName = "approval"
  MaxSignals = 0
  Faults = 0
INVARIANT ScheduledOnce
CHECK_DEADLOCK FALSE
