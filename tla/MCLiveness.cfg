\* One worker process: its two loops, a timer and an activity, a signal.
SPECIFICATION SystemSpec
CONSTANTS
  Workflows = {wf}
  NoWorkflow = noWorkflow
  MaxRuns = 1
  Keys = {0}
  MaxAttempts = 2
  MaxEvents = 12
  Workers = {w1, a1}
  WorkflowLoops = {w1}
  ActivityLoops = {a1}
  Clients = {c1}
  Scanners = {s1}
  CommandLists <- MCCommandLists
  Decides <- ReplayDecides
  ScanLimit = 1
  Names <- MCNames
  Function <- SleepThenShip
  SignalName = "approval"
  MaxSignals = 1
  Faults = 2
INVARIANT StatusHasReason
PROPERTIES AsksForNothingAgain EventuallyCloses
CHECK_DEADLOCK FALSE
