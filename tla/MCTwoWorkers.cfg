\* One activity with a retry, two worker processes, one fault.
SPECIFICATION SystemSpec
CONSTANTS
  Workflows = {wf}
  NoWorkflow = noWorkflow
  MaxRuns = 1
  Keys = {0}
  MaxAttempts = 2
  MaxEvents = 12
  Workers = {w1, w2, a1, a2}
  WorkflowLoops = {w1, w2}
  ActivityLoops = {a1, a2}
  Clients = {c1}
  Scanners = {}
  CommandLists <- MCCommandLists
  Decides <- ReplayDecides
  ScanLimit = 1
  Names <- MCNames
  Function <- OneActivity
  SignalName = "approval"
  MaxSignals = 0
  Faults = 1
INVARIANTS
  TypeOK HistoryStartsOnce EventIDsNeverAhead OutcomeAfterCause ActivityNotLost
  WakeNotLost StatusAgrees StatusHasReason
PROPERTIES
  ClosedStaysClosed AsksForNothingAgain ImplementsDurableRun EventuallyCloses
CHECK_DEADLOCK FALSE
