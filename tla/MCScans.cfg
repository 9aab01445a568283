\* Two engines that scan the timers of one run, and retries.
SPECIFICATION Spec
CONSTANTS
  Workflows = {wf}
  NoWorkflow = noWorkflow
  MaxRuns = 1
  Keys = {0}
  MaxAttempts = 2
  MaxEvents = 5
  Workers = {w1}
  Clients = {c1}
  Scanners = {s1, s2}
  CommandLists <- MCCommandLists
  Decides <- MCAnyDecision
  ScanLimit = 1
SYMMETRY MCSymmetry
INVARIANTS TimersFireOnce OutcomeAfterCause ActivityNotLost
PROPERTY ImplementsDurableRun
