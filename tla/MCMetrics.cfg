\* Two workers that may close the same run, and one restart of the engine.
SPECIFICATION MetricsSpec
CONSTANTS
  Workflows = {wf}
  NoWorkflow = noWorkflow
  MaxRuns = 1
  Keys = {0, 1}
  MaxAttempts = 1
  MaxEvents = 3
  Workers = {w1, w2}
  Clients = {c1}
  Scanners = {s1}
  CommandLists <- MCCommandLists
  Decides <- MCFirstAnswer
  ScanLimit = 1
  Restarts = 1
SYMMETRY MCSymmetry
INVARIANTS NeverAheadOfTables CountsCommittedEvents
