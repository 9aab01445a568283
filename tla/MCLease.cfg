\* Two pollers, a retry, crashes, stops and late reclaims, skew.
SPECIFICATION Spec
CONSTANTS
  Workers = {w1, w2}
  Nobody = nobody
  Nothing = nothing
  MaxRows = 2
  Faults = 2
  Types = {"known", "unknown"}
  Registered = {"known"}
  LeaseTicks = 2
  ReclaimTicks = 2
  PollTicks = 1
  Skew = 1
  MaxAttempts = 2
  InitialInterval = 4
  MaxInterval = 3
INVARIANTS ExclusiveLease ReclaimedInTime RetryWaits
PROPERTIES ImplementsQueue KnownTasksFinish
