\* The example functions; events are committed and read in any order.
SPECIFICATION Spec
CONSTANTS
  Names <- MCNames
  Functions <- MCFunctions
  MaxArrivals = 4
INVARIANTS TypeOK AgreesWithReplay ScheduledOnce TimersStartedOnce ResumesUnlessOvertaken ClosedAsItEnded
