CONSTANTS
  Periods <- MCPeriods
  TickCodes <- MCTickCodes
  MaxTime = 6
  MaxRuns = 1
  Rerun = FALSE
SPECIFICATION FairSpec
INVARIANTS TypeOK SleepsRemainder MissedDeadlinesCounted JitterIsDistance
PROPERTIES KeepsPromise PhaseLocked StopReturns
CHECK_DEADLOCK FALSE
