CONSTANTS
  Periods <- MCPeriods
  TickCodes <- MCTickCodes
  MaxTime = 6
  MaxRuns = 2
  Rerun = TRUE
SPECIFICATION Spec
INVARIANTS SleepsRemainder
CHECK_DEADLOCK FALSE
