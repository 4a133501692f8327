CONSTANTS
  Platforms <- MCPlatforms
  Paths <- MCPath
  Cores <- MCNoCore
  Priorities <- MCNoPriority
  Online = 2
  FifoPriorities <- MCFifo
  StepCodes <- MCNegativeCodes
  InitCodes <- MCInitCodes
  Periods <- MCPeriods
  CtxSize = 2
  CycleSize = 5
  Bases <- MCBases
  Capacities <- MCCapacities
  Sizes <- MCSizes
  Aligns <- MCAligns
  Width = 5
  DefaultAlign = 4
  MaxSaved = 1
  MaxOps = 2
  MaxTicks = 2
  MaxTime = 3
SPECIFICATION Spec
INVARIANTS CleanStopIsOk
CHECK_DEADLOCK FALSE
