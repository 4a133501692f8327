CONSTANTS
  Platforms <- MCPlatforms
  Paths <- MCPaths
  Cores <- MCCores
  Priorities <- MCPriorities
  Online = 2
  FifoPriorities <- MCFifo
  StepCodes <- MCStepCodes
  InitCodes <- MCInitCodes
  Periods <- MCPeriods
  CtxSize = 2
  CycleSize = 5
  Bases <- MCBases
  Capacities <- MCCapacities
  Sizes <- MCSizes
  Aligns <- MCAligns
  Width = 5
  DefaultAlign = 4
  MaxSaved = 1
  MaxOps = 2
  MaxTicks = 2
  MaxTime = 3
SPECIFICATION Spec
INVARIANTS LoadedWhileUsed SchedulerIntact CleanStopIsOk PlacementVerdict
CHECK_DEADLOCK FALSE
