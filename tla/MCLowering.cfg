CONSTANTS
  P = 31
  Signatures <- MCSignatures
  Consts <- MCConsts
  Calls <- MCCalls
  Dims = {1, 2}
  Chosen = {"sub", "pow", "sin"}
  MaxEqns = 2
  MaxDepth = 2
  SoundOnly = TRUE
  Robots <- MCRobots
  Backends = {"auto", "jaxility-aba", "pinocchio-casadi"}
  Lengths = {0, 2}
  Vectors <- MCVectors
  Boxes <- MCBoxes
  Options <- MCOptions
  Tasks <- MCTasks
  Stances <- MCStances
  Trajectories <- MCTrajectories
  Factor = 10
  Horizon = 2
  OneSided = FALSE
SPECIFICATION Spec
INVARIANTS LayoutAgrees EquationsOfMotion DynamicsFitState CostIsTasks TerminalCostIsTasks BoxesEnforced TracksWhatWasAccepted
CHECK_DEADLOCK FALSE
