CONSTANTS
  P = 31
  Observations <- MCObservations
  Params <- MCParams
  Literals <- MCLiterals
  Elementwise = {"sub", "tanh"}
  Exponents = {2}
  NewSizes <- MCNewSizes
  MaxEqns = 3
  MaxDepth = 2
  MlpOnly = TRUE
  Converted <- MCConverted
  Others <- MCOthers
  Batches = {"day", "night"}
  Errors <- MCErrors
  NaN = NaN
  MaxCalls = 2
  OneUse = TRUE
SPECIFICATION Spec
INVARIANTS GraphComputesPolicy ArtifactOfPolicy AcceptedIsFaithful
CHECK_DEADLOCK FALSE
