CONSTANTS
  a = a
  b = b
  Sessions = {a, b}
  Largest = 20
  NaN = 99
  WorkBuffer = 3
  Arbitrary = {7, 99}
  Drifts = {0, 1}
  MaxSteps = 5
  Warmup = 1
  Tolerances <- MCTolerances
  Orders <- MCOrdersBench
  Clocks = {1, 2}
SPECIFICATION Spec
INVARIANT EvidenceBinds
CHECK_DEADLOCK FALSE
