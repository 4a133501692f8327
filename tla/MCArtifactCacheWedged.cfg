CONSTANTS
  p1 = p1
  p2 = p2
  x = x
  y = y
  built = built
  rebuilt = rebuilt
  Procs <- MCProcs
  Payloads <- MCPayloads
  Origins <- MCOrigins
  None = None
  Torn = Torn
  Crashes = TRUE
  Owner = FALSE
SPECIFICATION Spec
PROPERTIES HasAgreesWithStore
