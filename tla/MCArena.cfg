CONSTANTS
  Width = 5
  DefaultAlign = 16
  Bases <- MCBases
  Capacities <- MCCapacities
  Sizes <- MCSizes
  Aligns <- MCAligns
  MaxSaved = 2
SPECIFICATION Spec
INVARIANTS TypeOK BlocksInSlab BlocksAligned BlocksDisjoint CheckpointsCut
PROPERTIES FirstFit
