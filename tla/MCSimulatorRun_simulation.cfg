SPECIFICATION Spec
CONSTANTS
  None = None
  Nobody = Nobody
  File <- MCFile
  FileOf <- MCFileOf
  PathLossDB <- MCPathLossDB
  LOSChance <- MCLOSChance
  AttenuationDB <- MCAttenuationDB
  Tangent <- MCTangent
  Bearing <- MCBearing
  Environment <- MCEnvironment
  Draw <- MCDraw
  DiskPoint <- MCDiskPoint
  Toward <- MCToward
  NoEventChance <- MCNoEventChance
  BatchPairs = 3
  Starts = 2
  Faults = 2
  Signals = 1
  Losses = 3
INVARIANTS
  TypeOK
  InventoryAgrees
  FinishedRunIsWhole
  LabelsTellTheTruth
  VerifiedIffWhole
PROPERTY
  FeasibleRunFinishes
CHECK_DEADLOCK FALSE
