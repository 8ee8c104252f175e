SPECIFICATION FairSpec
CONSTANTS
  AgentCount = 5
  WorkersArg = 4
  Cores = 2
  Ticks = 3
  State <- MCState
  Zero <- MCZero
  Initial <- MCInitial
  Advance <- MCAdvance
  Covered <- MCCovered
INVARIANTS
  TypeOK
  NoDataRace
PROPERTIES
  IsSerial
  TickReturns
  PoolEnds
