SPECIFICATION FairSpec
CONSTANTS
  g1 = g1
  g2 = g2
  g3 = g3
  g4 = g4
  x = x
  bad = bad
  Event <- MCEvent
  Topic <- MCTopic
  Kind <- MCKind
  BatchRows = 2
  IdleExit = TRUE
  Limit <- MCLimit
  Crashes = 1
  Sessions = 1
  Sinks = 2
  Brokers = 1
  Signals = 1
INVARIANTS
  TypeOK
  CommittedStoredOrReported
  EachFailureCostsAtMostOneRow
PROPERTIES
  KeepsOffsetDiscipline
  EventuallyPersisted
