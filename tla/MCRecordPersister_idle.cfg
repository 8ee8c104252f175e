SPECIFICATION Spec
CONSTANTS
  g1 = g1
  g2 = g2
  g3 = g3
  g4 = g4
  x = x
  bad = bad
  Event <- MCEvent
  Topic <- MCTopic
  Kind <- MCKind
  BatchRows = 2
  IdleExit = TRUE
  Limit <- MCLimit
  Crashes = 0
  Sessions = 0
  Sinks = 0
  Brokers = 0
  Signals = 0
PROPERTIES
  IdleOnlyWhenDrained
