SPECIFICATION FairSpec
CONSTANTS
  None = None
  e1 = e1
  e2 = e2
  e3 = e3
  e4 = e4
  bad = bad
  o = o
  Event <- MCEvent
  Topic <- MCTopicThenBad
  Analyzable <- MCAnalyzable
  Unwritable <- MCUnwritable
  BufferEvents = 2
  IdleExit = TRUE
  Limit <- MCLimit
  Crashes = 1
  Sessions = 1
  Sinks = 1
  Brokers = 1
  Signals = 1
INVARIANTS
  TypeOK
  CommittedEstimatedOrDropped
  UndisturbedRunComplete
  OneFailureShows
PROPERTIES
  KeepsOffsetDiscipline
  EventuallyAnalyzed
