SPECIFICATION Spec
CONSTANTS
  None = None
  e1 = e1
  e2 = e2
  e3 = e3
  e4 = e4
  bad = bad
  o = o
  Event <- MCEvent
  Topic <- MCTopic
  Analyzable <- MCAnalyzable
  Unwritable <- MCUnwritable
  BufferEvents = 2
  IdleExit = TRUE
  Limit <- MCLimit
  Crashes = 1
  Sessions = 0
  Sinks = 0
  Brokers = 0
  Signals = 0
INVARIANTS
  NoSilentLoss
