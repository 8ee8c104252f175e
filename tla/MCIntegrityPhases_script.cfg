SPECIFICATION SystemSpec
CONSTANTS
  None = None
  pa = pa
  sa = sa
  sb = sb
  a1 = a1
  a2 = a2
  b1 = b1
  b2 = b2
  Partition <- MCPartition
  Subscriber <- MCSubscriber
  Event <- MCEvent
  Produce <- MCProduce
  SubscriberOf <- MCSubscriberOf
  TimeOf <- MCTimeOf
  Unknown <- MCUnknown
  Kind <- MCKind
  Limit <- MCLimit
  Scan <- MCScan
  Deviant <- MCDeviant
  Impossible <- MCImpossible
  BatchLimit <- MCBatchLimit
  Tolerance = 0
  IdleExit = TRUE
  Crashes = 1
  Sinks = 1
  Brokers = 0
  BatchCrashes = 1
  BatchSinks = 1
  Reruns = 1
  BufferSize = 3
  Overlap = FALSE
INVARIANTS
  PhasesTypeOK
  VerdictComplete
PROPERTIES
  ImplementsLedger
