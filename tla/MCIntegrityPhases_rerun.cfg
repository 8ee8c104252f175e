SPECIFICATION SystemSpec
CONSTANTS
  None = None
  pa = pa
  sa = sa
  sb = sb
  a1 = a1
  a2 = a2
  b1 = b1
  b2 = b2
  Partition <- MCPartition
  Subscriber <- MCSubscriber
  Event <- MCEvent
  Produce <- MCProduce
  SubscriberOf <- MCSubscriberOf
  TimeOf <- MCTimeOf
  Unknown <- MCUnknown
  Kind <- MCKind
  Limit <- MCLimit
  Scan <- MCScan
  Deviant <- MCDeviant
  Impossible <- MCImpossible
  BatchLimit <- MCBatchLimit
  Tolerance = 0
  IdleExit = TRUE
  Crashes = 0
  Sinks = 0
  Brokers = 0
  BatchCrashes = 0
  BatchSinks = 0
  Reruns = 1
  BufferSize = 2
  Overlap = FALSE
INVARIANTS
  BatchRerunAccepted
