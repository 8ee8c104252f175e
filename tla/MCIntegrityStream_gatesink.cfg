SPECIFICATION Spec
CONSTANTS
  None = None
  pa = pa
  pb = pb
  sa = sa
  sb = sb
  a1 = a1
  a2 = a2
  a3 = a3
  b1 = b1
  b2 = b2
  b3 = b3
  Partition <- MCPartition
  Subscriber <- MCSubscriber
  Event <- MCEvent
  Produce <- MCProduce
  SubscriberOf <- MCSubscriberOf
  TimeOf <- MCTimeOf
  Unknown <- MCUnknown
  Kind <- MCKind
  Limit <- MCLimit
  Tolerance = 0
  Crashes = 0
  Sessions = 0
  Sinks = 1
  Brokers = 0
  Signals = 0
  BufferSize = 3
  IdleExit = TRUE
INVARIANTS
  GateMeansFindingsStored
