SPECIFICATION FairSpec
CONSTANTS
  None = None
  pa = pa
  pb = pb
  sa = sa
  sb = sb
  a1 = a1
  a2 = a2
  a3 = a3
  b1 = b1
  b2 = b2
  b3 = b3
  Partition <- MCPartition
  Subscriber <- MCSubscriber
  Event <- MCEvent
  Produce <- MCProduce
  SubscriberOf <- MCSubscriberOf
  TimeOf <- MCMaskedTimeOf
  Unknown <- MCUnknown
  Kind <- MCKind
  Limit <- MCLimit
  Tolerance = 0
  Crashes = 1
  Sessions = 1
  Sinks = 0
  Brokers = 0
  Signals = 0
  BufferSize = 2
  IdleExit = FALSE
INVARIANTS
  ShiftsStoredByOneProcess
PROPERTIES
  EventuallyCommitted
CHECK_DEADLOCK FALSE
