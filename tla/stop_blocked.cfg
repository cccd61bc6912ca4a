\* SAFE mode, Stop at any time: does it release the blocked producers?
SPECIFICATION Spec
CONSTANTS
  p1 = p1
  p2 = p2
  Producers <- TwoProducers
  ConsumerThread = consumer_thread
  NoThread = no_thread
  AsyncType = "ASYNC_SAFE"
  BufferSize = 2
  Threshold = 4
  LinearGrowth = 2
  Lens <- FittingLens
  StopWhileBusy = TRUE
  MaxPush = 2
  MaxSpurious = 0
INVARIANTS NoBlockedAfterStop
\* After Stop nobody has anything left to do: the system may stop.
CHECK_DEADLOCK FALSE
