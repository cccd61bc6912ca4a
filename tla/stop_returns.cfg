\* SAFE mode, stopped by the destructor: does Stop return?
SPECIFICATION FairSpec
CONSTANTS
  p1 = p1
  p2 = p2
  Producers <- TwoProducers
  ConsumerThread = consumer_thread
  NoThread = no_thread
  AsyncType = "ASYNC_SAFE"
  BufferSize = 2
  Threshold = 4
  LinearGrowth = 2
  Lens <- FittingLens
  StopWhileBusy = FALSE
  MaxPush = 1
  MaxSpurious = 0
PROPERTIES StopReturns
\* After Stop nobody has anything left to do: the system may stop.
CHECK_DEADLOCK FALSE
