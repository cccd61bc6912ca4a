\* UNSAFE mode with a line longer than the buffer after one enlargement.
SPECIFICATION Spec
CONSTANTS
  p1 = p1
  p2 = p2
  Producers <- TwoProducers
  ConsumerThread = consumer_thread
  NoThread = no_thread
  AsyncType = "ASYNC_UNSAFE"
  BufferSize = 2
  Threshold = 4
  LinearGrowth = 2
  Lens <- OversizeLens
  StopWhileBusy = FALSE
  MaxPush = 1
  MaxSpurious = 0
INVARIANTS WithinCapacity
\* After Stop nobody has anything left to do: the system may stop.
CHECK_DEADLOCK FALSE
