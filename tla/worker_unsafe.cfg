\* UNSAFE mode, stopped by the destructor after the last Push: the buffers
\* grow, first by doubling and then linearly.
SPECIFICATION Spec
CONSTANTS
  p1 = p1
  p2 = p2
  Producers <- TwoProducers
  ConsumerThread = consumer_thread
  NoThread = no_thread
  AsyncType = "ASYNC_UNSAFE"
  BufferSize = 2
  Threshold = 4
  LinearGrowth = 2
  Lens <- FittingLens
  StopWhileBusy = FALSE
  MaxPush = 2
  MaxSpurious = 1
INVARIANTS StopDrained WithinCapacity CallbackReady
\* After Stop nobody has anything left to do: the system may stop.
CHECK_DEADLOCK FALSE
