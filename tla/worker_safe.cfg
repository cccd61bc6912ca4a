\* SAFE mode, Stop at any time: producers block on a full buffer, overtake
\* each other, are woken in any order or for no reason.
SPECIFICATION FairSpec
CONSTANTS
  p1 = p1
  p2 = p2
  Producers <- TwoProducers
  ConsumerThread = consumer_thread
  NoThread = no_thread
  AsyncType = "ASYNC_SAFE"
  BufferSize = 2
  Threshold = 4
  LinearGrowth = 2
  Lens <- FittingLens
  StopWhileBusy = TRUE
  MaxPush = 2
  MaxSpurious = 1
INVARIANTS TypeOK Conservation FlushedInOrder NoLostWakeup NoStrandedProducer
PROPERTIES PushReturns StopReturnsUnlessRaced ImplementsChannel
\* After Stop nobody has anything left to do: the system may stop.
CHECK_DEADLOCK FALSE
