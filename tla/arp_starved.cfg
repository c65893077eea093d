SPECIFICATION FairSpec
CONSTANTS
  NumWorkers = 2
  CountQueue = 1
  Dsts <- OneServer
  Mac <- MCMac
  MyIp = "me"
  MyMac = "me"
  BroadcastMac = "all"
  Noise <- MCNoNoise
  RxQueues <- MCQueueZero
  Bidi = TRUE
  BURST = 1
  RX_RING = 1
  TX_RING = 1
  NUM_MBUFS = 2
  NoMac = NoMac
PROPERTY ArpResolves
CHECK_DEADLOCK FALSE
