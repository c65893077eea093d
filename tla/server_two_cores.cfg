SPECIFICATION FairSpec
CONSTANTS
  NumCores = 2
  QueuePerCore = 1
  BURST_SIZE = 2
  TX_BUF_LEN = 2
  RX_RING = 2
  TX_RING = 1
  NUM_MBUFS = 3
  WaitUntilExpBegins = 1
  TerminationThreshold = 1
  DelayCycles = 1
  U32 = 4
  Bidi = {TRUE}
  DoArp = TRUE
  Addr <- MCAddr
  MyMac = "s"
  MyIp = "s"
  BroadcastMac = "all"
  Traffic <- MCUdpAndArp
  MaxPkts = 2
INVARIANT QueuesOwned
PROPERTIES PolledIsAnswered ServerStops ForeignQueueOnlyArp
CHECK_DEADLOCK FALSE
