SPECIFICATION Spec
CONSTANTS
  NumCores = 2
  QueuePerCore = 1
  BURST_SIZE = 1
  TX_BUF_LEN = 1
  RX_RING = 1
  TX_RING = 1
  NUM_MBUFS = 2
  WaitUntilExpBegins = 1
  TerminationThreshold = 1
  DelayCycles = 2
  U32 = 4
  Bidi = {TRUE}
  DoArp = TRUE
  Addr <- MCAddr
  MyMac = "s"
  MyIp = "s"
  BroadcastMac = "all"
  Traffic <- MCUdpOnly
  MaxPkts = 2
INVARIANT ServiceDeadline
CHECK_DEADLOCK FALSE
