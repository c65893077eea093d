SPECIFICATION Spec
CONSTANTS
  NumCores = 1
  QueuePerCore = 1
  BURST_SIZE = 3
  TX_BUF_LEN = 1
  RX_RING = 2
  TX_RING = 1
  NUM_MBUFS = 2
  WaitUntilExpBegins = 1
  TerminationThreshold = 1
  DelayCycles = 1
  U32 = 4
  Bidi = {TRUE}
  DoArp = TRUE
  Addr <- MCAddr
  MyMac = "s"
  MyIp = "s"
  BroadcastMac = "all"
  Traffic <- MCUdpOnly
  MaxPkts = 2
INVARIANT EchoListFits
CHECK_DEADLOCK FALSE
