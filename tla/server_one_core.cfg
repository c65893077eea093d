SPECIFICATION Spec
CONSTANTS
  NumCores = 1
  QueuePerCore = 2
  BURST_SIZE = 4
  TX_BUF_LEN = 2
  RX_RING = 3
  TX_RING = 1
  NUM_MBUFS = 3
  WaitUntilExpBegins = 2
  TerminationThreshold = 1
  DelayCycles = 1
  U32 = 4
  Bidi = {TRUE, FALSE}
  DoArp = TRUE
  Addr <- MCAddr
  MyMac = "s"
  MyIp = "s"
  BroadcastMac = "all"
  Traffic <- MCTraffic
  MaxPkts = 3
INVARIANTS TypeOK HoldsNothing Conservation
PROPERTY Echoes
CHECK_DEADLOCK FALSE
