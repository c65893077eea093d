SPECIFICATION FairSpec
CONSTANTS
  Burst = 2
  BURST_SIZE = 2
  RX_RING = 2
  TX_RING = 2
  NUM_MBUFS = 3
  Hz = 1
  U32 = 4
  Noise <- SomeNoise
  MaxNet = 2
INVARIANTS TypeOK Accounted OnlyBatchMeasured
PROPERTIES BatchCompleteUnlessTimeout  SigintStops
CHECK_DEADLOCK FALSE
