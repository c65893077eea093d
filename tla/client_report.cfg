SPECIFICATION FairSpec
CONSTANTS
  CountDsts = {1, 2}
  CountFlow = 2
  CountQueues = 1
  Burst = 2
  MAX_BURST_SIZE = 2
  RX_RING = 1
  NUM_MBUFS = 2
  Hz = 1
  Duration = 1
  RateLimit = TRUE
  Rate = 1
  Bidi = TRUE
  Noise <- AllNoise
  MaxSent = 3
  MaxOthers = 1
INVARIANTS TypeOK OneDestination TxConservation ReportExact RateRespected
PROPERTY ClientEnds
CHECK_DEADLOCK FALSE
