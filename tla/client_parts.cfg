SPECIFICATION PartFairSpec
CONSTANTS
  NumWorkers = 2
  CountQueue = 1
  Dsts <- TwoServers
  Mac <- MCMac
  MyIp = "me"
  MyMac = "me"
  BroadcastMac = "all"
  Noise <- MCNoise
  RxQueues <- MCQueueZero
  Bidi = TRUE
  BURST = 2
  RX_RING = 2
  TX_RING = 1
  NUM_MBUFS = 2
  NoMac = NoMac
  Threads = {t1, t2}
  N = 3
  Harmonic <- MCHarmonic
  LastProb = 6
  RAND_MAX = 7
  Sz = 3
  A = 5
  C = 1
  M = 16
  CountPort = 2
  U16 = 4
  U32 = 8
  MaxLatency = 8
  Latencies = {0, 1, 2, 3, 5, 9}
  Fractions <- MCFractions
  MaxValues = 6
  Katrans = {0, 1, 3}
  Payloads = {1, 7, 8, 64, 1509, 1510, 2006, 65535, 65600}
  Rands = {0, 1, 2}
  ROOM = 2048
  LITERAL = 1501
INVARIANTS TypeOK OnlyAsked AddressesKnown TxConservation
INVARIANTS ZipfTypeOK RightRank ZerosOnlyWhileFilling AddressOfRank
INVARIANTS RightBucket PercentileNear WellFormed
PROPERTIES ArpEnds SampleReturns
CHECK_DEADLOCK FALSE
