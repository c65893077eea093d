SPECIFICATION ZipfSpec
CONSTANTS
  Threads = {t1, t2}
  N = 3
  Harmonic <- MCHarmonic
  LastProb = 6
  RAND_MAX = 7
  Sz = 3
  A = 5
  C = 1
  M = 16
  CountPort = 2
  U16 = 4
  U32 = 8
INVARIANT SampleInRange
CHECK_DEADLOCK FALSE
