SPECIFICATION FairSpec
CONSTANTS
  CoreCounts = {1, 2, 3}
  MaxCntxs = 2
  MAX_SERVER_IP_DEST = 2
  MAX_BURST_SIZE = 3
  BURST_SIZE = 3
  DefaultBatch = 2
  DefaultPort = 3
  U16 = 8
  U32 = 64
  QueueArgs = {0, 2, 3, 8}
  BatchArgs = {0, 4, 8}
  PortArgs = {0, 1, 9}
  DelayArgs <- MCDelayArgs
  PayloadArgs = {0, 4}
  ZipfArgs <- MCZipfArgs
  MaxOpts = 6
INVARIANTS TypeOK LaunchedSound DelayKept
PROPERTIES InterruptStops MainReturns
CHECK_DEADLOCK FALSE
