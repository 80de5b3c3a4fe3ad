SPECIFICATION FairSpec
CONSTANTS
  Upstreams = {u1, u2}
  NoUpstream = NoUpstream
  Capacity = 2
  HighWatermark = 1
  LowWatermark = 0
  ChunkSize = 1
  HeadLength = 1
  ErrorLength = 1
  MaxRequestBody = 0
  MaxResponseBody = 0
CHECK_DEADLOCK FALSE
PROPERTIES
  ExchangeEnds
  PartialHeadEnds
  DrainCloses
