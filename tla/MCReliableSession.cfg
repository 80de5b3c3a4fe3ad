SPECIFICATION Spec
CONSTANTS
  Upstreams = {u1, u2}
  NoUpstream = NoUpstream
  Capacity = 3
  HighWatermark = 2
  LowWatermark = 1
  ChunkSize = 2
  HeadLength = 1
  ErrorLength = 2
  MaxRequestBody = 2
  MaxResponseBody = 2
CHECK_DEADLOCK FALSE
SYMMETRY Symmetry
INVARIANTS
  TypeOK
  NoSplice
  SafeRetry
  DescriptorsFollowState
  AnswerAfterRequest
  CleanReuse
  BackpressureHasWaker
  ArmedForProgress
PROPERTIES
  LifeAsPromised
  KeepsExchange
