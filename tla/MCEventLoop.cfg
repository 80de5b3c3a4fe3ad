SPECIFICATION FairSpec
CONSTANTS
  Fds = {f1, f2, f3}
  Handlers = {h1, h2, h3, h4}
  NoHandler = NoHandler
  Masks = {m1, m2}
  Unwatched = Unwatched
  MaxBatch = 3
CHECK_DEADLOCK FALSE
INVARIANTS
  NoMisdelivery
  KernelAgrees
PROPERTIES
  RemovalCompletes
  StopEnds
