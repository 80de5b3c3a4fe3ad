SPECIFICATION FairSpec
CONSTANTS
  Slots = {s1, s2}
  Keys = {k1}
  Requests = {r1}
  Behaviours = {"Up", "Slow", "Down"}
  FailureThreshold = 2
  SuccessThreshold = 2
  ProbeTicks = 3
  MaxReloads = 1
CHECK_DEADLOCK FALSE
INVARIANT CountersJustify
PROPERTIES
  VerdictsAsPromised
  DownIsRemoved
  UpIsRestored
