SPECIFICATION Spec
CONSTANTS
  Slots = {s1, s2}
  Keys = {k1, k2}
  Requests = {r1}
  Behaviours = {"Slow"}
  FailureThreshold = 1
  SuccessThreshold = 2
  ProbeTicks = 0
  MaxReloads = 1
CHECK_DEADLOCK FALSE
SYMMETRY Symmetry
INVARIANTS
  CopiesAgree
  ProbesAreConfigured
