SPECIFICATION Spec
CONSTANTS
  Tables <- MCTables
  Headers <- MCHeaders
  Targets <- MCTargets
  Requests = {r1, r2}
CHECK_DEADLOCK FALSE
SYMMETRY Symmetry
INVARIANTS
  FindsMostSpecific
  NobodyStarves
  AvailableIsFound
