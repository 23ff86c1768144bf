SPECIFICATION Spec
CONSTANTS
  Runs = {r1, r2}
  Dates = {1, 2}
  Items <- MCItems
  LastHour = 1
  MaxRecords = 2
  MaxCrashes = 0
SYMMETRY Symmetry
INVARIANTS RejectionsRetained
CHECK_DEADLOCK FALSE
