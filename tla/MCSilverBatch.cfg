SPECIFICATION Spec
CONSTANTS
  Runs = {r1, r2, r3}
  Dates = {1}
  Items <- MCItems
  LastHour = 1
  MaxRecords = 2
  MaxCrashes = 1
SYMMETRY Symmetry
INVARIANTS FreshestMerged WindowsCoverBronze
CHECK_DEADLOCK FALSE
