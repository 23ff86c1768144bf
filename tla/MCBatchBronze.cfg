SPECIFICATION FairSpec
CONSTANTS
  a1 = a1  a2 = a2  a3 = a3  a4 = a4
  Attempts = {a1, a2, a3, a4}
  Absent = Absent
  Stores = {"s3", "local"}
  MaxFailures = 3
CHECK_DEADLOCK FALSE
INVARIANTS CompletedIsWhole ResultsTellTheTruth
PROPERTIES FirstObjectCanonical RetriesComplete
