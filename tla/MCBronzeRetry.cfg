SPECIFICATION FairSpec
CONSTANTS
  Publishers = {p1, p2}
  Contents = {c1}
  Stamps = {s1}
  Absent = Absent
  Partial = Partial
  Stores = {"s3", "local"}
  Faults = {"crash", "read", "write", "lost", "resent", "race"}
  MaxFaults = 2
  MaxAttempts = 3
PROPERTIES RetriesSucceed
