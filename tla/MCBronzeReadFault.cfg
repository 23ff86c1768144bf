SPECIFICATION Spec
CONSTANTS
  Publishers = {p1, p2}
  Contents = {c1, c2}
  Stamps = {s1, s2}
  Absent = Absent
  Partial = Partial
  Stores = {"s3"}
  Faults = {"read"}
  MaxFaults = 1
  MaxAttempts = 2
INVARIANTS ConflictMeansDivergence
