SPECIFICATION Spec
CONSTANTS
  a1 = a1  a2 = a2  a3 = a3  a4 = a4
  Attempts = {a1, a2, a3, a4}
  Absent = Absent
  Stores = {"s3"}
  MaxFailures = 1
CHECK_DEADLOCK FALSE
INVARIANTS ManifestDescribesData

