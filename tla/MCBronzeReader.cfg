SPECIFICATION ReaderSpec
CONSTANTS
  Publishers = {p1, p2}
  Contents = {c1, c2}
  Stamps = {s1, s2}
  Absent = Absent
  Partial = Partial
  Stores = {"s3", "local"}
  Faults = {"crash", "read", "write", "lost", "resent", "race"}
  MaxFaults = 2
  MaxAttempts = 2
SYMMETRY Symmetry
INVARIANTS ListedIsReadable AcksDurable ConsumedIsVerified ReportedVerifies
PROPERTIES ObjectsImmutable ImplementsCommitOnce
