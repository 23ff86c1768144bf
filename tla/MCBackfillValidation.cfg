SPECIFICATION ValidationSpec
CONSTANTS
  k1 = k1  k2 = k2  k3 = k3  k4 = k4
  m1 = m1  m2 = m2  m3 = m3
  Keys = {k1, k2, k3, k4}
  Batches <- MCBatches
  Jobs = {j1, j2}
  NoRow = NoRow
  NoBatch = NoBatch
  Requests <- MCRequests
  NoReport = NoReport
SYMMETRY Symmetry
INVARIANTS FreshestWins RecordedIsFinished ReportHolds
PROPERTIES RowsAdvance FirstResultStands CleanIsValidated
