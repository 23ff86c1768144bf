SPECIFICATION ValidationSpec
CONSTANTS
  k1 = k1  k2 = k2  k3 = k3  k4 = k4
  m1 = m1  m2 = m2  m3 = m3
  Keys = {k1, k2, k3, k4}
  Batches <- MCReportBatches
  Jobs = {j1}
  NoRow = NoRow
  NoBatch = NoBatch
  Requests <- MCReportRequests
  NoReport = NoReport
INVARIANTS ReportHolds
