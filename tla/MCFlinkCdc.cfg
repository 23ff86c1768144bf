SPECIFICATION FairSpec
CONSTANTS
  t1 = t1  t2 = t2  k1 = k1
  Topics = {t1, t2}
  Keys = {k1}
  Logs <- MCLogs
  NoTx = NoTx
  None = None
  NoChange = NoChange
  RestartAttempts = 3
  MaxCrashes = 2
CHECK_DEADLOCK FALSE
INVARIANTS TypeOK EvidenceExactlyOnce SilverIsState StateIsNewest
PROPERTIES CommittedAdvances Converges
