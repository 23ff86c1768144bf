SPECIFICATION FairSpec
CONSTANTS
  t1 = t1  t2 = t2  k1 = k1
  Topics = {t1, t2}
  Keys = {k1}
  Logs <- MCUnreadable
  NoTx = NoTx
  None = None
  NoChange = NoChange
  RestartAttempts = 3
  MaxCrashes = 0
CHECK_DEADLOCK FALSE
PROPERTIES AllArchived

