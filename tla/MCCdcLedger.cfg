SPECIFICATION Spec
CONSTANTS
  id = id
  SourceSchema = "commerce"
  Tables = {"orders", "payments"}
  Word = 2
  Missing = Missing
  t1 = t1  t2 = t2
  v1 = v1  v2 = v2
  plain = plain  resent = resent
  Keys <- MCKeys
  Txs = {t1, t2}
  NoTx = NoTx
  Data = {v1, v2}
  Raws = {plain, resent}
  Events <- MCEvents
  Writers = {w1}
  NoRow = NoRow
  NoEvent = NoEvent
INVARIANTS EventAccounted NewestWins OrderIndependent QuarantinedNeverCurrent
PROPERTIES CheckpointAdvances ImplementsOracle
