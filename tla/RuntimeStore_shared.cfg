SPECIFICATION FairSpec
CONSTANTS
  u1 = u1  u2 = u2  u3 = u3  v1 = v1  t1 = t1  t2 = t2
  NoDoc = NoDoc  NoTx = NoTx
  Updaters = {u1, u2}
  Readers = {}
  InPlace = {u1}
  Transactions = {t1, t2}
  Initial = NoDoc
  Overtaking = TRUE
  MaxCrashes = 1
PROPERTIES
  OnlyUndone
  UpdatesEnd
CHECK_DEADLOCK FALSE
