SPECIFICATION Spec
CONSTANTS
  u1 = u1  u2 = u2  u3 = u3  v1 = v1  t1 = t1  t2 = t2
  NoDoc = NoDoc  NoTx = NoTx
  Updaters = {u1, u2, u3}
  Readers = {v1}
  InPlace = {u1}
  Transactions = {}
  Initial = {}
  Overtaking = FALSE
  MaxCrashes = 1
INVARIANTS
  AckedIsSeen
PROPERTIES
  IsAtomic
CHECK_DEADLOCK FALSE
