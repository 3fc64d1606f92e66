SPECIFICATION FairSpec
CONSTANTS
  c1 = c1  s1 = s1  u1 = u1  u2 = u2  tick1 = tick1  tick2 = tick2
  Comments = {c1}  Users = {u1, u2}  Suggestions = {s1}
  Calls <- AllCalls
  Mixes <- SmallMixes
  Workers = {tick1, tick2}
  Threshold = 1
  MaxAttempts = 2
  NoTx = NoTx
  MaxFails = 2
  MaxCrashes = 1
INVARIANTS
  DeletedIsUnindexed
  EscalatedIsHidden
  AuditChains
  TasksAreCounted
PROPERTIES
  TasksSettle
