SPECIFICATION FairSpec
CONSTANTS
  p1 = p1  c1 = c1  c2 = c2  c3 = c3
  k1 = k1  r1 = r1  r2 = r2
  NoPlan = NoPlan  NoKey = NoKey  NoRun = NoRun
  Plans <- OnePlan
  Steps <- Irreversible
  Before <- TwoOriginals
  Keys = {k1}
  RunIds = {r1, r2}
  RunCap = 9
  EvidenceCap = 30
  MaxApprovals = 2
  Clients = {c1, c2}
  Careful = {}
  MaxCrashes = 0
PROPERTIES
  RunsSettle
CHECK_DEADLOCK FALSE
