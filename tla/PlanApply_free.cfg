SPECIFICATION Spec
CONSTANTS
  p1 = p1  c1 = c1  c2 = c2  c3 = c3
  k1 = k1  r1 = r1  r2 = r2
  NoPlan = NoPlan  NoKey = NoKey  NoRun = NoRun
  Plans <- OnePlan
  Steps <- MixedSteps
  Before <- TwoOriginals
  Keys = {k1}
  RunIds = {r1, r2}
  RunCap = 1
  EvidenceCap = 2
  MaxApprovals = 2
  Clients = {c1, c2}
  Careful = {}
  MaxCrashes = 1
INVARIANTS
  ActiveRunOwned
PROPERTIES
  OutcomeIsFinal
  SpendsTokens
SYMMETRY Symmetric
CHECK_DEADLOCK FALSE
