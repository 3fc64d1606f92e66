SPECIFICATION SceneSpec
CONSTANTS
  crowded = crowded  calm = calm
  c1 = c1  c2 = c2  c3 = c3
  k1 = k1  r1 = r1  r2 = r2
  NoPlan = NoPlan  NoKey = NoKey  NoRun = NoRun
  Plans <- TwoPlans
  Steps <- ScenesSteps
  Before <- ScenesBefore
  Keys = {k1}
  RunIds = {r1, r2}
  RunCap = 9
  EvidenceCap = 30
  MaxApprovals = 2
  Clients = {c1, c2, c3}
  Careful = {calm}
  MaxCrashes = 0
INVARIANTS
  EvidenceTellsTheRun
  EffectsAreEvidenced
  RepliesAgree
  
SYMMETRY Symmetric
CHECK_DEADLOCK FALSE
