SPECIFICATION PlanningSpec
CONSTANTS
  nginx = nginx  caddy = caddy  k3s = k3s  p1 = p1  p2 = p2
  Plans = {p1, p2}
  Capabilities = {nginx, caddy, k3s}
  Catalog <- SmallCatalog
  Rules <- SmallRules
  Options <- SmallOptions
  NoOption = NoOption
  Acks <- SmallAcks
  MaxMoves = 2
  pg = pg  web = web  env = env  host1 = host1
  Candidates = {pg, web}
  Bundles = {env}
  Sessions = {1, 2}
  Profiles = {"conservative", "balanced"}
  Targets = {host1}
  NoTarget = NoTarget
  Snapshots = {1, 2}
  Sees <- SmallSees
  Patterns <- SmallPatterns
  Wishes = {"record-only"}
  Scenes <- SmallScenes
  ListLimit = 2
  MaxHistory = 3
  MaxTurns = 2
SYMMETRY Symmetric
CONSTRAINT Undrifted
INVARIANTS
  ExclusivesNeverMeet
  WarningsAreConfirmed
  InboxFollowsHistory
  DecidedIsResolved
CHECK_DEADLOCK FALSE
