SPECIFICATION Spec
CONSTANTS
  k1 = k1  k2 = k2  own = own  new1 = new1  new2 = new2
  cap1 = cap1  cap2 = cap2  anyone = anyone
  rule1 = rule1  rule2 = rule2  text1 = text1  text2 = text2
  boot = boot  shipped = shipped  added = added
  Keys = {k1, k2}  DefaultKey = k1
  Ids = {new1, new2}  DefaultId = own  Anyone = anyone
  Capabilities = {cap1, cap2}
  MaxEdits = 3  MaxDrafts = 2  MaxVersions = 3
  Rules = {rule1, rule2}  Contents = {text1, text2}
  Requests = {1, 2, 3}  Boot = boot  NoRule = anyone
  MaxRestarts = 1
  Items = {shipped, added}  Baseline = {shipped}
  Editors = {1, 2, 3}  NoItem = anyone
  MaxStops = 1
INVARIANTS
  ActiveIsListed
  OneCurrentRequirement
  OverlayIsCurrent
  ItemsAreWhole
PROPERTIES
  NeverDowngrades
SYMMETRY Symmetric
CHECK_DEADLOCK FALSE
