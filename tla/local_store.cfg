\* One part at a time; three profiles, a table that keeps one of them.
SPECIFICATION MCSpec
CONSTANTS
  TabIds = {1, 2, 3, 4}
  Texts = {"", "sample"}
  Empty = ""
  Sample = "sample"
  None = None
  TabCap = 2
  HistoryCap = 1
  FavoriteCap = 1
  MigrationCap = 1
  AuditCap = 1
  MaxTabs = 3
  MaxList = 2
  MaxSaves = 2
  MaxClicks = 3
  Ids = {p1, p2, p3}
  NoProfile = NoProfile
  MaxProfiles = 1
  MaxListed = 2
INVARIANTS WorkspaceCoherent AutosaveIsComplete 
SYMMETRY Symmetry
CHECK_DEADLOCK FALSE
