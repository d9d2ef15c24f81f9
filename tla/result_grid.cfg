SPECIFICATION MCSpec
CONSTANTS
  Orders = Orders
  Users = Users
  Tables = {Orders, Users}
  DefaultTable = Orders
  Keyed = Keyed
  Danger = Danger
  Plan = Plan
  Batch = Batch
  None = None
  Filters = {"all", "narrow"}
  NoFilter = "all"
  MaxPages = 2
  MaxClicks = 6
  MaxConnects = 1
  MaxStaged = 1
  StreamCap = 2
  ChunkRows = 3
INVARIANTS StreamIsBounded 
PROPERTIES RunSettles
CHECK_DEADLOCK FALSE
