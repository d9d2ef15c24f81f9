SPECIFICATION MCSpec
CONSTANTS
  Orders = Orders
  Users = Users
  Tables = {Orders, Users}
  DefaultTable = Orders
  Keyed = Keyed
  Danger = Danger
  Plan = Plan
  Batch = Batch
  None = None
  Filters = {"all", "narrow"}
  NoFilter = "all"
  MaxPages = 1
  MaxClicks = 5
  MaxConnects = 1
  MaxStaged = 1
  StreamCap = 2
  ChunkRows = 3
INVARIANTS EditsHitTheirTable
CHECK_DEADLOCK FALSE
