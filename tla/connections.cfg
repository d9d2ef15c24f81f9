CONSTANTS
  Driver = {d0, d1, d2}
  First = d0
  Pooled = {d0, d1}
  Tunnelled = {d1}
  Load = {m1}
  Query = query
SPECIFICATION FairSpec
INVARIANT NoConnectionLeak
INVARIANT PriorStaysConnected
INVARIANT TunnelEndsWithConnection
PROPERTY ConnectSettles
CHECK_DEADLOCK FALSE
