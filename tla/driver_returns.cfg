CONSTANTS
  Query = {q1, q2}
  CancelCall = {k1}
  TxCall = {t1}
  Job = {}
  Conn = {c1}
  ReadOnlyRejects = {}
  MayDisconnect = TRUE
  Disconnector = disconnect
  None = None
  MaxCalls = 4
SPECIFICATION FairSpec
PROPERTY InterruptedReturns
PROPERTY ExecutionReturns
PROPERTY DisconnectReturns
CHECK_DEADLOCK FALSE
