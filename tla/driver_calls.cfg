CONSTANTS
  Query = {q1, q2, q3}
  CancelCall = {k1, k2}
  TxCall = {t1, t2}
  Job = {j1}
  Conn = {c1, c2}
  ReadOnlyRejects = {q3}
  MayDisconnect = TRUE
  Disconnector = disconnect
  None = None
  MaxCalls = 5
SYMMETRY Symmetry
CONSTRAINT FewCalls
SPECIFICATION Spec
INVARIANT BackendExclusive
INVARIANT SignalHitsTarget
INVARIANT InterruptsOnlyTargets
INVARIANT CancelledWasRequested
INVARIANT NoEntryLeak
INVARIANT ControlPoolOutlivesCancels
PROPERTY ImplementsContract
CHECK_DEADLOCK FALSE
