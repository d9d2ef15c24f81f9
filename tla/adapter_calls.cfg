CONSTANTS
  ExecuteCall = {e1}
  StreamCall = {s1}
  BatchCall = {b1}
SPECIFICATION FairSpec
INVARIANT AbortErrorIsHonest
INVARIANT ResultMatchesServer
 
PROPERTY WithinContract
PROPERTY ExecuteAbortReachesServer
CHECK_DEADLOCK FALSE
