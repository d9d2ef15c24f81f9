CONSTANTS
  Write = {w1, w2, w3}
  Vendors = {"postgres", "mysql", "sqlite", "sqlserver", "oracle"}
  MaxNest = 3
SYMMETRY Symmetry
SPECIFICATION Spec
 
 
 
 
 
INVARIANT FailedDocumentUndone
INVARIANT DirectWritesAreDurable
 
CHECK_DEADLOCK FALSE
