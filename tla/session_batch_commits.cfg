CONSTANTS
  Write = {w1, w2, w3}
  Vendors = {"postgres"}
  MaxNest = 3
SYMMETRY Symmetry
SPECIFICATION Spec
INVARIANT RollbackUndoesBatches
CHECK_DEADLOCK FALSE
