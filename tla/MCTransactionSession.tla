------------------------ MODULE MCTransactionSession ------------------------
(* Small instances of TransactionSession for TLC.                            *)
EXTENDS TransactionSession, TLC

Symmetry == Permutations(Write)

=============================================================================
