------------------------- MODULE MCConnectionStore -------------------------
(* Small instances of ConnectionStore for TLC.                              *)
EXTENDS ConnectionStore, TLC

============================================================================
