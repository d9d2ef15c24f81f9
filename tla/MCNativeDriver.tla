--------------------------- MODULE MCNativeDriver ---------------------------
(* Small instances of NativeDriver for TLC.                                  *)
EXTENDS NativeDriver, TLC

=============================================================================
