------------------------ MODULE MCCancellableDriver ------------------------
(* Small instances of CancellableDriver for TLC.                            *)
EXTENDS CancellableDriver, TLC

CONSTANT MaxCalls \* bound on the calls of a behaviour

ASSUME MaxCallsIsNatural == MaxCalls \in Nat

Symmetry ==
  Permutations(Query \ ReadOnlyRejects) \cup Permutations(CancelCall)
    \cup Permutations(TxCall) \cup Permutations(Conn)

\* The calls that have begun; a behaviour makes any MaxCalls of those there are.
Started ==
  {q \in Query : pc[q] # "new"} \cup {k \in CancelCall : cpc[k] # "idle"}
    \cup {t \in TxCall : tpc[t] # "idle"} \cup {j \in Job : jpc[j] # "idle"}
    \cup {d \in {Disconnector} : dpc # "connected"}

FewCalls == Cardinality(Started) <= MaxCalls

============================================================================
