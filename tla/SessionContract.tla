-------------------------- MODULE SessionContract --------------------------
(***************************************************************************)
(* What an explicit transaction session promises its user: from Begin on,  *)
(* writes stay pending; they become durable together, or not at all.       *)
(* Without a session every write is durable at once.                       *)
(***************************************************************************)
CONSTANT Write
VARIABLES active, pending, committed

vars == <<active, pending, committed>>

Init == active = FALSE /\ pending = {} /\ committed = {}

Begin == ~active /\ active' = TRUE /\ UNCHANGED <<pending, committed>>

Put(ws) ==
  /\ IF active
       THEN pending' = pending \cup ws /\ UNCHANGED committed
       ELSE committed' = committed \cup ws /\ UNCHANGED pending
  /\ UNCHANGED active

Finish == active /\ active' = FALSE /\ pending' = {}
Commit == Finish /\ committed' = committed \cup pending
Discard == Finish /\ UNCHANGED committed

Next == Begin \/ (\E ws \in SUBSET Write : Put(ws)) \/ Commit \/ Discard

Spec == Init /\ [][Next]_vars

=============================================================================
