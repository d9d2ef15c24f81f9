---------------------------- MODULE QueryContract ----------------------------
(***************************************************************************)
(* What a caller of prepare, execute and cancel may rely on, whatever the  *)
(* driver does inside: a query settles once; a cancellation that took      *)
(* effect is a promise that the query will not be reported as completed;   *)
(* and "cancelled" is only reported after such a promise.                  *)
(***************************************************************************)
CONSTANT Query
VARIABLE phase

Phases == {"open", "promised", "completed", "cancelled", "failed"}

TypeOK == phase \in [Query -> Phases]

Init == phase = [q \in Query |-> "open"]

Move(q, from, to) == phase[q] = from /\ phase' = [phase EXCEPT ![q] = to]

\* A cancel takes effect.
Promise(q) == Move(q, "open", "promised")

\* execute returns the statement's result.
Complete(q) == Move(q, "open", "completed")

\* execute returns QueryCancelled.
ReportCancelled(q) == Move(q, "promised", "cancelled")

\* execute returns another error, promised or not.
Fail(q) == Move(q, "open", "failed") \/ Move(q, "promised", "failed")

Next == \E q \in Query : Promise(q) \/ Complete(q) \/ ReportCancelled(q) \/ Fail(q)

Spec == Init /\ [][Next]_phase

=============================================================================
