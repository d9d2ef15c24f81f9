------------------------- MODULE NativeDriverProofs -------------------------
(***************************************************************************)
(* Proofs about NativeDriver, for any calls of each kind: what a promise   *)
(* settles with agrees with the server, no prepared id stays behind, and   *)
(* the native side stays within QueryContract.                             *)
(***************************************************************************)
EXTENDS NativeDriver, TLAPS

\* The execute command was answered.
Answered(c) == at[c] \in {"running", "confirming"} /\ reply[c] # "none"

\* Up to the reply of prepare nothing has happened at the server, but for the
\* registration.
BeforeRunning(c) ==
  at[c] \in {"idle", "subscribing", "preparing"} =>
    /\ phase[c] = "open" /\ c \notin executing
    /\ c \in registered => at[c] = "preparing" /\ reply[c] = "ok"

\* A statement runs only while its execute command is unanswered, and until
\* then its query has not settled.
WhileRunning(c) ==
  /\ c \in executing => at[c] = "running" /\ reply[c] = "none"
  /\ at[c] = "running" /\ reply[c] = "none" => phase[c] \in {"open", "promised"}
  /\ at[c] = "confirming" => reply[c] # "none"
  /\ phase[c] = "completed" =>
       at[c] \in {"running", "confirming", "settled"} /\ (at[c] # "settled" => reply[c] = "ok")
  /\ Answered(c) /\ reply[c] = "ok" => phase[c] = "completed"

\* The one cancel of a call: sent after an abort, and answered true exactly
\* when the server promised it.
CancelInv(c) ==
  /\ cancelReply[c] # "unsent" =>
       c \in aborted /\ at[c] \in {"withdrawing", "running", "confirming", "settled"}
  /\ cancelReply[c] = "inFlight" => at[c] # "settled"
  /\ at[c] = "withdrawing" =>
       cancelReply[c] # "unsent" /\ c \notin executing /\ phase[c] \in {"open", "promised"}
  /\ phase[c] = "promised" => cancelReply[c] = "true"
  /\ cancelReply[c] = "true" =>
       phase[c] \in {"promised", "cancelled", "failed"} /\ (c \in registered => c \in executing)

\* Once a call is answered, or its withdrawal is, its id is gone, unless the
\* connection is.
EntryGone(c) ==
  /\ connected /\ Answered(c) => c \notin registered
  /\ connected /\ at[c] = "withdrawing" /\ cancelReply[c] # "inFlight" => c \notin registered

\* A batch is never prepared or cancelled.
BatchInv(c) ==
  /\ at[c] \in {"idle", "running", "settled"}
  /\ at[c] = "idle" => phase[c] = "open" /\ c \notin executing
  /\ c \in executing => at[c] = "running" /\ reply[c] = "none"
  /\ at[c] = "running" /\ reply[c] = "none" => phase[c] = "open"

ServerInv ==
  /\ \A c \in CancellableCall :
       BeforeRunning(c) /\ WhileRunning(c) /\ CancelInv(c) /\ EntryGone(c)
  /\ \A c \in BatchCall : BatchInv(c)

\* What the properties say of a settled call.
Verdict ==
  /\ AbortErrorIsHonest /\ ResultMatchesServer /\ NoPreparedIdLeft
  /\ \A c \in CancellableCall : outcome[c] # "none" => at[c] = "settled"

Inv == TypeOK /\ ServerInv /\ Verdict

-----------------------------------------------------------------------------
LEMMA InitInv == Init => Inv
  BY KindsDistinct DEF Init, Inv, TypeOK, ServerInv, BeforeRunning, WhileRunning, CancelInv,
       EntryGone, BatchInv, Answered, Verdict, AbortErrorIsHonest, ResultMatchesServer,
       NoPreparedIdLeft, Call, CancellableCall

LEMMA RendererInv ==
  ASSUME NEW c \in Call, Inv, Renderer(c) \/ Abort(c)
  PROVE  Inv'
<1> USE KindsDistinct DEF Call, CancellableCall
<1> USE DEF Inv, TypeOK, ServerInv, BeforeRunning, WhileRunning, CancelInv, EntryGone, BatchInv,
       Answered, Verdict, AbortErrorIsHonest, ResultMatchesServer, NoPreparedIdLeft
<1> USE DEF Settle, Invoke, Goto, SendCancel, BeginRunning, Result, serverVars
<1>1. CASE StartExecute(c) BY <1>1 DEF StartExecute
<1>2. CASE StartStream(c) BY <1>2 DEF StartStream
<1>3. CASE StartBatch(c) BY <1>3 DEF StartBatch
<1>4. CASE Subscribed(c) BY <1>4 DEF Subscribed
<1>5. CASE PrepareRejected(c) BY <1>5 DEF PrepareRejected
<1>6. CASE PreparedExecute(c) BY <1>6 DEF PreparedExecute
<1>7. CASE PreparedStream(c) BY <1>7 DEF PreparedStream
<1>8. CASE Withdrawn(c) BY <1>8 DEF Withdrawn
<1>9. CASE Replied(c) BY <1>9 DEF Replied
<1>10. CASE Confirmed(c) BY <1>10 DEF Confirmed
<1>11. CASE BatchReplied(c) BY <1>11 DEF BatchReplied
<1>12. CASE Abort(c) BY <1>12 DEF Abort
<1>13. QED
  BY <1>1, <1>2, <1>3, <1>4, <1>5, <1>6, <1>7, <1>8, <1>9, <1>10, <1>11, <1>12 DEF Renderer

LEMMA ServeInv ==
  ASSUME NEW c \in Call, Inv, Serve(c) \/ ExecutionEnds(c)
  PROVE  Inv'
<1> USE KindsDistinct DEF Call, CancellableCall
<1> USE DEF Inv, TypeOK, ServerInv, BeforeRunning, WhileRunning, CancelInv, EntryGone, BatchInv,
       Answered, Verdict, AbortErrorIsHonest, ResultMatchesServer, NoPreparedIdLeft
<1> USE DEF Respond, RespondCancel, Enter, CancelArrives, serverVars
<1>1. CASE ServePrepare(c) BY <1>1 DEF ServePrepare
<1>2. CASE ServeExecute(c) BY <1>2 DEF ServeExecute, Accepts
<1>3. CASE ServeCancelPending(c) BY <1>3 DEF ServeCancelPending
<1>4. CASE ServeCancelRunning(c) BY <1>4 DEF ServeCancelRunning
<1>5. CASE ServeCancelUnknown(c) BY <1>5 DEF ServeCancelUnknown
<1>6. CASE ExecutionEnds(c) BY <1>6 DEF ExecutionEnds
<1>7. QED
  BY <1>1, <1>2, <1>3, <1>4, <1>5, <1>6 DEF Serve

LEMMA NextInv == Inv /\ [Next]_vars => Inv'
<1> SUFFICES ASSUME Inv, [Next]_vars PROVE Inv'
  OBVIOUS
<1> USE DEF Inv, TypeOK, ServerInv, BeforeRunning, WhileRunning, CancelInv, EntryGone, BatchInv,
       Answered, Verdict, AbortErrorIsHonest, ResultMatchesServer, NoPreparedIdLeft
<1>1. CASE Disconnect BY <1>1 DEF Disconnect, rendererVars
<1>2. CASE UNCHANGED vars BY <1>2 DEF vars, rendererVars, serverVars
<1>3. QED BY <1>1, <1>2, RendererInv, ServeInv DEF Next

LEMMA Invariant == Spec => []Inv
  BY InitInv, NextInv, PTL DEF Spec

\* The adapter's variables keep their types, and no abort listener outlives
\* the execute command or the cancellation it sent.
THEOREM AdapterTypeCorrect == Spec => []TypeOK
<1>1. Inv => TypeOK BY DEF Inv
<1>2. QED BY <1>1, Invariant, PTL

\* An AbortError is only reported for a query that can no longer complete.
THEOREM AbortErrorsAreHonest == Spec => []AbortErrorIsHonest
<1>1. Inv => AbortErrorIsHonest BY DEF Inv, Verdict
<1>2. QED BY <1>1, Invariant, PTL

\* A call resolves exactly when its query completed, but for a rejected
\* cancel_query.
THEOREM ResultsMatchServer == Spec => []ResultMatchesServer
<1>1. Inv => ResultMatchesServer BY DEF Inv, Verdict
<1>2. QED BY <1>1, Invariant, PTL

\* A settled call leaves no prepared id behind while the connection lives.
THEOREM NoPreparedIdStays == Spec => []NoPreparedIdLeft
<1>1. Inv => NoPreparedIdLeft BY DEF Inv, Verdict
<1>2. QED BY <1>1, Invariant, PTL

-----------------------------------------------------------------------------
(* The assumptions on the native side                                      *)

LEMMA CallStepPhase ==
  ASSUME NEW c \in Call, Inv, Abort(c) \/ Renderer(c) \/ Serve(c) \/ ExecutionEnds(c)
  PROVE  [Contract!Next]_phase
<1> USE KindsDistinct DEF Call, CancellableCall
<1>1. CASE Abort(c) \/ Renderer(c)
  BY <1>1 DEF Abort, Renderer, StartExecute, StartStream, StartBatch, Subscribed,
       PrepareRejected, PreparedExecute, PreparedStream, Withdrawn, Replied, Confirmed,
       BatchReplied, serverVars
<1>2. CASE ServePrepare(c) \/ ServeCancelUnknown(c)
  BY <1>2 DEF ServePrepare, ServeCancelUnknown, serverVars
<1>3. CASE ServeExecute(c)
  <2>1. phase[c] \in {"open", "promised"}
    BY <1>3 DEF ServeExecute, Inv, ServerInv, WhileRunning, BatchInv
  <2>2. phase' = phase \/ Contract!Fail(c)
    BY <1>3, <2>1 DEF ServeExecute, Enter, Contract!Fail, Contract!Move
  <2>3. QED BY <2>2 DEF Contract!Next
<1>4. CASE ServeCancelPending(c) \/ ServeCancelRunning(c)
  <2>1. phase' = phase \/ Contract!Promise(c)
    BY <1>4 DEF ServeCancelPending, ServeCancelRunning, Enter, Contract!Promise, Contract!Move
  <2>2. QED BY <2>1 DEF Contract!Next
<1>5. CASE ExecutionEnds(c)
  <2>1. Contract!Complete(c) \/ Contract!ReportCancelled(c) \/ Contract!Fail(c)
    BY <1>5 DEF ExecutionEnds, Enter, Contract!Complete, Contract!ReportCancelled,
         Contract!Fail, Contract!Move
  <2>2. QED BY <2>1 DEF Contract!Next
<1>6. QED BY <1>1, <1>2, <1>3, <1>4, <1>5 DEF Serve

\* The native side, as the adapter's properties rely on it, does nothing that
\* the contract, which the drivers implement, does not allow.
THEOREM NativeSideWithinContract == Spec => WithinContract
<1>1. Init => Contract!Init
  BY DEF Init, Contract!Init
<1>2. Inv /\ [Next]_vars => [Contract!Next]_phase
  <2>1. CASE Disconnect \/ UNCHANGED vars
    BY <2>1 DEF Disconnect, vars, serverVars
  <2>2. QED BY <2>1, CallStepPhase DEF Next
<1>3. QED BY <1>1, <1>2, Invariant, PTL DEF Spec, WithinContract, Contract!Spec

=============================================================================
