---------------------------- MODULE NativeDriver ----------------------------
(***************************************************************************)
(* TauriDatabaseDriver, the renderer's driver adapter: execute,            *)
(* executeStream and executeBatch turn a call and its AbortSignal into     *)
(* prepare, execute and cancel commands, and the command replies into what *)
(* the call's promise settles with.  Commands travel independently: a      *)
(* cancel may reach the server before the execute it chases.               *)
(*                                                                         *)
(* The native side is what QueryContract promises of a driver, with its    *)
(* registration of query ids (CancellableDriver has the detail).  The      *)
(* driver advertises cancel and streaming; SQL, rows and chunks are left   *)
(* out.                                                                    *)
(***************************************************************************)
EXTENDS Naturals

CONSTANTS ExecuteCall, StreamCall, BatchCall

CancellableCall == ExecuteCall \cup StreamCall
Call == CancellableCall \cup BatchCall

ASSUME KindsDistinct ==
  /\ ExecuteCall \cap StreamCall = {}
  /\ CancellableCall \cap BatchCall = {}

VARIABLES
  at,          \* which await each call is at
  aborted,     \* calls whose AbortSignal is aborted
  listening,   \* calls whose abort listener is added
  reply,       \* the reply to the command the call awaits
  cancelReply, \* cancel_query: not sent, in flight, or its reply
  outcome,     \* what the call's promise settled with
  connected,   \* the registry knows the connection
  registered,  \* query ids in active_queries
  executing,   \* calls the server executes
  phase        \* the phase of QueryContract each query is in

rendererVars == <<at, aborted, listening, reply, cancelReply, outcome>>
serverVars == <<connected, registered, executing, phase>>
vars == <<rendererVars, serverVars>>

Init ==
  /\ at = [c \in Call |-> "idle"]
  /\ aborted = {}
  /\ listening = {}
  /\ reply = [c \in Call |-> "none"]
  /\ cancelReply = [c \in CancellableCall |-> "unsent"]
  /\ outcome = [c \in Call |-> "none"]
  /\ connected = TRUE
  /\ registered = {}
  /\ executing = {}
  /\ phase = [c \in Call |-> "open"]

-----------------------------------------------------------------------------
(* The renderer                                                            *)

Goto(c, place) == at' = [at EXCEPT ![c] = place]

\* Mutant: the listener is left on the signal.
SettleKeepsListener(c, value) ==
  /\ outcome' = [outcome EXCEPT ![c] = value]
  /\ Goto(c, "settled") /\ UNCHANGED listening

\* The finally block removes the listener on every way out.
Settle(c, value) ==
  /\ outcome' = [outcome EXCEPT ![c] = value]
  /\ listening' = listening \ {c}
  /\ Goto(c, "settled")

Invoke(c, place) ==
  /\ Goto(c, place)
  /\ reply' = [reply EXCEPT ![c] = "none"]

SendCancel(c) == cancelReply' = [cancelReply EXCEPT ![c] = "inFlight"]

StartExecute(c) ==
  /\ at[c] = "idle" /\ c \in ExecuteCall
  /\ \/ c \in aborted /\ Settle(c, "AbortError") /\ UNCHANGED reply
     \/ c \notin aborted /\ Invoke(c, "preparing") /\ UNCHANGED <<outcome, listening>>
  /\ UNCHANGED <<aborted, cancelReply, serverVars>>

\* listen, the subscription to the chunk event, comes first.
StartStream(c) ==
  /\ at[c] = "idle" /\ c \in StreamCall
  /\ \/ c \in aborted /\ Settle(c, "AbortError")
     \/ c \notin aborted /\ Goto(c, "subscribing") /\ UNCHANGED <<outcome, listening>>
  /\ UNCHANGED <<aborted, reply, cancelReply, serverVars>>

StartBatch(c) ==
  /\ at[c] = "idle" /\ c \in BatchCall
  /\ \/ c \in aborted /\ Settle(c, "AbortError") /\ UNCHANGED reply
     \/ c \notin aborted /\ Invoke(c, "running") /\ UNCHANGED <<outcome, listening>>
  /\ UNCHANGED <<aborted, cancelReply, serverVars>>

Subscribed(c) ==
  /\ at[c] = "subscribing"
  /\ Invoke(c, "preparing")
  /\ UNCHANGED <<aborted, listening, cancelReply, outcome, serverVars>>

PrepareRejected(c) ==
  /\ at[c] = "preparing" /\ reply[c] = "error"
  /\ Settle(c, "Error")
  /\ UNCHANGED <<aborted, reply, cancelReply, serverVars>>

\* The listener is added and the execute command sent without an await.
BeginRunning(c) ==
  /\ Invoke(c, "running")
  /\ listening' = listening \cup {c}
  /\ UNCHANGED cancelReply

\* Mutant: the signal is not looked at after prepare.
PreparedExecuteUnchecked(c) ==
  /\ at[c] = "preparing" /\ reply[c] = "ok" /\ c \in ExecuteCall
  /\ BeginRunning(c)
  /\ UNCHANGED <<aborted, outcome, serverVars>>

PreparedExecute(c) ==
  /\ at[c] = "preparing" /\ reply[c] = "ok" /\ c \in ExecuteCall
  /\ \/ c \notin aborted /\ BeginRunning(c)
     \/ c \in aborted /\ SendCancel(c) /\ Goto(c, "withdrawing") /\ UNCHANGED <<listening, reply>>
  /\ UNCHANGED <<aborted, outcome, serverVars>>

\* executeStream does not look at the signal again.
PreparedStream(c) ==
  /\ at[c] = "preparing" /\ reply[c] = "ok" /\ c \in StreamCall
  /\ BeginRunning(c)
  /\ UNCHANGED <<aborted, outcome, serverVars>>

\* Mutant: the call gives up without waiting for the server's word.
WithdrawnAtOnce(c) ==
  /\ at[c] = "withdrawing"
  /\ Settle(c, "AbortError")
  /\ UNCHANGED <<aborted, reply, cancelReply, serverVars>>

Withdrawn(c) ==
  /\ at[c] = "withdrawing" /\ cancelReply[c] # "inFlight"
  /\ Settle(c, IF cancelReply[c] = "true" THEN "AbortError" ELSE "Error")
  /\ UNCHANGED <<aborted, reply, cancelReply, serverVars>>

\* controller.abort(): the listener sends cancel_query, once.
Abort(c) ==
  /\ at[c] # "settled" /\ c \notin aborted
  /\ aborted' = aborted \cup {c}
  /\ IF c \in listening THEN SendCancel(c) ELSE UNCHANGED cancelReply
  /\ UNCHANGED <<at, listening, reply, outcome, serverVars>>

Result(c) == IF reply[c] = "ok" THEN "result" ELSE "Error"

\* The execute command's reply; an aborted call awaits its cancellation, and
\* one whose listener was never called has none to await.
Replied(c) ==
  /\ at[c] = "running" /\ reply[c] # "none" /\ c \in CancellableCall
  /\ \/ /\ c \in aborted /\ cancelReply[c] # "unsent"
        /\ Goto(c, "confirming") /\ UNCHANGED <<outcome, listening>>
     \/ /\ c \notin aborted \/ cancelReply[c] = "unsent"
        /\ Settle(c, Result(c))
  /\ UNCHANGED <<aborted, reply, cancelReply, serverVars>>

\* Mutant: an aborted signal alone makes it an AbortError.
ConfirmedBySignal(c) ==
  /\ at[c] = "confirming" /\ cancelReply[c] # "inFlight"
  /\ Settle(c, "AbortError")
  /\ UNCHANGED <<aborted, reply, cancelReply, serverVars>>

\* A rejected cancel_query rejects the call, whatever the execution did.
Confirmed(c) ==
  /\ at[c] = "confirming" /\ cancelReply[c] # "inFlight"
  /\ Settle(c, IF cancelReply[c] = "true" THEN "AbortError"
               ELSE IF cancelReply[c] = "error" THEN "Error" ELSE Result(c))
  /\ UNCHANGED <<aborted, reply, cancelReply, serverVars>>

BatchReplied(c) ==
  /\ at[c] = "running" /\ reply[c] # "none" /\ c \in BatchCall
  /\ Settle(c, IF reply[c] = "ok" /\ c \in aborted THEN "AbortError" ELSE Result(c))
  /\ UNCHANGED <<aborted, reply, cancelReply, serverVars>>

-----------------------------------------------------------------------------
(* The native side                                                         *)

Respond(c, value) == reply' = [reply EXCEPT ![c] = value]
RespondCancel(c, value) == cancelReply' = [cancelReply EXCEPT ![c] = value]
Enter(c, newPhase) == phase' = [phase EXCEPT ![c] = newPhase]

Disconnect ==
  /\ connected
  /\ connected' = FALSE
  /\ UNCHANGED <<rendererVars, registered, executing, phase>>

ServePrepare(c) ==
  /\ at[c] = "preparing" /\ reply[c] = "none"
  /\ \/ connected /\ registered' = registered \cup {c} /\ Respond(c, "ok")
     \/ ~connected /\ Respond(c, "error") /\ UNCHANGED registered
  /\ UNCHANGED <<at, aborted, listening, cancelReply, outcome, connected, executing, phase>>

\* A batch is not in active_queries; any other call must find itself there.
Accepts(c) == connected /\ (c \in BatchCall \/ c \in registered)

ServeExecute(c) ==
  /\ at[c] = "running" /\ reply[c] = "none" /\ c \notin executing
  /\ \/ Accepts(c) /\ executing' = executing \cup {c} /\ UNCHANGED <<reply, phase>>
     \/ ~Accepts(c) /\ Respond(c, "error") /\ Enter(c, "failed") /\ UNCHANGED executing
  /\ UNCHANGED <<at, aborted, listening, cancelReply, outcome, connected, registered>>

\* Mutant: the execution's entry outlives it.
ExecutionEndsRegistered(c) ==
  /\ c \in executing
  /\ \/ phase[c] = "open" /\ Enter(c, "completed") /\ Respond(c, "ok")
     \/ phase[c] = "open" /\ Enter(c, "failed") /\ Respond(c, "error")
     \/ phase[c] = "promised" /\ Enter(c, "cancelled") /\ Respond(c, "error")
     \/ phase[c] = "promised" /\ Enter(c, "failed") /\ Respond(c, "error")
  /\ executing' = executing \ {c}
  /\ UNCHANGED <<at, aborted, listening, cancelReply, outcome, connected, registered>>

\* Mutant: the statement's own result wins over a cancellation.
ExecutionEndsCompleted(c) ==
  /\ c \in executing
  /\ Enter(c, "completed") /\ Respond(c, "ok")
  /\ executing' = executing \ {c}
  /\ registered' = registered \ {c}
  /\ UNCHANGED <<at, aborted, listening, cancelReply, outcome, connected>>

ExecutionEnds(c) ==
  /\ c \in executing
  /\ \/ phase[c] = "open" /\ Enter(c, "completed") /\ Respond(c, "ok")
     \/ phase[c] = "open" /\ Enter(c, "failed") /\ Respond(c, "error")
     \/ phase[c] = "promised" /\ Enter(c, "cancelled") /\ Respond(c, "error")
     \/ phase[c] = "promised" /\ Enter(c, "failed") /\ Respond(c, "error")
  /\ executing' = executing \ {c}
  /\ registered' = registered \ {c}
  /\ UNCHANGED <<at, aborted, listening, cancelReply, outcome, connected>>

CancelArrives(c) == c \in CancellableCall /\ cancelReply[c] = "inFlight"

\* Before activation a cancel always takes effect and removes the entry.
ServeCancelPending(c) ==
  /\ CancelArrives(c) /\ connected /\ c \in registered
  /\ phase[c] = "open"
  /\ Enter(c, "promised")
  /\ RespondCancel(c, "true")
  /\ registered' = registered \ {c}
  /\ UNCHANGED <<at, aborted, listening, reply, outcome, connected, executing>>

ServeCancelRunning(c) ==
  /\ CancelArrives(c) /\ connected /\ c \in registered \cap executing
  /\ phase[c] = "open"
  /\ \/ Enter(c, "promised") /\ RespondCancel(c, "true")
     \/ \E refusal \in {"false", "error"} : RespondCancel(c, refusal) /\ UNCHANGED phase
  /\ UNCHANGED <<at, aborted, listening, reply, outcome, connected, registered, executing>>

ServeCancelUnknown(c) ==
  /\ CancelArrives(c)
  /\ \/ ~connected /\ RespondCancel(c, "error")
     \/ connected /\ c \notin registered /\ RespondCancel(c, "false")
  /\ UNCHANGED <<at, aborted, listening, reply, outcome, serverVars>>

-----------------------------------------------------------------------------
Renderer(c) ==
  \/ StartExecute(c) \/ StartStream(c) \/ StartBatch(c) \/ Subscribed(c)
  \/ PrepareRejected(c) \/ PreparedExecute(c) \/ PreparedStream(c) \/ Withdrawn(c)
  \/ Replied(c) \/ Confirmed(c) \/ BatchReplied(c)

Serve(c) ==
  \/ ServePrepare(c) \/ ServeExecute(c)
  \/ ServeCancelPending(c) \/ ServeCancelRunning(c) \/ ServeCancelUnknown(c)

Next ==
  \/ \E c \in Call : Abort(c) \/ Renderer(c) \/ Serve(c) \/ ExecutionEnds(c)
  \/ Disconnect

Spec == Init /\ [][Next]_vars

\* The event loop runs continuations and the registry answers commands; a
\* statement need never end.
FairSpec ==
  /\ Spec
  /\ \A c \in Call : WF_vars(Renderer(c)) /\ WF_vars(Serve(c))

-----------------------------------------------------------------------------
(* Properties                                                              *)

\* The variables range over the values the code gives them, and the abort
\* listener is on the signal only while the execute command or the
\* cancellation it sent is awaited.
TypeOK ==
  /\ at \in [Call -> {"idle", "subscribing", "preparing", "withdrawing", "running",
                      "confirming", "settled"}]
  /\ aborted \subseteq Call
  /\ listening \subseteq {c \in CancellableCall : at[c] \in {"running", "confirming"}}
  /\ reply \in [Call -> {"none", "ok", "error"}]
  /\ cancelReply \in [CancellableCall -> {"unsent", "inFlight", "true", "false", "error"}]
  /\ outcome \in [Call -> {"none", "result", "AbortError", "Error"}]
  /\ connected \in BOOLEAN
  /\ registered \subseteq CancellableCall
  /\ executing \subseteq Call
  /\ phase \in [Call -> {"open", "promised", "completed", "cancelled", "failed"}]

\* An execute or executeStream that rejects with AbortError leaves nothing at
\* the server that could still complete: the query never started, or the
\* server confirmed its cancellation.
AbortErrorIsHonest ==
  \A c \in CancellableCall :
    outcome[c] = "AbortError" =>
      /\ phase[c] # "completed"
      /\ c \notin executing \cup registered

\* A call that resolves completed, and an uncancelled completion is only
\* reported as an error when cancel_query itself was rejected.
ResultMatchesServer ==
  \A c \in CancellableCall :
    /\ outcome[c] = "result" => phase[c] = "completed"
    /\ phase[c] = "completed" /\ at[c] = "settled" =>
         outcome[c] = "result" \/ cancelReply[c] = "error"

\* A settled call leaves no prepared id behind in the driver's active_queries.
NoPreparedIdLeft ==
  \A c \in CancellableCall : at[c] = "settled" /\ connected => c \notin registered

\* The native side as this module assumes it stays within the contract the
\* drivers are shown to implement.
Contract == INSTANCE QueryContract WITH Query <- Call
WithinContract == Contract!Spec

\* An abort of a call in progress reaches the server or finds the call over:
\* "the prepare step closes the abort-before-execute race".
AbortReaches(c) ==
  c \in aborted /\ at[c] # "idle" ~> at[c] = "settled" \/ cancelReply[c] # "unsent"

ExecuteAbortReachesServer == \A c \in ExecuteCall : AbortReaches(c)

=============================================================================
