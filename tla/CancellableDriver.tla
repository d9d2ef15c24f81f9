-------------------------- MODULE CancellableDriver --------------------------
(***************************************************************************)
(* The native PostgreSQL and MySQL drivers of QueryX: query execution      *)
(* through a bounded connection pool, the explicit transaction session     *)
(* guarded by the explicit_transaction mutex, the ActiveQuery state        *)
(* machine that cancellation goes through, and disconnect.                 *)
(*                                                                         *)
(* A Query is one ActiveQuery: query ids are fresh random UUIDs, so an id  *)
(* is prepared once.  A connection stands for the server backend behind it *)
(* (its pid or connection id).  SQL text, rows and chunks are abstracted;  *)
(* what a statement does to the data is "succeeded" or "failed".           *)
(***************************************************************************)
EXTENDS Naturals, FiniteSets

CONSTANTS
  Query,           \* executions (execute and execute_stream), by query id
  CancelCall,      \* calls of cancel
  TxCall,          \* calls of begin, commit or rollback_transaction
  Job,             \* unregistered work: metadata, sessions, locks, batches
  Conn,            \* the connections of the main pool (max_connections)
  ReadOnlyRejects, \* queries the MySQL read-only guard refuses
  MayDisconnect,   \* whether disconnect is called
  Disconnector,    \* the caller that disconnect is
  None             \* no connection, no lock holder

Caller == Query \cup TxCall \cup Job \cup {Disconnector}

ASSUME CallersDistinct ==
  /\ Query \cap TxCall = {} /\ Query \cap Job = {} /\ TxCall \cap Job = {}
  /\ Disconnector \notin Query \cup TxCall \cup Job
  /\ None \notin Caller \cup Conn
ASSUME ReadOnlyRejectsAreQueries == ReadOnlyRejects \subseteq Query
ASSUME MayDisconnectIsBoolean == MayDisconnect \in BOOLEAN

VARIABLES
  activeQueries,   \* ids in the active_queries map
  state,           \* ActiveQuery.state
  pc,              \* where execute stands
  stmt,            \* the query's statement, at the server
  outcome,         \* what execute returns
  held,            \* connection each caller has checked out or borrowed
  session,         \* the connection in explicit_transaction
  lock,            \* holder of the explicit_transaction mutex
  cpc,             \* where each cancel call stands
  target,          \* the query it cancels
  pid,             \* the backend it signals
  answer,          \* what it returns
  interrupted,     \* callers whose running statement a signal reached
  tpc, jpc, dpc    \* where transaction calls, jobs and disconnect stand

queryVars == <<pc, stmt, outcome>>
connVars == <<held, session, lock>>
cancelVars == <<cpc, target, pid, answer, interrupted>>
vars == <<activeQueries, state, queryVars, connVars, cancelVars, tpc, jpc, dpc>>

-----------------------------------------------------------------------------
(* Shared state: the pool, the mutex and who is at the server              *)

InUse == {held[a] : a \in Caller} \cup {session}
Idle == Conn \ InUse

\* pool.close() marks the pool closed at once; acquire then fails.
PoolOpen == dpc \in {"connected", "rollingBack", "rollback", "closingPool"}

ControlPoolOpen == dpc \notin {"closingControl", "disconnected"}

\* Dropping the connection, and the mutex guard when the session lent it.
Release(a) ==
  /\ held' = [held EXCEPT ![a] = None]
  /\ lock' = IF lock = a THEN None ELSE lock
  /\ UNCHANGED session

CheckOut(a, c) ==
  /\ PoolOpen /\ c \in Idle
  /\ held' = [held EXCEPT ![a] = c]
  /\ UNCHANGED <<session, lock>>

BorrowSession(a) ==
  /\ lock = None /\ session # None
  /\ lock' = a
  /\ held' = [held EXCEPT ![a] = session]
  /\ UNCHANGED session

\* The callers whose statement backend c is executing.
Executing(c) ==
  {q \in Query : held[q] = c /\ pc[q] \in {"identifying", "executing"}}
    \cup {a \in Caller \ Query : held[a] = c}

Init ==
  /\ activeQueries = {}
  /\ state = [q \in Query |-> "Pending"]
  /\ pc = [q \in Query |-> "new"]
  /\ stmt = [q \in Query |-> "none"]
  /\ outcome = [q \in Query |-> "none"]
  /\ held = [a \in Caller |-> None]
  /\ session = None
  /\ lock = None
  /\ cpc = [k \in CancelCall |-> "idle"]
  /\ target = [k \in CancelCall |-> None]
  /\ pid = [k \in CancelCall |-> None]
  /\ answer = [k \in CancelCall |-> "none"]
  /\ interrupted = {}
  /\ tpc = [t \in TxCall |-> "idle"]
  /\ jpc = [j \in Job |-> "idle"]
  /\ dpc = "connected"

-----------------------------------------------------------------------------
(* prepare and execute                                                     *)

Goto(q, step) == pc' = [pc EXCEPT ![q] = step]
Return(q, result) == outcome' = [outcome EXCEPT ![q] = result]

Prepare(q) ==
  /\ dpc = "connected" /\ pc[q] = "new"
  /\ activeQueries' = activeQueries \cup {q}
  /\ Goto(q, "prepared")
  /\ UNCHANGED <<state, stmt, outcome, connVars, cancelVars, tpc, jpc, dpc>>

\* ReadOnlyViolation: returned before the map is looked at.
RejectReadOnly(q) ==
  /\ dpc = "connected" /\ pc[q] = "prepared" /\ q \in ReadOnlyRejects
  /\ Goto(q, "returned")
  /\ Return(q, "failed")
  /\ UNCHANGED <<activeQueries, state, stmt, connVars, cancelVars, tpc, jpc, dpc>>

\* execute clones the map's Arc, or fails with InvalidQueryId.
Execute(q) ==
  /\ dpc = "connected" /\ pc[q] = "prepared" /\ q \notin ReadOnlyRejects
  /\ \/ q \in activeQueries /\ Goto(q, "locking") /\ UNCHANGED outcome
     \/ q \notin activeQueries /\ Goto(q, "returned") /\ Return(q, "failed")
  /\ UNCHANGED <<activeQueries, state, stmt, connVars, cancelVars, tpc, jpc, dpc>>

UseSession(q) ==
  /\ pc[q] = "locking"
  /\ BorrowSession(q)
  /\ Goto(q, "identifying")
  /\ UNCHANGED <<activeQueries, state, stmt, outcome, cancelVars, tpc, jpc, dpc>>

SkipSession(q) ==
  /\ pc[q] = "locking" /\ lock = None /\ session = None
  /\ Goto(q, "acquiring")
  /\ UNCHANGED <<activeQueries, state, stmt, outcome, connVars, cancelVars, tpc, jpc, dpc>>

Acquire(q, c) ==
  /\ pc[q] = "acquiring"
  /\ CheckOut(q, c)
  /\ Goto(q, "identifying")
  /\ UNCHANGED <<activeQueries, state, stmt, outcome, cancelVars, tpc, jpc, dpc>>

\* Mutant: finish_execution does not wait for the control reply.
CanFinishAtOnce(q) == TRUE

\* finish_execution, once no control request is outstanding.
CanFinish(q) == state[q] # "Cancelling"
Finished(q) == state' = [state EXCEPT ![q] = "Finished"]
\* Mutant: a refused cancellation counts as one.
WasRefusedOrCancelled(q) == state[q] \in {"Cancelled", "CompleteTrue", "CompleteFalse"}

WasCancelled(q) == state[q] \in {"Cancelled", "CompleteTrue"}

\* Acquire timeout, connection error or closed pool.
AcquireFails(q) ==
  /\ pc[q] = "acquiring" /\ CanFinish(q)
  /\ Finished(q)
  /\ Return(q, "failed")
  /\ Goto(q, "unregistering")
  /\ UNCHANGED <<activeQueries, stmt, connVars, cancelVars, tpc, jpc, dpc>>

\* Mutant: the early return of an unregistered query id.
IdentifyFailsKeepsEntry(q) ==
  /\ pc[q] = "identifying"
  /\ \/ lock = q /\ UNCHANGED state
     \/ lock # q /\ CanFinish(q) /\ Finished(q)
  /\ Release(q)
  /\ Return(q, "failed")
  /\ Goto(q, "returned")
  /\ UNCHANGED <<activeQueries, stmt, cancelVars, tpc, jpc, dpc>>

\* The pid query fails: on the session connection `?` leaves the state alone.
IdentifyFails(q) ==
  /\ pc[q] = "identifying"
  /\ \/ lock = q /\ UNCHANGED state
     \/ lock # q /\ CanFinish(q) /\ Finished(q)
  /\ Release(q)
  /\ Return(q, "failed")
  /\ Goto(q, "unregistering")
  /\ UNCHANGED <<activeQueries, stmt, cancelVars, tpc, jpc, dpc>>

\* Mutant: activate overwrites the state without matching on Pending.
ActivateAnyway(q) ==
  /\ pc[q] = "identifying" /\ CanFinish(q)
  /\ state' = [state EXCEPT ![q] = "Running"]
  /\ stmt' = [stmt EXCEPT ![q] = "running"]
  /\ Goto(q, "executing")
  /\ UNCHANGED <<activeQueries, outcome, connVars, cancelVars, tpc, jpc, dpc>>

Activate(q) ==
  /\ pc[q] = "identifying" /\ state[q] = "Pending"
  /\ state' = [state EXCEPT ![q] = "Running"]
  /\ stmt' = [stmt EXCEPT ![q] = "running"]
  /\ Goto(q, "executing")
  /\ UNCHANGED <<activeQueries, outcome, connVars, cancelVars, tpc, jpc, dpc>>

ActivateRefused(q) ==
  /\ pc[q] = "identifying" /\ state[q] # "Pending" /\ CanFinish(q)
  /\ Finished(q)
  /\ Release(q)
  /\ Return(q, "cancelled")
  /\ Goto(q, "unregistering")
  /\ UNCHANGED <<activeQueries, stmt, cancelVars, tpc, jpc, dpc>>

\* Mutant: the connection goes back to the pool before finish_execution.
StatementEndsAndReleases(q) ==
  /\ pc[q] = "executing"
  /\ \E result \in {"succeeded", "failed"} : stmt' = [stmt EXCEPT ![q] = result]
  /\ Release(q)
  /\ Goto(q, "finishing")
  /\ UNCHANGED <<activeQueries, state, outcome, cancelVars, tpc, jpc, dpc>>

\* The server answers; an interrupted statement may still have succeeded.
StatementEnds(q) ==
  /\ pc[q] = "executing"
  /\ \E result \in {"succeeded", "failed"} : stmt' = [stmt EXCEPT ![q] = result]
  /\ Goto(q, "finishing")
  /\ UNCHANGED <<activeQueries, state, outcome, connVars, cancelVars, tpc, jpc, dpc>>

\* Mutant: the connection is never handed back.
FinishExecutionKeepsConnection(q) ==
  /\ pc[q] = "finishing" /\ CanFinish(q)
  /\ Finished(q)
  /\ Return(q, IF WasCancelled(q) THEN "cancelled"
               ELSE IF stmt[q] = "succeeded" THEN "completed" ELSE "failed")
  /\ Goto(q, "unregistering")
  /\ UNCHANGED <<activeQueries, stmt, connVars, cancelVars, tpc, jpc, dpc>>

FinishExecution(q) ==
  /\ pc[q] = "finishing" /\ CanFinish(q)
  /\ Finished(q)
  /\ Return(q, IF WasCancelled(q) THEN "cancelled"
               ELSE IF stmt[q] = "succeeded" THEN "completed" ELSE "failed")
  /\ Release(q)
  /\ Goto(q, "unregistering")
  /\ UNCHANGED <<activeQueries, stmt, cancelVars, tpc, jpc, dpc>>

Unregister(q) ==
  /\ pc[q] = "unregistering"
  /\ activeQueries' = activeQueries \ {q}
  /\ Goto(q, "returned")
  /\ UNCHANGED <<state, stmt, outcome, connVars, cancelVars, tpc, jpc, dpc>>

-----------------------------------------------------------------------------
(* cancel                                                                  *)

CancelGoto(k, step) == cpc' = [cpc EXCEPT ![k] = step]

Answer(k, value) ==
  /\ answer' = [answer EXCEPT ![k] = value]
  /\ CancelGoto(k, "answered")

\* The map lookup: an id that is gone answers false.
Cancel(k, q) ==
  /\ dpc = "connected" /\ cpc[k] = "idle" /\ pc[q] # "new"
  /\ target' = [target EXCEPT ![k] = q]
  /\ \/ q \in activeQueries /\ CancelGoto(k, "requesting") /\ UNCHANGED answer
     \/ q \notin activeQueries /\ Answer(k, "false")
  /\ UNCHANGED <<activeQueries, state, queryVars, connVars, pid, interrupted, tpc, jpc, dpc>>

\* request_cancel, one action per CancelAction.
CancelBeforeStart(k) ==
  /\ cpc[k] = "requesting" /\ state[target[k]] = "Pending"
  /\ state' = [state EXCEPT ![target[k]] = "Cancelled"]
  /\ CancelGoto(k, "unregistering")
  /\ UNCHANGED <<activeQueries, queryVars, connVars, target, pid, answer, interrupted, tpc, jpc, dpc>>

CancelRunning(k) ==
  /\ cpc[k] = "requesting" /\ state[target[k]] = "Running"
  /\ state' = [state EXCEPT ![target[k]] = "Cancelling"]
  /\ pid' = [pid EXCEPT ![k] = held[target[k]]]
  /\ CancelGoto(k, "sending")
  /\ UNCHANGED <<activeQueries, queryVars, connVars, target, answer, interrupted, tpc, jpc, dpc>>

CancelRepeated(k) ==
  /\ cpc[k] = "requesting"
  /\ state[target[k]] \in {"Cancelling", "Cancelled", "CompleteTrue"}
  /\ Answer(k, "true")
  /\ UNCHANGED <<activeQueries, state, queryVars, connVars, target, pid, interrupted, tpc, jpc, dpc>>

CancelTooLate(k) ==
  /\ cpc[k] = "requesting"
  /\ state[target[k]] \in {"CompleteFalse", "Finished"}
  /\ Answer(k, "false")
  /\ UNCHANGED <<activeQueries, state, queryVars, connVars, target, pid, interrupted, tpc, jpc, dpc>>

CancelUnregister(k) ==
  /\ cpc[k] = "unregistering"
  /\ activeQueries' = activeQueries \ {target[k]}
  /\ Answer(k, "true")
  /\ UNCHANGED <<state, queryVars, connVars, target, pid, interrupted, tpc, jpc, dpc>>

\* The server runs the control statement on the one control connection: the
\* signal reaches whatever the backend is executing at that moment.
SendSignal(k) ==
  /\ cpc[k] = "sending" /\ ControlPoolOpen
  /\ \A other \in CancelCall : cpc[other] # "signalled"
  /\ interrupted' = interrupted \cup Executing(pid[k])
  /\ CancelGoto(k, "signalled")
  /\ UNCHANGED <<activeQueries, state, queryVars, connVars, target, pid, answer, tpc, jpc, dpc>>

CompleteCancellation(k) ==
  /\ cpc[k] = "signalled"
  /\ state' = [state EXCEPT ![target[k]] = "CompleteTrue"]
  /\ Answer(k, "true")
  /\ UNCHANGED <<activeQueries, queryVars, connVars, target, pid, interrupted, tpc, jpc, dpc>>

\* Mutant: the early return without complete_cancellation(false).
CancellationFailsSilently(k) ==
  /\ cpc[k] \in {"sending", "signalled"}
  /\ \E value \in {"false", "error"} : Answer(k, value)
  /\ UNCHANGED <<activeQueries, state, queryVars, connVars, target, pid, interrupted, tpc, jpc, dpc>>

\* No control connection, a refusal by the server, or a lost reply.
CancellationFails(k) ==
  /\ cpc[k] \in {"sending", "signalled"}
  /\ state' = [state EXCEPT ![target[k]] = "CompleteFalse"]
  /\ \E value \in {"false", "error"} : Answer(k, value)
  /\ UNCHANGED <<activeQueries, queryVars, connVars, target, pid, interrupted, tpc, jpc, dpc>>

-----------------------------------------------------------------------------
(* begin_transaction, commit_transaction and rollback_transaction          *)

TxGoto(t, step) == tpc' = [tpc EXCEPT ![t] = step]

CallTransaction(t) ==
  /\ dpc = "connected" /\ tpc[t] = "idle"
  /\ \E step \in {"beginLocking", "endLocking"} : TxGoto(t, step)
  /\ UNCHANGED <<activeQueries, state, queryVars, connVars, cancelVars, jpc, dpc>>

BeginLock(t) ==
  /\ tpc[t] = "beginLocking" /\ lock = None
  /\ \/ session = None /\ lock' = t /\ TxGoto(t, "beginAcquiring")
     \/ session # None /\ TxGoto(t, "returned") /\ UNCHANGED lock
  /\ UNCHANGED <<activeQueries, state, queryVars, held, session, cancelVars, jpc, dpc>>

BeginAcquire(t, c) ==
  /\ tpc[t] = "beginAcquiring"
  /\ CheckOut(t, c)
  /\ TxGoto(t, "beginning")
  /\ UNCHANGED <<activeQueries, state, queryVars, cancelVars, jpc, dpc>>

\* The acquire or the BEGIN statement fails.
BeginFails(t) ==
  /\ tpc[t] \in {"beginAcquiring", "beginning"}
  /\ Release(t)
  /\ TxGoto(t, "returned")
  /\ UNCHANGED <<activeQueries, state, queryVars, cancelVars, jpc, dpc>>

Begun(t) ==
  /\ tpc[t] = "beginning"
  /\ session' = held[t]
  /\ held' = [held EXCEPT ![t] = None]
  /\ lock' = None
  /\ TxGoto(t, "returned")
  /\ UNCHANGED <<activeQueries, state, queryVars, cancelVars, jpc, dpc>>

\* Mutant: the session is taken without waiting for the mutex.
TakeSessionUnlocked(a) ==
  /\ session # None
  /\ lock' = a
  /\ held' = [held EXCEPT ![a] = session]
  /\ session' = None

\* explicit_transaction.take(), the guard kept to the end of the call.
TakeSession(a) ==
  /\ lock = None /\ session # None
  /\ lock' = a
  /\ held' = [held EXCEPT ![a] = session]
  /\ session' = None

EndLock(t) ==
  /\ tpc[t] = "endLocking"
  /\ \/ TakeSession(t) /\ TxGoto(t, "ending")
     \/ lock = None /\ session = None /\ TxGoto(t, "returned") /\ UNCHANGED connVars
  /\ UNCHANGED <<activeQueries, state, queryVars, cancelVars, jpc, dpc>>

\* COMMIT or ROLLBACK answers or fails: the connection is returned either way.
Ended(t) ==
  /\ tpc[t] = "ending"
  /\ Release(t)
  /\ TxGoto(t, "returned")
  /\ UNCHANGED <<activeQueries, state, queryVars, cancelVars, jpc, dpc>>

-----------------------------------------------------------------------------
(* Work that is not in active_queries                                      *)

JobGoto(j, step) == jpc' = [jpc EXCEPT ![j] = step]

CallJob(j) ==
  /\ dpc = "connected" /\ jpc[j] = "idle"
  /\ JobGoto(j, "waiting")
  /\ UNCHANGED <<activeQueries, state, queryVars, connVars, cancelVars, tpc, dpc>>

\* metadata, sessions and locks take a pool connection; a batch takes one
\* only when there is no session, and borrows the session's otherwise.
JobAcquire(j, c) ==
  /\ jpc[j] = "waiting"
  /\ CheckOut(j, c)
  /\ JobGoto(j, "working")
  /\ UNCHANGED <<activeQueries, state, queryVars, cancelVars, tpc, dpc>>

BatchOnSession(j) ==
  /\ jpc[j] = "waiting"
  /\ BorrowSession(j)
  /\ JobGoto(j, "working")
  /\ UNCHANGED <<activeQueries, state, queryVars, cancelVars, tpc, dpc>>

JobEnds(j) ==
  /\ jpc[j] \in {"waiting", "working"}
  /\ Release(j)
  /\ JobGoto(j, "returned")
  /\ UNCHANGED <<activeQueries, state, queryVars, cancelVars, tpc, dpc>>

-----------------------------------------------------------------------------
(* disconnect: the registry has already forgotten the connection           *)

Disconnect ==
  /\ MayDisconnect /\ dpc = "connected"
  /\ dpc' = "rollingBack"
  /\ UNCHANGED <<activeQueries, state, queryVars, connVars, cancelVars, tpc, jpc>>

DisconnectLock ==
  /\ dpc = "rollingBack"
  /\ \/ TakeSession(Disconnector) /\ dpc' = "rollback"
     \/ lock = None /\ session = None /\ dpc' = "closingPool" /\ UNCHANGED connVars
  /\ UNCHANGED <<activeQueries, state, queryVars, cancelVars, tpc, jpc>>

DisconnectRolledBack ==
  /\ dpc = "rollback"
  /\ Release(Disconnector)
  /\ dpc' = "closingPool"
  /\ UNCHANGED <<activeQueries, state, queryVars, cancelVars, tpc, jpc>>

ClosePool ==
  /\ dpc = "closingPool"
  /\ dpc' = "draining"
  /\ UNCHANGED <<activeQueries, state, queryVars, connVars, cancelVars, tpc, jpc>>

\* Mutant: close does not wait for the connections that are out.
PoolDrainedEarly ==
  /\ dpc = "draining"
  /\ dpc' = "closingControl"
  /\ UNCHANGED <<activeQueries, state, queryVars, connVars, cancelVars, tpc, jpc>>

\* pool.close() returns once every connection has come back.
PoolDrained ==
  /\ dpc = "draining" /\ InUse = {None}
  /\ dpc' = "closingControl"
  /\ UNCHANGED <<activeQueries, state, queryVars, connVars, cancelVars, tpc, jpc>>

CloseControlPool ==
  /\ dpc = "closingControl"
  /\ \A k \in CancelCall : cpc[k] # "signalled"
  /\ dpc' = "disconnected"
  /\ UNCHANGED <<activeQueries, state, queryVars, connVars, cancelVars, tpc, jpc>>

-----------------------------------------------------------------------------
QueryStep(q) ==
  \/ Prepare(q) \/ RejectReadOnly(q) \/ Execute(q)
  \/ UseSession(q) \/ SkipSession(q)
  \/ \E c \in Conn : Acquire(q, c)
  \/ AcquireFails(q) \/ IdentifyFails(q)
  \/ Activate(q) \/ ActivateRefused(q)
  \/ StatementEnds(q) \/ FinishExecution(q) \/ Unregister(q)

CancelStep(k) ==
  \/ \E q \in Query : Cancel(k, q)
  \/ CancelBeforeStart(k) \/ CancelRunning(k) \/ CancelRepeated(k) \/ CancelTooLate(k)
  \/ CancelUnregister(k)
  \/ SendSignal(k) \/ CompleteCancellation(k) \/ CancellationFails(k)

TxStep(t) ==
  \/ CallTransaction(t)
  \/ BeginLock(t) \/ (\E c \in Conn : BeginAcquire(t, c)) \/ BeginFails(t) \/ Begun(t)
  \/ EndLock(t) \/ Ended(t)

JobStep(j) ==
  \/ CallJob(j) \/ (\E c \in Conn : JobAcquire(j, c)) \/ BatchOnSession(j) \/ JobEnds(j)

DisconnectStep ==
  \/ Disconnect \/ DisconnectLock \/ DisconnectRolledBack
  \/ ClosePool \/ PoolDrained \/ CloseControlPool

Next ==
  \/ \E q \in Query : QueryStep(q)
  \/ \E k \in CancelCall : CancelStep(k)
  \/ \E t \in TxCall : TxStep(t)
  \/ \E j \in Job : JobStep(j)
  \/ DisconnectStep

Spec == Init /\ [][Next]_vars

-----------------------------------------------------------------------------
(* Properties                                                              *)

States == {"Pending", "Running", "Cancelling", "Cancelled",
           "CompleteTrue", "CompleteFalse", "Finished"}

\* The variables range over the states the code's types and steps name.
TypeOK ==
  /\ activeQueries \subseteq Query
  /\ state \in [Query -> States]
  /\ pc \in [Query -> {"new", "prepared", "locking", "acquiring", "identifying",
                       "executing", "finishing", "unregistering", "returned"}]
  /\ stmt \in [Query -> {"none", "running", "succeeded", "failed"}]
  /\ outcome \in [Query -> {"none", "completed", "cancelled", "failed"}]
  /\ held \in [Caller -> Conn \cup {None}]
  /\ session \in Conn \cup {None}
  /\ lock \in Caller \cup {None}
  /\ cpc \in [CancelCall -> {"idle", "requesting", "unregistering", "sending",
                             "signalled", "answered"}]
  /\ target \in [CancelCall -> Query \cup {None}]
  /\ pid \in [CancelCall -> Conn \cup {None}]
  /\ answer \in [CancelCall -> {"none", "true", "false", "error"}]
  /\ interrupted \subseteq Caller
  /\ tpc \in [TxCall -> {"idle", "beginLocking", "beginAcquiring", "beginning",
                         "endLocking", "ending", "returned"}]
  /\ jpc \in [Job -> {"idle", "waiting", "working", "returned"}]
  /\ dpc \in {"connected", "rollingBack", "rollback", "closingPool", "draining",
              "closingControl", "disconnected"}

\* No two callers ever drive one backend at once: the pool, the session and
\* the mutex together keep a connection to a single user.
BackendExclusive ==
  \A a, b \in Caller : a # b /\ held[a] # None => held[a] # held[b]

\* The execution connection is retained until the control request is over:
\* while a cancel may still signal a backend, its target is the query that
\* holds that backend.
SignalPending(k) == cpc[k] \in {"sending", "signalled"}
SignalHitsTarget ==
  \A k \in CancelCall :
    SignalPending(k) => /\ state[target[k]] = "Cancelling"
                        /\ pid[k] # None
                        /\ held[target[k]] = pid[k]

\* A statement is only ever interrupted by a cancel of that very query: no
\* late signal reaches another query, a batch, a BEGIN or a COMMIT.
InterruptsOnlyTargets ==
  \A a \in interrupted :
    \E k \in CancelCall : target[k] = a /\ cpc[k] \in {"signalled", "answered"}

\* execute reports QueryCancelled only for a query some cancel was, or is
\* about to be, answered true for.
CancelledWasRequested ==
  \A q \in Query :
    outcome[q] = "cancelled" =>
      \E k \in CancelCall :
        target[k] = q /\ (cpc[k] = "unregistering" \/ answer[k] = "true")

\* When execute has returned its entry is gone: active_queries does not grow.
\* (RejectReadOnly leaves the entry behind, see the README.)
NoEntryLeak ==
  \A q \in Query \ ReadOnlyRejects : pc[q] = "returned" => q \notin activeQueries

\* disconnect never closes the control pool under a cancel that needs it.
ControlPoolOutlivesCancels ==
  ~ControlPoolOpen => \A q \in Query : state[q] # "Cancelling"

\* Finished is final: an outstanding control reply never revives a query.
FinishedIsFinal ==
  [][\A q \in Query : state[q] = "Finished" => state'[q] = "Finished"]_vars

-----------------------------------------------------------------------------
(* The contract of QueryContract, as this driver keeps it                  *)

PhaseOf(q) ==
  IF outcome[q] # "none" THEN outcome[q]
  ELSE IF WasCancelled(q) THEN "promised" ELSE "open"

phase == [q \in Query |-> PhaseOf(q)]

Contract == INSTANCE QueryContract

\* Every driver step is a step of the contract or leaves the phases alone: no
\* query completes after a cancel took effect, none is reported cancelled
\* without one, and none settles twice.
ImplementsContract == Contract!Spec

-----------------------------------------------------------------------------
(* Fairness: a Tokio task that can run does run, acquires time out, the    *)
(* server answers.  The mutex is FIFO, hence strong fairness on taking it. *)

TakesLock(q) == UseSession(q) \/ SkipSession(q)

Proceeds(q) ==
  \/ AcquireFails(q) \/ IdentifyFails(q) \/ Activate(q) \/ ActivateRefused(q)
  \/ FinishExecution(q) \/ Unregister(q)

ControlProceeds(k) ==
  \/ CancelBeforeStart(k) \/ CancelRunning(k) \/ CancelRepeated(k) \/ CancelTooLate(k)
  \/ CancelUnregister(k) \/ CompleteCancellation(k) \/ CancellationFails(k)

\* Only an interrupted statement has to end: others may run for ever.
ServerFairness ==
  \A q \in Query : WF_vars(q \in interrupted /\ StatementEnds(q))

ClientFairness ==
  /\ \A q \in Query : WF_vars(Proceeds(q)) /\ SF_vars(TakesLock(q))
  /\ \A k \in CancelCall : WF_vars(ControlProceeds(k))
  /\ \A t \in TxCall : /\ SF_vars(BeginLock(t) \/ EndLock(t))
                       /\ WF_vars(BeginFails(t) \/ Begun(t) \/ Ended(t))
  /\ \A j \in Job : WF_vars(JobEnds(j))
  /\ WF_vars(DisconnectRolledBack \/ ClosePool \/ PoolDrained \/ CloseControlPool)
  /\ SF_vars(DisconnectLock)

FairSpec == Spec /\ ClientFairness /\ ServerFairness

\* A run in which every statement ends.
StatementsEnd == \A q \in Query : WF_vars(StatementEnds(q))

\* A query whose statement a cancel interrupted returns, however long the
\* other statements run: finish_execution misses no notification.
InterruptedReturns ==
  \A q \in Query : q \in interrupted ~> pc[q] = "returned"

\* Once statements end, every execution returns: no wait on the mutex, the
\* pool or a control reply is endless.
ExecutionReturns ==
  StatementsEnd => \A q \in Query : pc[q] = "locking" ~> pc[q] = "returned"

\* disconnect returns when no transaction call is in flight as it starts.
TxQuiet == \A t \in TxCall : tpc[t] \in {"idle", "returned"}
DisconnectReturns ==
  StatementsEnd => (dpc = "rollingBack" /\ TxQuiet ~> dpc = "disconnected")

=============================================================================
