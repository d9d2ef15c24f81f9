---------------------- MODULE CancellableDriverProofs ----------------------
(***************************************************************************)
(* The safety properties of CancellableDriver hold for every number of     *)
(* queries, calls and connections.                                         *)
(***************************************************************************)
EXTENDS CancellableDriver, TLAPS

\* A cancel call past its lookup has a target.
TargetKnown == \A k \in CancelCall : cpc[k] # "idle" => target[k] \in Query

TypeInv == TypeOK /\ TargetKnown

LEMMA InitTypeInv == Init => TypeInv
  BY CallersDistinct DEF Init, TypeInv, TypeOK, TargetKnown, States

LEMMA QueryStepTypeInv ==
  ASSUME NEW q \in Query, TypeInv, QueryStep(q)
  PROVE  TypeInv'
<1> USE DEF TypeInv, TypeOK, TargetKnown, States, Goto, Return, queryVars, connVars, cancelVars
<1> USE CallersDistinct
<1>0. q \in Caller BY DEF Caller
<1>1. CASE Prepare(q) BY <1>1 DEF Prepare
<1>2. CASE RejectReadOnly(q) BY <1>2 DEF RejectReadOnly
<1>3. CASE Execute(q) BY <1>3 DEF Execute
<1>4. CASE UseSession(q) BY <1>0, <1>4 DEF UseSession, BorrowSession
<1>5. CASE SkipSession(q) BY <1>5 DEF SkipSession
<1>6. CASE \E c \in Conn : Acquire(q, c) BY <1>0, <1>6 DEF Acquire, CheckOut
<1>7. CASE AcquireFails(q) BY <1>7 DEF AcquireFails, Finished
<1>8. CASE IdentifyFails(q) BY <1>0, <1>8 DEF IdentifyFails, Finished, Release
<1>9. CASE Activate(q) BY <1>9 DEF Activate
<1>10. CASE ActivateRefused(q) BY <1>0, <1>10 DEF ActivateRefused, Finished, Release
<1>11. CASE StatementEnds(q) BY <1>11 DEF StatementEnds
<1>12. CASE FinishExecution(q) BY <1>0, <1>12 DEF FinishExecution, Finished, Release
<1>13. CASE Unregister(q) BY <1>13 DEF Unregister
<1>14. QED
  BY <1>1, <1>2, <1>3, <1>4, <1>5, <1>6, <1>7, <1>8, <1>9, <1>10, <1>11, <1>12, <1>13
     DEF QueryStep

LEMMA CancelStepTypeInv ==
  ASSUME NEW k \in CancelCall, TypeInv, CancelStep(k)
  PROVE  TypeInv'
<1> USE DEF TypeInv, TypeOK, TargetKnown, States, CancelGoto, Answer, queryVars, connVars
<1> USE CallersDistinct
<1>0. Query \subseteq Caller BY DEF Caller
<1>1. CASE \E q \in Query : Cancel(k, q) BY <1>1 DEF Cancel
<1>2. CASE CancelBeforeStart(k) BY <1>2 DEF CancelBeforeStart
<1>3. CASE CancelRunning(k) BY <1>0, <1>3 DEF CancelRunning
<1>4. CASE CancelRepeated(k) BY <1>4 DEF CancelRepeated
<1>5. CASE CancelTooLate(k) BY <1>5 DEF CancelTooLate
<1>6. CASE CancelUnregister(k) BY <1>6 DEF CancelUnregister
<1>7. CASE SendSignal(k) BY <1>0, <1>7 DEF SendSignal, Executing
<1>8. CASE CompleteCancellation(k) BY <1>8 DEF CompleteCancellation
<1>9. CASE CancellationFails(k) BY <1>9 DEF CancellationFails
<1>10. QED
  BY <1>1, <1>2, <1>3, <1>4, <1>5, <1>6, <1>7, <1>8, <1>9 DEF CancelStep

LEMMA OtherStepTypeInv ==
  ASSUME TypeInv,
         \/ \E t \in TxCall : TxStep(t)
         \/ \E j \in Job : JobStep(j)
         \/ DisconnectStep
  PROVE  TypeInv'
<1> USE DEF TypeInv, TypeOK, TargetKnown, queryVars, connVars, cancelVars,
            Release, CheckOut, TakeSession, BorrowSession
<1> USE CallersDistinct
<1>0. TxCall \subseteq Caller /\ Job \subseteq Caller /\ Disconnector \in Caller BY DEF Caller
<1>1. ASSUME NEW t \in TxCall, TxStep(t) PROVE TypeInv'
  BY <1>0, <1>1 DEF TxStep, CallTransaction, BeginLock, BeginAcquire, BeginFails, Begun,
                    EndLock, Ended, TxGoto
<1>2. ASSUME NEW j \in Job, JobStep(j) PROVE TypeInv'
  BY <1>0, <1>2 DEF JobStep, CallJob, JobAcquire, BatchOnSession, JobEnds, JobGoto
<1>3. CASE DisconnectStep
  BY <1>0, <1>3 DEF DisconnectStep, Disconnect, DisconnectLock, DisconnectRolledBack,
                    ClosePool, PoolDrained, CloseControlPool
<1>4. QED BY <1>1, <1>2, <1>3

LEMMA NextTypeInv == TypeInv /\ [Next]_vars => TypeInv'
<1>1. CASE UNCHANGED vars
  BY <1>1 DEF TypeInv, TypeOK, TargetKnown, vars, queryVars, connVars, cancelVars
<1>2. QED
  BY <1>1, QueryStepTypeInv, CancelStepTypeInv, OtherStepTypeInv DEF Next

LEMMA TypeInvariant == Spec => []TypeInv
  BY InitTypeInv, NextTypeInv, PTL DEF Spec

\* Every variable keeps its type: no step of the code leaves the states it names.
THEOREM TypeCorrect == Spec => []TypeOK
<1>1. TypeInv => TypeOK BY DEF TypeInv
<1>2. QED BY <1>1, TypeInvariant, PTL

-----------------------------------------------------------------------------
(* Who holds which connection                                              *)

\* The session connection is only ever used under the mutex.
SessionLent == \A a \in Caller : session # None /\ held[a] = session => lock = a

Ownership == BackendExclusive /\ SessionLent

\* Begin takes the mutex before it acquires, and hands its connection over.
LocksFor(t) == lock = None /\ lock' = t /\ UNCHANGED <<held, session>>
HandsOver(t) ==
  session' = held[t] /\ held' = [held EXCEPT ![t] = None] /\ lock' = None

\* All that a step can do to the connections.
ConnectionStep ==
  \/ UNCHANGED connVars
  \/ \E a \in Caller :
       \/ Release(a) \/ TakeSession(a) \/ BorrowSession(a)
       \/ LocksFor(a) \/ HandsOver(a)
       \/ \E c \in Conn : CheckOut(a, c)

LEMMA NextIsConnectionStep == [Next]_vars => ConnectionStep
<1> USE DEF connVars
<1>1. ASSUME NEW q \in Query, QueryStep(q) PROVE ConnectionStep
  <2>1. q \in Caller BY DEF Caller
  <2>2. QED
    BY <1>1, <2>1 DEF ConnectionStep, QueryStep, Prepare, RejectReadOnly, Execute, UseSession,
       SkipSession, Acquire, AcquireFails, IdentifyFails, Activate, ActivateRefused,
       StatementEnds, FinishExecution, Unregister
<1>2. ASSUME NEW k \in CancelCall, CancelStep(k) PROVE ConnectionStep
  BY <1>2 DEF ConnectionStep, CancelStep, Cancel, CancelBeforeStart, CancelRunning,
     CancelRepeated, CancelTooLate, CancelUnregister, SendSignal, CompleteCancellation,
     CancellationFails
<1>3. ASSUME NEW t \in TxCall, TxStep(t) PROVE ConnectionStep
  <2>1. t \in Caller BY DEF Caller
  <2>2. QED
    BY <1>3, <2>1 DEF ConnectionStep, TxStep, CallTransaction, BeginLock, BeginAcquire,
       BeginFails, Begun, EndLock, Ended, LocksFor, HandsOver
<1>4. ASSUME NEW j \in Job, JobStep(j) PROVE ConnectionStep
  <2>1. j \in Caller BY DEF Caller
  <2>2. QED
    BY <1>4, <2>1 DEF ConnectionStep, JobStep, CallJob, JobAcquire, BatchOnSession, JobEnds
<1>5. CASE DisconnectStep
  <2>1. Disconnector \in Caller BY DEF Caller
  <2>2. QED
    BY <1>5, <2>1 DEF ConnectionStep, DisconnectStep, Disconnect, DisconnectLock,
       DisconnectRolledBack, ClosePool, PoolDrained, CloseControlPool
<1>6. CASE UNCHANGED vars BY <1>6 DEF ConnectionStep, vars
<1>7. QED BY <1>1, <1>2, <1>3, <1>4, <1>5, <1>6 DEF Next

LEMMA OwnershipStep == TypeInv /\ Ownership /\ [Next]_vars => Ownership'
<1>1. SUFFICES ASSUME TypeInv, Ownership, ConnectionStep PROVE Ownership'
  BY NextIsConnectionStep
<1> USE <1>1, CallersDistinct DEF Ownership, BackendExclusive, SessionLent, TypeInv, TypeOK
<1>2. CASE UNCHANGED connVars BY <1>2 DEF connVars
<1>3. ASSUME NEW a \in Caller, Release(a) PROVE Ownership' BY <1>3 DEF Release
<1>4. ASSUME NEW a \in Caller, TakeSession(a) PROVE Ownership' BY <1>4 DEF TakeSession
<1>5. ASSUME NEW a \in Caller, BorrowSession(a) PROVE Ownership' BY <1>5 DEF BorrowSession
<1>6. ASSUME NEW a \in Caller, LocksFor(a) PROVE Ownership' BY <1>6 DEF LocksFor
<1>7. ASSUME NEW a \in Caller, HandsOver(a) PROVE Ownership' BY <1>7 DEF HandsOver
<1>8. ASSUME NEW a \in Caller, NEW c \in Conn, CheckOut(a, c) PROVE Ownership'
  BY <1>8 DEF CheckOut, Idle, InUse
<1>9. QED BY <1>2, <1>3, <1>4, <1>5, <1>6, <1>7, <1>8 DEF ConnectionStep

\* No two callers ever hold one backend: pool, mutex and session exclude each other.
THEOREM BackendIsExclusive == Spec => []BackendExclusive
<1>1. Init => Ownership
  BY CallersDistinct DEF Init, Ownership, BackendExclusive, SessionLent
<1>2. TypeInv /\ Ownership /\ [Next]_vars => Ownership' BY OwnershipStep
<1>3. Ownership => BackendExclusive BY DEF Ownership
<1>4. QED BY <1>1, <1>2, <1>3, TypeInvariant, PTL DEF Spec

-----------------------------------------------------------------------------
(* The signal reaches its target                                           *)

UsesBackend(q) == pc[q] \in {"identifying", "executing", "finishing"}
Activated == {"Running", "Cancelling", "CompleteTrue", "CompleteFalse"}

\* execute holds a connection exactly while it uses the server.
HeldWhileUsing == \A q \in Query : held[q] # None <=> UsesBackend(q)

\* The state machine is past activation exactly while the statement is out.
StateFollowsStep ==
  \A q \in Query : state[q] \in Activated <=> pc[q] \in {"executing", "finishing"}

\* Running -> Cancelling happens once, so one cancel at most may signal a query.
OneSignal ==
  \A k, l \in CancelCall :
    SignalPending(k) /\ SignalPending(l) /\ k # l => target[k] # target[l]

QueryInv == HeldWhileUsing /\ StateFollowsStep /\ OneSignal /\ SignalHitsTarget

SignalInv == TypeInv /\ Ownership /\ QueryInv

LEMMA InitSignalInv == Init => SignalInv
<1>1. Init => HeldWhileUsing /\ StateFollowsStep /\ OneSignal /\ SignalHitsTarget
  BY DEF Init, Caller, HeldWhileUsing, UsesBackend, StateFollowsStep, Activated, OneSignal,
         SignalHitsTarget, SignalPending
<1>2. Init => Ownership
  BY CallersDistinct DEF Init, Ownership, BackendExclusive, SessionLent
<1>3. QED BY <1>1, <1>2, InitTypeInv DEF SignalInv, QueryInv

LEMMA QueryStepSignalInv ==
  ASSUME NEW q \in Query, SignalInv, QueryStep(q)
  PROVE  QueryInv'
<1> USE CallersDistinct
    DEF SignalInv, QueryInv, TypeInv, TypeOK, TargetKnown, HeldWhileUsing, UsesBackend, StateFollowsStep,
        Activated, OneSignal, SignalHitsTarget, SignalPending, Goto, Return, connVars, cancelVars
<1>0. Query \subseteq Caller BY DEF Caller
<1>1. CASE Prepare(q) BY <1>0, <1>1 DEF Prepare
<1>2. CASE RejectReadOnly(q) BY <1>0, <1>2 DEF RejectReadOnly
<1>3. CASE Execute(q) BY <1>0, <1>3 DEF Execute
<1>4. CASE UseSession(q) BY <1>0, <1>4 DEF UseSession, BorrowSession
<1>5. CASE SkipSession(q) BY <1>0, <1>5 DEF SkipSession
<1>6. CASE \E c \in Conn : Acquire(q, c) BY <1>0, <1>6 DEF Acquire, CheckOut, Caller
<1>7. CASE AcquireFails(q) BY <1>0, <1>7 DEF AcquireFails, Finished, CanFinish
<1>8. CASE IdentifyFails(q) BY <1>0, <1>8 DEF IdentifyFails, Finished, CanFinish, Release
<1>9. CASE Activate(q) BY <1>0, <1>9 DEF Activate
<1>10. CASE ActivateRefused(q)
  BY <1>0, <1>10 DEF ActivateRefused, Finished, CanFinish, Release
<1>11. CASE StatementEnds(q) BY <1>0, <1>11 DEF StatementEnds
<1>12. CASE FinishExecution(q)
  BY <1>0, <1>12 DEF FinishExecution, Finished, CanFinish, Release
<1>13. CASE Unregister(q) BY <1>0, <1>13 DEF Unregister
<1>14. QED
  BY <1>1, <1>2, <1>3, <1>4, <1>5, <1>6, <1>7, <1>8, <1>9, <1>10, <1>11, <1>12, <1>13
     DEF QueryStep

LEMMA CancelStepSignalInv ==
  ASSUME NEW k \in CancelCall, SignalInv, CancelStep(k)
  PROVE  QueryInv'
<1> USE CallersDistinct
    DEF SignalInv, QueryInv, TypeInv, TypeOK, TargetKnown, HeldWhileUsing, UsesBackend, StateFollowsStep,
        Activated, OneSignal, SignalHitsTarget, SignalPending, CancelGoto, Answer,
        connVars, queryVars
<1>0. Query \subseteq Caller BY DEF Caller
<1>1. CASE \E q \in Query : Cancel(k, q) BY <1>0, <1>1 DEF Cancel
<1>2. CASE CancelBeforeStart(k) BY <1>0, <1>2 DEF CancelBeforeStart
<1>3. CASE CancelRunning(k) BY <1>0, <1>3 DEF CancelRunning
<1>4. CASE CancelRepeated(k) BY <1>0, <1>4 DEF CancelRepeated
<1>5. CASE CancelTooLate(k) BY <1>0, <1>5 DEF CancelTooLate
<1>6. CASE CancelUnregister(k) BY <1>0, <1>6 DEF CancelUnregister
<1>7. CASE SendSignal(k) BY <1>0, <1>7 DEF SendSignal
<1>8. CASE CompleteCancellation(k) BY <1>0, <1>8 DEF CompleteCancellation
<1>9. CASE CancellationFails(k) BY <1>0, <1>9 DEF CancellationFails
<1>10. QED
  BY <1>1, <1>2, <1>3, <1>4, <1>5, <1>6, <1>7, <1>8, <1>9 DEF CancelStep

\* Transactions, jobs and disconnect leave every query and cancel as it is.
OtherStep ==
  \/ \E t \in TxCall : TxStep(t)
  \/ \E j \in Job : JobStep(j)
  \/ DisconnectStep

LEMMA OtherStepFrame ==
  ASSUME TypeInv, OtherStep
  PROVE  /\ UNCHANGED <<activeQueries, state, queryVars, cancelVars>>
         /\ \A q \in Query : held'[q] = held[q]
<1>1. ASSUME NEW t \in TxCall, TxStep(t)
      PROVE  UNCHANGED <<activeQueries, state, queryVars, cancelVars>>
  BY <1>1 DEF TxStep, CallTransaction, BeginLock, BeginAcquire, BeginFails, Begun, EndLock,
              Ended, queryVars, cancelVars
<1>2. ASSUME NEW j \in Job, JobStep(j)
      PROVE  UNCHANGED <<activeQueries, state, queryVars, cancelVars>>
  BY <1>2 DEF JobStep, CallJob, JobAcquire, BatchOnSession, JobEnds, queryVars, cancelVars
<1>3. ASSUME DisconnectStep
      PROVE  UNCHANGED <<activeQueries, state, queryVars, cancelVars>>
  BY <1>3 DEF DisconnectStep, Disconnect, DisconnectLock, DisconnectRolledBack, ClosePool,
              PoolDrained, CloseControlPool, queryVars, cancelVars
<1>4. UNCHANGED <<activeQueries, state, queryVars, cancelVars>>
  BY <1>1, <1>2, <1>3 DEF OtherStep
<1>5. \E a \in Caller \ Query, v \in Conn \cup {None} :
        held' = held \/ held' = [held EXCEPT ![a] = v]
  <2> USE CallersDistinct DEF TypeInv, TypeOK, Caller, connVars, Release, CheckOut, TakeSession,
                              BorrowSession
  <2>1. ASSUME NEW t \in TxCall, TxStep(t)
        PROVE  held' = held \/ \E v \in Conn \cup {None} : held' = [held EXCEPT ![t] = v]
    BY <2>1 DEF TxStep, CallTransaction, BeginLock, BeginAcquire, BeginFails, Begun, EndLock, Ended
  <2>2. ASSUME NEW j \in Job, JobStep(j)
        PROVE  held' = held \/ \E v \in Conn \cup {None} : held' = [held EXCEPT ![j] = v]
    BY <2>2 DEF JobStep, CallJob, JobAcquire, BatchOnSession, JobEnds
  <2>3. ASSUME DisconnectStep
        PROVE  held' = held
               \/ \E v \in Conn \cup {None} : held' = [held EXCEPT ![Disconnector] = v]
    BY <2>3 DEF DisconnectStep, Disconnect, DisconnectLock, DisconnectRolledBack, ClosePool,
                PoolDrained, CloseControlPool
  <2>4. QED BY <2>1, <2>2, <2>3 DEF OtherStep
<1>6. \A q \in Query : held'[q] = held[q]
  BY <1>5 DEF TypeInv, TypeOK, Caller
<1>7. QED BY <1>4, <1>6

LEMMA NextSignalInv == SignalInv /\ [Next]_vars => SignalInv'
<1> SUFFICES ASSUME SignalInv, [Next]_vars PROVE SignalInv'
  OBVIOUS
<1>1. TypeInv' /\ Ownership' BY NextTypeInv, OwnershipStep DEF SignalInv
<1>2. ASSUME OtherStep PROVE QueryInv'
  BY <1>2, OtherStepFrame
     DEF SignalInv, QueryInv, TypeInv, TargetKnown, HeldWhileUsing, UsesBackend, StateFollowsStep,
         Activated, OneSignal, SignalHitsTarget, SignalPending, queryVars, cancelVars
<1>3. ASSUME UNCHANGED vars PROVE QueryInv'
  BY <1>3
     DEF SignalInv, QueryInv, HeldWhileUsing, UsesBackend, StateFollowsStep, Activated, OneSignal,
         SignalHitsTarget, SignalPending, vars, queryVars, connVars, cancelVars
<1>4. QueryInv'
  BY <1>2, <1>3, QueryStepSignalInv, CancelStepSignalInv DEF Next, OtherStep
<1>5. QED BY <1>1, <1>4 DEF SignalInv

LEMMA SignalInvariant == Spec => []SignalInv
  BY InitSignalInv, NextSignalInv, PTL DEF Spec

\* The execution connection is retained until the control request is over: a
\* pending signal always finds its own query on the backend.
THEOREM SignalsHitTheirTargets == Spec => []SignalHitsTarget
<1>1. SignalInv => SignalHitsTarget BY DEF SignalInv, QueryInv
<1>2. QED BY <1>1, SignalInvariant, PTL

\* The only caller a signal can find at the backend is its target.
LEMMA OnlyTheTargetExecutes ==
  ASSUME SignalInv, NEW k \in CancelCall, SignalPending(k)
  PROVE  Executing(pid[k]) \subseteq {target[k]}
<1>1. target[k] \in Query /\ held[target[k]] = pid[k] /\ pid[k] # None
  BY DEF SignalInv, QueryInv, SignalHitsTarget, TypeInv, TargetKnown, SignalPending
<1>2. \A a \in Executing(pid[k]) : a \in Caller /\ held[a] = pid[k]
  BY DEF Executing, Caller
<1>3. QED BY <1>1, <1>2 DEF SignalInv, QueryInv, Ownership, BackendExclusive, Caller

LEMMA InterruptsStep ==
  SignalInv /\ InterruptsOnlyTargets /\ [Next]_vars => InterruptsOnlyTargets'
<1> SUFFICES ASSUME SignalInv, InterruptsOnlyTargets, [Next]_vars
             PROVE  InterruptsOnlyTargets'
  OBVIOUS
<1> USE DEF InterruptsOnlyTargets
<1>1. CASE UNCHANGED cancelVars BY <1>1 DEF cancelVars
<1>2. ASSUME NEW k \in CancelCall, CancelStep(k) PROVE InterruptsOnlyTargets'
  <2> USE <1>2 DEF CancelGoto, Answer, SignalInv, TypeInv, TypeOK
  <2>1. CASE \E q \in Query : Cancel(k, q) BY <2>1 DEF Cancel
  <2>2. CASE CancelBeforeStart(k) BY <2>2 DEF CancelBeforeStart
  <2>3. CASE CancelRunning(k) BY <2>3 DEF CancelRunning
  <2>4. CASE CancelRepeated(k) BY <2>4 DEF CancelRepeated
  <2>5. CASE CancelTooLate(k) BY <2>5 DEF CancelTooLate
  <2>6. CASE CancelUnregister(k) BY <2>6 DEF CancelUnregister
  <2>7. CASE SendSignal(k)
    <3>1. Executing(pid[k]) \subseteq {target[k]}
      BY <2>7, OnlyTheTargetExecutes DEF SendSignal, SignalPending
    <3>2. QED BY <2>7, <3>1 DEF SendSignal
  <2>8. CASE CompleteCancellation(k) BY <2>8 DEF CompleteCancellation
  <2>9. CASE CancellationFails(k)
    <3>1. target' = target /\ interrupted' = interrupted
      BY <2>9 DEF CancellationFails
    <3>2. cpc' = [cpc EXCEPT ![k] = "answered"]
      BY <2>9 DEF CancellationFails
    <3>3. QED BY <3>1, <3>2
  <2>10. QED
    BY <2>1, <2>2, <2>3, <2>4, <2>5, <2>6, <2>7, <2>8, <2>9 DEF CancelStep
<1>3. ASSUME NEW q \in Query, QueryStep(q) PROVE UNCHANGED cancelVars
  BY <1>3 DEF QueryStep, Prepare, RejectReadOnly, Execute, UseSession, SkipSession, Acquire,
              AcquireFails, IdentifyFails, Activate, ActivateRefused, StatementEnds,
              FinishExecution, Unregister
<1>4. OtherStep => UNCHANGED cancelVars BY OtherStepFrame DEF SignalInv
<1>5. UNCHANGED vars => UNCHANGED cancelVars BY DEF vars
<1>6. QED BY <1>1, <1>2, <1>3, <1>4, <1>5 DEF Next, OtherStep

\* No late signal: whatever the interleaving, a statement is interrupted only
\* by a cancel of its own query, never a later query, batch, BEGIN or COMMIT.
THEOREM NoLateSignal == Spec => []InterruptsOnlyTargets
<1>1. Init => InterruptsOnlyTargets BY DEF Init, InterruptsOnlyTargets
<1>2. QED BY <1>1, InterruptsStep, SignalInvariant, PTL DEF Spec

\* The steps of cancels and queries that change a state start from another one.
LEMMA FinishedStep ==
  ASSUME SignalInv, [Next]_vars, NEW r \in Query, state[r] = "Finished"
  PROVE  state'[r] = "Finished"
<1> USE DEF SignalInv, TypeInv, TypeOK
<1>1. ASSUME NEW q \in Query, QueryStep(q) PROVE state'[r] = "Finished"
  BY <1>1 DEF QueryStep, Prepare, RejectReadOnly, Execute, UseSession, SkipSession, Acquire,
              AcquireFails, IdentifyFails, Activate, ActivateRefused, StatementEnds,
              FinishExecution, Unregister, Finished
<1>2. ASSUME NEW k \in CancelCall, CancelStep(k) PROVE state'[r] = "Finished"
  BY <1>2 DEF QueryInv, SignalHitsTarget, SignalPending, CancelStep, Cancel, CancelBeforeStart,
              CancelRunning, CancelRepeated, CancelTooLate, CancelUnregister, SendSignal,
              CompleteCancellation, CancellationFails
<1>3. ASSUME OtherStep PROVE state'[r] = "Finished"
  BY <1>3, OtherStepFrame
<1>4. CASE UNCHANGED vars BY <1>4 DEF vars
<1>5. QED BY <1>1, <1>2, <1>3, <1>4 DEF Next, OtherStep

\* complete_cancellation overwrites the state without looking at it; it never
\* finds the query finished, because finish_execution waited for it.
THEOREM FinishedStaysFinal == Spec => FinishedIsFinal
<1>1. SignalInv /\ [Next]_vars
        => [\A q \in Query : state[q] = "Finished" => state'[q] = "Finished"]_vars
  BY FinishedStep
<1>2. QED BY <1>1, SignalInvariant, PTL DEF Spec, FinishedIsFinal

-----------------------------------------------------------------------------
(* The contract                                                            *)

\* execute has a result from the step that leaves the server on, and a query
\* without one is not Finished.
ResultInv ==
  \A q \in Query :
    /\ outcome[q] # "none" <=> pc[q] \in {"unregistering", "returned"}
    /\ state[q] = "Finished" => outcome[q] # "none"

\* What one step may do to the phase of one query.
PhaseStep(q) ==
  LET from == PhaseOf(q)
      to == PhaseOf(q)'
  IN  \/ to = from
      \/ from = "open" /\ to \in {"promised", "completed", "failed"}
      \/ from = "promised" /\ to \in {"cancelled", "failed"}

OnlyPhaseOf(q) == \A r \in Query \ {q} : PhaseOf(r)' = PhaseOf(r)

LEMMA QueryStepPhase ==
  ASSUME NEW q \in Query, SignalInv, ResultInv, QueryStep(q)
  PROVE  ResultInv' /\ PhaseStep(q) /\ OnlyPhaseOf(q)
<1> USE DEF SignalInv, QueryInv, TypeInv, TypeOK, States, StateFollowsStep, Activated, ResultInv,
            PhaseStep, OnlyPhaseOf, PhaseOf, WasCancelled, Goto, Return
<1>1. CASE Prepare(q) BY <1>1 DEF Prepare
<1>2. CASE RejectReadOnly(q) BY <1>2 DEF RejectReadOnly
<1>3. CASE Execute(q) BY <1>3 DEF Execute
<1>4. CASE UseSession(q) BY <1>4 DEF UseSession
<1>5. CASE SkipSession(q) BY <1>5 DEF SkipSession
<1>6. CASE \E c \in Conn : Acquire(q, c) BY <1>6 DEF Acquire
<1>7. CASE AcquireFails(q) BY <1>7 DEF AcquireFails, Finished, CanFinish
<1>8. CASE IdentifyFails(q) BY <1>8 DEF IdentifyFails, Finished, CanFinish
<1>9. CASE Activate(q) BY <1>9 DEF Activate
<1>10. CASE ActivateRefused(q) BY <1>10 DEF ActivateRefused, Finished, CanFinish
<1>11. CASE StatementEnds(q) BY <1>11 DEF StatementEnds
<1>12. CASE FinishExecution(q) BY <1>12 DEF FinishExecution, Finished, CanFinish
<1>13. CASE Unregister(q) BY <1>13 DEF Unregister
<1>14. QED
  BY <1>1, <1>2, <1>3, <1>4, <1>5, <1>6, <1>7, <1>8, <1>9, <1>10, <1>11, <1>12, <1>13
     DEF QueryStep

LEMMA CancelStepPhase ==
  ASSUME NEW k \in CancelCall, SignalInv, ResultInv, CancelStep(k)
  PROVE  /\ ResultInv'
         /\ \/ \A r \in Query : PhaseOf(r)' = PhaseOf(r)
            \/ target[k] \in Query /\ PhaseStep(target[k]) /\ OnlyPhaseOf(target[k])
<1> USE DEF SignalInv, QueryInv, TypeInv, TypeOK, TargetKnown, States, StateFollowsStep, Activated,
            SignalHitsTarget, SignalPending, ResultInv, PhaseStep, OnlyPhaseOf, PhaseOf,
            WasCancelled, CancelGoto, Answer, queryVars
<1>1. CASE \E q \in Query : Cancel(k, q) BY <1>1 DEF Cancel
<1>2. CASE CancelBeforeStart(k) BY <1>2 DEF CancelBeforeStart
<1>3. CASE CancelRunning(k) BY <1>3 DEF CancelRunning
<1>4. CASE CancelRepeated(k) BY <1>4 DEF CancelRepeated
<1>5. CASE CancelTooLate(k) BY <1>5 DEF CancelTooLate
<1>6. CASE CancelUnregister(k) BY <1>6 DEF CancelUnregister
<1>7. CASE SendSignal(k) BY <1>7 DEF SendSignal
<1>8. CASE CompleteCancellation(k) BY <1>8 DEF CompleteCancellation
<1>9. CASE CancellationFails(k) BY <1>9 DEF CancellationFails
<1>10. QED
  BY <1>1, <1>2, <1>3, <1>4, <1>5, <1>6, <1>7, <1>8, <1>9 DEF CancelStep

LEMMA PhaseStepIsContractStep ==
  ASSUME NEW q \in Query, PhaseStep(q), OnlyPhaseOf(q)
  PROVE  [Contract!Next]_phase
<1>1. phase' = [phase EXCEPT ![q] = PhaseOf(q)']
  BY DEF phase, OnlyPhaseOf
<1>2. phase[q] = PhaseOf(q)
  BY DEF phase
<1>3. CASE PhaseOf(q)' = PhaseOf(q)
  BY <1>1, <1>2, <1>3 DEF phase
<1>4. CASE PhaseOf(q)' # PhaseOf(q)
  <2>1. \/ Contract!Promise(q) \/ Contract!Complete(q)
        \/ Contract!ReportCancelled(q) \/ Contract!Fail(q)
    BY <1>1, <1>2, <1>4
       DEF PhaseStep, Contract!Promise, Contract!Complete, Contract!ReportCancelled,
           Contract!Fail, Contract!Move
  <2>2. QED BY <2>1 DEF Contract!Next
<1>5. QED BY <1>3, <1>4

LEMMA NextPhase ==
  SignalInv /\ ResultInv /\ [Next]_vars => ResultInv' /\ [Contract!Next]_phase
<1> SUFFICES ASSUME SignalInv, ResultInv, [Next]_vars
             PROVE  ResultInv' /\ [Contract!Next]_phase
  OBVIOUS
<1>1. (\A r \in Query : PhaseOf(r)' = PhaseOf(r)) => UNCHANGED phase BY DEF phase
<1>2. ASSUME NEW q \in Query, QueryStep(q) PROVE ResultInv' /\ [Contract!Next]_phase
  BY <1>2, QueryStepPhase, PhaseStepIsContractStep
<1>3. ASSUME NEW k \in CancelCall, CancelStep(k) PROVE ResultInv' /\ [Contract!Next]_phase
  BY <1>1, <1>3, CancelStepPhase, PhaseStepIsContractStep
<1>4. ASSUME UNCHANGED <<state, queryVars>> PROVE ResultInv' /\ [Contract!Next]_phase
  BY <1>1, <1>4 DEF ResultInv, PhaseOf, WasCancelled, queryVars
<1>5. OtherStep => UNCHANGED <<state, queryVars>> BY OtherStepFrame DEF SignalInv
<1>6. UNCHANGED vars => UNCHANGED <<state, queryVars>> BY DEF vars
<1>7. QED BY <1>2, <1>3, <1>4, <1>5, <1>6 DEF Next, OtherStep

\* The driver implements the contract of QueryContract: a query that a cancel
\* took effect on is never reported completed, and none settles twice.
THEOREM DriverImplementsContract == Spec => ImplementsContract
<1>1. Init => ResultInv /\ Contract!Init
  BY DEF Init, ResultInv, Contract!Init, phase, PhaseOf, WasCancelled
<1>2. QED BY <1>1, NextPhase, SignalInvariant, PTL DEF Spec, ImplementsContract, Contract!Spec

-----------------------------------------------------------------------------
(* disconnect and the control pool                                         *)

\* Once disconnect turns to the control pool, nobody holds a connection again.
DrainedInv ==
  ~ControlPoolOpen => session = None /\ \A a \in Caller : held[a] = None

LEMMA ControlPoolCloses ==
  ASSUME [Next]_vars, ~ControlPoolOpen'
  PROVE  ~ControlPoolOpen \/ (InUse = {None} /\ UNCHANGED connVars)
<1> USE DEF ControlPoolOpen
<1>1. ASSUME NEW q \in Query, QueryStep(q) PROVE dpc' = dpc
  BY <1>1 DEF QueryStep, Prepare, RejectReadOnly, Execute, UseSession, SkipSession, Acquire,
              AcquireFails, IdentifyFails, Activate, ActivateRefused, StatementEnds,
              FinishExecution, Unregister
<1>2. ASSUME NEW k \in CancelCall, CancelStep(k) PROVE dpc' = dpc
  BY <1>2 DEF CancelStep, Cancel, CancelBeforeStart, CancelRunning, CancelRepeated, CancelTooLate,
              CancelUnregister, SendSignal, CompleteCancellation, CancellationFails
<1>3. ASSUME NEW t \in TxCall, TxStep(t) PROVE dpc' = dpc
  BY <1>3 DEF TxStep, CallTransaction, BeginLock, BeginAcquire, BeginFails, Begun, EndLock, Ended
<1>4. ASSUME NEW j \in Job, JobStep(j) PROVE dpc' = dpc
  BY <1>4 DEF JobStep, CallJob, JobAcquire, BatchOnSession, JobEnds
<1>5. CASE DisconnectStep
  BY <1>5 DEF DisconnectStep, Disconnect, DisconnectLock, DisconnectRolledBack, ClosePool,
              PoolDrained, CloseControlPool
<1>6. UNCHANGED vars => dpc' = dpc BY DEF vars
<1>7. QED BY <1>1, <1>2, <1>3, <1>4, <1>5, <1>6 DEF Next

LEMMA DrainedStep == TypeInv /\ DrainedInv /\ [Next]_vars => DrainedInv'
<1> SUFFICES ASSUME TypeInv, DrainedInv, [Next]_vars, ~ControlPoolOpen'
             PROVE  session' = None /\ \A a \in Caller : held'[a] = None
  BY DEF DrainedInv
<1>1. CASE InUse = {None} /\ UNCHANGED connVars
  BY <1>1 DEF InUse, connVars
<1>2. CASE ~ControlPoolOpen
  <2>1. session = None /\ \A a \in Caller : held[a] = None
    BY <1>2 DEF DrainedInv
  <2>2. ~PoolOpen
    BY <1>2 DEF ControlPoolOpen, PoolOpen
  <2>3. ConnectionStep
    BY NextIsConnectionStep
  <2>4. QED
    BY <2>1, <2>2, <2>3
       DEF TypeInv, TypeOK, ConnectionStep, connVars, Release, TakeSession, BorrowSession,
           LocksFor, HandsOver, CheckOut
<1>3. QED BY <1>1, <1>2, ControlPoolCloses

\* disconnect never closes the control pool under a query being cancelled.
THEOREM ControlPoolOutlives == Spec => []ControlPoolOutlivesCancels
<1>1. Init => DrainedInv
  BY DEF Init, DrainedInv
<1>2. SignalInv => TypeInv
  BY DEF SignalInv
<1>3. SignalInv /\ DrainedInv => ControlPoolOutlivesCancels
  BY DEF SignalInv, QueryInv, DrainedInv, ControlPoolOutlivesCancels, HeldWhileUsing, UsesBackend,
         StateFollowsStep, Activated, Caller
<1>4. QED BY <1>1, <1>2, <1>3, DrainedStep, SignalInvariant, PTL DEF Spec

-----------------------------------------------------------------------------
(* Entries                                                                 *)

LEMMA EntryStep ==
  ASSUME NEW q \in Query, SignalInv, NoEntryLeak, QueryStep(q)
  PROVE  NoEntryLeak'
<1> USE DEF SignalInv, TypeInv, TypeOK, NoEntryLeak, Goto, Return
<1>1. CASE Prepare(q) BY <1>1 DEF Prepare
<1>2. CASE RejectReadOnly(q) BY <1>2 DEF RejectReadOnly
<1>3. CASE Execute(q) BY <1>3 DEF Execute
<1>4. CASE UseSession(q) \/ SkipSession(q) \/ \E c \in Conn : Acquire(q, c)
  BY <1>4 DEF UseSession, SkipSession, Acquire
<1>5. CASE AcquireFails(q) \/ IdentifyFails(q) BY <1>5 DEF AcquireFails, IdentifyFails
<1>6. CASE Activate(q) \/ ActivateRefused(q) BY <1>6 DEF Activate, ActivateRefused
<1>7. CASE StatementEnds(q) \/ FinishExecution(q) BY <1>7 DEF StatementEnds, FinishExecution
<1>8. CASE Unregister(q) BY <1>8 DEF Unregister
<1>9. QED BY <1>1, <1>2, <1>3, <1>4, <1>5, <1>6, <1>7, <1>8 DEF QueryStep

\* When execute has returned, its entry in active_queries is gone.
THEOREM NoEntryLeaks == Spec => []NoEntryLeak
<1>1. Init => NoEntryLeak BY DEF Init, NoEntryLeak
<1>2. SignalInv /\ NoEntryLeak /\ [Next]_vars => NoEntryLeak'
  <2> SUFFICES ASSUME SignalInv, NoEntryLeak, [Next]_vars PROVE NoEntryLeak'
    OBVIOUS
  <2>1. ASSUME NEW k \in CancelCall, CancelStep(k) PROVE NoEntryLeak'
    <3>1. pc' = pc /\ activeQueries' \subseteq activeQueries
      BY <2>1 DEF CancelStep, Cancel, CancelBeforeStart, CancelRunning, CancelRepeated,
           CancelTooLate, CancelUnregister, SendSignal, CompleteCancellation,
           CancellationFails, queryVars
    <3>2. QED BY <3>1 DEF NoEntryLeak
  <2>2. CASE OtherStep \/ UNCHANGED vars
    BY <2>2, OtherStepFrame DEF SignalInv, NoEntryLeak, queryVars, vars
  <2>3. QED BY <2>1, <2>2, EntryStep DEF Next, OtherStep
<1>3. QED BY <1>1, <1>2, SignalInvariant, PTL DEF Spec

-----------------------------------------------------------------------------
(* Who asked for a cancellation                                            *)

Requested(q) ==
  \E k \in CancelCall : target[k] = q /\ (cpc[k] = "unregistering" \/ answer[k] = "true")

AnswersLast == \A k \in CancelCall : answer[k] # "none" => cpc[k] = "answered"

\* A query that was cancelled was asked to be, already before it reports so.
RequestInv ==
  /\ AnswersLast
  /\ \A q \in Query :
       state[q] \in {"Cancelled", "CompleteTrue"} \/ outcome[q] = "cancelled" => Requested(q)

LEMMA QueryStepRequest ==
  ASSUME NEW q \in Query, SignalInv, ResultInv, RequestInv, QueryStep(q)
  PROVE  RequestInv'
<1> USE DEF SignalInv, QueryInv, TypeInv, TypeOK, States, StateFollowsStep, Activated, ResultInv,
            RequestInv, AnswersLast, Goto, Return, WasCancelled, cancelVars
<1>1. UNCHANGED cancelVars
  BY DEF QueryStep, Prepare, RejectReadOnly, Execute, UseSession, SkipSession, Acquire,
         AcquireFails, IdentifyFails, Activate, ActivateRefused, StatementEnds, FinishExecution,
         Unregister
<1>2. \A r \in Query : Requested(r)' <=> Requested(r)
  BY <1>1 DEF Requested
<1>3. CASE Prepare(q) \/ RejectReadOnly(q) \/ Execute(q)
  BY <1>1, <1>2, <1>3 DEF Prepare, RejectReadOnly, Execute
<1>4. CASE UseSession(q) \/ SkipSession(q) \/ \E c \in Conn : Acquire(q, c)
  BY <1>1, <1>2, <1>4 DEF UseSession, SkipSession, Acquire
<1>5. CASE AcquireFails(q) \/ IdentifyFails(q)
  BY <1>1, <1>2, <1>5 DEF AcquireFails, IdentifyFails, Finished
<1>6. CASE Activate(q) BY <1>1, <1>2, <1>6 DEF Activate
<1>7. CASE ActivateRefused(q) BY <1>1, <1>2, <1>7 DEF ActivateRefused, Finished, CanFinish
<1>8. CASE StatementEnds(q) \/ Unregister(q) BY <1>1, <1>2, <1>8 DEF StatementEnds, Unregister
<1>9. CASE FinishExecution(q) BY <1>1, <1>2, <1>9 DEF FinishExecution, Finished
<1>10. QED BY <1>3, <1>4, <1>5, <1>6, <1>7, <1>8, <1>9 DEF QueryStep

LEMMA CancelStepRequest ==
  ASSUME NEW k \in CancelCall, SignalInv, RequestInv, CancelStep(k)
  PROVE  RequestInv'
<1> USE DEF SignalInv, TypeInv, TypeOK, TargetKnown, States, RequestInv, AnswersLast, Requested,
            CancelGoto, Answer, queryVars
<1>1. CASE \E q \in Query : Cancel(k, q) BY <1>1 DEF Cancel
<1>2. CASE CancelBeforeStart(k) BY <1>2 DEF CancelBeforeStart
<1>3. CASE CancelRunning(k) BY <1>3 DEF CancelRunning
<1>4. CASE CancelRepeated(k) BY <1>4 DEF CancelRepeated
<1>5. CASE CancelTooLate(k) BY <1>5 DEF CancelTooLate
<1>6. CASE CancelUnregister(k) BY <1>6 DEF CancelUnregister
<1>7. CASE SendSignal(k) BY <1>7 DEF SendSignal
<1>8. CASE CompleteCancellation(k) BY <1>8 DEF CompleteCancellation
<1>9. CASE CancellationFails(k) BY <1>9 DEF CancellationFails
<1>10. QED
  BY <1>1, <1>2, <1>3, <1>4, <1>5, <1>6, <1>7, <1>8, <1>9 DEF CancelStep

\* QueryCancelled is only reported after a cancel that is answered true.
THEOREM CancelledWereRequested == Spec => []CancelledWasRequested
<1>1. Init => ResultInv /\ RequestInv
  BY DEF Init, ResultInv, RequestInv, AnswersLast
<1>2. SignalInv /\ ResultInv /\ RequestInv /\ [Next]_vars => RequestInv'
  <2> SUFFICES ASSUME SignalInv, ResultInv, RequestInv, [Next]_vars PROVE RequestInv'
    OBVIOUS
  <2>1. CASE OtherStep \/ UNCHANGED vars
    BY <2>1, OtherStepFrame
       DEF SignalInv, RequestInv, AnswersLast, Requested, queryVars, cancelVars, vars
  <2>2. QED BY <2>1, QueryStepRequest, CancelStepRequest DEF Next, OtherStep
<1>3. RequestInv => CancelledWasRequested
  BY DEF RequestInv, Requested, CancelledWasRequested
<1>4. QED BY <1>1, <1>2, <1>3, NextPhase, SignalInvariant, PTL DEF Spec

=============================================================================
