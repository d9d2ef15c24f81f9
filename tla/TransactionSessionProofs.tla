---------------------- MODULE TransactionSessionProofs ----------------------
(***************************************************************************)
(* Proofs about TransactionSession, for any writes, any of the drivers and *)
(* edit batches inside sessions or not: what Rollback undoes, what Commit  *)
(* keeps, what a refused batch leaves, and the session contract.           *)
(***************************************************************************)
EXTENDS TransactionSession, TLAPS

\* TypeOK, in the parts the steps below treat one by one.
Flags ==
  /\ vendor \in AllVendors
  /\ alive \in BOOLEAN /\ session \in BOOLEAN /\ believed \in BOOLEAN /\ failed \in BOOLEAN
  /\ mixed \in BOOLEAN
Levels == nest \in 0 .. MaxNest
Sets ==
  /\ pending \subseteq seen /\ committed \subseteq seen
  /\ ofSession \subseteq seen /\ direct \subseteq seen
  /\ undone \subseteq seen /\ kept \subseteq seen
  /\ rejected \subseteq seen /\ failedDocs \subseteq seen
  /\ seen \subseteq Write

\* The flag the user sees and the driver's session.
FlagInv ==
  /\ believed => alive
  /\ Sqlx => (session <=> believed) /\ (failed => session /\ vendor = "postgres")
  /\ ~Sqlx => ~failed
  /\ Oracle => (believed => session)

\* They and the server's transaction.
LevelInv ==
  /\ Sqlx => (session <=> nest > 0)
  /\ SqlServer => (believed => nest > 0)

KeepingVendor == vendor \in {"mysql", "sqlite", "oracle"}

\* Writes acknowledged in the session wait in the server's transaction, and
\* what was undone is nowhere.
WritesInv ==
  /\ ~believed => ofSession = {}
  /\ ofSession \subseteq pending
  /\ pending \cap committed = {}
  /\ undone \cap (pending \cup committed) = {}
  /\ KeepingVendor => kept \subseteq committed
  /\ Sqlx /\ ~session => pending = {}

Typed == Flags /\ Levels /\ Sets
Whole == KeepsSession => FlagInv /\ LevelInv /\ WritesInv
Inv == Typed /\ Whole /\ BatchAllOrNothing

LEMMA TypedIsTypeOK == Typed => TypeOK
  BY Zenon DEF Typed, Flags, Levels, Sets, TypeOK

-----------------------------------------------------------------------------
LEMMA InitInv == Init => Inv
<1> USE DEF Init
<1>1. Init => Flags BY VendorsAreKnown DEF Flags
<1>2. Init => Levels /\ Sets BY MaxNestIsPositive DEF Levels, Sets
<1>3. Init => FlagInv BY DEF FlagInv, Sqlx, Oracle
<1>4. Init => LevelInv BY DEF LevelInv, Sqlx, SqlServer
<1>5. Init => WritesInv /\ BatchAllOrNothing BY DEF WritesInv, BatchAllOrNothing
<1>6. QED BY <1>1, <1>2, <1>3, <1>4, <1>5 DEF Inv, Typed, Whole

SessionCall == Begin \/ Commit \/ EndFails \/ Rollback \/ Disconnect
Statement(w) == Execute(w) \/ ExecuteFails(w)
EditBatch(ws) == Batch(ws) \/ BatchRejected(ws)
OneShot(ws) == RunDocument(ws) \/ DocumentFails(ws)

LEMMA SessionCallInv ==
  ASSUME Inv, SessionCall
  PROVE  Inv'
<1> USE DEF SessionCall, Begin, BeginSqlx, BeginSqlServer, BeginOracle, Commit, CommitSqlServer, CommitOracle, EndFails,
       Rollback, Disconnect, EndSession, TakesSession, ServerRollback, ServerCommit
<1> USE DEF Sqlx, SqlServer, Oracle, driverVars, dataVars, toldVars
<1>1. Flags' /\ Levels'
  <2>1. Flags' BY DEF Inv, Typed, Flags
  <2>2. Levels' BY MaxNestIsPositive DEF Inv, Typed, Levels
  <2>3. QED BY <2>1, <2>2
<1>2. Sets' BY DEF Inv, Typed, Sets
<1>3. ASSUME KeepsSession' PROVE FlagInv' /\ LevelInv' /\ WritesInv'
  <2>1. Flags /\ Levels /\ Sets /\ FlagInv /\ LevelInv /\ WritesInv
    BY <1>3 DEF Inv, Typed, Whole, KeepsSession
  <2>2. FlagInv' BY <1>3, <2>1 DEF Flags, FlagInv, LevelInv, KeepsSession, KeepingVendor, AllVendors
  <2>3. LevelInv'
    BY <1>3, <2>1 DEF Flags, Levels, FlagInv, LevelInv, KeepsSession, KeepingVendor, AllVendors
  <2>4. WritesInv'
    BY <1>3, <2>1 DEF Flags, Sets, FlagInv, LevelInv, WritesInv, KeepsSession, KeepingVendor, AllVendors
  <2>5. QED BY <2>2, <2>3, <2>4
<1>4. BatchAllOrNothing'
  BY DEF Inv, Typed, Flags, Sets, BatchAllOrNothing, RefusalRollsBack, AllVendors
<1>5. QED BY <1>1, <1>2, <1>3, <1>4 DEF Inv, Typed, Whole

LEMMA StatementInv ==
  ASSUME NEW w \in Write, Inv, Statement(w)
  PROVE  Inv'
<1> USE DEF Statement, Execute, ExecuteFails, Attempt, Apply, Acknowledge, InTransaction
<1> USE DEF Sqlx, SqlServer, Oracle, driverVars, dataVars, toldVars
<1>1. Flags' /\ Levels'
  <2>1. Flags' BY DEF Inv, Typed, Flags
  <2>2. Levels' BY MaxNestIsPositive DEF Inv, Typed, Levels
  <2>3. QED BY <2>1, <2>2
<1>2. Sets' BY DEF Inv, Typed, Sets
<1>3. ASSUME KeepsSession' PROVE FlagInv' /\ LevelInv' /\ WritesInv'
  <2>1. Flags /\ Levels /\ Sets /\ FlagInv /\ LevelInv /\ WritesInv
    BY <1>3 DEF Inv, Typed, Whole, KeepsSession
  <2>2. FlagInv' BY <1>3, <2>1 DEF Flags, FlagInv, LevelInv, KeepsSession, KeepingVendor, AllVendors
  <2>3. LevelInv'
    BY <1>3, <2>1 DEF Flags, Levels, FlagInv, LevelInv, KeepsSession, KeepingVendor, AllVendors
  <2>4. WritesInv'
    BY <1>3, <2>1 DEF Flags, Sets, FlagInv, LevelInv, WritesInv, KeepsSession, KeepingVendor, AllVendors
  <2>5. QED BY <2>2, <2>3, <2>4
<1>4. BatchAllOrNothing'
  BY DEF Inv, Typed, Flags, Sets, BatchAllOrNothing, RefusalRollsBack, AllVendors
<1>5. QED BY <1>1, <1>2, <1>3, <1>4 DEF Inv, Typed, Whole

LEMMA EditBatchInv ==
  ASSUME NEW ws \in SUBSET Write, Inv, EditBatch(ws)
  PROVE  Inv'
<1> USE DEF EditBatch, Batch, BatchPostgres, BatchInSession, BatchSqlServer, BatchOracle, BatchRejected,
       RejectPostgres, RejectInSession, RejectSqlServer, RejectOracle, SendBatch, Residue,
       Attempt, Apply, Acknowledge, ServerRollback
<1> USE DEF Sqlx, SqlServer, Oracle, driverVars, dataVars, toldVars
<1>1. Flags' /\ Levels'
  <2>1. Flags' BY DEF Inv, Typed, Flags
  <2>2. Levels' BY MaxNestIsPositive DEF Inv, Typed, Levels
  <2>3. QED BY <2>1, <2>2
<1>2. Sets' BY DEF Inv, Typed, Sets
<1>3. ASSUME KeepsSession' PROVE FlagInv' /\ LevelInv' /\ WritesInv'
  <2>1. Flags /\ Levels /\ Sets /\ FlagInv /\ LevelInv /\ WritesInv
    BY <1>3 DEF Inv, Typed, Whole, KeepsSession
  <2>2. FlagInv' BY <1>3, <2>1 DEF Flags, FlagInv, LevelInv, KeepsSession, KeepingVendor, AllVendors
  <2>3. LevelInv'
    BY <1>3, <2>1 DEF Flags, Levels, FlagInv, LevelInv, KeepsSession, KeepingVendor, AllVendors
  <2>4. WritesInv'
    BY <1>3, <2>1 DEF Flags, Sets, FlagInv, LevelInv, WritesInv, KeepsSession, KeepingVendor, AllVendors
  <2>5. QED BY <2>2, <2>3, <2>4
<1>4. BatchAllOrNothing'
  BY DEF Inv, Typed, Flags, Sets, BatchAllOrNothing, RefusalRollsBack, AllVendors
<1>5. QED BY <1>1, <1>2, <1>3, <1>4 DEF Inv, Typed, Whole

LEMMA OneShotInv ==
  ASSUME NEW ws \in SUBSET Write, Inv, OneShot(ws)
  PROVE  Inv'
<1> USE DEF OneShot, RunDocument, DocumentFails, KeepsPart, Residue, Attempt, Apply, Acknowledge, InTransaction
<1> USE DEF Sqlx, SqlServer, Oracle, driverVars, dataVars, toldVars
<1>1. Flags' /\ Levels'
  <2>1. Flags' BY DEF Inv, Typed, Flags
  <2>2. Levels' BY MaxNestIsPositive DEF Inv, Typed, Levels
  <2>3. QED BY <2>1, <2>2
<1>2. Sets' BY DEF Inv, Typed, Sets
<1>3. ASSUME KeepsSession' PROVE FlagInv' /\ LevelInv' /\ WritesInv'
  <2>1. Flags /\ Levels /\ Sets /\ FlagInv /\ LevelInv /\ WritesInv
    BY <1>3 DEF Inv, Typed, Whole, KeepsSession
  <2>2. FlagInv' BY <1>3, <2>1 DEF Flags, FlagInv, LevelInv, KeepsSession, KeepingVendor, AllVendors
  <2>3. LevelInv'
    BY <1>3, <2>1 DEF Flags, Levels, FlagInv, LevelInv, KeepsSession, KeepingVendor, AllVendors
  <2>4. WritesInv'
    BY <1>3, <2>1 DEF Flags, Sets, FlagInv, LevelInv, WritesInv, KeepsSession, KeepingVendor, AllVendors
  <2>5. QED BY <2>2, <2>3, <2>4
<1>4. BatchAllOrNothing'
  BY DEF Inv, Typed, Flags, Sets, BatchAllOrNothing, RefusalRollsBack, AllVendors
<1>5. QED BY <1>1, <1>2, <1>3, <1>4 DEF Inv, Typed, Whole

LEMMA NextInv == Inv /\ [Next]_vars => Inv'
<1> SUFFICES ASSUME Inv, [Next]_vars PROVE Inv'
  OBVIOUS
<1>1. CASE UNCHANGED vars
  <2>1. Typed' BY <1>1 DEF Inv, Typed, Flags, Levels, Sets, vars, driverVars, dataVars, toldVars
  <2>2. Whole' /\ BatchAllOrNothing'
    BY <1>1 DEF Inv, Whole, FlagInv, LevelInv, WritesInv, BatchAllOrNothing, RefusalRollsBack,
         KeepsSession, KeepingVendor, Sqlx, SqlServer, Oracle, vars, driverVars, dataVars, toldVars
  <2>3. QED BY <2>1, <2>2 DEF Inv
<1>2. CASE SessionCall BY <1>2, SessionCallInv
<1>3. ASSUME NEW w \in Write, Statement(w) PROVE Inv'
  BY <1>3, StatementInv
<1>4. ASSUME NEW ws \in SUBSET Write, EditBatch(ws) \/ OneShot(ws) PROVE Inv'
  BY <1>4, EditBatchInv, OneShotInv
<1>5. QED BY <1>1, <1>2, <1>3, <1>4 DEF Next, SessionCall, Statement, EditBatch, OneShot

LEMMA Invariant == Spec => []Inv
  BY InitInv, NextInv, PTL DEF Spec

\* The variables keep their types.
THEOREM SessionTypeCorrect == Spec => []TypeOK
<1>1. Inv => TypeOK BY TypedIsTypeOK DEF Inv
<1>2. QED BY <1>1, Invariant, PTL

\* A session shown as active is one at the driver or the server, and a plain
\* session a sqlx driver holds is shown, whatever failed before.
THEOREM SessionsAgreeAlways == Spec => []SessionsAgree
<1>1. Inv => SessionIsHeld
  BY DEF Inv, Typed, Whole, Flags, AllVendors, FlagInv, LevelInv, SessionIsHeld, Sqlx,
       SqlServer, Oracle
<1>2. Inv => SessionIsShown
  BY DEF Inv, Whole, KeepsSession, FlagInv, Sqlx, PlainSqlx, SessionIsShown
<1>3. QED BY <1>1, <1>2, Invariant, PTL DEF SessionsAgree

\* Nothing a session acknowledged is durable before Commit.
THEOREM SessionsStayPending == Spec => []UncommittedUntilCommit
<1>1. Inv => UncommittedUntilCommit
  BY DEF Inv, Whole, WritesInv, UncommittedUntilCommit
<1>2. QED BY <1>1, Invariant, PTL

\* Rollback and disconnect undo all the session acknowledged.
THEOREM RollbacksUndo == Spec => []RollbackUndoes
<1>1. Inv => RollbackUndoes
  BY DEF Inv, Whole, WritesInv, RollbackUndoes, RollbackUndoesBatches
<1>2. QED BY <1>1, Invariant, PTL

\* Commit keeps all the session acknowledged, edit batches included, with the
\* drivers that run batches in the session.
THEOREM CommitsKeep == Spec => []CommitKeeps
<1>1. Inv => CommitKeeps
  BY DEF Inv, Whole, KeepsSession, KeepingVendor, WritesInv, CommitKeeps
<1>2. QED BY <1>1, Invariant, PTL

\* A refused edit batch leaves nothing, outside sessions with every driver and
\* inside one where the driver rolls back.
THEOREM RefusedBatchesVanish == Spec => []BatchAllOrNothing
<1>1. Inv => BatchAllOrNothing BY DEF Inv
<1>2. QED BY <1>1, Invariant, PTL

-----------------------------------------------------------------------------
(* The session contract                                                    *)

\* The driver of a behaviour stays, and a batch in a session is remembered.
LEMMA ChoiceStays == [Next]_vars => vendor' = vendor /\ (mixed => mixed')
<1>1. [Next]_vars => vendor' = vendor
  BY DEF Next, vars, Begin, Commit, EndFails, Rollback, Disconnect, Execute, ExecuteFails,
       Batch, BatchRejected, RunDocument, DocumentFails
<1>2. [Next]_vars => (mixed' = mixed \/ \E ws \in SUBSET Write : SendBatch(ws))
  BY DEF Next, vars, Begin, Commit, EndFails, Rollback, Disconnect, Execute, ExecuteFails,
       Batch, BatchRejected, RunDocument, DocumentFails
<1>3. ASSUME NEW ws \in SUBSET Write, SendBatch(ws), mixed PROVE mixed'
  BY <1>3, Zenon DEF SendBatch
<1>4. QED BY <1>1, <1>2, <1>3

LEMMA PlainStays == [Next]_vars /\ PlainSqlx' => PlainSqlx
  BY ChoiceStays DEF PlainSqlx, Sqlx

\* What the invariant says of a plain session of a sqlx driver.
LEMMA PlainFacts ==
  ASSUME Inv, PlainSqlx
  PROVE  /\ Flags /\ Sets /\ FlagInv /\ LevelInv /\ WritesInv
         /\ nest > 0 <=> session
         /\ session <=> believed
         /\ ~session => pending = {}
         /\ Sqlx /\ ~SqlServer /\ ~Oracle
<1>1. Flags /\ Sets /\ FlagInv /\ LevelInv /\ WritesInv
  BY DEF Inv, Typed, Whole, KeepsSession, PlainSqlx
<1>2. Sqlx /\ ~SqlServer /\ ~Oracle BY DEF PlainSqlx, Sqlx, SqlServer, Oracle
<1>3. QED BY <1>1, <1>2 DEF FlagInv, LevelInv, WritesInv

LEMMA StepOfContract ==
  ASSUME Inv, [Next]_vars, PlainSqlx'
  PROVE  [Contract!Next]_(Contract!vars)
<1> USE DEF Contract!vars, Sqlx, SqlServer, Oracle, driverVars, dataVars, toldVars
<1>1. Flags /\ FlagInv /\ LevelInv /\ WritesInv BY PlainStays, PlainFacts
<1>2. (nest > 0 <=> session) /\ (~session => pending = {}) /\ ~SqlServer /\ ~Oracle
  BY PlainStays, PlainFacts
<1>3. CASE UNCHANGED vars BY <1>3 DEF vars
<1>4. CASE Begin
  <2>1. Contract!Begin
    BY <1>2, <1>4 DEF Begin, BeginSqlx, BeginSqlServer, BeginOracle, Contract!Begin
  <2>2. QED BY <2>1 DEF Contract!Next
<1>5. CASE Commit \/ EndFails \/ Rollback
  <2>1. Contract!Commit \/ Contract!Discard
    BY <1>2, <1>5 DEF Commit, EndFails, Rollback, CommitSqlServer, CommitOracle, EndSession,
         TakesSession, ServerCommit, ServerRollback, Contract!Commit, Contract!Discard,
         Contract!Finish
  <2>2. QED BY <2>1 DEF Contract!Next
<1>6. CASE Disconnect
  <2>1. Contract!Discard \/ UNCHANGED Contract!vars
    BY <1>1, <1>2, <1>6 DEF Flags, Disconnect, ServerRollback, Contract!Discard, Contract!Finish
  <2>2. QED BY <2>1 DEF Contract!Next
<1>7. ASSUME NEW w \in Write, Execute(w) \/ ExecuteFails(w)
      PROVE  [Contract!Next]_(Contract!vars)
  <2>1. Contract!Put({w}) \/ UNCHANGED Contract!vars
    BY <1>2, <1>7 DEF Execute, ExecuteFails, Apply, InTransaction, Contract!Put
  <2>2. QED BY <2>1 DEF Contract!Next
<1>8. ASSUME NEW ws \in SUBSET Write, Batch(ws) \/ BatchRejected(ws)
      PROVE  [Contract!Next]_(Contract!vars)
  <2>1. ~session BY <1>8 DEF Batch, BatchRejected, SendBatch, PlainSqlx
  <2>2. Contract!Put(ws) \/ UNCHANGED Contract!vars
    BY <1>2, <1>8, <2>1 DEF Batch, BatchPostgres, BatchInSession, BatchSqlServer, BatchOracle,
         BatchRejected, RejectPostgres, RejectInSession, RejectSqlServer, RejectOracle, Apply,
         Contract!Put
  <2>3. QED BY <2>2 DEF Contract!Next
<1>9. ASSUME NEW ws \in SUBSET Write, RunDocument(ws) \/ DocumentFails(ws)
      PROVE  [Contract!Next]_(Contract!vars)
  <2>1. UNCHANGED Contract!vars \/ \E done \in SUBSET Write : Contract!Put(done)
    BY <1>2, <1>9 DEF RunDocument, DocumentFails, KeepsPart, Residue, Apply, InTransaction,
         Contract!Put
  <2>2. QED BY <2>1 DEF Contract!Next
<1>10. QED BY <1>3, <1>4, <1>5, <1>6, <1>7, <1>8, <1>9 DEF Next

\* PostgreSQL, MySQL and SQLite implement the session contract while edit
\* batches stay outside sessions.
THEOREM SessionImplemented == Spec => ImplementsSession
<1>1. Init => Contract!Init BY DEF Init, Contract!Init
<1>2. Inv /\ [Next]_vars => [PlainSqlx' => [Contract!Next]_(Contract!vars)]_vars
  BY StepOfContract
<1>3. QED BY <1>1, <1>2, Invariant, PTL DEF Spec, ImplementsSession

-----------------------------------------------------------------------------
(* What else holds of the sqlx drivers                                     *)

OutsideInv == DirectWritesAreDurable /\ FailedDocumentUndone

LEMMA OutsideStep ==
  ASSUME Inv, OutsideInv, [Next]_vars
  PROVE  OutsideInv'
<1> SUFFICES ASSUME PlainSqlx'
             PROVE  (direct \subseteq committed)' /\ (failedDocs \cap (pending \cup committed) = {})'
  BY DEF OutsideInv, DirectWritesAreDurable, FailedDocumentUndone
<1> DEFINE Direct == direct \subseteq committed
           Undone == failedDocs \cap (pending \cup committed) = {}
<1> USE DEF Sqlx, SqlServer, Oracle,
            driverVars, dataVars, toldVars, Attempt, Apply, Acknowledge, InTransaction
<1>1. Flags /\ Sets /\ FlagInv /\ LevelInv /\ WritesInv /\ Direct /\ Undone
  BY PlainStays, PlainFacts DEF OutsideInv, DirectWritesAreDurable, FailedDocumentUndone
<1>2. /\ (nest > 0 <=> session) /\ (session <=> believed) /\ (~session => pending = {})
      /\ Sqlx /\ ~SqlServer /\ ~Oracle
  BY PlainStays, PlainFacts
<1>3. CASE UNCHANGED vars BY <1>1, <1>3 DEF vars
<1>4. CASE Begin BY <1>1, <1>4 DEF Begin
<1>5. CASE Commit \/ EndFails \/ Rollback \/ Disconnect
  BY <1>1, <1>2, <1>5 DEF Sets, Commit, EndFails, Rollback, Disconnect, CommitSqlServer,
       CommitOracle, EndSession, TakesSession, ServerCommit, ServerRollback
<1>6. ASSUME NEW w \in Write, Execute(w) \/ ExecuteFails(w) PROVE Direct' /\ Undone'
  BY <1>1, <1>2, <1>6 DEF Sets, Execute, ExecuteFails
<1>7. ASSUME NEW ws \in SUBSET Write, Batch(ws) \/ BatchRejected(ws) PROVE Direct' /\ Undone'
  <2>1. ~session BY <1>7 DEF Batch, BatchRejected, SendBatch, PlainSqlx
  <2>2. QED
    BY <1>1, <1>2, <1>7, <2>1 DEF Sets, Batch, BatchPostgres, BatchInSession, BatchSqlServer,
         BatchOracle, BatchRejected, RejectPostgres, RejectInSession, RejectSqlServer,
         RejectOracle, SendBatch
<1>8. ASSUME NEW ws \in SUBSET Write, RunDocument(ws) \/ DocumentFails(ws) PROVE Direct' /\ Undone'
  <2>1. CASE RunDocument(ws) BY <1>1, <1>2, <2>1 DEF Sets, RunDocument
  <2>2. CASE DocumentFails(ws)
    BY <1>1, <1>2, <2>2 DEF Sets, DocumentFails, KeepsPart, Residue
  <2>3. QED BY <1>8, <2>1, <2>2
<1>9. QED BY <1>3, <1>4, <1>5, <1>6, <1>7, <1>8 DEF Next

LEMMA Outside == Spec => []OutsideInv
<1>1. Init => OutsideInv
  BY DEF Init, OutsideInv, DirectWritesAreDurable, FailedDocumentUndone
<1>2. Inv /\ OutsideInv /\ [Next]_vars => OutsideInv' BY OutsideStep
<1>3. QED BY <1>1, <1>2, Invariant, PTL DEF Spec

\* What PostgreSQL, MySQL and SQLite acknowledge outside a session is durable.
THEOREM DirectWritesLast == Spec => []DirectWritesAreDurable
<1>1. OutsideInv => DirectWritesAreDurable BY DEF OutsideInv
<1>2. QED BY <1>1, Outside, PTL

\* A one-shot document that failed there has no effect.
THEOREM FailedDocumentsVanish == Spec => []FailedDocumentUndone
<1>1. OutsideInv => FailedDocumentUndone BY DEF OutsideInv
<1>2. QED BY <1>1, Outside, PTL

=============================================================================
