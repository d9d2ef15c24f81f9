------------------------- MODULE TransactionSession -------------------------
(***************************************************************************)
(* The explicit transaction session of the five native drivers, together   *)
(* with the store flag transactionActive that shows it: begin, commit and  *)
(* rollback, direct statements, edit batches and the one-shot "Run in      *)
(* Transaction" document.  The drivers serialise these calls on the        *)
(* session (mutex or single client), and the buttons and runQuery exclude  *)
(* one another (isRunning), so a call is one action; the interleavings of  *)
(* the pooled drivers are those of CancellableDriver.                      *)
(*                                                                         *)
(* A Write is what one data-changing statement does.  What the servers do  *)
(* with BEGIN, COMMIT and ROLLBACK is external: PostgreSQL, MySQL and      *)
(* SQLite have one transaction level, SQL Server counts nested BEGINs, and *)
(* Oracle opens a transaction with the first write.                        *)
(***************************************************************************)
EXTENDS Naturals, FiniteSets

CONSTANTS
  Write,
  Vendors,          \* the drivers of this instance
  MaxNest           \* bound on SQL Server's transaction count

AllVendors == {"postgres", "mysql", "sqlite", "sqlserver", "oracle"}

ASSUME VendorsAreKnown == Vendors \subseteq AllVendors
ASSUME MaxNestIsPositive == MaxNest \in Nat \ {0}

VARIABLES
  vendor,
  alive,       \* the connection has not been disconnected
  session,     \* the driver holds an explicit session
  believed,    \* the store's transactionActive
  nest,        \* open transaction levels on the session's connection
  failed,      \* PostgreSQL: the transaction is aborted
  pending,     \* writes of the open transaction
  committed,   \* durable writes
  seen,        \* writes ever attempted
  mixed,       \* an edit batch was sent in a session
  \* What the user was told of acknowledged and of refused writes:
  ofSession,   \* acknowledged in the session shown as active
  direct,      \* acknowledged while none was shown
  undone,      \* rolled back or disconnected, as acknowledged
  kept,        \* committed, as acknowledged
  rejected,    \* of edit batches that were refused
  failedDocs   \* of one-shot documents that failed

driverVars == <<alive, session, nest, failed>>
dataVars == <<pending, committed>>
toldVars == <<ofSession, direct, undone, kept, rejected, failedDocs>>
vars == <<vendor, driverVars, believed, dataVars, seen, mixed, toldVars>>

Sqlx == vendor \in {"postgres", "mysql", "sqlite"}
SqlServer == vendor = "sqlserver"
Oracle == vendor = "oracle"

Init ==
  /\ vendor \in Vendors
  /\ alive = TRUE
  /\ session = FALSE /\ believed = FALSE
  /\ nest = 0 /\ failed = FALSE
  /\ pending = {} /\ committed = {} /\ seen = {}
  /\ ofSession = {} /\ direct = {} /\ undone = {} /\ kept = {}
  /\ rejected = {} /\ failedDocs = {}
  /\ mixed = FALSE

-----------------------------------------------------------------------------
(* The server's transaction (external)                                     *)

\* Nothing of the open transaction survives.
ServerRollback == pending' = {} /\ nest' = 0 /\ failed' = FALSE /\ UNCHANGED committed

\* COMMIT of an aborted PostgreSQL transaction rolls it back and succeeds.
ServerCommit ==
  /\ committed' = IF failed THEN committed ELSE committed \cup pending
  /\ pending' = {} /\ nest' = 0 /\ failed' = FALSE

\* Writes made on a connection: pending in its transaction, or durable.
Apply(ws, inTransaction) ==
  IF inTransaction
    THEN pending' = pending \cup ws /\ UNCHANGED committed
    ELSE committed' = committed \cup ws /\ UNCHANGED pending

-----------------------------------------------------------------------------
(* begin_transaction                                                       *)

BeginSqlx ==
  /\ Sqlx /\ ~session
  /\ session' = TRUE /\ nest' = 1
  /\ UNCHANGED failed

BeginSqlServer ==
  /\ SqlServer /\ nest < MaxNest
  /\ nest' = nest + 1
  /\ UNCHANGED <<session, failed>>

\* SAVEPOINT QUERYX_BEGIN, and the flag.
BeginOracle ==
  /\ Oracle /\ ~session
  /\ session' = TRUE
  /\ UNCHANGED <<nest, failed>>

Begin ==
  /\ alive /\ ~believed
  /\ BeginSqlx \/ BeginSqlServer \/ BeginOracle
  /\ believed' = TRUE
  /\ ofSession' = {}
  /\ UNCHANGED <<vendor, mixed, alive, dataVars, seen, direct, undone, kept, rejected, failedDocs>>

-----------------------------------------------------------------------------
(* commit_transaction and rollback_transaction                             *)

\* The store forgets the session on every answer, an error included.
EndSession == alive /\ believed /\ believed' = FALSE /\ ofSession' = {}

TakesSession == Sqlx /\ session /\ session' = FALSE

CommitSqlServer ==
  /\ SqlServer /\ nest > 0 /\ UNCHANGED session
  /\ \/ nest = 1 /\ ServerCommit
     \/ nest > 1 /\ nest' = nest - 1 /\ UNCHANGED <<failed, dataVars>>

CommitOracle == Oracle /\ session /\ session' = FALSE /\ ServerCommit

\* Mutant: COMMIT is not sent, the connection only given back.
CommitForgetsServer ==
  /\ EndSession
  /\ \/ TakesSession \/ (SqlServer /\ nest > 0 /\ UNCHANGED session)
     \/ Oracle /\ session /\ session' = FALSE
  /\ kept' = kept \cup ofSession
  /\ UNCHANGED <<vendor, mixed, alive, nest, failed, dataVars, seen, direct, undone, rejected, failedDocs>>

Commit ==
  /\ EndSession
  /\ (TakesSession /\ ServerCommit) \/ CommitSqlServer \/ CommitOracle
  /\ kept' = kept \cup ofSession
  /\ UNCHANGED <<vendor, mixed, alive, seen, direct, undone, rejected, failedDocs>>

\* Mutant: the session is put back when COMMIT fails.
EndFailsKeepsSession ==
  /\ EndSession
  /\ \/ Sqlx /\ session /\ ServerRollback /\ UNCHANGED session
     \/ SqlServer /\ (ServerRollback \/ UNCHANGED <<nest, failed, dataVars>>) /\ UNCHANGED session
     \/ Oracle /\ UNCHANGED <<session, nest, failed, dataVars>>
  /\ UNCHANGED <<vendor, mixed, alive, seen, direct, undone, kept, rejected, failedDocs>>

\* COMMIT or ROLLBACK fails: the sqlx drivers give the session up and roll
\* back, the Oracle driver keeps its flag, and SQL Server's transaction is
\* lost, still open, or was not there.
EndFails ==
  /\ EndSession
  /\ \/ TakesSession /\ ServerRollback
     \/ SqlServer /\ (ServerRollback \/ UNCHANGED <<nest, failed, dataVars>>) /\ UNCHANGED session
     \/ Oracle /\ UNCHANGED <<session, nest, failed, dataVars>>
  /\ UNCHANGED <<vendor, mixed, alive, seen, direct, undone, kept, rejected, failedDocs>>

\* Mutant: ROLLBACK is not sent, the connection only given back.
RollbackForgetsServer ==
  /\ EndSession
  /\ \/ TakesSession \/ (SqlServer /\ nest > 0 /\ UNCHANGED session)
     \/ Oracle /\ session /\ session' = FALSE
  /\ undone' = undone \cup ofSession
  /\ UNCHANGED <<vendor, mixed, alive, nest, failed, dataVars, seen, direct, kept, rejected, failedDocs>>

\* Mutant: rollback_transaction sends COMMIT.
RollbackCommits ==
  /\ EndSession
  /\ \/ TakesSession /\ ServerCommit
     \/ SqlServer /\ nest > 0 /\ ServerCommit /\ UNCHANGED session
     \/ Oracle /\ session /\ session' = FALSE /\ ServerCommit
  /\ undone' = undone \cup ofSession
  /\ UNCHANGED <<vendor, mixed, alive, seen, direct, kept, rejected, failedDocs>>

Rollback ==
  /\ EndSession
  /\ \/ TakesSession /\ ServerRollback
     \/ SqlServer /\ nest > 0 /\ ServerRollback /\ UNCHANGED session
     \/ Oracle /\ session /\ session' = FALSE /\ ServerRollback
  /\ undone' = undone \cup ofSession
  /\ UNCHANGED <<vendor, mixed, alive, seen, direct, kept, rejected, failedDocs>>

\* disconnect: an explicit rollback, or what the server does with what is
\* left when the client closes (SQL Server rolls back; Oracle may not).
Disconnect ==
  /\ alive /\ alive' = FALSE
  /\ ServerRollback \/ (Oracle /\ ~session /\ ServerCommit)
  /\ session' = FALSE
  /\ undone' = undone \cup ofSession
  /\ believed' = FALSE /\ ofSession' = {}
  /\ UNCHANGED <<vendor, mixed, seen, direct, kept, rejected, failedDocs>>

-----------------------------------------------------------------------------
(* Direct statements                                                       *)

Acknowledge(ws) ==
  IF believed
    THEN ofSession' = ofSession \cup ws /\ UNCHANGED direct
    ELSE direct' = direct \cup ws /\ UNCHANGED ofSession

Attempt(ws) == ws # {} /\ ws \cap seen = {} /\ seen' = seen \cup ws

\* Outside a session the sqlx drivers use another connection of the pool.
InTransaction == Oracle \/ nest > 0

\* Mutant: the session's connection is not looked at.
ExecuteOnPool(w) ==
  /\ alive /\ ~failed
  /\ Attempt({w})
  /\ Apply({w}, InTransaction /\ ~Sqlx)
  /\ Acknowledge({w})
  /\ UNCHANGED <<vendor, mixed, driverVars, believed, undone, kept, rejected, failedDocs>>

Execute(w) ==
  /\ alive /\ ~failed
  /\ Attempt({w})
  /\ Apply({w}, InTransaction)
  /\ Acknowledge({w})
  /\ UNCHANGED <<vendor, mixed, driverVars, believed, undone, kept, rejected, failedDocs>>

\* An error aborts a PostgreSQL transaction; elsewhere it undoes one statement.
ExecuteFails(w) ==
  /\ alive
  /\ Attempt({w})
  /\ failed' = (failed \/ (vendor = "postgres" /\ nest > 0))
  /\ UNCHANGED <<vendor, mixed, alive, session, nest, believed, dataVars, toldVars>>

-----------------------------------------------------------------------------
(* execute_batch (execute_edit_batch)                                      *)

SendBatch(ws) == alive /\ Attempt(ws) /\ mixed' = (mixed \/ session \/ believed)

\* PostgreSQL begins and commits on the session's connection as well: the
\* server warns at the second BEGIN and the COMMIT ends the transaction.
BatchPostgres(ws) ==
  /\ vendor = "postgres" /\ ~failed
  /\ committed' = committed \cup pending \cup ws
  /\ pending' = {} /\ nest' = 0
  /\ UNCHANGED failed

\* On the session's connection, or in a transaction of the pool's.
BatchInSession(ws) ==
  /\ vendor \in {"mysql", "sqlite"}
  /\ Apply(ws, session)
  /\ UNCHANGED <<nest, failed>>

\* A nested BEGIN and COMMIT.
BatchSqlServer(ws) ==
  /\ SqlServer
  /\ Apply(ws, nest > 0)
  /\ UNCHANGED <<nest, failed>>

BatchOracle(ws) ==
  /\ Oracle
  /\ IF session
       THEN Apply(ws, TRUE)
       ELSE committed' = committed \cup pending \cup ws /\ pending' = {}
  /\ UNCHANGED <<nest, failed>>

Batch(ws) ==
  /\ SendBatch(ws)
  /\ BatchPostgres(ws) \/ BatchInSession(ws) \/ BatchSqlServer(ws) \/ BatchOracle(ws)
  /\ Acknowledge(ws)
  /\ UNCHANGED <<vendor, alive, session, believed, undone, kept, rejected, failedDocs>>

\* Before a batch is refused any part of it may have taken effect: a conflict
\* is one row too few or one too many.
Residue(ws) == SUBSET ws

\* Dropping the sqlx transaction rolls back, the session's work with it; in
\* an aborted transaction not even the BEGIN is accepted.
RejectPostgres ==
  /\ vendor = "postgres"
  /\ IF session /\ ~failed THEN ServerRollback ELSE UNCHANGED <<nest, failed, dataVars>>

\* In a session nothing is rolled back.
RejectInSession(ws) ==
  /\ vendor \in {"mysql", "sqlite"}
  /\ \/ session /\ \E done \in Residue(ws) : Apply(done, TRUE)
     \/ ~session /\ UNCHANGED dataVars
  /\ UNCHANGED <<nest, failed>>

\* Mutant: the early return without ROLLBACK TRANSACTION, which leaves the
\* batch's own BEGIN open.
RejectSqlServerForgets(ws) ==
  /\ SqlServer
  /\ \E done \in Residue(ws) : Apply(done, TRUE)
  /\ nest' = nest + 1
  /\ UNCHANGED failed

\* ROLLBACK TRANSACTION undoes every level.
RejectSqlServer(ws) == SqlServer /\ ServerRollback

RejectOracle(ws) ==
  /\ Oracle
  /\ \/ session /\ \E done \in Residue(ws) : Apply(done, TRUE)
     \/ ~session /\ pending' = {} /\ UNCHANGED committed
  /\ UNCHANGED <<nest, failed>>

\* EditConflict, or a statement of the batch fails.
BatchRejected(ws) ==
  /\ SendBatch(ws)
  /\ RejectPostgres \/ RejectInSession(ws) \/ RejectSqlServer(ws) \/ RejectOracle(ws)
  /\ rejected' = rejected \cup ws
  /\ UNCHANGED <<vendor, alive, session, believed, ofSession, direct, undone, kept, failedDocs>>

-----------------------------------------------------------------------------
(* execute_query_transaction: a whole document                             *)

\* PostgreSQL, MySQL and Oracle take one statement at a time.
Document(ws) == vendor \in {"sqlite", "sqlserver"} \/ Cardinality(ws) = 1

RunDocument(ws) ==
  /\ alive /\ ~failed /\ Document(ws)
  /\ Attempt(ws)
  /\ Apply(ws, InTransaction)
  /\ Acknowledge(ws)
  /\ UNCHANGED <<vendor, mixed, driverVars, believed, undone, kept, rejected, failedDocs>>

\* The statements before the failing one stay.
KeepsPart(ws) == \E done \in Residue(ws) \ {ws} : Apply(done, InTransaction)

\* Mutant: the statements run on the pool, without a transaction.
DocumentFailsDirectly(ws) ==
  /\ alive /\ Document(ws)
  /\ Attempt(ws)
  /\ KeepsPart(ws)
  /\ failed' = (failed \/ (vendor = "postgres" /\ nest > 0))
  /\ failedDocs' = IF believed THEN failedDocs ELSE failedDocs \cup ws
  /\ UNCHANGED <<vendor, mixed, alive, session, nest, believed, ofSession, direct, undone, kept, rejected>>

\* Outside a session the sqlx drivers drop their transaction; in one they run
\* the document on its connection, and SQL Server and Oracle ignore the mode.
DocumentFails(ws) ==
  /\ alive /\ Document(ws)
  /\ Attempt(ws)
  /\ IF Sqlx /\ ~session THEN UNCHANGED dataVars ELSE KeepsPart(ws)
  /\ failed' = (failed \/ (vendor = "postgres" /\ nest > 0))
  /\ failedDocs' = IF believed THEN failedDocs ELSE failedDocs \cup ws
  /\ UNCHANGED <<vendor, mixed, alive, session, nest, believed, ofSession, direct, undone, kept, rejected>>

-----------------------------------------------------------------------------
Next ==
  \/ Begin \/ Commit \/ EndFails \/ Rollback \/ Disconnect
  \/ \E w \in Write : Execute(w) \/ ExecuteFails(w)
  \/ \E ws \in SUBSET Write :
       Batch(ws) \/ BatchRejected(ws) \/ RunDocument(ws) \/ DocumentFails(ws)

Spec == Init /\ [][Next]_vars

-----------------------------------------------------------------------------
(* Properties                                                              *)

\* The variables range over the values the code and the servers give them.
TypeOK ==
  /\ vendor \in AllVendors
  /\ alive \in BOOLEAN /\ session \in BOOLEAN /\ believed \in BOOLEAN /\ failed \in BOOLEAN
  /\ nest \in 0 .. MaxNest
  /\ pending \subseteq seen /\ committed \subseteq seen
  /\ ofSession \subseteq seen /\ direct \subseteq seen
  /\ undone \subseteq seen /\ kept \subseteq seen
  /\ rejected \subseteq seen /\ failedDocs \subseteq seen
  /\ seen \subseteq Write
  /\ mixed \in BOOLEAN

\* Edit batches of these drivers leave a session as it is; what a session
\* promises is asked of the others as long as no batch was sent in one.
KeepsSession == mixed => vendor \in {"mysql", "sqlite", "oracle"}

\* The other drivers roll a refused batch back, with all of the session.
RefusalRollsBack == mixed => vendor \in {"postgres", "sqlserver"}

\* A session of a sqlx driver in which nothing but statements was run.
PlainSqlx == Sqlx /\ ~mixed

\* While a session is shown as active, the driver or the server holds an open
\* transaction for it, and a session a sqlx driver holds is shown: the user
\* can end it.
SessionIsHeld == KeepsSession /\ believed => IF Oracle THEN session ELSE nest > 0
SessionIsShown == PlainSqlx /\ session => believed
SessionsAgree == SessionIsHeld /\ SessionIsShown

\* What a session acknowledged is not durable before Commit.
UncommittedUntilCommit == KeepsSession => ofSession \cap committed = {}

\* After Rollback or disconnect nothing the session acknowledged is durable,
\* table-editor batches included (docs/sql-editor.md).
RollbackUndoesBatches == undone \cap committed = {}
RollbackUndoes == KeepsSession => RollbackUndoesBatches

\* After Commit everything the session acknowledged is durable.  PostgreSQL
\* answers the COMMIT of an aborted transaction with success, and what SQL
\* Server keeps after a failed COMMIT depends on the failure.
CommitKeeps == vendor \in {"mysql", "sqlite", "oracle"} => kept \subseteq committed

\* A refused edit batch has no effect at all, in a session or outside.
BatchAllOrNothing == RefusalRollsBack => rejected \cap (pending \cup committed) = {}

\* A one-shot document that failed outside a session has no effect.
FailedDocumentUndone == PlainSqlx => failedDocs \cap (pending \cup committed) = {}

\* Outside a session the connection is in auto-commit.
DirectWritesAreDurable == PlainSqlx => direct \subseteq committed

\* Every step of a sqlx driver's session is one of the session contract.
Contract == INSTANCE SessionContract WITH active <- session
ImplementsSession ==
  Contract!Init /\ [][PlainSqlx' => [Contract!Next]_(Contract!vars)]_vars

=============================================================================
