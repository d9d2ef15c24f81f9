------------------------------- MODULE DataSync -------------------------------
(***************************************************************************)
(* Data Compare of the desktop window (App.tsx): the selected table of the *)
(* active connection is counted and read, and so is the table of that name *)
(* of a saved connection; the differences are shown, and the chosen ones   *)
(* are run on the saved connection as one batch that is committed only if  *)
(* every statement changed one row.                                        *)
(*                                                                         *)
(* Between any two of these steps other sessions write to both tables.     *)
(* A batch takes effect statement by statement and holds the rows it has   *)
(* changed until it ends.  The dialog stays open meanwhile: the same or    *)
(* another comparison may be applied before the first batch has ended.     *)
(***************************************************************************)
EXTENDS DataCompare

CONSTANTS
  Dialects,     \* drivers
  Copies,       \* what the two tables may hold at first
  WrittenRows,  \* what other sessions write
  Batches,      \* bound: batches in flight, integers
  MaxWrites,    \* bound: writes of other sessions
  MaxClicks     \* bound: comparisons and batches

ASSUME DataSyncAssumption == Copies \subseteq TableRows /\ WrittenRows \subseteq Rows

VARIABLES
  dialect,    \* driverKind, of both sides
  source, target,
  comparing,  \* NotComparing, or the counts and rows read so far, NotRead for those that are not
  comparison, \* dataCompare, NoComparison for null
  protected,  \* the saved profile is read-only
  batch,      \* each is NoBatch, or the statements left, rows changed, and rows held
  report,     \* how the last batch ended
  version,    \* changes of the target so far
  writes, clicks

dataVars ==
  <<dialect, source, target, comparing, comparison, protected, batch, report, version, writes, clicks>>

NotRead == [k \in {-1} |-> k] \* no copy
Unread == [sourceCount |-> -1, targetCount |-> -1, sourceRows |-> NotRead, targetRows |-> NotRead, at |-> 0]
NotComparing == [idle |-> TRUE]
NoComparison == [idle |-> TRUE]
NoBatch == [idle |-> TRUE]
NoReport == [ok |-> FALSE, ended |-> FALSE]

DataInit ==
  /\ dialect \in Dialects /\ source \in Copies /\ target \in Copies /\ protected \in BOOLEAN
  /\ comparing = NotComparing /\ comparison = NoComparison
  /\ batch = [b \in Batches |-> NoBatch] /\ report = NoReport
  /\ version = 0 /\ writes = 0 /\ clicks = 0

-----------------------------------------------------------------------------
(* compareSavedDataConnection.                                             *)

Stored == <<dialect, source, target, protected, version, writes>>

\* The source is counted, then the saved connection is opened, read-only.
CountSource ==
  /\ comparing = NotComparing /\ clicks < MaxClicks
  /\ comparing' = [Unread EXCEPT !.sourceCount = BuildDataCountSql(source)]
  /\ clicks' = clicks + 1
  /\ UNCHANGED <<Stored, comparison, batch, report>>

Comparing == comparing # NotComparing
Counted == Comparing /\ comparing.targetCount >= 0

\* The target is counted, and more rows than can be compared end it.
CountTarget ==
  /\ Comparing /\ comparing.targetCount < 0
  /\ LET count == BuildDataCountSql(target)
     IN  comparing' = IF comparing.sourceCount > dataCompareMaxRows \/ count > dataCompareMaxRows
                      THEN NotComparing ELSE [comparing EXCEPT !.targetCount = count]
  /\ UNCHANGED <<Stored, comparison, batch, report, clicks>>

\* Both selects are on their way at once.
SelectSource ==
  /\ Counted /\ comparing.sourceRows = NotRead
  /\ \E rows \in BuildDataSelectSql(source) : comparing' = [comparing EXCEPT !.sourceRows = Answer(rows)]
  /\ UNCHANGED <<Stored, comparison, batch, report, clicks>>
SelectTarget ==
  /\ Counted /\ comparing.targetRows = NotRead
  /\ \E rows \in BuildDataSelectSql(target) :
       comparing' = [comparing EXCEPT !.targetRows = Answer(rows), !.at = version]
  /\ UNCHANGED <<Stored, comparison, batch, report, clicks>>

\* Rows that do not add up to the counts block the comparison.
CompareSavedDataConnection ==
  /\ Counted /\ comparing.sourceRows # NotRead /\ comparing.targetRows # NotRead
  /\ LET complete == /\ BuildDataCountSql(comparing.sourceRows) = comparing.sourceCount
                     /\ BuildDataCountSql(comparing.targetRows) = comparing.targetCount
     IN  comparison' = IF complete
                       THEN [CompareTableData(comparing.sourceRows, comparing.targetRows, dialect)
                               EXCEPT !.at = comparing.at]
                       ELSE comparison
  /\ comparing' = NotComparing
  /\ UNCHANGED <<Stored, batch, report, clicks>>

\* Any step fails, or the two tables do not have the same key and columns.
FailComparison ==
  /\ Comparing /\ comparing' = NotComparing
  /\ UNCHANGED <<Stored, comparison, batch, report, clicks>>

-----------------------------------------------------------------------------
(* applyDataSynchronization and the batch it hands to the target driver.   *)

\* The changes ticked in the dialog, when Apply is offered.
Selectable ==
  IF comparison = NoComparison \/ protected THEN {}
  ELSE IF comparison.errors THEN {}
  ELSE SUBSET {comparison.changes[n].key : n \in DOMAIN comparison.changes} \ {{}}

ApplyDataSynchronization(b) ==
  /\ batch[b] = NoBatch /\ clicks < MaxClicks
  /\ \E selected \in Selectable :
       batch' = [batch EXCEPT ![b] =
         [comparison |-> comparison, selected |-> selected,
          left |-> BuildDataSyncStatements(comparison, selected), affected |-> 0, held |-> NoRows]]
  /\ clicks' = clicks + 1
  /\ UNCHANGED <<Stored, comparing, comparison, report>>

Running(b) == batch[b] # NoBatch
Held(k) == \E b \in Batches : Running(b) /\ k \in DOMAIN batch[b].held
NoRow == NoRows
Found(k) == IF k \in DOMAIN target THEN target[k] ELSE NoRow

\* One statement of the batch; the row it changes is held until the end.
RunStatement(b) ==
  /\ Running(b) /\ batch[b].left # <<>>
  /\ LET sql == Head(batch[b].left)
         hit == IF Hits(target, sql) THEN 1 ELSE 0
     IN  /\ ~Held(sql.key) /\ ~Violates(target, sql)
         /\ target' = Changed(target, sql) /\ version' = version + hit
         /\ batch' = [batch EXCEPT ![b].left = Tail(@), ![b].affected = @ + hit,
                        ![b].held = IF hit = 1 THEN Put(@, sql.key, Found(sql.key)) ELSE @]
  /\ UNCHANGED <<dialect, source, comparing, comparison, protected, report, writes, clicks>>

Ended(b, ok, after) ==
  [ok |-> ok, ended |-> TRUE, selected |-> batch[b].selected, comparison |-> batch[b].comparison,
   held |-> batch[b].held, after |-> after,
   calm |-> version = batch[b].comparison.at + batch[b].affected]

\* Every statement changed its row: the batch is committed, the dialog closed.
CommitBatch(b) ==
  /\ Running(b) /\ batch[b].left = <<>> /\ batch[b].affected = Cardinality(batch[b].selected)
  /\ report' = Ended(b, TRUE, target)
  /\ batch' = [batch EXCEPT ![b] = NoBatch] /\ comparison' = NoComparison
  /\ UNCHANGED <<Stored, comparing, clicks>>

\* A statement failed, or one found no row: everything is undone and the
\* comparison stays open.
RollBackBatch(b) ==
  LET held == batch[b].held
  IN  /\ Running(b)
      /\ IF batch[b].left = <<>> THEN batch[b].affected # Cardinality(batch[b].selected)
         ELSE ~Held(Head(batch[b].left).key) /\ Violates(target, Head(batch[b].left))
      /\ target' = [k \in {j \in DOMAIN target \cup DOMAIN held : j \in DOMAIN held => held[j] # NoRow} |->
                      IF k \in DOMAIN held THEN held[k] ELSE target[k]]
      /\ version' = version + 1
      /\ report' = Ended(b, FALSE, target')
      /\ batch' = [batch EXCEPT ![b] = NoBatch]
      /\ UNCHANGED <<dialect, source, comparing, comparison, protected, writes, clicks>>

-----------------------------------------------------------------------------
(* Other sessions.                                                         *)

Writes(copy, k) == {Put(copy, k, row) : row \in WrittenRows} \cup {Drop(copy, k)}

WriteSource ==
  /\ writes < MaxWrites /\ writes' = writes + 1
  /\ \E k \in Keys : source' \in Writes(source, k) \ {source}
  /\ UNCHANGED <<dialect, target, comparing, comparison, protected, batch, report, version, clicks>>
WriteTarget ==
  /\ writes < MaxWrites /\ writes' = writes + 1
  /\ \E k \in Keys : ~Held(k) /\ target' \in Writes(target, k) \ {target}
  /\ version' = version + 1
  /\ UNCHANGED <<dialect, source, comparing, comparison, protected, batch, report, clicks>>

DataNext ==
  \/ CountSource \/ CountTarget \/ SelectSource \/ SelectTarget
  \/ CompareSavedDataConnection \/ FailComparison
  \/ \E b \in Batches :
       ApplyDataSynchronization(b) \/ RunStatement(b) \/ CommitBatch(b) \/ RollBackBatch(b)
  \/ WriteSource \/ WriteTarget
DataSpec == DataInit /\ [][DataNext]_dataVars

-----------------------------------------------------------------------------
\* The changes of a batch that was chosen.
Applied == Selection(report.comparison, report.selected)

\* A value that goes into the window and back into a statement unharmed.
Survives(v) == v \notin DOMAIN Rounded /\ SqlLiteral(v, dialect) = v

\* A synchronization that is reported as applied has left, for every chosen
\* key, the whole row the source had, and no row where it had none, though
\* other sessions wrote meanwhile; and one of values that survive the way
\* through the window only fails when somebody did write (dataCompare.ts,
\* buildChangeSql, and App.tsx, applyDataSynchronization).
SyncReproducesSource ==
  /\ report.ok => \A n \in DOMAIN Applied :
       LET change == Applied[n]
       IN  IF change.kind = "delete" THEN change.key \notin DOMAIN report.after
           ELSE /\ change.key \in DOMAIN report.after
                /\ (\A c \in DataColumns : Survives(change.source[c])) =>
                     report.after[change.key] = change.source
  /\ report.ended /\ ~report.ok /\ report.calm =>
       \E k \in DOMAIN report.after, c \in DataColumns : ~Survives(report.after[k][c])

\* docs/data-compare.md: "If a target row changed after comparison, the
\* affected-row check fails and the native batch rolls back."  A row that is
\* deleted is the row that was compared, as the window shows it.
DeletesWhatWasCompared ==
  report.ok => \A n \in DOMAIN Applied :
    Applied[n].kind = "delete" => Answer(report.held)[Applied[n].key] = Applied[n].target
=============================================================================
