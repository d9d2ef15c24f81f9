----------------------------- MODULE DataCompare -----------------------------
(***************************************************************************)
(* dataCompare.ts of the core package: the comparison of two copies of a   *)
(* table and the statements that make the target equal the source.         *)
(*                                                                         *)
(* A copy is a function from primary keys to data, the values of the other *)
(* columns.  NoKey stands for a primary key that is NULL.  What a driver   *)
(* shows of a value and what the literal made from it stands for are not   *)
(* always that value: an integer beyond 2^53 is rounded on its way into    *)
(* the window, and MySQL reads a backslash in a literal as an escape.      *)
(***************************************************************************)
EXTENDS Integers, Sequences, FiniteSets, Lists

CONSTANTS
  Keys,        \* primary keys, integers
  DataColumns, \* the other columns of the selected table
  Values,
  Rounded,     \* a function: the value a driver shows for another one
  Unescaped,   \* a function: the value a literal stands for on MySQL
  dataCompareMaxRows

NoKey == 0
ASSUME DataCompareAssumption ==
  /\ Keys \subseteq Nat /\ NoKey \notin Keys /\ dataCompareMaxRows \in Nat
  /\ Rounded \in UNION {[some -> Values] : some \in SUBSET Values}
  /\ Unescaped \in UNION {[some -> Values] : some \in SUBSET Values}

Rows == [DataColumns -> Values]
\* A copy of the table: finitely many rows, one of them perhaps without a key.
TableRows == UNION {[kept -> Rows] : kept \in {s \in SUBSET (Keys \cup {NoKey}) : IsFiniteSet(s)}}
NoRows == [k \in {} |-> k]
Put(copy, k, row) == [j \in DOMAIN copy \cup {k} |-> IF j = k THEN row ELSE copy[j]]
Drop(copy, k) == [j \in DOMAIN copy \ {k} |-> copy[j]]

\* The row of a driver's answer, and the value of a literal in its dialect.
RowValue(row, c) == IF row[c] \in DOMAIN Rounded THEN Rounded[row[c]] ELSE row[c]
Answer(copy) == [k \in DOMAIN copy |-> [c \in DataColumns |-> RowValue(copy[k], c)]]
SqlLiteral(v, driver) == IF driver = "mysql" /\ v \in DOMAIN Unescaped THEN Unescaped[v] ELSE v

\* SELECT with a limit: any rows, that many, when there are more.
BuildDataSelectSql(copy) ==
  {[k \in kept |-> copy[k]] : kept \in
     {s \in SUBSET DOMAIN copy :
        \/ s = DOMAIN copy /\ Cardinality(s) <= dataCompareMaxRows + 1
        \/ Cardinality(s) = dataCompareMaxRows + 1}}
BuildDataCountSql(copy) == Cardinality(DOMAIN copy)

\* Mutant: the rows are found by their key alone.
WhereKeyOnly(row, columns, driver) == [c \in {} |-> c]

\* The values a row must still have; its key is always among the conditions.
WhereClause(row, columns, driver) == [c \in columns |-> SqlLiteral(row[c], driver)]

ChangedColumns(from, to) == {c \in DataColumns : from[c] # to[c]}

BuildChangeSql(driver, kind, k, source, target) ==
  LET Assigned(row, columns) == [c \in columns |-> SqlLiteral(row[c], driver)]
      Sql(set, where) == [do |-> kind, key |-> k, set |-> set, where |-> where]
  IN  IF kind = "insert" THEN Sql(Assigned(source, DataColumns), NoRows)
      ELSE IF kind = "delete" THEN Sql(NoRows, WhereClause(target, {}, driver))
      ELSE Sql(Assigned(source, ChangedColumns(source, target)),
               WhereClause(target, DataColumns, driver))

\* Rows without a usable key are an error and are not compared.
RowMap(rows) == [k \in DOMAIN rows \ {NoKey} |-> rows[k]]
RowErrors(rows) == NoKey \in DOMAIN rows

DataCompareChange(source, target, k, driver) ==
  LET kind == IF k \notin DOMAIN target THEN "insert"
              ELSE IF k \notin DOMAIN source THEN "delete" ELSE "update"
      Row(copy) == IF k \in DOMAIN copy THEN copy[k] ELSE NoRows
  IN  [key |-> k, kind |-> kind, source |-> Row(source), target |-> Row(target),
       sql |-> BuildChangeSql(driver, kind, k, Row(source), Row(target))]

\* At most one change per key, in the order of the keys.
CompareTableData(sourceRows, targetRows, driver) ==
  LET source == RowMap(sourceRows)
      target == RowMap(targetRows)
      both == DOMAIN source \cap DOMAIN target
      order == Ascending({k \in DOMAIN source \cup DOMAIN target :
                            k \in both => ChangedColumns(source[k], target[k]) # {}})
  IN  [changes |-> [n \in DOMAIN order |-> DataCompareChange(source, target, order[n], driver)],
       matchedCount |-> Cardinality(both),
       errors |-> RowErrors(sourceRows) \/ RowErrors(targetRows),
       at |-> 0] \* when the target was read, for the properties

Selection(comparison, selected) ==
  Only(comparison.changes, {change \in Entries(comparison.changes) : change.key \in selected})
BuildDataSyncStatements(comparison, selected) ==
  LET changes == Selection(comparison, selected)
  IN  [n \in DOMAIN changes |-> changes[n].sql]

-----------------------------------------------------------------------------
(* What the target database does with a statement: the rows it changes.    *)

Violates(copy, sql) == sql.do = "insert" /\ sql.key \in DOMAIN copy
Hits(copy, sql) ==
  \/ sql.do = "insert"
  \/ sql.key \in DOMAIN copy /\ \A c \in DOMAIN sql.where : copy[sql.key][c] = sql.where[c]
Changed(copy, sql) ==
  IF ~Hits(copy, sql) THEN copy
  ELSE IF sql.do = "delete" THEN Drop(copy, sql.key)
  ELSE IF sql.do = "insert" THEN Put(copy, sql.key, sql.set)
  ELSE Put(copy, sql.key,
           [c \in DataColumns |-> IF c \in DOMAIN sql.set THEN sql.set[c] ELSE copy[sql.key][c]])
=============================================================================
