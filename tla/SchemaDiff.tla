------------------------------ MODULE SchemaDiff ------------------------------
(***************************************************************************)
(* schemaDiff.ts of the core package: the changes between two metadata     *)
(* snapshots of one schema, their order, and the migration and rollback    *)
(* scripts built from them.                                                *)
(*                                                                         *)
(* A change is its kind, the relation it is about (objectKey), the part of *)
(* it (column, index or foreign key; relation and part are what its label  *)
(* sorts by), the relations it must come after or before, and the          *)
(* statements that make and unmake it.  No statement stands for            *)
(* sql === null: the change is left to a manual review.                    *)
(***************************************************************************)
EXTENDS SchemaDatabase

Manual == <<>>

CreateTableSql(t, table) == <<Statement("createTable", t, None, [columns |-> table.columns])>>
DropTableSql(t) == <<Statement("dropTable", t, None, NoDef)>>
IndexSql(t, i, index) == <<Statement("createIndex", t, i, index)>>
DropIndexSql(t, i) == <<Statement("dropIndex", t, i, NoDef)>>
ForeignKeySql(driver, t, k, key) ==
  IF driver = "sqlite" THEN Manual ELSE <<Statement("addForeignKey", t, k, key)>>
\* SQLite does not know the names of foreign keys either.
DropForeignKeySql(driver, t, k) ==
  IF driver = "sqlite" THEN Manual ELSE <<Statement("dropForeignKey", t, k, NoDef)>>
ViewCreateSql(v, def) == <<Statement("createView", v, None, def)>>
ViewReplaceSql(driver, v, def) ==
  IF driver = "sqlite" THEN Manual ELSE <<Statement("replaceView", v, None, def)>>
ViewDropSql(v) == <<Statement("dropView", v, None, NoDef)>>
\* columnDefinition: the key of an added column is not part of it.
AddColumnSql(t, c, column) == <<Statement("addColumn", t, c, column)>>
DropColumnSql(driver, t, c) ==
  IF driver = "sqlite" THEN Manual ELSE <<Statement("dropColumn", t, c, NoDef)>>
AlterColumnSql(driver, t, c, column) ==
  CASE driver = "sqlite" -> Manual
    [] driver = "postgres" -> <<Statement("setType", t, c, [type |-> column.type]),
                                Statement("setNullable", t, c, [nullable |-> column.nullable])>>
    [] OTHER -> <<Statement("setColumn", t, c, column)>>

-----------------------------------------------------------------------------
changeOrder ==
  [tableAdded |-> 0, columnAdded |-> 1, indexAdded |-> 2, foreignKeyAdded |-> 3, viewAdded |-> 4,
   columnChanged |-> 5, foreignKeyRemoved |-> 6, indexRemoved |-> 7, columnRemoved |-> 8,
   viewChanged |-> 9, viewRemoved |-> 10, tableRemoved |-> 11]

Destructive(change) == changeOrder[change.kind] >= changeOrder.columnChanged

Change(kind, object, part, sql, undo) ==
  [kind |-> kind, object |-> object, part |-> part, sql |-> sql, undo |-> undo,
   after |-> {}, before |-> {}]

TableAdded(driver, t, table) ==
  {Change("tableAdded", t, None, CreateTableSql(t, table), DropTableSql(t))}
  \cup {Change("indexAdded", t, i, IndexSql(t, i, table.indexes[i]), DropIndexSql(t, i)) :
          i \in DOMAIN table.indexes}

ForeignKeysAdded(driver, t, keys, added) ==
  {[Change("foreignKeyAdded", t, k, ForeignKeySql(driver, t, k, keys[k]),
           DropForeignKeySql(driver, t, k)) EXCEPT !.after = {keys[k].table}] : k \in added}

ForeignKeysRemoved(driver, t, keys, removed) ==
  {[Change("foreignKeyRemoved", t, k, DropForeignKeySql(driver, t, k),
           ForeignKeySql(driver, t, k, keys[k])) EXCEPT !.before = {keys[k].table}] : k \in removed}

TableRemoved(driver, t, table) ==
  {[Change("tableRemoved", t, None, DropTableSql(t), CreateTableSql(t, table)) EXCEPT
      !.before = {table.keys[k].table : k \in DOMAIN table.keys}]}

\* The parts of f that g does not have in the same form.
NotIn(f, g) == {x \in DOMAIN f : x \notin DOMAIN g \/ f[x] # g[x]}

ColumnChanges(driver, t, old, new) ==
  {Change("columnAdded", t, c, AddColumnSql(t, c, new[c]), DropColumnSql(driver, t, c)) :
     c \in DOMAIN new \ DOMAIN old}
  \cup {Change("columnChanged", t, c, AlterColumnSql(driver, t, c, new[c]),
               AlterColumnSql(driver, t, c, old[c])) : c \in NotIn(new, old) \cap DOMAIN old}
  \cup {Change("columnRemoved", t, c, DropColumnSql(driver, t, c), AddColumnSql(t, c, old[c])) :
          c \in DOMAIN old \ DOMAIN new}

IndexChanges(t, old, new) ==
  {Change("indexAdded", t, i, IndexSql(t, i, new[i]), DropIndexSql(t, i)) : i \in NotIn(new, old)}
  \cup {Change("indexRemoved", t, i, DropIndexSql(t, i), IndexSql(t, i, old[i])) :
          i \in NotIn(old, new)}

ViewChanges(driver, old, new) ==
  {[Change("viewAdded", v, None, ViewCreateSql(v, new[v]), ViewDropSql(v)) EXCEPT
      !.after = new[v].reads] : v \in DOMAIN new \ DOMAIN old}
  \cup {[Change("viewChanged", v, None, ViewReplaceSql(driver, v, new[v]),
                ViewReplaceSql(driver, v, old[v])) EXCEPT !.after = new[v].reads] :
          v \in NotIn(new, old) \cap DOMAIN old}
  \cup {[Change("viewRemoved", v, None, ViewDropSql(v), ViewCreateSql(v, old[v])) EXCEPT
           !.before = old[v].reads] : v \in DOMAIN old \ DOMAIN new}

\* compareSchemaSnapshots before the changes are ordered.
Changes(baseline, current, driver) ==
  LET old == baseline.tables
      new == current.tables
  IN  (UNION {TableAdded(driver, t, new[t])
              \cup ForeignKeysAdded(driver, t, new[t].keys, DOMAIN new[t].keys) :
                t \in DOMAIN new \ DOMAIN old})
      \cup (UNION {ColumnChanges(driver, t, old[t].columns, new[t].columns)
                   \cup IndexChanges(t, old[t].indexes, new[t].indexes)
                   \cup ForeignKeysAdded(driver, t, new[t].keys, NotIn(new[t].keys, old[t].keys))
                   \cup ForeignKeysRemoved(driver, t, old[t].keys, NotIn(old[t].keys, new[t].keys)) :
                     t \in DOMAIN new \cap DOMAIN old})
      \cup (UNION {TableRemoved(driver, t, old[t])
                   \cup ForeignKeysRemoved(driver, t, old[t].keys, DOMAIN old[t].keys) :
                     t \in DOMAIN old \ DOMAIN new})
      \cup ViewChanges(driver, baseline.views, current.views)

-----------------------------------------------------------------------------
(* orderSchemaChanges: Kahn's algorithm with a sorted ready list; what a   *)
(* cycle leaves over follows in the order of the categories.               *)

CompareChangePriority(x, y) ==
  \/ changeOrder[x.kind] < changeOrder[y.kind]
  \/ x.kind = y.kind /\ (x.object < y.object \/ (x.object = y.object /\ x.part < y.part))

\* Mutant: the categories alone decide.
NoEdges(changes) == {}

Edges(changes) ==
  {e \in changes \X changes :
     /\ e[1] # e[2] /\ (Destructive(e[1]) <=> Destructive(e[2]))
     /\ IF Destructive(e[1]) THEN e[2].object \in e[1].before ELSE e[1].object \in e[2].after}

OrderSchemaChanges(changes) ==
  LET edges == Edges(changes)
      Ready(left) == {c \in left : \A e \in edges : e[2] = c => e[1] \notin left}
      Ordered[n \in 0..Cardinality(changes)] ==
        IF n = 0 THEN [order |-> <<>>, left |-> changes, cycle |-> FALSE]
        ELSE LET before == Ordered[n - 1]
                 cycle == before.cycle \/ Ready(before.left) = {}
                 candidates == IF cycle THEN before.left ELSE Ready(before.left)
                 first == CHOOSE c \in candidates : \A d \in candidates : ~CompareChangePriority(d, c)
             IN  [order |-> Append(before.order, first), left |-> before.left \ {first}, cycle |-> cycle]
  IN  Ordered[Cardinality(changes)].order

CompareSchemaSnapshots(baseline, current, driver) ==
  OrderSchemaChanges(Changes(baseline, current, driver))

ManualCount(diff) == Cardinality({i \in DOMAIN diff : diff[i].sql = Manual})
BuildSchemaMigrationStatements(diff) == FlattenSeq([i \in DOMAIN diff |-> diff[i].sql])

\* Mutant: the rollback runs in the order of the migration.
RollbackInOrder(diff) == FlattenSeq([i \in DOMAIN diff |-> diff[i].undo])

BuildSchemaRollbackSql(diff) == FlattenSeq([i \in DOMAIN diff |-> Reverse(diff)[i].undo])

-----------------------------------------------------------------------------
(* Differences that the generated script is not fit for; each is a hazard  *)
(* of its own.                                                             *)

Both(baseline, current) == DOMAIN baseline.tables \cap DOMAIN current.tables
\* An index or foreign key is redefined, or its name is used again
\* elsewhere: it is created before the old one is dropped.
ReusesName(baseline, current, diff) ==
  \E i \in DOMAIN diff :
    \/ diff[i].kind = "indexAdded" /\ diff[i].part \in IndexNames(baseline)
    \/ diff[i].kind = "foreignKeyAdded" /\ diff[i].part \in KeyNames(baseline)
\* The primary key changes: no statement touches it.
ChangesKey(baseline, current) ==
  \E t \in Both(baseline, current) :
    \E c \in DOMAIN current.tables[t].columns \cup DOMAIN baseline.tables[t].columns :
      LET Key(db) == c \in DOMAIN db.tables[t].columns /\ db.tables[t].columns[c].key
      IN  Key(baseline) # Key(current)
\* A column changes under a view or a foreign key.
ChangesUsedColumn(baseline, current, diff) ==
  \E i \in DOMAIN diff :
    /\ diff[i].kind = "columnChanged"
    /\ \E db \in {baseline, current} :
         \/ Tied(db, diff[i].object, diff[i].part)
         \/ \E v \in DOMAIN current.views \cap DOMAIN db.views :
              <<diff[i].object, diff[i].part>> \in db.views[v].uses
\* A replaced view lets go of a column that was dropped before, or turns to a
\* view that still reads it.
ReplacesTooLate(baseline, current, diff) ==
  \E i, j \in DOMAIN diff :
    /\ diff[j].kind = "viewChanged"
    /\ \/ /\ diff[i].kind = "columnRemoved"
          /\ <<diff[i].object, diff[i].part>> \in baseline.views[diff[j].object].uses
       \/ /\ diff[i].kind = "viewChanged"
          /\ diff[i].object \in current.views[diff[j].object].reads
          /\ diff[j].object \in Reached(baseline, {diff[i].object})
\* Foreign keys that reference each other leave an added view to its category.
LosesOrder(diff) ==
  \E i, j \in DOMAIN diff :
    /\ i < j /\ diff[i].kind = "viewAdded"
    /\ ~Destructive(diff[j]) /\ diff[j].object \in diff[i].after
\* A removed table comes back without its indexes.
LosesIndexes(baseline, current) ==
  \E t \in DOMAIN baseline.tables \ DOMAIN current.tables :
    DOMAIN baseline.tables[t].indexes # {}

Expressible(baseline, current, diff, driver) ==
  /\ ManualCount(diff) = 0
  /\ ~ReusesName(baseline, current, diff) /\ ~ChangesKey(baseline, current)
  /\ ~ChangesUsedColumn(baseline, current, diff) /\ ~ReplacesTooLate(baseline, current, diff)
  /\ ~LosesOrder(diff)
  /\ driver = "sqlserver" => \A i \in DOMAIN diff : diff[i].kind # "viewChanged"
=============================================================================
