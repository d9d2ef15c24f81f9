----------------------------- MODULE SchemaScripts -----------------------------
(***************************************************************************)
(* The schema panels of the desktop window (App.tsx): the object forms and *)
(* Schema Compare, over the schema of the active connection, the metadata  *)
(* last loaded from it, and other sessions that change the schema          *)
(* meanwhile.                                                              *)
(*                                                                         *)
(* A confirmed plan runs as one transaction of the active connection       *)
(* (runQuery with a batch or in transaction mode); the metadata is loaded  *)
(* again by a later step.  The dialog that edits columns keeps the columns *)
(* it was opened on while the plan is built from the metadata of the       *)
(* moment; every other form works on the metadata of the moment.           *)
(***************************************************************************)
EXTENDS SchemaDiff, TableForms

\* A name that may have been left empty.
AnyName(names) == names \cup {None}

CONSTANTS
  Drivers, Seeds,        \* dialects, and the schemas connections start with
  TableNames, ViewNames, ColumnNames, Types, PartNames,
  Definitions,           \* view definitions
  ColumnLists,           \* what the create-table form was given
  MaxSteps               \* bound: changes of the active schema

ASSUME SchemaScriptsAssumption ==
  /\ TableNames \cup ViewNames \cup ColumnNames \cup PartNames \subseteq Nat
  /\ \A db \in Seeds : IsSchema(db)
  /\ ColumnLists \subseteq Seq([name : AnyName(ColumnNames), type : AnyName(Types), nullable : BOOLEAN, key : BOOLEAN])

VARIABLES
  driver,    \* driverKind
  readOnly,  \* readOnlyConnection
  active,    \* the schema of the active connection
  metadata,  \* metadata of the store
  opened,    \* None, or the table and columns the edit-columns dialog shows
  baseline,  \* schemaBaseline, the empty schema for null
  steps
schemaVars == <<driver, readOnly, active, metadata, opened, baseline, steps>>

Closed == [on |-> None, columns |-> NoParts]

SchemaInit ==
  /\ driver \in Drivers /\ readOnly \in BOOLEAN /\ active \in Seeds
  /\ metadata = active /\ opened = Closed /\ baseline = EmptySchema /\ steps = 0

-----------------------------------------------------------------------------
(* What the dialogs let their user enter.                                  *)

\* An ordered choice of the table's columns, or a row nothing was chosen in.
Lists(table) ==
  {<<None>>} \cup {<<c>> : c \in DOMAIN table.columns} \cup {<<c, d>> : c, d \in DOMAIN table.columns}
Indexes(table) ==
  DOMAIN table.indexes \cup {i \in {PrimaryIndex} : IsPrimaryIndex(table, i)}

CreateTableForms == [on : AnyName(TableNames), columns : ColumnLists]
AddColumnForms == [name : AnyName(ColumnNames), type : AnyName(Types), nullable : BOOLEAN]
CreateIndexForms(table) == [name : AnyName(PartNames), columns : Lists(table), unique : BOOLEAN]
AlterIndexForms(table) == [name : Indexes(table), columns : Lists(table), unique : BOOLEAN]
DropIndexForms(table) == Indexes(table)
RenameIndexForms(table) == [from : Indexes(table), to : AnyName(PartNames)]
CreateTableConstraintForms(table) ==
  [name : AnyName(PartNames), kind : {"unique"}, columns : Lists(table), safe : {TRUE}]
  \cup [name : AnyName(PartNames), kind : {"check"}, columns : {<<None>>}, safe : BOOLEAN]
\* Another table, and a column of each of the two.
AddForeignKeyForms(t, tables) ==
  UNION {{[name |-> n, key |-> [column |-> c, table |-> r, target |-> d]] :
            n \in AnyName(PartNames), c \in DOMAIN tables[t].columns, d \in DOMAIN tables[r].columns} :
           r \in DOMAIN tables \ {t}}
DropForeignKeyForms(table) == DOMAIN table.keys
CreateViewForms == [on : AnyName(ViewNames), def : Definitions, safe : BOOLEAN]
AlterViewForms(views) == [on : views, def : Definitions, safe : BOOLEAN]
DropViewForms(views) == views
DatabaseDefinitionForms == BOOLEAN
\* Every row may get a name and all a type, or one row anything; a column of
\* the primary key cannot be removed, nor the key be changed.
Shown(columns) ==
  [c \in DOMAIN columns |-> [name |-> c, type |-> columns[c].type, nullable |-> columns[c].nullable,
                             key |-> columns[c].key, remove |-> FALSE]]
Renaming(shown, names, y) == [c \in DOMAIN shown |-> [shown[c] EXCEPT !.name = names[c], !.type = y]]
Editing(shown, c, y, z, x) ==
  [shown EXCEPT ![c].type = y, ![c].nullable = z, ![c].remove = x /\ ~shown[c].key]
EditTableColumnsForms(columns) ==
  {Renaming(Shown(columns), names, y) : names \in [DOMAIN columns -> ColumnNames], y \in Types}
  \cup {Editing(Shown(columns), c, y, z, x) :
          c \in DOMAIN columns, y \in AnyName(Types), z \in BOOLEAN, x \in BOOLEAN}

-----------------------------------------------------------------------------
(* Each form's handler: a plan with errors or manual work is not offered,  *)
(* a read-only connection refuses, the user confirms, the plan runs.       *)

Runnable(plan) == ~plan.errors /\ ~plan.manual /\ plan.statements # <<>>

Submit(plan) ==
  /\ Runnable(plan) /\ ~readOnly /\ steps < MaxSteps
  /\ active' = RunScript(active, driver, plan.statements).db
  /\ steps' = steps + 1
  /\ UNCHANGED <<driver, readOnly, metadata, baseline>>
SubmitForm(plan) == Submit(plan) /\ UNCHANGED opened

Table(t) == metadata.tables[t]
ExistingViews == DOMAIN metadata.views

CreateTable ==
  \E form \in CreateTableForms : SubmitForm(BuildCreateTablePlan(form, driver))
AddColumn ==
  \E t \in DOMAIN metadata.tables, form \in AddColumnForms :
    SubmitForm(BuildAddColumnPlan(t, Table(t), form, driver))
CreateIndex ==
  \E t \in DOMAIN metadata.tables : \E form \in CreateIndexForms(Table(t)) :
    SubmitForm(BuildCreateIndexPlan(t, Table(t), form, driver))
AlterIndex ==
  \E t \in DOMAIN metadata.tables : \E form \in AlterIndexForms(Table(t)) :
    SubmitForm(BuildAlterIndexPlan(t, Table(t), form, driver))
CreateTableConstraint ==
  \E t \in DOMAIN metadata.tables : \E form \in CreateTableConstraintForms(Table(t)) :
    SubmitForm(BuildCreateTableConstraintPlan(t, Table(t), form, driver))
DropIndex ==
  \E t \in DOMAIN metadata.tables : \E i \in DropIndexForms(Table(t)) :
    SubmitForm(BuildDropIndexPlan(t, Table(t), i, driver))
RenameIndex ==
  \E t \in DOMAIN metadata.tables : \E form \in RenameIndexForms(Table(t)) :
    SubmitForm(BuildRenameIndexPlan(t, Table(t), form.from, form.to, driver))
AddForeignKey ==
  \E t \in DOMAIN metadata.tables : \E form \in AddForeignKeyForms(t, metadata.tables) :
    SubmitForm(BuildAddForeignKeyPlan(t, Table(t), Table(form.key.table), form, driver))
DropForeignKey ==
  \E t \in DOMAIN metadata.tables : \E k \in DropForeignKeyForms(Table(t)) :
    SubmitForm(BuildDropForeignKeyPlan(t, Table(t), k, driver))
CreateView ==
  \E form \in CreateViewForms : SubmitForm(BuildCreateViewPlan(ExistingViews, form, driver))
\* The view is the selected one.
AlterView ==
  \E form \in AlterViewForms(ExistingViews) :
    SubmitForm(BuildAlterViewPlan(ExistingViews, form, driver))
DropView ==
  \E v \in DropViewForms(ExistingViews) : SubmitForm(BuildDropViewPlan(ExistingViews, v, driver))
ApplyDatabaseDefinition ==
  \E safe \in DatabaseDefinitionForms : SubmitForm(BuildEditDatabaseDefinitionPlan(safe, driver))

\* The dialog copies the columns of the metadata when it opens.
OpenEditColumns(t) ==
  /\ opened = Closed /\ t \in DOMAIN metadata.tables
  /\ opened' = [on |-> t, columns |-> metadata.tables[t].columns]
  /\ UNCHANGED <<driver, readOnly, active, metadata, baseline, steps>>

EditTableColumns ==
  /\ opened # Closed /\ opened.on \in DOMAIN metadata.tables
  /\ \E rows \in EditTableColumnsForms(opened.columns) :
       Submit(BuildEditTableColumnsPlan(opened.on, Table(opened.on), rows, driver))
  /\ opened' = Closed

-----------------------------------------------------------------------------
(* Schema Compare.                                                         *)

CaptureSchemaBaseline ==
  /\ baseline # metadata /\ baseline' = metadata
  /\ UNCHANGED <<driver, readOnly, active, metadata, opened, steps>>

\* compareSavedConnection: another connection of the same dialect.
CompareSavedConnection ==
  /\ baseline' \in Seeds \ {baseline}
  /\ UNCHANGED <<driver, readOnly, active, metadata, opened, steps>>

SchemaDifference == CompareSchemaSnapshots(baseline, metadata, driver)

\* The dialog offers to apply a difference without manual changes.
Offered(diff) == baseline # EmptySchema /\ diff # <<>> /\ ManualCount(diff) = 0

\* The migration runs on the active connection.
ApplySchemaMigration ==
  /\ ~readOnly /\ steps < MaxSteps
  /\ LET diff == SchemaDifference
         statements == BuildSchemaMigrationStatements(diff)
     IN  /\ Offered(diff) /\ statements # <<>>
         /\ active' = RunScript(active, driver, statements).db
  /\ steps' = steps + 1
  /\ UNCHANGED <<driver, readOnly, metadata, opened, baseline>>

LoadMetadata ==
  /\ metadata # active /\ metadata' = active
  /\ UNCHANGED <<driver, readOnly, active, opened, baseline, steps>>

\* Another session, or a query tab, changes the schema.
OtherSession ==
  LET Named1(do, names, parts, defs) ==
        \E on \in names, part \in parts, def \in defs :
          LET s == Statement(do, on, part, def)
          IN  Accepts(active, driver, s) /\ active' = Effect(active, s)
      keys == [column : ColumnNames, table : TableNames, target : {1}]
  IN  /\ steps < MaxSteps /\ steps' = steps + 1
      /\ \/ Named1("createTable", TableNames, {None},
                   {[columns |-> [c \in cs |-> Column(1, c # 1, c = 1)]] : cs \in {{1}, {1, 2}}}
                   \cup {[columns |-> [c \in {1, 2} |-> Column(1, FALSE, TRUE)]]})
         \/ Named1("dropTable", TableNames, {None}, {NoDef})
         \/ Named1("addColumn", TableNames, {2}, {[type |-> 1, nullable |-> TRUE]})
         \/ Named1("dropColumn", TableNames, ColumnNames, {NoDef})
         \/ Named1("setType", TableNames, ColumnNames, {[type |-> 2]})
         \/ Named1("setNullable", TableNames, ColumnNames, {[nullable |-> FALSE]})
         \/ Named1("createIndex", TableNames, PartNames,
                   {[columns |-> <<c>>, unique |-> c = 1] : c \in ColumnNames})
         \/ Named1("dropIndex", TableNames, PartNames, {NoDef})
         \/ Named1("addForeignKey", TableNames, PartNames, keys)
         \/ Named1("dropForeignKey", TableNames, PartNames, {NoDef})
         \/ Named1("createView", ViewNames, {None}, Definitions)
         \/ Named1("replaceView", ViewNames, {None}, Definitions)
         \/ Named1("dropView", ViewNames, {None}, {NoDef})
      /\ UNCHANGED <<driver, readOnly, metadata, opened, baseline>>

FormHandlers ==
  \/ CreateTable \/ AddColumn \/ EditTableColumns \/ CreateIndex \/ AlterIndex
  \/ CreateTableConstraint \/ DropIndex \/ RenameIndex \/ AddForeignKey \/ DropForeignKey
  \/ CreateView \/ AlterView \/ DropView \/ ApplyDatabaseDefinition
  \/ \E t \in TableNames : OpenEditColumns(t)
CompareHandlers == CaptureSchemaBaseline \/ CompareSavedConnection \/ ApplySchemaMigration

SchemaNext == FormHandlers \/ CompareHandlers \/ LoadMetadata \/ OtherSession
SchemaSpec == SchemaInit /\ [][SchemaNext]_schemaVars

-----------------------------------------------------------------------------
\* The migration script takes the baseline to the current metadata, whatever
\* was added, changed and removed and however the objects depend on each
\* other, unless the difference is one of those Expressible leaves out
\* (schemaDiff.ts, compareSchemaSnapshots and orderSchemaChanges).
MigrationReachesTarget ==
  LET diff == SchemaDifference
  IN  Expressible(baseline, metadata, diff, driver) =>
        RunScript(baseline, driver, BuildSchemaMigrationStatements(diff))
          = [db |-> metadata, ok |-> TRUE]

\* The rollback script takes the current metadata back to the baseline
\* (schemaDiff.ts, buildSchemaRollbackSql).
RollbackRestoresBaseline ==
  LET diff == SchemaDifference
  IN  Expressible(baseline, metadata, diff, driver) /\ ~LosesIndexes(baseline, metadata) =>
        RunScript(metadata, driver, BuildSchemaRollbackSql(diff))
          = [db |-> baseline, ok |-> TRUE]

\* What an executed plan may leave: the intended part and nothing else.
Says(plan, Intended(_)) ==
  LET end == RunScript(active, driver, plan.statements)
  IN  Runnable(plan) /\ end.ok => Intended(end.db)

\* The column a row of the edit form stands for, after the form: what the
\* form shows, except where the form agreed with the metadata and another
\* session has changed the column since; a row that was not edited leaves the
\* column alone.
AsEdited(c, row, known, now, after) ==
  /\ row.name = c /\ row.type = known.type /\ row.nullable = known.nullable => after = now
  /\ after.type = row.type \/ (row.type = known.type /\ after.type = now.type)
  /\ after.nullable = row.nullable \/ (row.nullable = known.nullable /\ after.nullable = now.nullable)
  /\ after.key = now.key

\* One column gets the name of another one shown: the renames run one after
\* the other, which is refused, or goes wrong when that column is gone.
PassesName(rows) == \E c, d \in DOMAIN rows : c # d /\ rows[c].name = d

\* A form that succeeds has done what it shows and nothing else, though the
\* schema has changed since its metadata was loaded, or the metadata since the
\* dialog was opened: the other columns, indexes, keys and views are those the
\* database had (ddlForms.ts, buildEditTableColumnsPlan and the index plans).
FormDoesWhatItSays ==
  /\ opened # Closed /\ opened.on \in DOMAIN metadata.tables =>
       \A rows \in {r \in EditTableColumnsForms(opened.columns) : ~PassesName(r)} :
         LET Edited(db) ==
               LET old == active.tables[opened.on].columns
                   new == db.tables[opened.on].columns
                   kept == {c \in DOMAIN rows \cap DOMAIN old : ~rows[c].remove}
                   left == DOMAIN old \ DOMAIN rows
               IN  /\ DOMAIN new = {rows[c].name : c \in kept} \cup left
                   /\ \A c \in left : new[c] = old[c]
                   /\ \A c \in kept : AsEdited(c, rows[c], Table(opened.on).columns[c], old[c], new[rows[c].name])
                   /\ DOMAIN db.tables[opened.on].indexes = DOMAIN active.tables[opened.on].indexes
                   /\ DOMAIN db.tables[opened.on].keys = DOMAIN active.tables[opened.on].keys
         IN  Says(BuildEditTableColumnsPlan(opened.on, Table(opened.on), rows, driver), Edited)
  /\ \A t \in DOMAIN metadata.tables : \A form \in CreateIndexForms(Table(t)) \cup AlterIndexForms(Table(t)) :
       LET Altered(db) == db = [active EXCEPT !.tables[t].indexes = With(@, form.name, IndexDef(form))]
       IN  /\ Says(BuildCreateIndexPlan(t, Table(t), form, driver), Altered)
           /\ form.name \in DropIndexForms(Table(t)) =>
                Says(BuildAlterIndexPlan(t, Table(t), form, driver), Altered)
  /\ \A form \in AlterViewForms(ExistingViews) :
       LET Altered(db) == db = [active EXCEPT !.views = With(@, form.on, form.def)]
       IN  Says(BuildAlterViewPlan(ExistingViews, form, driver), Altered)
=============================================================================
