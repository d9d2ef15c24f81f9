------------------------------ MODULE TableForms ------------------------------
(***************************************************************************)
(* ddlForms.ts of the core package: the plan an object form builds from    *)
(* what its user entered and the metadata of the selected table or view.   *)
(* A plan is the statements it would run, whether the input has errors and *)
(* whether it is left to a manual review.                                  *)
(*                                                                         *)
(* Names are compared as the database compares them; the code also folds   *)
(* case where it looks for duplicates.  The name None is an empty field,   *)
(* the type None one that typeError refuses.                               *)
(***************************************************************************)
EXTENDS SchemaDatabase, Lists

Plan(statements, errors, manual) ==
  [statements |-> IF errors \/ manual THEN <<>> ELSE statements, errors |-> errors, manual |-> manual]
NeedsReview(errors) == Plan(<<>>, errors, ~errors)

IdentifierError(name) == name = None
TypeError(type) == type = None
Duplicates(names) == Cardinality(ToSet(names)) < Len(names)

\* form: schema and name, and a list of columns with a name each.
BuildCreateTablePlan(form, driver) ==
  LET names == [n \in DOMAIN form.columns |-> form.columns[n].name]
      errors == \/ IdentifierError(form.on) \/ form.columns = <<>> \/ Duplicates(names)
                \/ \E n \in DOMAIN form.columns :
                     IdentifierError(names[n]) \/ TypeError(form.columns[n].type)
      Entered(c) == form.columns[CHOOSE n \in DOMAIN names : names[n] = c]
  IN  Plan(<<Statement("createTable", form.on, None,
               [columns |-> [c \in ToSet(names) |->
                   Column(Entered(c).type, Entered(c).nullable, Entered(c).key)]])>>,
           errors, FALSE)

BuildAddColumnPlan(t, table, form, driver) ==
  Plan(<<Statement("addColumn", t, form.name, [type |-> form.type, nullable |-> form.nullable])>>,
       IdentifierError(form.name) \/ TypeError(form.type) \/ form.name \in DOMAIN table.columns, FALSE)

\* Mutant: every row is restated as it is shown, edited or not.
EditEveryRow(t, driver, c, column, row) ==
  IF row.remove THEN <<Statement("dropColumn", t, c, NoDef)>>
  ELSE (IF row.name # c THEN <<Statement("renameColumn", t, c, [to |-> row.name])>> ELSE <<>>)
       \o <<Statement("setColumn", t, row.name, [type |-> row.type, nullable |-> row.nullable])>>

\* The statements for one row of the form: column c of the table, as edited.
EditStatements(t, driver, c, column, row) ==
  LET renamed == row.name # c
      retyped == row.type # column.type
      loosened == row.nullable # column.nullable
      whole == Statement("setColumn", t, row.name, [type |-> row.type, nullable |-> row.nullable])
      If(condition, s) == IF condition THEN <<s>> ELSE <<>>
  IN  IF row.remove THEN <<Statement("dropColumn", t, c, NoDef)>>
      ELSE If(renamed, Statement("renameColumn", t, c, [to |-> row.name]))
           \o (CASE driver = "postgres" ->
                      If(retyped, Statement("setType", t, row.name, [type |-> row.type]))
                      \o If(loosened, Statement("setNullable", t, row.name, [nullable |-> row.nullable]))
                 \* MySQL says both in one CHANGE COLUMN
                 [] driver = "mysql" -> If(renamed \/ retyped \/ loosened, whole)
                 [] OTHER -> If(retyped \/ loosened, whole))

\* rows: what the form shows for the columns it was opened on.
BuildEditTableColumnsPlan(t, table, rows, driver) ==
  LET order == Ascending(DOMAIN rows)
      known == DOMAIN rows \cap DOMAIN table.columns
      Statements(c) == EditStatements(t, driver, c, table.columns[c], rows[c])
      keyed == {c \in known : rows[c].key # table.columns[c].key}
      statements == FlattenSeq([n \in DOMAIN order |->
                      IF order[n] \in known \ keyed THEN Statements(order[n]) ELSE <<>>])
      manual ==
        \/ keyed # {}
        \/ \E c \in known : rows[c].remove /\ rows[c].key
        \/ driver = "sqlite" /\ statements # <<>>
      errors ==
        \/ known # DOMAIN rows \/ Duplicates([n \in DOMAIN order |-> rows[order[n]].name])
        \/ \E c \in DOMAIN rows :
             \/ IdentifierError(rows[c].name) \/ TypeError(rows[c].type)
             \/ c \notin keyed /\ rows[c].remove /\ rows[c].name # c
        \/ \A c \in DOMAIN rows : rows[c].remove
        \/ statements = <<>> /\ ~manual
  IN  Plan(statements, errors, manual)

\* An ordered list of columns of the table, each once.
ColumnListError(table, columns) ==
  columns = <<>> \/ Duplicates(columns) \/ ~ToSet(columns) \subseteq DOMAIN table.columns
IndexDef(form) == [columns |-> form.columns, unique |-> form.unique]

BuildCreateIndexPlan(t, table, form, driver) ==
  Plan(<<Statement("createIndex", t, form.name, IndexDef(form))>>,
       \/ IdentifierError(form.name) \/ ColumnListError(table, form.columns)
       \/ form.name \in DOMAIN table.indexes, FALSE)

\* The index of the primary key is listed with the others; here under one name.
PrimaryIndex == -1
IsPrimaryIndex(table, name) ==
  name = PrimaryIndex /\ \E c \in DOMAIN table.columns : table.columns[c].key
HasIndex(table, name) == name \in DOMAIN table.indexes

BuildAlterIndexPlan(t, table, form, driver) ==
  LET errors == \/ ~HasIndex(table, form.name) \/ ColumnListError(table, form.columns)
                \/ table.indexes[form.name] = IndexDef(form)
  IN  IF IsPrimaryIndex(table, form.name) THEN NeedsReview(ColumnListError(table, form.columns))
      ELSE Plan(IF driver = "mysql"
                THEN <<Statement("rebuildIndex", t, form.name, IndexDef(form))>>
                ELSE <<Statement("dropIndex", t, form.name, NoDef),
                       Statement("createIndex", t, form.name, IndexDef(form))>>,
                errors, ~errors /\ driver = "sqlite")

\* A UNIQUE constraint shows as a unique index; a CHECK is not compared.
BuildCreateTableConstraintPlan(t, table, form, driver) ==
  LET errors == \/ IdentifierError(form.name) \/ form.name \in DOMAIN table.indexes
                \/ form.kind = "unique" /\ ColumnListError(table, form.columns)
                \/ form.kind = "check" /\ ~form.safe
  IN  Plan(<<IF form.kind = "unique"
             THEN Statement("createIndex", t, form.name, [columns |-> form.columns, unique |-> TRUE])
             ELSE Statement("addCheck", t, form.name, NoDef)>>,
           errors, ~errors /\ driver = "sqlite")

BuildDropIndexPlan(t, table, name, driver) ==
  IF IsPrimaryIndex(table, name) THEN NeedsReview(FALSE)
  ELSE Plan(<<Statement("dropIndex", t, name, NoDef)>>, ~HasIndex(table, name), FALSE)

BuildRenameIndexPlan(t, table, name, to, driver) ==
  LET errors == \/ ~HasIndex(table, name) \/ IdentifierError(to) \/ name = to
                \/ to \in DOMAIN table.indexes
  IN  IF IsPrimaryIndex(table, name) THEN NeedsReview(IdentifierError(to) \/ name = to \/ to \in DOMAIN table.indexes)
      ELSE Plan(<<Statement("renameIndex", t, name, [to |-> to])>>, errors, ~errors /\ driver = "sqlite")

BuildAddForeignKeyPlan(t, table, referenced, form, driver) ==
  LET errors == \/ IdentifierError(form.name) \/ IdentifierError(form.key.table)
                \/ form.key.column \notin DOMAIN table.columns
                \/ form.key.target \notin DOMAIN referenced.columns
                \/ form.name \in DOMAIN table.keys
  IN  Plan(<<Statement("addForeignKey", t, form.name, form.key)>>, errors, driver = "sqlite")

BuildDropForeignKeyPlan(t, table, name, driver) ==
  LET errors == name \notin DOMAIN table.keys
  IN  Plan(<<Statement("dropForeignKey", t, name, NoDef)>>, errors, ~errors /\ driver = "sqlite")

\* safe: the definition starts with SELECT or WITH and inspectViewDefinition
\* finds nothing in it.
BuildCreateViewPlan(existingViews, form, driver) ==
  Plan(<<Statement("createView", form.on, None, form.def)>>,
       IdentifierError(form.on) \/ ~form.safe \/ form.on \in existingViews, FALSE)

BuildAlterViewPlan(existingViews, form, driver) ==
  Plan(IF driver = "sqlite"
       THEN <<Statement("dropView", form.on, None, NoDef), Statement("createView", form.on, None, form.def)>>
       ELSE <<Statement("replaceView", form.on, None, form.def)>>,
       \/ form.on \notin existingViews
       \/ BuildCreateViewPlan(existingViews \ {form.on}, form, driver).errors, FALSE)

BuildDropViewPlan(existingViews, v, driver) ==
  Plan(<<Statement("dropView", v, None, NoDef)>>, v \notin existingViews, FALSE)

\* safe: one CREATE or ALTER statement of a routine or trigger.
BuildEditDatabaseDefinitionPlan(safe, driver) ==
  Plan(<<Statement("define", None, None, NoDef)>>, ~safe, safe /\ driver = "sqlite")
=============================================================================
