---------------------------- MODULE SchemaDatabase ----------------------------
(***************************************************************************)
(* What a database does with the DDL that QueryX generates: the part of a  *)
(* schema that QueryX reads as metadata, and when a statement is accepted. *)
(* The rules are those the supported databases have in common, taken at    *)
(* their strictest: a statement is refused when one of them refuses it.    *)
(*                                                                         *)
(* Names are numbers, ordered like the labels that carry them.  A column   *)
(* is a type, a nullability and its part in the primary key; an index is   *)
(* a list of columns and UNIQUE; a foreign key is one column, the table    *)
(* and column it references and its ON DELETE action; a view definition    *)
(* is the relations it reads and the columns it names.                     *)
(***************************************************************************)
EXTENDS Integers, Sequences, SequencesExt, FiniteSets

None == 0

\* Statements: what is done, on which table or view, to which of its parts, and
\* what it says of them: a record, of other fields for other kinds of statements.
Statement(do, on, name, def) == [do |-> do, on |-> on, name |-> name, def |-> def]

NoDef == [none |-> None]

Column(type, nullable, key) == [type |-> type, nullable |-> nullable, key |-> key]
NoParts == [x \in {} |-> x]
EmptySchema == [tables |-> NoParts, views |-> NoParts]

\* What is a schema: named parts, each of its form.
IsParts(f) == f = [x \in DOMAIN f |-> f[x]] /\ DOMAIN f \subseteq Nat /\ IsFiniteSet(DOMAIN f)
AreColumns(columns) ==
  /\ IsParts(columns)
  /\ \A c \in DOMAIN columns :
       /\ columns[c] = Column(columns[c].type, columns[c].nullable, columns[c].key)
       /\ columns[c].key \in BOOLEAN
IsTableOf(table) ==
  /\ table = [columns |-> table.columns, indexes |-> table.indexes, keys |-> table.keys]
  /\ AreColumns(table.columns) /\ IsParts(table.indexes) /\ IsParts(table.keys)
IsSchema(db) ==
  /\ db = [tables |-> db.tables, views |-> db.views]
  /\ IsParts(db.tables) /\ IsParts(db.views) /\ \A t \in DOMAIN db.tables : IsTableOf(db.tables[t])

Without(f, x) == [y \in DOMAIN f \ {x} |-> f[y]]
With(f, x, v) == [y \in DOMAIN f \cup {x} |-> IF y = x THEN v ELSE f[y]]

IsTable(db, t) == t \in DOMAIN db.tables
IsColumn(db, t, c) == IsTable(db, t) /\ c \in DOMAIN db.tables[t].columns
Relations(db) == DOMAIN db.tables \cup DOMAIN db.views
Readers(db, r) == {v \in DOMAIN db.views : r \in db.views[v].reads}
Named(db, t, c) == {v \in DOMAIN db.views : <<t, c>> \in db.views[v].uses}
IndexNames(db) == UNION {DOMAIN db.tables[t].indexes : t \in DOMAIN db.tables}
KeyNames(db) == UNION {DOMAIN db.tables[t].keys : t \in DOMAIN db.tables}
AllKeys(db) ==
  UNION {{[from |-> t, key |-> db.tables[t].keys[k]] : k \in DOMAIN db.tables[t].keys} :
           t \in DOMAIN db.tables}
\* Foreign keys that leave from or arrive at a column.
Tied(db, t, c) ==
  \E k \in AllKeys(db) : (k.from = t /\ k.key.column = c) \/ (k.key.table = t /\ k.key.target = c)
Indexed(db, t, c) ==
  \E i \in DOMAIN db.tables[t].indexes : c \in ToSet(db.tables[t].indexes[i].columns)
Unique(db, t, c) ==
  \/ {x \in DOMAIN db.tables[t].columns : db.tables[t].columns[x].key} = {c}
  \/ \E i \in DOMAIN db.tables[t].indexes :
       db.tables[t].indexes[i].unique /\ db.tables[t].indexes[i].columns = <<c>>
\* A foreign key of table t that the database can hold.
Fits(db, t, key) ==
  /\ IsColumn(db, t, key.column) /\ IsColumn(db, key.table, key.target)
  /\ Unique(db, key.table, key.target)
  /\ db.tables[t].columns[key.column].type = db.tables[key.table].columns[key.target].type
\* The unique columns some foreign key needs stay unique.
StillUnique(db) == \A k \in AllKeys(db) : Unique(db, k.key.table, k.key.target)

ViewFits(db, def) ==
  def.reads \subseteq Relations(db) /\ \A u \in def.uses : IsColumn(db, u[1], u[2])

\* What is read through relations rs, views of views included.
Reached(db, rs) ==
  FoldLeft(LAMBDA known, n : known \cup UNION {db.views[v].reads : v \in known \cap DOMAIN db.views},
           rs, [n \in 1..Cardinality(DOMAIN db.views) |-> n])

\* The database after an accepted statement.
Effect(db, s) ==
  LET t == IF IsTable(db, s.on) THEN db.tables[s.on]
           ELSE [columns |-> NoParts, indexes |-> NoParts, keys |-> NoParts]
      Put(table) == [db EXCEPT !.tables = With(@, s.on, table)]
      To(c) == IF c = s.name THEN s.def.to ELSE c
      \* renaming column s.name of s.on
      There(r, c) == IF r = s.on THEN To(c) ELSE c
  IN
  CASE s.do = "createTable" -> Put([t EXCEPT !.columns = s.def.columns])
    [] s.do = "dropTable" -> [db EXCEPT !.tables = Without(@, s.on)]
    [] s.do \in {"addColumn", "setColumn"} ->
         Put([t EXCEPT !.columns = With(@, s.name, Column(s.def.type, s.def.nullable,
               s.name \in DOMAIN t.columns /\ t.columns[s.name].key))])
    [] s.do = "setType" -> Put([t EXCEPT !.columns[s.name].type = s.def.type])
    [] s.do = "setNullable" -> Put([t EXCEPT !.columns[s.name].nullable = s.def.nullable])
    [] s.do = "dropColumn" -> Put([t EXCEPT !.columns = Without(@, s.name)])
    [] s.do = "renameColumn" ->
         [tables |-> [r \in DOMAIN db.tables |->
            [columns |-> IF r # s.on THEN db.tables[r].columns
                         ELSE [c \in {To(x) : x \in DOMAIN t.columns} |->
                                 t.columns[CHOOSE x \in DOMAIN t.columns : To(x) = c]],
             indexes |-> [i \in DOMAIN db.tables[r].indexes |->
                            [db.tables[r].indexes[i] EXCEPT !.columns =
                               [n \in DOMAIN @ |-> There(r, @[n])]]],
             keys |-> [k \in DOMAIN db.tables[r].keys |->
                         [db.tables[r].keys[k] EXCEPT
                            !.column = There(r, @),
                            !.target = There(db.tables[r].keys[k].table, @)]]]],
          views |-> [v \in DOMAIN db.views |->
                       [db.views[v] EXCEPT !.uses = {<<u[1], There(u[1], u[2])>> : u \in @}]]]
    [] s.do \in {"createIndex", "rebuildIndex"} -> Put([t EXCEPT !.indexes = With(@, s.name, s.def)])
    [] s.do = "dropIndex" -> Put([t EXCEPT !.indexes = Without(@, s.name)])
    [] s.do = "renameIndex" ->
         Put([t EXCEPT !.indexes = With(Without(@, s.name), s.def.to, t.indexes[s.name])])
    [] s.do = "addForeignKey" -> Put([t EXCEPT !.keys = With(@, s.name, s.def)])
    [] s.do = "dropForeignKey" -> Put([t EXCEPT !.keys = Without(@, s.name)])
    [] s.do \in {"createView", "replaceView"} -> [db EXCEPT !.views = With(@, s.on, s.def)]
    [] s.do = "dropView" -> [db EXCEPT !.views = Without(@, s.on)]
    \* CHECK constraints and routines are not part of what is compared.
    [] OTHER -> db

Accepts(db, driver, s) ==
  LET column == IsColumn(db, s.on, s.name)
      index == IsTable(db, s.on) /\ s.name \in DOMAIN db.tables[s.on].indexes
      retyped == s.do # "setNullable" /\ db.tables[s.on].columns[s.name].type # s.def.type
      loosened == s.do # "setType" /\ s.def.nullable
  IN
  CASE s.do = "createTable" -> ~IsTable(db, s.on) /\ DOMAIN s.def.columns # {}
    [] s.do = "dropTable" ->
         /\ IsTable(db, s.on) /\ Readers(db, s.on) = {}
         /\ \A k \in AllKeys(db) : k.key.table = s.on => k.from = s.on
    [] s.do = "addColumn" -> IsTable(db, s.on) /\ ~column
    [] s.do = "dropColumn" ->
         /\ column /\ ~Tied(db, s.on, s.name) /\ ~Indexed(db, s.on, s.name)
         /\ Named(db, s.on, s.name) = {} /\ ~db.tables[s.on].columns[s.name].key
         /\ DOMAIN db.tables[s.on].columns # {s.name}
    [] s.do \in {"setColumn", "setType", "setNullable"} ->
         /\ column
         \* PostgreSQL refuses SET TYPE under a view, even to the same type.
         /\ s.do = "setType" => Named(db, s.on, s.name) = {}
         /\ retyped => Named(db, s.on, s.name) = {} /\ ~Tied(db, s.on, s.name)
         /\ loosened => ~db.tables[s.on].columns[s.name].key
    [] s.do = "renameColumn" -> column /\ ~IsColumn(db, s.on, s.def.to)
    [] s.do \in {"createIndex", "rebuildIndex"} ->
         /\ IF s.do = "createIndex" THEN IsTable(db, s.on) /\ s.name \notin IndexNames(db) ELSE index
         /\ ToSet(s.def.columns) \subseteq DOMAIN db.tables[s.on].columns
         /\ StillUnique(Effect(db, s))
    [] s.do = "dropIndex" -> index /\ StillUnique(Effect(db, s))
    [] s.do = "renameIndex" -> index /\ s.def.to \notin IndexNames(db)
    [] s.do = "addForeignKey" ->
         IsTable(db, s.on) /\ s.name \notin KeyNames(db) /\ Fits(db, s.on, s.def)
    [] s.do = "dropForeignKey" -> IsTable(db, s.on) /\ s.name \in DOMAIN db.tables[s.on].keys
    [] s.do = "createView" -> s.on \notin DOMAIN db.views /\ ViewFits(db, s.def)
    \* SQL Server has CREATE OR ALTER VIEW, SQLite has neither form.
    [] s.do = "replaceView" ->
         /\ s.on \in DOMAIN db.views /\ ViewFits(db, s.def) /\ s.on \notin Reached(db, s.def.reads)
         /\ driver \notin {"sqlite", "sqlserver"}
    [] s.do = "dropView" -> s.on \in DOMAIN db.views /\ Readers(db, s.on) = {}
    [] OTHER -> TRUE

\* MySQL and Oracle commit before and after every DDL statement.
Transactional(driver) == driver \notin {"mysql", "oracle"}

\* A script in one transaction: all of it or, when a statement is refused,
\* nothing, or what came before it where DDL does not wait for a COMMIT.
RunScript(db, driver, statements) ==
  LET Run[n \in 0..Len(statements)] ==
        IF n = 0 THEN [db |-> db, ok |-> TRUE]
        ELSE LET before == Run[n - 1]
             IN  IF before.ok /\ Accepts(before.db, driver, statements[n])
                 THEN [db |-> Effect(before.db, statements[n]), ok |-> TRUE]
                 ELSE [db |-> before.db, ok |-> FALSE]
      end == Run[Len(statements)]
  IN  IF end.ok \/ ~Transactional(driver) THEN end ELSE [db |-> db, ok |-> FALSE]
=============================================================================
