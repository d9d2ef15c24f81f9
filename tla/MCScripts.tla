------------------------------ MODULE MCScripts ------------------------------
(***************************************************************************)
(* The scripts the window writes, model-checked part by part: a behaviour  *)
(* is about the object forms, Schema Compare, Data Compare, an import, or a *)
(* text that the scanners or Safe Mode read, chosen at the start.  The state of the  *)
(* other parts stays as it is.                                             *)
(***************************************************************************)
EXTENDS SchemaScripts, DataSync, SqlTexts, CsvTransfer

CONSTANTS Parts, MaxForms, FormDrivers, CompareDrivers

VARIABLE part
partVars == <<part>>
scriptVars == <<schemaVars, dataVars, textVars, csvVars, part>>

Key(c, t) == [column |-> c, table |-> t, target |-> 1]
View(reads, uses) == [reads |-> reads, uses |-> uses]
\* A view of a table and a column that may go, and views of other views.
MCDefinitions == {View({1}, {<<1, 2>>}), View({2, 3}, {}), View({4}, {})}

\* Nothing, and two tables with a foreign key, an index, a view and a view of it.
Plain(columns) == [columns |-> [c \in columns |-> Column(1, c # 1, c = 1)]]
MCSeeds == {EmptySchema,
  RunScript(EmptySchema, "postgres",
    <<Statement("createTable", 1, None, Plain({1, 2})), Statement("createTable", 2, None, Plain({1, 2})),
      Statement("addForeignKey", 1, 1, Key(2, 2)), Statement("createView", 3, None, View({1}, {<<1, 2>>})),
      Statement("createView", 4, None, View({2, 3}, {})),
      Statement("createIndex", 2, 1, [columns |-> <<2>>, unique |-> FALSE])>>).db}

\* Columns given to the create-table form, with a missing name, a missing type
\* and a name given twice among them.
Entry(n, y, key) == [name |-> n, type |-> y, nullable |-> ~key, key |-> key]
MCColumnLists ==
  {<<>>, <<Entry(1, 1, TRUE)>>, <<Entry(1, 1, TRUE), Entry(2, 1, TRUE)>>,
   <<Entry(1, 1, TRUE), Entry(1, 2, FALSE)>>, <<Entry(None, 1, FALSE)>>, <<Entry(1, None, FALSE)>>,
   <<Entry(2, 2, FALSE), Entry(1, 1, TRUE)>>}

\* Copies with rows that differ, are missing on either side, are too many to be
\* compared, have no key, or hold a value that does not survive the window.
Data(a, b) == [a |-> a, b |-> b]
Copy(rows) == [k \in {row[1] : row \in rows} |-> (CHOOSE row \in rows : row[1] = k)[2]]
MCCopies ==
  {NoRows, Copy({<<1, Data("x", "x")>>, <<2, Data("x", "y")>>}), Copy({<<1, Data("long", "slash")>>}),
   Copy({<<1, Data("x", "y")>>}), Copy({<<1, Data("x", "x")>>, <<2, Data("y", "y")>>, <<3, Data("x", "y")>>}), Copy({<<0, Data("x", "x")>>})}
MCRows == {Data("y", "y"), Data("x", "long")}
MCRounded == [v \in {"long"} |-> "round"]
MCUnescaped == [v \in {"slash"} |-> "y"]

\* What a value and a comment have in them: quotes, delimiters and commands.
MCInValues == {<<>>, <<"x">>, <<"'", "x">>, <<"\"", "x">>, <<"DELETE">>, <<";">>, <<"--">>, <<"/*">>}
MCInComments == {<<>>, <<"'">>, <<"\"">>, <<"DELETE">>, <<";">>, <<"--">>}

\* Rows of the table, and files: with quotes, separators, line ends and signs in
\* their cells, a key given twice, one column only, and one the table lacks.
MCContents == {<<>>, (<<"1">> :> <<"x">>) @@ (<<"2">> :> SqlNull)}
FileOf(columns, rows, writer) == [columns |-> columns, rows |-> rows, writer |-> writer]
Other(bom, ending, last) == [kind |-> "other", bom |-> bom, ending |-> ending, last |-> last]
Export == [kind |-> "export", bom |-> TRUE, ending |-> <<"cr", "lf">>, last |-> TRUE]
MCWriters == {Export, [kind |-> "json"], Other(FALSE, <<"lf">>, FALSE), Other(TRUE, <<"cr">>, TRUE)}
BothColumns == <<KeyColumn, NoteColumn>>
MCFiles ==
  {FileOf(BothColumns, <<<<<<"1">>, <<"y", "quote">>>>, <<<<"3">>, SqlNull>>>>, w) : w \in MCWriters}
  \cup {FileOf(BothColumns, <<<<<<"3">>, <<"x", "comma">>>>, <<<<"3">>, <<"cr", "lf", "y">>>>>>, w) : w \in MCWriters}
  \cup {FileOf(BothColumns, <<<<<<"-", "1">>, <<"=", "x">>>>, <<<<"1">>, <<>>>>>>, w) : w \in MCWriters}
  \cup {FileOf(<<NoteColumn>>, <<<<<<"quote">>>>, <<<<>>>>, <<<<"cr">>>>>>, w) : w \in MCWriters}
  \cup {FileOf(<<<<"x">>, <<"blank", "id", "lf">>>>, <<<<<<"1">>, <<"3">>>>, <<<<"comma">>, <<"1">>>>>>, w) : w \in MCWriters}
  \cup {FileOf(BothColumns, <<>>, Export), FileOf(<<KeyColumn, KeyColumn>>, <<<<<<"1">>, <<"2">>>>>>, Export)}

-----------------------------------------------------------------------------
Init ==
  /\ SchemaInit /\ DataInit /\ TextInit /\ CsvInit
  /\ part \in Parts
  /\ ~readOnly
  /\ driver \in CASE part = "forms" -> FormDrivers
                  [] part = "compare" -> CompareDrivers
                  [] OTHER -> {"postgres"}
  /\ part \notin {"forms", "compare"} => active = EmptySchema
  /\ part # "sync" => source = NoRows /\ target = NoRows /\ dialect = "postgres" /\ ~protected
  /\ part # "import" => engine = "postgres" /\ stored = <<>> /\ ~blocked
  /\ blocked => engine = "postgres"

Forms ==
  /\ part = "forms"
  /\ ((FormHandlers \/ OtherSession) /\ steps < MaxForms) \/ LoadMetadata
  /\ UNCHANGED <<dataVars, textVars, csvVars, part>>

\* The baseline is taken first, and the metadata loaded after every change.
Compare ==
  /\ part = "compare"
  /\ \/ OtherSession /\ metadata = active
     \/ (CaptureSchemaBaseline \/ CompareSavedConnection) /\ steps = 0
     \/ ApplySchemaMigration \/ LoadMetadata
  /\ UNCHANGED <<dataVars, textVars, csvVars, part>>

Sync == part = "sync" /\ DataNext /\ UNCHANGED <<schemaVars, textVars, csvVars, part>>
Text ==
  /\ \/ part = "segments" /\ \E segment \in Segments : WriteSegment(segment)
     \/ part = "phrases" /\ \E p \in Phrases : WritePhrase(p)
  /\ UNCHANGED <<schemaVars, dataVars, csvVars, part>>
Import == part = "import" /\ CsvNext /\ UNCHANGED <<schemaVars, dataVars, textVars, part>>

Next == Forms \/ Compare \/ Sync \/ Text \/ Import
=============================================================================
