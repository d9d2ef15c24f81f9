----------------------------- MODULE CsvTransfer -----------------------------
(***************************************************************************)
(* Rows on their way through a file: the CSV and JSON exports of a result, *)
(* the reading of such a file or of one another program wrote, and the     *)
(* import into the selected table (csvExport.ts, csvImport.ts and the      *)
(* import dialog of App.tsx).                                              *)
(*                                                                         *)
(* A text is a sequence of symbols; a symbol is a character the code looks *)
(* for, or a word without any.  The table has a key column, which must be  *)
(* given and is unique, and a text column.  The database's answer to the   *)
(* statements is external.  Engines are PostgreSQL, MySQL and SQL Server:  *)
(* SQLite has its own rules for keys, Oracle gets what SQL Server gets.    *)
(***************************************************************************)
EXTENDS Integers, FiniteSets, SequencesExt, Lists

CONSTANTS
  Engines,     \* drivers of the connection
  Contents,    \* rows the table may hold: functions from keys to texts
  Files,       \* what may be chosen: columns, rows and the writer
  MaxChoices   \* bound: choices of the user in the dialog

\* A file has columns, with names, and a cell for each of them in every row.
\* A program that marks the beginning of its text does so once.
Texts == Seq(STRING)
Whitespace == {"blank", "tab", "cr", "lf", "bom"}
ASSUME CsvTransferAssumption ==
  /\ \A f \in Files :
       /\ f.columns \in Seq(Texts) /\ f.columns # <<>> /\ f.rows \in Seq(Seq(Texts))
       /\ \A r \in DOMAIN f.rows : Len(f.rows[r]) = Len(f.columns)
       /\ \A c \in DOMAIN f.columns :
            \E i \in DOMAIN f.columns[c] : f.columns[c][i] \notin Whitespace /\ f.columns[c][1] # "bom"
       /\ IF f.writer.kind = "json" THEN Distinct(f.columns)
          ELSE f.writer.ending \in {<<"lf">>, <<"cr">>, <<"cr", "lf">>}
  /\ \A rows \in Contents : IsFiniteSet(DOMAIN rows) /\ rows \in [DOMAIN rows -> Texts]

VARIABLES
  engine,
  stored,      \* the rows of the table
  file,        \* NoFile, or what was chosen in the dialog
  parsed, mappings, policy, conflictColumns,
  blocked,     \* the connection is read-only or row edits are staged
  imported,    \* NoImport, or the import that was run
  choices

csvVars == <<engine, stored, file, parsed, mappings, policy, conflictColumns, blocked, imported, choices>>

KeyColumn == <<"id">>
NoteColumn == <<"note">>
TableColumns == {KeyColumn, NoteColumn}
NoTarget == <<"skip">>
NoFile == [columns |-> <<>>, rows |-> <<>>, writer |-> [kind |-> "none"]]
NoImport == [ok |-> FALSE]
NothingRead == [headers |-> <<>>, rows |-> <<>>, ok |-> FALSE]

\* SQL NULL, as a result has it.
SqlNull == <<"null">>

-----------------------------------------------------------------------------
(* csvExport.ts.                                                           *)

NormalizeCell(value) == IF value = SqlNull THEN <<>> ELSE value

\* A value a spreadsheet would take for a formula gets an apostrophe.
FormulaPrefix(value) == value # <<>> /\ Head(value) \in {"=", "+", "-", "@", "tab", "cr"}
ProtectFormula(value) == IF FormulaPrefix(value) THEN <<"'">> \o value ELSE value

InQuotes(value) ==
  <<"quote">> \o FlattenSeq([i \in DOMAIN value |-> IF value[i] = "quote" THEN <<"quote", "quote">> ELSE <<value[i]>>])
          \o <<"quote">>

\* Mutant: a quote alone is not a reason to quote.
EncodeWithoutQuotes(value) ==
  IF {"comma", "cr", "lf"} \cap ToSet(ProtectFormula(value)) # {}
  THEN InQuotes(ProtectFormula(value)) ELSE ProtectFormula(value)

EncodeCell(value) ==
  IF {"quote", "comma", "cr", "lf"} \cap ToSet(ProtectFormula(value)) # {}
  THEN InQuotes(ProtectFormula(value)) ELSE ProtectFormula(value)

\* serializeRowsToCsv, and other programs, which may quote every cell, end
\* lines in another way or leave the last one open.
Record(cells, writer) ==
  FlattenSeq([c \in DOMAIN cells |->
                (IF c > 1 THEN <<"comma">> ELSE <<>>)
                \o IF writer.kind = "export" THEN EncodeCell(cells[c]) ELSE InQuotes(cells[c])])
Records(f) ==
  <<f.columns>> \o [r \in DOMAIN f.rows |-> [c \in DOMAIN f.rows[r] |-> NormalizeCell(f.rows[r][c])]]
SerializeRowsToCsv(f) ==
  LET records == Records(f)
  IN  (IF f.writer.bom THEN <<"bom">> ELSE <<>>)
      \o FlattenSeq([r \in DOMAIN records |->
                       Record(records[r], f.writer)
                       \o IF r < Len(records) \/ f.writer.last THEN f.writer.ending ELSE <<>>])

-----------------------------------------------------------------------------
(* csvImport.ts: reading a file.                                           *)

Blank == [rows |-> <<>>, values |-> <<>>, value |-> <<>>, quoted |-> FALSE, start |-> TRUE, skip |-> FALSE]

FinishValue(p) == [p EXCEPT !.values = Append(@, p.value), !.value = <<>>, !.start = TRUE]
\* A line without a character is no row.
FinishRow(p) ==
  IF p.values = <<>> /\ p.value = <<>> /\ p.start THEN p
  ELSE [FinishValue(p) EXCEPT !.rows = Append(@, FinishValue(p).values), !.values = <<>>]
Add(p, symbol) == [p EXCEPT !.value = Append(@, symbol)]

\* One turn of parseCsv's loop; skip stands for the index that is moved on.
ReadQuoted(p, symbol, next) ==
  IF symbol # "quote" THEN Add(p, symbol)
  ELSE IF next = "quote" THEN [Add(p, symbol) EXCEPT !.skip = TRUE] ELSE [p EXCEPT !.quoted = FALSE]
ReadSymbol(p, symbol, next) ==
  IF p.skip THEN [p EXCEPT !.skip = FALSE]
  ELSE IF p.quoted THEN ReadQuoted(p, symbol, next)
  ELSE IF symbol = "quote" /\ p.start THEN [p EXCEPT !.quoted = TRUE, !.start = FALSE]
  ELSE IF symbol = "comma" THEN FinishValue(p)
  ELSE IF symbol \in {"lf", "cr"} THEN [FinishRow(p) EXCEPT !.skip = symbol = "cr" /\ next = "lf"]
  ELSE [Add(p, symbol) EXCEPT !.start = FALSE]

ReadText(source) ==
  LET Next(n) == IF n < Len(source) THEN source[n + 1] ELSE "end"
      State[n \in 0..Len(source)] ==
        IF n = 0 THEN Blank ELSE ReadSymbol(State[n - 1], source[n], Next(n))
  IN  State[Len(source)]

\* Without the white space at both ends.
Trim(text) ==
  LET places == {i \in DOMAIN text : text[i] \notin Whitespace}
  IN  IF places = {} THEN <<>> ELSE SubSeq(text, Min(places), Max(places))

\* The end of the text ends a row, also inside a quoted cell, which is an error.
ParseCsv(text) ==
  LET p == ReadText(IF text # <<>> /\ Head(text) = "bom" THEN Tail(text) ELSE text)
      rows == FinishRow(p).rows
      headers == [h \in DOMAIN rows[1] |-> Trim(rows[1][h])]
  IN  IF rows = <<>> THEN NothingRead
      ELSE [headers |-> headers, rows |-> Tail(rows),
            ok |-> /\ ~p.quoted /\ <<>> \notin Entries(headers) /\ Distinct(headers)
                   /\ \A r \in 2..Len(rows) : Len(rows[r]) = Len(headers)]

\* parseJsonRows: the headers are the fields of the records.
ParseJsonRows(f) ==
  IF f.rows = <<>> THEN NothingRead
  ELSE [headers |-> f.columns, rows |-> [r \in DOMAIN f.rows |-> [c \in DOMAIN f.columns |-> NormalizeCell(f.rows[r][c])]],
        ok |-> TRUE]

InferImportType(column) == IF column = KeyColumn THEN "integer" ELSE "text"
DefaultCsvImportMappings(headers) ==
  [h \in DOMAIN headers |->
     LET known == headers[h] \in TableColumns
     IN  [name |-> headers[h], target |-> IF known THEN headers[h] ELSE NoTarget,
          type |-> IF known THEN InferImportType(headers[h]) ELSE "text", include |-> known]]

-----------------------------------------------------------------------------
(* csvImport.ts: the plan.                                                 *)

IsInteger(raw) ==
  LET digits == IF raw # <<>> /\ Head(raw) \in {"+", "-"} THEN Tail(raw) ELSE raw
  IN  digits # <<>> /\ ToSet(digits) \subseteq {"0", "1", "2", "3"}
ImportValueIsValid(raw, type) == raw = <<>> \/ type = "text" \/ IsInteger(raw)
ImportValueSql(raw) == IF raw = <<>> THEN SqlNull ELSE raw

Included(maps) == Only(maps, {m \in Entries(maps) : m.include})
Targets(maps) == {m.target : m \in Entries(Included(maps))}

\* The rows of the statements: one INSERT for each, or one for all (upsert).
BuildCsvImportPlan(read, maps, driver, conflictPolicy, conflicts) ==
  LET included == Included(maps)
      Raw(row, m) == row[CHOOSE h \in DOMAIN read.headers : read.headers[h] = m.name]
      Source(t) == CHOOSE m \in Entries(included) : m.target = t
      errors ==
        \/ ~read.ok \/ included = <<>> \/ NoTarget \in Targets(maps)
        \/ Cardinality(Targets(maps)) # Len(included)
        \/ conflictPolicy = "upsert" /\ (conflicts = {} \/ ~(conflicts \subseteq Targets(maps)))
        \/ conflictPolicy # "error" /\ driver \in {"sqlserver", "oracle"}
        \/ \E row \in Entries(read.rows), m \in Entries(included) : ~ImportValueIsValid(Raw(row, m), m.type)
  IN  IF errors THEN <<>>
      ELSE [r \in DOMAIN read.rows |->
              [t \in Targets(maps) |-> ImportValueSql(Raw(read.rows[r], Source(t)))]]

-----------------------------------------------------------------------------
(* The database.                                                           *)

Cell(row, column) == IF column \in DOMAIN row THEN row[column] ELSE SqlNull
KeyOf(row) == Cell(row, KeyColumn)
KeyIsValid(row) == KeyOf(row) # SqlNull /\ IsInteger(KeyOf(row))
PutNote(rows, key, note) == [k \in DOMAIN rows \cup {key} |-> IF k = key THEN note ELSE rows[k]]

\* One INSERT.  MySQL's IGNORE makes warnings of errors: a key that is missing
\* or no integer becomes zero.
Insert(db, row, driver, conflictPolicy) ==
  LET lenient == driver = "mysql" /\ conflictPolicy = "ignore"
      key == IF lenient /\ ~KeyIsValid(row) THEN <<"0">> ELSE KeyOf(row)
      accepted == KeyIsValid(row) \/ lenient
  IN  IF accepted /\ key \notin DOMAIN db.rows
      THEN [rows |-> PutNote(db.rows, key, Cell(row, NoteColumn)), affected |-> db.affected + 1, ok |-> db.ok]
      ELSE [db EXCEPT !.ok = @ /\ accepted /\ conflictPolicy = "ignore"]

\* executeBatch: all rows are inserted, and as many as were announced.
ExecuteBatch(rows, new, driver, conflictPolicy) ==
  LET Db[n \in 0..Len(new)] ==
        IF n = 0 THEN [rows |-> rows, affected |-> 0, ok |-> TRUE]
        ELSE Insert(Db[n - 1], new[n], driver, conflictPolicy)
      db == Db[Len(new)]
  IN  [ok |-> db.ok /\ db.affected = Len(new), rows |-> db.rows]

\* The one statement of an upsert.  PostgreSQL wants a unique index on exactly
\* the conflict columns and updates no row twice; MySQL takes the key anyway.
Upsert(db, row, updates) ==
  IF KeyOf(row) \in DOMAIN db /\ ~updates THEN db ELSE PutNote(db, KeyOf(row), Cell(row, NoteColumn))
ExecuteUpsert(rows, new, driver, conflicts) ==
  LET updates == NoteColumn \in DOMAIN new[1] \ conflicts
      Twice == Cardinality({KeyOf(row) : row \in Entries(new)}) < Len(new)
      Db[n \in 0..Len(new)] == IF n = 0 THEN rows ELSE Upsert(Db[n - 1], new[n], updates)
  IN  [ok |-> /\ \A row \in Entries(new) : KeyIsValid(row)
              /\ driver = "postgres" =>
                   /\ conflicts = {KeyColumn}
                   /\ DOMAIN new[1] \ conflicts # {} => ~Twice,
       rows |-> Db[Len(new)]]

-----------------------------------------------------------------------------
(* The dialog.                                                             *)

CsvInit ==
  /\ engine \in Engines /\ stored \in Contents
  /\ file = NoFile /\ parsed = NothingRead /\ mappings = <<>>
  /\ policy = "error" /\ conflictColumns = {KeyColumn}
  /\ blocked \in BOOLEAN
  /\ imported = NoImport /\ choices = 0

Choice == imported = NoImport /\ choices < MaxChoices /\ choices' = choices + 1
settled == <<engine, stored, blocked, imported>>

\* handleFile: another file keeps the policy and the conflict columns.
HandleFile ==
  /\ Choice
  /\ \E f \in Files :
       LET next == IF f.writer.kind = "json" THEN ParseJsonRows(f) ELSE ParseCsv(SerializeRowsToCsv(f))
       IN  /\ file' = f /\ parsed' = next
           /\ mappings' = DefaultCsvImportMappings(next.headers)
  /\ UNCHANGED <<settled, policy, conflictColumns>>

SelectPolicy ==
  /\ Choice /\ file # NoFile
  /\ policy' \in {"error", "ignore", "upsert"} \ {policy}
  /\ UNCHANGED <<settled, file, parsed, mappings, conflictColumns>>

ToggleConflictColumn ==
  /\ Choice /\ policy = "upsert"
  /\ \E column \in Targets(mappings) \cap TableColumns :
       conflictColumns' = SymDiff(conflictColumns, {column})
  /\ UNCHANGED <<settled, file, parsed, mappings, policy>>

\* updateMapping, from the check box, the list of targets and that of types.
UpdateMapping(index, mapping) ==
  /\ Choice
  /\ mappings' = [mappings EXCEPT ![index] = mapping]
  /\ UNCHANGED <<settled, file, parsed, policy, conflictColumns>>
EditMapping ==
  \E h \in DOMAIN mappings :
    LET m == mappings[h]
    IN  \/ UpdateMapping(h, [m EXCEPT !.include = ~@])
        \/ m.include /\ \E type \in {"text", "integer"} : UpdateMapping(h, [m EXCEPT !.type = type])
        \/ m.include /\ UpdateMapping(h, [m EXCEPT !.target = NoTarget, !.include = FALSE])
        \/ /\ m.include
           /\ \E column \in TableColumns :
                UpdateMapping(h, [m EXCEPT !.target = column, !.type = InferImportType(column)])

\* The button and importCsv.  Either way the statements run in one transaction.
ImportCsv ==
  LET plan == BuildCsvImportPlan(parsed, mappings, engine, policy, conflictColumns)
      answer == IF policy = "upsert" THEN ExecuteUpsert(stored, plan, engine, conflictColumns)
                ELSE ExecuteBatch(stored, plan, engine, policy)
  IN  /\ imported = NoImport /\ ~blocked /\ plan # <<>>
      /\ imported' = [before |-> stored, ok |-> answer.ok]
      /\ stored' = IF answer.ok THEN answer.rows ELSE stored
      /\ UNCHANGED <<engine, blocked, file, parsed, mappings, policy, conflictColumns, choices>>

CsvNext == HandleFile \/ SelectPolicy \/ ToggleConflictColumn \/ EditMapping \/ ImportCsv

CsvSpec == CsvInit /\ [][CsvNext]_csvVars

-----------------------------------------------------------------------------
(* Properties.                                                             *)

\* What a cell of the file means: an empty one is NULL, and the export has
\* protected what looks like a formula, in a name as well.
Protected(value) == IF file.writer.kind = "export" THEN ProtectFormula(value) ELSE value
Intended(value) == IF value = <<>> \/ value = SqlNull THEN SqlNull ELSE Protected(value)
Names == [c \in DOMAIN file.columns |->
            IF file.writer.kind = "json" THEN file.columns[c] ELSE Trim(Protected(file.columns[c]))]

\* A row of one empty cell is an empty line, unless the writer quotes it.
KeptRow(row) == ~(Len(row) = 1 /\ row[1] = SqlNull /\ file.writer.kind = "export")
FileRows ==
  LET rows == [r \in DOMAIN file.rows |-> [c \in DOMAIN file.rows[r] |-> Intended(file.rows[r][c])]]
  IN  Only(rows, {row \in Entries(rows) : KeptRow(row)})

\* The rows of the file, as the mappings send them to the table.
IntendedRows ==
  LET Source(t) == CHOOSE h \in DOMAIN mappings : mappings[h].include /\ mappings[h].target = t
  IN  [r \in DOMAIN FileRows |-> [t \in Targets(mappings) |-> FileRows[r][Source(t)]]]

IntendedKeys == {KeyOf(row) : row \in Entries(IntendedRows)}
\* The row that counts for a key: the first, or with upsert the last.
RowFor(key) ==
  LET places == {r \in DOMAIN IntendedRows : KeyOf(IntendedRows[r]) = key}
  IN  IntendedRows[IF policy = "upsert" THEN Max(places) ELSE Min(places)]
IntendedTable(before) ==
  [key \in DOMAIN before \cup IntendedKeys |->
     IF key \in DOMAIN before /\ (key \notin IntendedKeys \/ policy = "ignore" \/ NoteColumn \notin Targets(mappings))
     THEN before[key] ELSE Cell(RowFor(key), NoteColumn)]

\* The dialog warns of conflict columns without a unique index.
Warned == policy = "upsert" /\ conflictColumns # {KeyColumn}

\* A file with a row and with different columns is accepted and read as it was
\* written, column by column and row by row, whatever quotes, separators and line
\* ends its cells have in them (parseCsv against encodeCell and against files of
\* other programs).
FileReadsBack ==
  file.rows # <<>> /\ Distinct(Names) =>
    /\ parsed.ok /\ parsed.headers = Names
    /\ [r \in DOMAIN parsed.rows |-> [h \in DOMAIN parsed.headers |-> ImportValueSql(parsed.rows[r][h])]]
       = FileRows

\* An import that is done has put the rows of the file into the table as the
\* policy says: under "error" no key was there or given twice, under "ignore"
\* what was there stays, under "upsert" the file wins.  One that is refused has
\* changed nothing, and a blocked dialog imports nothing (buildCsvImportPlan,
\* importCsv and the drivers' batches).
PolicyIsKept ==
  imported # NoImport =>
    /\ ~blocked
    /\ ~imported.ok => stored = imported.before
    /\ imported.ok /\ ~Warned /\ (policy = "ignore" => \A key \in IntendedKeys : key # SqlNull /\ IsInteger(key)) =>
         /\ stored = IntendedTable(imported.before)
         /\ policy = "error" =>
              Cardinality(DOMAIN stored) = Cardinality(DOMAIN imported.before) + Len(IntendedRows)

\* A file comes into the table as it was written and as the dialog says (export,
\* parser, mappings, plan and the policies of the import together).
ImportDoesWhatItSays == FileReadsBack /\ PolicyIsKept

\* "Ignore conflicting rows": rows whose keys are there, or are given twice, do
\* not stop the import of the others (docs/import.md:14 and the dialog).
IgnoredConflictsDoNotStop ==
  imported # NoImport /\ policy = "ignore" /\ (\A key \in IntendedKeys : key # SqlNull /\ IsInteger(key)) =>
    imported.ok

=============================================================================
