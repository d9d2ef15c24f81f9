----------------------------- MODULE ResultGrid -----------------------------
(***************************************************************************)
(* The result grid of the desktop window: the handlers of App.tsx that run *)
(* SQL, page through a result, stage row edits and apply them, over        *)
(* runQuery, appendResult and connectDatabase of the application store.    *)
(*                                                                         *)
(* JavaScript runs a handler up to its next await in one piece, so an      *)
(* action is such a piece: the start of a query, the call of the driver    *)
(* after driverReady, one streamed chunk, the answer with the continuation *)
(* of the handler that asked.  Everything the user does may fall between.  *)
(*                                                                         *)
(* A statement is a name.  The name of a table stands for the statement    *)
(* that browses it; Keyed is a hand-written SELECT of the columns of       *)
(* DefaultTable; Danger is a DELETE without WHERE.  What the grid shows is *)
(* the list of pages it was filled with, each with its statement, filter,  *)
(* offset (in pages) and the connection it was read on; a connection is    *)
(* numbered by the connects that led to it.                                *)
(***************************************************************************)
EXTENDS Integers, Sequences, FiniteSets

CONSTANTS
  Tables,        \* tables every connection has, all with the same key name
  DefaultTable,  \* the first table of the metadata
  Keyed, Danger, \* hand-written statements
  Plan, Batch,   \* what EXPLAIN and an edit batch answer, in place of a statement
  Filters, NoFilter,
  None,
  MaxPages,      \* bound: pages loaded after the first
  MaxConnects,   \* bound: successful connects
  MaxStaged,     \* bound: pages with staged rows
  StreamCap,     \* the row cap of a stream
  ChunkRows      \* bound: rows of one streamed chunk

ASSUME GridAssumption ==
  /\ DefaultTable \in Tables
  /\ {Keyed, Danger, Plan, Batch, None} \cap Tables = {}
  /\ Cardinality({Keyed, Danger, Plan, Batch, None}) = 5
  /\ NoFilter \in Filters
  /\ None \notin Filters
  /\ StreamCap \in Nat \ {0} /\ ChunkRows \in Nat /\ MaxPages \in Nat /\ MaxConnects \in Nat
  /\ MaxStaged \in Nat

VARIABLES
  conn,      \* number of the connection behind store.driver
  connecting,\* TRUE while connectDatabase waits for the next driver
  selected,  \* selectedObject: a table or None
  sql,       \* text of the editor
  result,    \* None, or the rows of the grid
  run,       \* None, or the query in flight (isRunning)
  browse,    \* tableBrowse
  page,      \* serverQueryPage
  staged,    \* stagedEdits: the pages the edited rows were read from
  editing,   \* editingEnabled
  picked,    \* rows are selected in the grid
  filter,    \* filter and order typed in the toolbar
  pendingSafety

store == <<conn, connecting, selected, sql, result, run>>
panel == <<browse, page, staged, editing, picked, filter, pendingSafety>>
vars == <<store, panel>>

Texts == Tables \cup {Keyed, Danger}
Pageable(text) == text \in Tables \cup {Keyed}
Dangerous(text) == text = Danger
\* The columns of a statement's answer, named by the table they come from.
Columns(text) == IF text = Keyed THEN DefaultTable ELSE text
HasKeys(text) == Columns(text) \in Tables

Kinds == {"run", "stream", "explain", "browse", "filterTable", "tablePage",
          "queryPage", "filterQuery", "edit", "delete", "insert", "import",
          "upsert", "refresh", "refreshBrowse"}
\* runQuery leaves the shown result alone (preserveResult).
Keeps(kind) == kind \in {"tablePage", "queryPage", "edit", "delete", "insert", "upsert"}

Sheets == [text : Texts \cup {Plan, Batch}, filter : Filters,
           offset : (-1)..MaxPages, conn : 0..MaxConnects]
\* An answer that is not a page of something: the whole of a statement.
Whole == -1
Runs == [kind : Kinds, sheet : Sheets, target : Tables \cup {None},
         edits : SUBSET Sheets, next : Texts \cup {None}, sent : BOOLEAN, cut : BOOLEAN]
ASSUME NoQueryAssumption == None \notin Runs
Results == [pages : Seq(Sheets), rows : Nat, lost : BOOLEAN, warned : BOOLEAN]
Browses == [table : Tables, offset : 0..MaxPages, more : BOOLEAN, filter : Filters]
Pagings == [text : Texts, offset : 0..MaxPages, more : BOOLEAN, filter : Filters]

Init ==
  /\ conn = 0 /\ connecting = FALSE
  /\ selected = DefaultTable /\ sql = Keyed
  /\ result = None /\ run = None
  /\ browse = None /\ page = None
  /\ staged = {} /\ editing = FALSE /\ picked = FALSE
  /\ filter = NoFilter /\ pendingSafety = None

-----------------------------------------------------------------------------
(* runQuery of the store.                                                  *)

Query(kind, text, flt, offset) ==
  [kind |-> kind, sheet |-> [text |-> text, filter |-> flt, offset |-> offset, conn |-> 0],
   target |-> None, edits |-> {}, next |-> None, sent |-> FALSE, cut |-> FALSE]

\* A query that is in flight makes every other call return null at once.
RunQuery(query) == run' = IF run = None THEN query ELSE run
Started == run = None

\* driverReady is met: the driver of this moment is called; a stream empties
\* the grid first.
Dispatch ==
  /\ run # None /\ ~run.sent
  /\ run' = [run EXCEPT !.sent = TRUE, !.sheet.conn = conn]
  /\ result' = IF run.kind = "stream" THEN None ELSE result
  /\ UNCHANGED <<conn, connecting, selected, sql, panel>>

\* A limit that forgets the rows already shown.
LimitEachChunk(n, loaded) ==
  [rows |-> IF n > StreamCap THEN StreamCap ELSE n, truncated |-> n > StreamCap]

\* limitQueryChunk: how many of n rows still fit.
LimitQueryChunk(n, loaded) ==
  LET remaining == IF StreamCap > loaded THEN StreamCap - loaded ELSE 0
  IN  [rows |-> IF n > remaining THEN remaining ELSE n, truncated |-> n > remaining]

\* appendQueryChunk onto the rows shown, or onto an empty result.
AppendQueryChunk(shown, sheet, chunk) ==
  IF shown = None
  THEN [pages |-> <<sheet>>, rows |-> chunk.rows, lost |-> chunk.truncated, warned |-> FALSE]
  ELSE [shown EXCEPT !.rows = @ + chunk.rows, !.lost = @ \/ chunk.truncated]

AppendChunk(n) ==
  /\ run # None /\ run.kind = "stream" /\ run.sent
  /\ LET loaded == IF result = None THEN 0 ELSE result.rows
         chunk  == LimitQueryChunk(n, loaded)
     IN  /\ result' = AppendQueryChunk(result, run.sheet, chunk)
         /\ run' = [run EXCEPT !.cut = @ \/ chunk.truncated]
  /\ UNCHANGED <<conn, connecting, selected, sql, panel>>

\* The answer as a result of its own.
Filled(sheet) == [pages |-> <<sheet>>, rows |-> 0, lost |-> FALSE, warned |-> FALSE]
\* A streamed result keeps the rows shown and is marked when the cap cut it.
Streamed ==
  LET shown == IF result = None THEN Filled(run.sheet) ELSE result
  IN  [shown EXCEPT !.warned = @ \/ run.cut]

\* appendResult: another page under the rows shown, or in their place when
\* the column names differ.
AppendResult(sheet) ==
  IF result = None \/ Columns(Head(result.pages).text) # Columns(sheet.text)
  THEN Filled(sheet)
  ELSE [result EXCEPT !.pages = Append(@, sheet)]

-----------------------------------------------------------------------------
(* Handlers that start a query.                                            *)

\* A dangerous statement in normal mode waits for the user's decision.
OfferSafety ==
  /\ staged = {} /\ Dangerous(sql)
  /\ pendingSafety' = sql
  /\ UNCHANGED <<store, browse, page, staged, editing, picked, filter>>

DismissSafety ==
  /\ pendingSafety # None /\ pendingSafety' = None
  /\ UNCHANGED <<store, browse, page, staged, editing, picked, filter>>

\* handleRun that keeps its paging when the query was refused.
HandleRunKeepingPage(mode, text) ==
  /\ staged = {}
  /\ mode = "normal" => ~Dangerous(text)
  /\ LET paged == mode = "normal" /\ Pageable(text)
     IN  /\ RunQuery(Query("run", text, NoFilter, IF paged THEN 0 ELSE Whole))
         /\ page' = IF paged THEN [text |-> text, offset |-> 0, more |-> TRUE, filter |-> NoFilter]
                    ELSE None
  /\ filter' = IF mode = "normal" THEN NoFilter ELSE filter
  /\ pendingSafety' = None /\ picked' = FALSE /\ browse' = None
  /\ UNCHANGED <<conn, connecting, selected, sql, result, staged, editing>>

\* handleRun: mode "normal" pages what can be paged; a confirmed statement and
\* Run in Transaction execute as they are.
HandleRun(mode, text) ==
  /\ staged = {}
  /\ mode = "normal" => ~Dangerous(text)
  /\ LET paged == mode = "normal" /\ Pageable(text)
     IN  /\ RunQuery(Query("run", text, NoFilter, IF paged THEN 0 ELSE Whole))
         /\ page' = IF paged /\ Started
                    THEN [text |-> text, offset |-> 0, more |-> TRUE, filter |-> NoFilter]
                    ELSE None
  /\ filter' = IF mode = "normal" THEN NoFilter ELSE filter
  /\ pendingSafety' = None /\ picked' = FALSE /\ browse' = None
  /\ UNCHANGED <<conn, connecting, selected, sql, result, staged, editing>>

HandleStream ==
  /\ staged = {} /\ Pageable(sql) /\ ~Dangerous(sql)
  /\ RunQuery(Query("stream", sql, NoFilter, Whole))
  /\ pendingSafety' = None /\ picked' = FALSE /\ browse' = None /\ page' = None /\ filter' = NoFilter
  /\ UNCHANGED <<conn, connecting, selected, sql, result, staged, editing>>

\* handleExplain and, after its confirmation, handleExplainAnalyze.
HandleExplain ==
  /\ staged = {} /\ Pageable(sql)
  /\ RunQuery(Query("explain", Plan, NoFilter, Whole))
  /\ pendingSafety' = None /\ picked' = FALSE /\ browse' = None /\ page' = None
  /\ UNCHANGED <<conn, connecting, selected, sql, result, staged, editing, filter>>

\* browseCurrentTable: a refused query takes the browser away again.
BrowseCurrentTable ==
  /\ selected # None /\ staged = {}
  /\ RunQuery(Query("browse", selected, NoFilter, 0))
  /\ browse' = IF Started
               THEN [table |-> selected, offset |-> 0, more |-> TRUE, filter |-> NoFilter]
               ELSE None
  /\ sql' = selected /\ page' = None /\ filter' = NoFilter
  /\ picked' = IF Started THEN FALSE ELSE picked
  /\ UNCHANGED <<conn, connecting, selected, result, staged, editing, pendingSafety>>

\* applyTableBrowse: the typed filter and order become the browser's.
ApplyTableBrowse ==
  /\ Started /\ browse # None /\ browse.table = selected /\ browse.filter # filter
  /\ RunQuery(Query("filterTable", selected, filter, 0))
  /\ browse' = [table |-> selected, offset |-> 0, more |-> TRUE, filter |-> filter]
  /\ sql' = selected /\ page' = None /\ picked' = FALSE
  /\ UNCHANGED <<conn, connecting, selected, result, staged, editing, filter, pendingSafety>>

LoadNextTablePage ==
  /\ Started /\ browse # None /\ browse.table = selected
  /\ browse.more /\ browse.filter = filter /\ browse.offset < MaxPages
  /\ RunQuery(Query("tablePage", selected, browse.filter, browse.offset + 1))
  /\ picked' = FALSE
  /\ UNCHANGED <<conn, connecting, selected, sql, result, browse, page, staged, editing, filter,
                 pendingSafety>>

LoadNextServerPage ==
  /\ Started /\ page # None /\ browse = None /\ result # None
  /\ page.more /\ page.filter = filter /\ page.offset < MaxPages
  /\ RunQuery(Query("queryPage", page.text, page.filter, page.offset + 1))
  /\ picked' = FALSE
  /\ UNCHANGED <<conn, connecting, selected, sql, result, browse, page, staged, editing, filter,
                 pendingSafety>>

ApplyServerQuery ==
  /\ Started /\ page # None /\ browse = None /\ result # None /\ page.filter # filter
  /\ RunQuery(Query("filterQuery", page.text, filter, 0))
  /\ picked' = FALSE /\ staged' = {}
  /\ UNCHANGED <<conn, connecting, selected, sql, result, browse, page, editing, filter, pendingSafety>>

-----------------------------------------------------------------------------
(* Row edits, deletions, insertions and imports.                           *)

CanEditResults == selected # None /\ result # None /\ HasKeys(Head(result.pages).text)
Browsing == browse # None /\ browse.table = selected
CanDeleteRows == CanEditResults /\ Browsing /\ picked /\ staged = {}
CanInsertRows == Browsing /\ staged = {}

ToggleEditing ==
  /\ CanEditResults /\ editing' = ~editing
  /\ UNCHANGED <<store, browse, page, staged, picked, filter, pendingSafety>>

\* commitCellEdit: a changed cell of one shown row is staged under its row.
CommitCellEdit ==
  /\ editing /\ CanEditResults /\ Cardinality(staged) < MaxStaged
  /\ \E i \in DOMAIN result.pages : staged' = staged \cup {result.pages[i]}
  /\ UNCHANGED <<store, browse, page, editing, picked, filter, pendingSafety>>

DiscardEdits ==
  /\ staged # {} /\ staged' = {}
  /\ UNCHANGED <<store, browse, page, editing, picked, filter, pendingSafety>>

PickRows ==
  /\ result # None /\ ~picked /\ picked' = TRUE
  /\ UNCHANGED <<store, browse, page, staged, editing, filter, pendingSafety>>

\* The batch names the table selected now and the rows staged before; next is
\* the editor's text at this moment, which the refresh will run.
ApplyStagedEdits ==
  /\ Started /\ CanEditResults /\ staged # {}
  /\ RunQuery([Query("edit", Batch, NoFilter, Whole) EXCEPT !.target = selected, !.edits = staged, !.next = sql])
  /\ picked' = FALSE
  /\ UNCHANGED <<conn, connecting, selected, sql, result, browse, page, staged, editing, filter,
                 pendingSafety>>

ApplySelectedDeletes ==
  /\ Started /\ CanDeleteRows
  /\ \E i \in DOMAIN result.pages :
       RunQuery([Query("delete", Batch, NoFilter, Whole)
                   EXCEPT !.target = selected, !.edits = {result.pages[i]}, !.next = sql])
  /\ picked' = FALSE
  /\ UNCHANGED <<conn, connecting, selected, sql, result, browse, page, staged, editing, filter,
                 pendingSafety>>

ApplyInsertedRow ==
  /\ Started /\ CanInsertRows
  /\ RunQuery([Query("insert", Batch, NoFilter, Whole) EXCEPT !.target = selected, !.next = sql])
  /\ picked' = FALSE
  /\ UNCHANGED <<conn, connecting, selected, sql, result, browse, page, staged, editing, filter,
                 pendingSafety>>

\* importCsv: an upsert is one statement, the other policies a batch whose
\* answer replaces the shown result.
ImportCsv(kind) ==
  /\ Started /\ selected # None /\ staged = {} /\ kind \in {"import", "upsert"}
  /\ RunQuery([Query(kind, Batch, NoFilter, Whole) EXCEPT !.target = selected])
  /\ picked' = FALSE
  /\ UNCHANGED <<conn, connecting, selected, sql, result, browse, page, staged, editing, filter,
                 pendingSafety>>

-----------------------------------------------------------------------------
(* The answer, with the continuation of the handler that asked.            *)

\* The answer replaces the rows shown; more tells whether the page was full.
SucceedShown(more) ==
  /\ run # None /\ run.sent
  /\ run.kind \in {"run", "explain", "browse", "filterTable", "filterQuery", "import",
                   "refresh", "refreshBrowse"}
  /\ run' = None /\ result' = Filled(run.sheet) /\ picked' = FALSE
  /\ browse' = IF browse = None \/ run.kind \notin {"browse", "filterTable", "refreshBrowse"}
               THEN browse
               ELSE [browse EXCEPT !.more = more,
                                   !.offset = IF run.kind = "refreshBrowse" THEN 0 ELSE @]
  /\ page' = IF run.kind = "filterQuery"
             THEN [text |-> run.sheet.text, offset |-> 0, more |-> more, filter |-> run.sheet.filter]
             ELSE IF run.kind = "run" /\ run.sheet.offset = 0 /\ page # None
             THEN [page EXCEPT !.more = more]
             ELSE page
  /\ UNCHANGED <<conn, connecting, selected, sql, staged, editing, filter, pendingSafety>>

SucceedPage(more) ==
  /\ run # None /\ run.sent /\ run.kind \in {"tablePage", "queryPage"}
  /\ run' = None /\ result' = AppendResult(run.sheet) /\ picked' = FALSE
  /\ browse' = IF browse = None \/ run.kind # "tablePage" THEN browse
               ELSE [browse EXCEPT !.offset = run.sheet.offset, !.more = more]
  /\ page' = IF page = None \/ run.kind # "queryPage" THEN page
             ELSE [page EXCEPT !.offset = run.sheet.offset, !.more = more]
  /\ UNCHANGED <<conn, connecting, selected, sql, staged, editing, filter, pendingSafety>>

\* A stream whose cap aborted it and that nobody settles.
SucceedStreamUncut ==
  /\ run # None /\ run.sent /\ run.kind = "stream" /\ ~run.cut
  /\ run' = None /\ result' = Streamed /\ picked' = FALSE
  /\ UNCHANGED <<conn, connecting, selected, sql, browse, page, staged, editing, filter, pendingSafety>>

\* A stream ends well, or is aborted by its own cap, which counts as success.
SucceedStream ==
  /\ run # None /\ run.sent /\ run.kind = "stream"
  /\ run' = None /\ result' = Streamed /\ picked' = FALSE
  /\ UNCHANGED <<conn, connecting, selected, sql, browse, page, staged, editing, filter, pendingSafety>>

\* A written batch is followed by a refresh with the remembered text.
SucceedWrite ==
  /\ run # None /\ run.sent /\ run.kind \in {"edit", "delete", "insert"}
  /\ LET kind == IF run.kind # "edit" /\ browse # None THEN "refreshBrowse" ELSE "refresh"
     IN  run' = Query(kind, run.next, NoFilter, Whole)
  /\ staged' = IF run.kind = "edit" THEN {} ELSE staged
  /\ editing' = IF run.kind = "edit" THEN FALSE ELSE editing
  /\ picked' = FALSE
  /\ UNCHANGED <<conn, connecting, selected, sql, result, browse, page, filter, pendingSafety>>

SucceedUpsert ==
  /\ run # None /\ run.sent /\ run.kind = "upsert"
  /\ run' = None /\ picked' = FALSE
  /\ UNCHANGED <<conn, connecting, selected, sql, result, browse, page, staged, editing, filter,
                 pendingSafety>>

\* An error, a conflict or a cancellation: runQuery answers null.
Fail ==
  /\ run # None /\ ~(run.kind = "stream" /\ run.cut)
  /\ run' = None /\ picked' = FALSE
  /\ browse' = IF run.kind \in {"browse", "filterTable"} THEN None ELSE browse
  /\ page' = IF run.kind = "run" /\ run.sheet.offset = 0 THEN None ELSE page
  /\ UNCHANGED <<conn, connecting, selected, sql, result, staged, editing, filter, pendingSafety>>

-----------------------------------------------------------------------------
(* The rest of the window.                                                 *)

SetSql(text) ==
  /\ text # sql /\ sql' = text
  /\ UNCHANGED <<conn, connecting, selected, result, run, panel>>

\* The effect on selectedObjectIdentity: nothing staged or browsed survives
\* another selection; deselecting keeps the browser.
ForgetSelection(object) ==
  IF object = selected THEN UNCHANGED <<editing, staged, browse>>
  ELSE /\ editing' = FALSE /\ staged' = {}
       /\ browse' = IF object = None THEN browse ELSE None

SelectObject(object) ==
  /\ object # selected /\ selected' = object
  /\ ForgetSelection(object)
  /\ UNCHANGED <<conn, connecting, sql, result, run, page, picked, filter, pendingSafety>>

UpdateFilter(value) ==
  /\ value # filter /\ filter' = value /\ picked' = FALSE
  /\ UNCHANGED <<store, browse, page, staged, editing, pendingSafety>>

BeginConnect ==
  /\ ~connecting /\ connecting' = TRUE
  /\ UNCHANGED <<conn, selected, sql, result, run, panel>>

\* connectDatabase: the grid is emptied and the first table selected; a clean
\* tab gets the driver's sample statement.
FinishConnect ==
  /\ connecting /\ connecting' = FALSE
  /\ conn < MaxConnects /\ conn' = conn + 1
  /\ selected' = DefaultTable /\ result' = None
  /\ sql' \in {sql, Keyed}
  /\ ForgetSelection(DefaultTable)
  /\ UNCHANGED <<run, page, picked, filter, pendingSafety>>

FailConnect ==
  /\ connecting /\ connecting' = FALSE
  /\ UNCHANGED <<conn, selected, sql, result, run, panel>>

Confirm(mode) == pendingSafety # None /\ HandleRun(mode, pendingSafety)

User ==
  \/ HandleRun("normal", sql) \/ HandleRun("transaction", sql)
  \/ OfferSafety \/ DismissSafety
  \/ \E mode \in {"transaction", "execute-anyway"} : Confirm(mode)
  \/ HandleStream \/ HandleExplain
  \/ BrowseCurrentTable \/ ApplyTableBrowse \/ LoadNextTablePage
  \/ LoadNextServerPage \/ ApplyServerQuery
  \/ ToggleEditing \/ CommitCellEdit \/ DiscardEdits \/ PickRows
  \/ ApplyStagedEdits \/ ApplySelectedDeletes \/ ApplyInsertedRow
  \/ \E kind \in {"import", "upsert"} : ImportCsv(kind)
  \/ \E text \in Texts : SetSql(text)
  \/ \E object \in Tables \cup {None} : SelectObject(object)
  \/ \E value \in Filters : UpdateFilter(value)
  \/ BeginConnect

Answer ==
  \/ \E more \in BOOLEAN : SucceedShown(more) \/ SucceedPage(more)
  \/ SucceedStream \/ SucceedWrite \/ SucceedUpsert \/ Fail

Connected == FinishConnect \/ FailConnect

Next == User \/ Dispatch \/ Answer \/ Connected \/ \E n \in 0..ChunkRows : AppendChunk(n)

\* The driver answers what it was asked.
Fairness == WF_vars(Dispatch) /\ WF_vars(Answer)
Spec == Init /\ [][Next]_vars /\ Fairness

-----------------------------------------------------------------------------
\* The variables hold what the code keeps in them.
TypeOK ==
  /\ conn \in 0..MaxConnects /\ connecting \in BOOLEAN
  /\ selected \in Tables \cup {None} /\ sql \in Texts
  /\ result = None \/ result \in Results
  /\ run = None \/ run \in Runs
  /\ browse = None \/ browse \in Browses
  /\ page = None \/ page \in Pagings
  /\ staged \subseteq Sheets
  /\ editing \in BOOLEAN /\ picked \in BOOLEAN
  /\ filter \in Filters /\ pendingSafety \in Texts \cup {None}

\* A stream never leaves more than its cap of rows in the grid, whatever the
\* chunks, connects and aborts in between; and once it has ended, rows that
\* were cut off are announced by the limit warning (store.ts, runQuery and
\* limitQueryChunk).
StreamIsBounded ==
  result # None =>
    /\ result.rows <= StreamCap
    /\ Started /\ result.lost => result.warned

\* The first page the grid was filled with, read on the connection in use.
FirstPageShown ==
  result # None /\ Head(result.pages).offset = 0 /\ Head(result.pages).conn = conn

\* A grid that starts with a first page of the connection in use is a gapless
\* run of pages of one statement, one filter and one connection, although
\* queries, connects and selections fall between a page's request and its
\* arrival; and the paging state that asks for the next page is about these
\* rows (loadNextTablePage, loadNextServerPage and appendResult).
PagesContiguous ==
  FirstPageShown =>
    LET first == Head(result.pages)
    IN  /\ \A i \in DOMAIN result.pages : result.pages[i] = [first EXCEPT !.offset = i - 1]
        /\ Started /\ browse # None =>
             /\ browse.table = first.text /\ browse.filter = first.filter
             /\ browse.offset = Len(result.pages) - 1
        /\ Started /\ browse = None /\ page # None =>
             /\ page.text = first.text /\ page.filter = first.filter
             /\ page.offset = Len(result.pages) - 1

\* Every query ends, and with it the lock that keeps others out (isRunning).
RunSettles == run # None ~> run = None

\* docs/results.md says that arbitrary query results stay read-only: the rows
\* of an edit batch were read from the table the batch updates.
EditsHitTheirTable ==
  run # None /\ run.kind = "edit" => \A sheet \in run.edits : sheet.text = run.target
=============================================================================
