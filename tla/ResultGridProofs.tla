--------------------------- MODULE ResultGridProofs ---------------------------
(***************************************************************************)
(* Proofs about ResultGrid, for any tables, filters, row cap and chunks    *)
(* and any number of pages and connects: the types, the row cap of a       *)
(* stream with its warning, and the gapless pages of a result.             *)
(*                                                                         *)
(* Most handlers only start a query.  What each of them leaves in the      *)
(* browser and the paging state, and what its query is, is said once by    *)
(* Asks; the rest of what the user does is a Forgets step, which at most   *)
(* takes the browser or the paging state away.                             *)
(***************************************************************************)
EXTENDS ResultGrid, TLAPS

\* What the variables hold, beyond TypeOK: a result has a page.
Shown == result = None \/ (result \in Results /\ result.pages # <<>>)
Panels ==
  /\ browse = None \/ browse \in Browses
  /\ page = None \/ page \in Pagings
Flags ==
  /\ connecting \in BOOLEAN /\ editing \in BOOLEAN /\ picked \in BOOLEAN
  /\ filter \in Filters /\ pendingSafety \in Texts \cup {None}
  /\ selected \in Tables \cup {None} /\ sql \in Texts /\ staged \subseteq Sheets
Connection == conn \in 0..MaxConnects

Refreshing == {"edit", "delete", "insert"}
Paging == {"tablePage", "queryPage"}

\* What a query in flight is, by its kind.
Shape(q) ==
  /\ q.kind \in Refreshing => q.next \in Texts
  /\ q.kind \in Paging => q.sheet.offset \in 1..MaxPages
  /\ q.kind = "filterQuery" => q.sheet.text \in Texts
  /\ q.kind \in {"browse", "filterTable", "filterQuery"} => q.sheet.offset = 0
  /\ q.kind \notin {"run", "browse", "filterTable", "filterQuery"} \cup Paging => q.sheet.offset = Whole
  /\ q.kind = "run" => q.sheet.offset \in {0, Whole}
Running == run = None \/ (run \in Runs /\ Shape(run))

Typed == Shown /\ Panels /\ Flags /\ Connection /\ Running

-----------------------------------------------------------------------------
(* The two steps most handlers make.                                       *)

Forgets ==
  /\ UNCHANGED <<conn, result, run>>
  /\ browse' \in {browse, None} /\ page' \in {page, None}

\* The query q starts; nothing else of the grid changes but, by its kind, the
\* browser and the paging state.
Asks(q) ==
  /\ run = None /\ run' = q /\ q \in Runs /\ Shape(q) /\ ~q.sent /\ ~q.cut
  /\ UNCHANGED <<conn, result>>
  /\ q.kind \in {"explain", "stream"} => browse' = None /\ page' = None
  /\ q.kind = "run" =>
       /\ browse' = None
       /\ IF q.sheet.offset = 0
          THEN page' = [text |-> q.sheet.text, offset |-> 0, more |-> TRUE, filter |-> q.sheet.filter]
          ELSE page' = None
  /\ q.kind \in {"browse", "filterTable"} =>
       /\ page' = None
       /\ browse' = [table |-> q.sheet.text, offset |-> 0, more |-> TRUE, filter |-> q.sheet.filter]
  /\ q.kind \notin {"explain", "stream", "run", "browse", "filterTable"} => UNCHANGED <<browse, page>>
  /\ q.kind = "tablePage" =>
       /\ browse # None /\ q.sheet.text = browse.table /\ q.sheet.filter = browse.filter
       /\ q.sheet.offset = browse.offset + 1
  /\ q.kind = "queryPage" =>
       /\ browse = None /\ page # None /\ q.sheet.text = page.text /\ q.sheet.filter = page.filter
       /\ q.sheet.offset = page.offset + 1
  /\ q.kind = "filterQuery" => browse = None

-----------------------------------------------------------------------------
LEMMA QueryType ==
  ASSUME NEW kind \in Kinds, NEW text \in Texts \cup {Plan, Batch}, NEW flt \in Filters,
         NEW offset \in (-1)..MaxPages
  PROVE  /\ Query(kind, text, flt, offset) \in Runs
         /\ Query(kind, text, flt, offset).kind = kind
         /\ Query(kind, text, flt, offset).sheet.text = text
         /\ Query(kind, text, flt, offset).sheet.filter = flt
         /\ Query(kind, text, flt, offset).sheet.offset = offset
         /\ ~Query(kind, text, flt, offset).sent /\ ~Query(kind, text, flt, offset).cut
BY GridAssumption DEF Query, Runs, Sheets

LEMMA WholeType == NoFilter \in Filters /\ Whole = -1 /\ Whole \in (-1)..MaxPages /\ 0 \in (-1)..MaxPages
BY GridAssumption DEF Whole

LEMMA InitTyped == Init => Typed
<1> SUFFICES ASSUME Init PROVE Typed OBVIOUS
<1>1. Shown /\ Panels /\ Running BY DEF Init, Shown, Panels, Running
<1>2. Connection BY GridAssumption DEF Init, Connection
<1>3. Flags
  <2>1. connecting \in BOOLEAN /\ editing \in BOOLEAN /\ picked \in BOOLEAN BY Zenon DEF Init
  <2>2. QED BY <2>1, GridAssumption DEF Init, Flags, Texts
<1>4. QED BY <1>1, <1>2, <1>3 DEF Typed

LEMMA ForgetsTyped == Typed /\ Forgets => Shown' /\ Panels' /\ Connection' /\ Running'
BY DEF Typed, Forgets, Shown, Panels, Connection, Running

LEMMA AsksTyped ==
  ASSUME Typed, NEW q, Asks(q), Panels'
  PROVE  Shown' /\ Connection' /\ Running'
BY DEF Typed, Asks, Shown, Connection, Running
-----------------------------------------------------------------------------
(* Every handler of the user is one of the two steps.                      *)

UserStep == (Forgets \/ \E q \in Runs : Asks(q)) /\ Panels' /\ Flags'

LEMMA PanelOnly ==
  ASSUME Typed,
         \/ OfferSafety \/ DismissSafety \/ ToggleEditing \/ CommitCellEdit \/ DiscardEdits
         \/ PickRows \/ BeginConnect
         \/ \E text \in Texts : SetSql(text)
         \/ \E value \in Filters : UpdateFilter(value)
  PROVE  UserStep
<1> USE DEF OfferSafety, DismissSafety, ToggleEditing, CommitCellEdit, DiscardEdits, PickRows, BeginConnect,
       SetSql, UpdateFilter, store, panel
<1>1. UNCHANGED <<conn, result, run, browse, page>> BY Zenon
<1>2. Forgets BY <1>1 DEF Forgets
<1>3. Panels' BY <1>1 DEF Typed, Panels
<1>4. connecting' \in BOOLEAN /\ editing' \in BOOLEAN /\ picked' \in BOOLEAN BY Zenon DEF Typed, Flags
<1>5. staged' \subseteq Sheets
  <2>1. CASE CommitCellEdit BY <2>1 DEF Typed, Flags, Shown, Results, CanEditResults
  <2>2. CASE staged' = {} \/ staged' = staged BY <2>2 DEF Typed, Flags
  <2>3. QED BY <2>1, <2>2
<1>6. QED BY <1>2, <1>3, <1>4, <1>5 DEF UserStep, Typed, Flags, Texts

LEMMA SelectObjectStep ==
  ASSUME Typed, NEW object \in Tables \cup {None}, SelectObject(object)
  PROVE  UserStep
<1> USE DEF SelectObject, ForgetSelection
<1>1. Forgets BY DEF Forgets
<1>2. Panels' BY DEF Typed, Panels
<1>3. Flags'
  <2>1. connecting' \in BOOLEAN /\ editing' \in BOOLEAN /\ picked' \in BOOLEAN BY Zenon DEF Typed, Flags
  <2>2. QED BY <2>1 DEF Typed, Flags
<1>4. QED BY <1>1, <1>2, <1>3 DEF UserStep

\* runQuery either starts the query or leaves the one in flight.
LEMMA RunQueryStep ==
  ASSUME NEW q, RunQuery(q)
  PROVE  IF Started THEN run = None /\ run' = q ELSE run # None /\ run' = run
BY DEF RunQuery, Started

LEMMA HandleRunStep ==
  ASSUME Typed, NEW mode, NEW text \in Texts, HandleRun(mode, text)
  PROVE  UserStep
<1> DEFINE paged == mode = "normal" /\ Pageable(text)
           q == Query("run", text, NoFilter, IF paged THEN 0 ELSE Whole)
<1>0. /\ RunQuery(q) /\ browse' = None /\ UNCHANGED <<conn, result>>
      /\ page' = IF paged /\ Started
                 THEN [text |-> text, offset |-> 0, more |-> TRUE, filter |-> NoFilter] ELSE None
  BY DEF HandleRun
<1>1. q \in Runs /\ q.kind = "run" /\ q.sheet.text = text /\ q.sheet.filter = NoFilter
      /\ q.sheet.offset = (IF paged THEN 0 ELSE -1) /\ ~q.sent /\ ~q.cut
  BY QueryType, GridAssumption DEF Kinds, Whole
<1>2. Panels' BY <1>0, GridAssumption DEF Typed, Panels, Pagings
<1>3. Flags'
  <2>1. connecting' \in BOOLEAN /\ editing' \in BOOLEAN /\ picked' \in BOOLEAN
    BY Zenon DEF Typed, Flags, HandleRun
  <2>2. QED BY <2>1, GridAssumption DEF Typed, Flags, HandleRun
<1> HIDE DEF q
<1>4. CASE Started
  <2>1. Shape(q) BY <1>1 DEF Shape, Whole, Refreshing, Paging
  <2>2. run = None /\ run' = q BY <1>0, <1>4, RunQueryStep
  <2>3. Asks(q) BY <1>0, <1>1, <1>4, <2>1, <2>2 DEF Asks, Whole
  <2>4. QED BY <1>1, <1>2, <1>3, <2>3 DEF UserStep
<1>5. CASE ~Started
  <2>1. Forgets BY <1>0, <1>5, RunQueryStep DEF Forgets
  <2>2. QED BY <1>2, <1>3, <2>1 DEF UserStep
<1>6. QED BY <1>4, <1>5

LEMMA HandleStreamStep ==
  ASSUME Typed, HandleStream \/ HandleExplain
  PROVE  UserStep
<1> DEFINE streams == Query("stream", sql, NoFilter, Whole)
           explains == Query("explain", Plan, NoFilter, Whole)
<1>0. /\ RunQuery(streams) \/ RunQuery(explains)
      /\ browse' = None /\ page' = None /\ UNCHANGED <<conn, result>>
  BY DEF HandleStream, HandleExplain
<1>1. /\ streams \in Runs /\ streams.kind = "stream" /\ ~streams.sent /\ ~streams.cut
      /\ explains \in Runs /\ explains.kind = "explain" /\ ~explains.sent /\ ~explains.cut
      /\ streams.sheet.offset = -1 /\ explains.sheet.offset = -1
  <2>1. sql \in Texts \cup {Plan, Batch} BY DEF Typed, Flags
  <2>2. Plan \in Texts \cup {Plan, Batch} /\ {"stream", "explain"} \subseteq Kinds BY DEF Kinds
  <2>3. streams \in Runs /\ streams.kind = "stream" /\ ~streams.sent /\ ~streams.cut /\ streams.sheet.offset = -1
    BY <2>1, <2>2, WholeType, QueryType
  <2>4. explains \in Runs /\ explains.kind = "explain" /\ ~explains.sent /\ ~explains.cut
        /\ explains.sheet.offset = -1
    BY <2>2, WholeType, QueryType
  <2>5. QED BY <2>3, <2>4
<1>2. Panels' BY <1>0 DEF Panels
<1>3. Flags'
  <2>1. connecting' \in BOOLEAN /\ editing' \in BOOLEAN /\ picked' \in BOOLEAN
    BY Zenon DEF Typed, Flags, HandleStream, HandleExplain
  <2>2. QED BY <2>1, GridAssumption DEF Typed, Flags, HandleStream, HandleExplain
<1> HIDE DEF streams, explains
<1>4. CASE Started
  <2>1. Shape(streams) /\ Shape(explains) BY <1>1 DEF Shape, Whole, Refreshing, Paging
  <2>2. run = None /\ (run' = streams \/ run' = explains) BY <1>0, <1>4, RunQueryStep
  <2>3. Asks(streams) \/ Asks(explains) BY <1>0, <1>1, <2>1, <2>2 DEF Asks, Whole
  <2>4. QED BY <1>1, <1>2, <1>3, <2>3 DEF UserStep
<1>5. CASE ~Started
  <2>1. Forgets BY <1>0, <1>5, RunQueryStep DEF Forgets
  <2>2. QED BY <1>2, <1>3, <2>1 DEF UserStep
<1>6. QED BY <1>4, <1>5

LEMMA BrowseStep ==
  ASSUME Typed, BrowseCurrentTable \/ ApplyTableBrowse
  PROVE  UserStep
<1> DEFINE opens == Query("browse", selected, NoFilter, 0)
           filters == Query("filterTable", selected, filter, 0)
           Whereof(flt) == [table |-> selected, offset |-> 0, more |-> TRUE, filter |-> flt]
<1>0. /\ page' = None /\ UNCHANGED <<conn, result>>
      /\ selected \in Tables
      /\ \/ RunQuery(opens) /\ browse' = IF Started THEN Whereof(NoFilter) ELSE None
         \/ RunQuery(filters) /\ Started /\ browse' = Whereof(filter)
  BY DEF BrowseCurrentTable, ApplyTableBrowse, Typed, Flags, Panels, Browses
<1>1. /\ opens \in Runs /\ opens.kind = "browse" /\ ~opens.sent /\ ~opens.cut
      /\ opens.sheet.text = selected /\ opens.sheet.filter = NoFilter /\ opens.sheet.offset = 0
      /\ filters \in Runs /\ filters.kind = "filterTable" /\ ~filters.sent /\ ~filters.cut
      /\ filters.sheet.text = selected /\ filters.sheet.filter = filter /\ filters.sheet.offset = 0
  BY <1>0, QueryType, GridAssumption DEF Kinds, Typed, Flags, Texts
<1>2. Panels'
  <2>1. filter \in Filters /\ NoFilter \in Filters /\ 0 \in 0..MaxPages BY GridAssumption DEF Typed, Flags
  <2>2. Whereof(NoFilter) \in Browses /\ Whereof(filter) \in Browses BY <1>0, <2>1 DEF Browses
  <2> HIDE DEF Whereof
  <2>3. QED BY <1>0, <2>2 DEF Panels
<1>3. Flags'
  <2>1. connecting' \in BOOLEAN /\ editing' \in BOOLEAN /\ picked' \in BOOLEAN
    BY Zenon DEF Typed, Flags, BrowseCurrentTable, ApplyTableBrowse
  <2>2. QED BY <1>0, <2>1, GridAssumption DEF Typed, Flags, BrowseCurrentTable, ApplyTableBrowse, Texts
<1> HIDE DEF opens, filters
<1>4. CASE Started
  <2>1. Shape(opens) /\ Shape(filters) BY <1>1 DEF Shape, Whole, Refreshing, Paging
  <2>2. CASE RunQuery(opens) /\ browse' = Whereof(NoFilter)
    <3>1. Asks(opens) BY <1>0, <1>1, <1>4, <2>1, <2>2, RunQueryStep DEF Asks
    <3>2. QED BY <1>1, <1>2, <1>3, <3>1 DEF UserStep
  <2>3. CASE RunQuery(filters) /\ browse' = Whereof(filter)
    <3>1. Asks(filters) BY <1>0, <1>1, <1>4, <2>1, <2>3, RunQueryStep DEF Asks
    <3>2. QED BY <1>1, <1>2, <1>3, <3>1 DEF UserStep
  <2>4. QED BY <1>0, <1>4, <2>2, <2>3
<1>5. CASE ~Started
  <2>1. Forgets BY <1>0, <1>5, RunQueryStep DEF Forgets
  <2>2. QED BY <1>2, <1>3, <2>1 DEF UserStep
<1>6. QED BY <1>4, <1>5

LEMMA NextPageStep ==
  ASSUME Typed, LoadNextTablePage \/ LoadNextServerPage \/ ApplyServerQuery
  PROVE  UserStep
<1>1. Started /\ UNCHANGED <<conn, result, browse, page>>
  BY Zenon DEF LoadNextTablePage, LoadNextServerPage, ApplyServerQuery
<1>2. Panels' BY <1>1 DEF Typed, Panels
<1>3. Flags'
  <2>1. connecting' \in BOOLEAN /\ editing' \in BOOLEAN /\ picked' \in BOOLEAN
    BY Zenon DEF Typed, Flags, LoadNextTablePage, LoadNextServerPage, ApplyServerQuery
  <2>2. QED BY <2>1 DEF Typed, Flags, LoadNextTablePage, LoadNextServerPage, ApplyServerQuery
<1>4. CASE LoadNextTablePage
  <2> DEFINE q == Query("tablePage", selected, browse.filter, browse.offset + 1)
  <2>1. /\ RunQuery(q) /\ browse # None /\ browse.table = selected /\ selected \in Tables
        /\ browse.filter \in Filters /\ browse.offset + 1 \in 1..MaxPages
    BY <1>4, GridAssumption DEF LoadNextTablePage, Typed, Panels, Browses
  <2>2. /\ q \in Runs /\ q.kind = "tablePage" /\ ~q.sent /\ ~q.cut /\ q.sheet.text = selected
        /\ q.sheet.filter = browse.filter /\ q.sheet.offset = browse.offset + 1
    BY <2>1, QueryType, GridAssumption DEF Kinds, Texts
  <2> HIDE DEF q
  <2>3. Shape(q) BY <2>1, <2>2 DEF Shape, Whole, Refreshing, Paging
  <2>4. Asks(q) BY <1>1, <2>1, <2>2, <2>3, RunQueryStep DEF Asks
  <2>5. QED BY <1>2, <1>3, <2>2, <2>4 DEF UserStep
<1>5. CASE LoadNextServerPage
  <2> DEFINE q == Query("queryPage", page.text, page.filter, page.offset + 1)
  <2>1. /\ RunQuery(q) /\ browse = None /\ page # None /\ page.text \in Texts
        /\ page.filter \in Filters /\ page.offset + 1 \in 1..MaxPages
    BY <1>5, GridAssumption DEF LoadNextServerPage, Typed, Panels, Pagings
  <2>2. /\ q \in Runs /\ q.kind = "queryPage" /\ ~q.sent /\ ~q.cut /\ q.sheet.text = page.text
        /\ q.sheet.filter = page.filter /\ q.sheet.offset = page.offset + 1
    BY <2>1, QueryType, GridAssumption DEF Kinds
  <2> HIDE DEF q
  <2>3. Shape(q) BY <2>1, <2>2 DEF Shape, Whole, Refreshing, Paging
  <2>4. Asks(q) BY <1>1, <2>1, <2>2, <2>3, RunQueryStep DEF Asks
  <2>5. QED BY <1>2, <1>3, <2>2, <2>4 DEF UserStep
<1>6. CASE ApplyServerQuery
  <2> DEFINE q == Query("filterQuery", page.text, filter, 0)
  <2>1. RunQuery(q) /\ browse = None /\ page.text \in Texts /\ filter \in Filters
    BY <1>6 DEF ApplyServerQuery, Typed, Panels, Pagings, Flags
  <2>2. /\ q \in Runs /\ q.kind = "filterQuery" /\ ~q.sent /\ ~q.cut /\ q.sheet.text = page.text
        /\ q.sheet.offset = 0
    BY <2>1, QueryType, GridAssumption DEF Kinds
  <2> HIDE DEF q
  <2>3. Shape(q) BY <2>1, <2>2 DEF Shape, Whole, Refreshing, Paging
  <2>4. Asks(q) BY <1>1, <2>1, <2>2, <2>3, RunQueryStep DEF Asks
  <2>5. QED BY <1>2, <1>3, <2>2, <2>4 DEF UserStep
<1>7. QED BY <1>4, <1>5, <1>6

LEMMA WriteStep ==
  ASSUME Typed, \/ ApplyStagedEdits \/ ApplySelectedDeletes \/ ApplyInsertedRow
                \/ \E kind \in {"import", "upsert"} : ImportCsv(kind)
  PROVE  UserStep
<1>1. Started /\ UNCHANGED <<conn, result, browse, page>>
  BY Zenon DEF ApplyStagedEdits, ApplySelectedDeletes, ApplyInsertedRow, ImportCsv
<1>2. Panels' BY <1>1 DEF Typed, Panels
<1>3. Flags'
  <2>1. connecting' \in BOOLEAN /\ editing' \in BOOLEAN /\ picked' \in BOOLEAN
    BY Zenon DEF Typed, Flags, ApplyStagedEdits, ApplySelectedDeletes, ApplyInsertedRow, ImportCsv
  <2>2. QED BY <2>1 DEF Typed, Flags, ApplyStagedEdits, ApplySelectedDeletes, ApplyInsertedRow, ImportCsv
<1>4. ASSUME NEW q \in Runs, q.kind \in Refreshing \cup {"import", "upsert"}, q.sheet.offset = -1,
             ~q.sent, ~q.cut, q.kind \in Refreshing => q.next \in Texts, RunQuery(q)
      PROVE  UserStep
  <2>1. Shape(q) BY <1>4 DEF Shape, Whole, Refreshing, Paging
  <2>2. Asks(q) BY <1>1, <1>4, <2>1, RunQueryStep DEF Asks, Refreshing
  <2>3. QED BY <1>2, <1>3, <2>2 DEF UserStep
<1> DEFINE Blank(kind) == Query(kind, Batch, NoFilter, Whole)
<1>5. ASSUME NEW kind \in Refreshing \cup {"import", "upsert"}
      PROVE  Blank(kind) \in Runs /\ Blank(kind).kind = kind /\ Blank(kind).sheet.offset = -1
             /\ ~Blank(kind).sent /\ ~Blank(kind).cut
  <2>1. kind \in Kinds /\ Batch \in Texts \cup {Plan, Batch} BY DEF Kinds, Refreshing
  <2>2. QED BY <2>1, WholeType, QueryType
<1> HIDE DEF Blank
<1>6. CASE ApplyStagedEdits
  <2> DEFINE q == [Blank("edit") EXCEPT !.target = selected, !.edits = staged, !.next = sql]
  <2>1. staged \in SUBSET Sheets /\ sql \in Texts /\ selected \in Tables \cup {None}
    BY DEF Typed, Flags
  <2>2. RunQuery(q) BY <1>6 DEF ApplyStagedEdits, Blank
  <2>3. q \in Runs /\ q.kind = "edit" /\ q.sheet.offset = -1 /\ ~q.sent /\ ~q.cut /\ q.next \in Texts
    BY <1>5, <2>1 DEF Runs, Refreshing
  <2>4. QED BY <1>4, <2>2, <2>3 DEF Refreshing
<1>7. CASE ApplySelectedDeletes
  <2>1. result \in Results /\ sql \in Texts /\ selected \in Tables \cup {None}
    BY <1>7 DEF ApplySelectedDeletes, CanDeleteRows, CanEditResults, Typed, Flags, Shown
  <2>2. PICK i \in DOMAIN result.pages :
          RunQuery([Blank("delete")
                      EXCEPT !.target = selected, !.edits = {result.pages[i]}, !.next = sql])
    BY <1>7 DEF ApplySelectedDeletes, Blank
  <2> DEFINE q == [Blank("delete") EXCEPT !.target = selected, !.edits = {result.pages[i]}, !.next = sql]
  <2>3. {result.pages[i]} \in SUBSET Sheets BY <2>1 DEF Results
  <2>4. q \in Runs /\ q.kind = "delete" /\ q.sheet.offset = -1 /\ ~q.sent /\ ~q.cut /\ q.next \in Texts
    BY <1>5, <2>1, <2>3 DEF Runs, Refreshing
  <2>5. QED BY <1>4, <2>2, <2>4 DEF Refreshing
<1>8. CASE ApplyInsertedRow
  <2> DEFINE q == [Blank("insert") EXCEPT !.target = selected, !.next = sql]
  <2>1. sql \in Texts /\ selected \in Tables \cup {None} BY DEF Typed, Flags
  <2>2. RunQuery(q) BY <1>8 DEF ApplyInsertedRow, Blank
  <2>3. q \in Runs /\ q.kind = "insert" /\ q.sheet.offset = -1 /\ ~q.sent /\ ~q.cut /\ q.next \in Texts
    <3>1. "insert" \in Refreshing \cup {"import", "upsert"} BY DEF Refreshing
    <3> DEFINE b == Blank("insert")
    <3>2. b \in Runs /\ b.kind = "insert" /\ b.sheet.offset = -1 /\ ~b.sent /\ ~b.cut
      BY <1>5, <3>1
    <3> HIDE DEF b
    <3>3. [b EXCEPT !.target = selected, !.next = sql] \in Runs BY <2>1, <3>2 DEF Runs
    <3>4. LET r == [b EXCEPT !.target = selected, !.next = sql]
          IN  r.kind = b.kind /\ r.sheet = b.sheet /\ r.sent = b.sent /\ r.cut = b.cut /\ r.next = sql
      BY <3>2 DEF Runs
    <3>5. QED BY <2>1, <3>2, <3>3, <3>4 DEF b
  <2>4. QED BY <1>4, <2>2, <2>3 DEF Refreshing
<1>9. ASSUME NEW kind \in {"import", "upsert"}, ImportCsv(kind) PROVE UserStep
  <2> DEFINE q == [Blank(kind) EXCEPT !.target = selected]
  <2>1. selected \in Tables \cup {None} BY DEF Typed, Flags
  <2>2. RunQuery(q) BY <1>9 DEF ImportCsv, Blank
  <2>3. q \in Runs /\ q.kind = kind /\ q.sheet.offset = -1 /\ ~q.sent /\ ~q.cut
    BY <1>5, <2>1 DEF Runs
  <2>4. QED BY <1>4, <2>2, <2>3 DEF Refreshing
<1>10. QED BY <1>6, <1>7, <1>8, <1>9

LEMMA UserSteps ==
  ASSUME Typed, User
  PROVE  UserStep
<1>1. sql \in Texts BY DEF Typed, Flags
<1>2. CASE HandleRun("normal", sql) \/ HandleRun("transaction", sql) BY <1>1, <1>2, HandleRunStep
<1>3. ASSUME NEW mode \in {"transaction", "execute-anyway"}, Confirm(mode) PROVE UserStep
  <2>1. pendingSafety \in Texts BY <1>3 DEF Confirm, Typed, Flags
  <2>2. QED BY <1>3, <2>1, HandleRunStep DEF Confirm
<1>4. CASE \E object \in Tables \cup {None} : SelectObject(object) BY <1>4, SelectObjectStep
<1>5. QED
  BY <1>2, <1>3, <1>4, PanelOnly, HandleStreamStep, BrowseStep, NextPageStep, WriteStep DEF User

-----------------------------------------------------------------------------
(* The other steps, by what they leave in the result and in the query.     *)

\* Two queries that ask the same thing.
Same(q, r) ==
  /\ q.kind = r.kind /\ q.next = r.next
  /\ q.sheet.text = r.sheet.text /\ q.sheet.filter = r.sheet.filter /\ q.sheet.offset = r.sheet.offset

LEMMA SameShape ==
  ASSUME NEW q, NEW r, Same(q, r), Shape(q)
  PROVE  Shape(r)
BY DEF Same, Shape

LEMMA DispatchEffect ==
  ASSUME Typed, Dispatch
  PROVE  /\ run' # None /\ run' \in Runs /\ Shape(run') /\ Same(run, run')
         /\ run'.sheet.conn = conn /\ run'.cut = run.cut
         /\ result' = IF run.kind = "stream" THEN None ELSE result
         /\ UNCHANGED <<conn, connecting, selected, sql, panel>>
<1> DEFINE s == [run.sheet EXCEPT !.conn = conn]
<1>1. /\ run \in Runs /\ Shape(run) /\ run.sheet \in Sheets /\ conn \in 0..MaxConnects
      /\ run' = [run EXCEPT !.sent = TRUE, !.sheet.conn = conn]
  BY DEF Dispatch, Typed, Running, Connection, Runs
<1>2. s \in Sheets /\ s.text = run.sheet.text /\ s.filter = run.sheet.filter
      /\ s.offset = run.sheet.offset /\ s.conn = conn
  BY <1>1 DEF Sheets
<1>3. run' = [run EXCEPT !.sent = TRUE, !.sheet = s] BY <1>1 DEF Runs
<1> HIDE DEF s
<1>4. run' \in Runs /\ run'.sheet = s /\ run'.kind = run.kind /\ run'.next = run.next /\ run'.cut = run.cut
  BY <1>1, <1>2, <1>3 DEF Runs
<1>5. Same(run, run') BY <1>2, <1>4 DEF Same
<1>6. Shape(run') BY <1>1, <1>5, SameShape
<1>7. run' # None BY <1>4, NoQueryAssumption
<1>8. QED BY <1>2, <1>4, <1>5, <1>6, <1>7 DEF Dispatch

LEMMA AppendChunkEffect ==
  ASSUME Typed, NEW n \in 0..ChunkRows, AppendChunk(n)
  PROVE  /\ run.kind = "stream" /\ run' # None /\ run' \in Runs /\ Shape(run') /\ Same(run, run')
         /\ run'.sheet = run.sheet
         /\ result' \in Results
         /\ result'.pages = IF result = None THEN <<run.sheet>> ELSE result.pages
         /\ (result # None => result.rows <= StreamCap) => result'.rows <= StreamCap
         /\ result'.lost => run'.cut \/ (result # None /\ result.lost)
         /\ result # None => result'.warned = result.warned
         /\ run.cut => run'.cut
         /\ UNCHANGED <<conn, connecting, selected, sql, panel>>
<1> DEFINE loaded == IF result = None THEN 0 ELSE result.rows
           chunk == LimitQueryChunk(n, loaded)
<1>1. run \in Runs /\ Shape(run) /\ run.kind = "stream" /\ run.sheet \in Sheets
      /\ run' = [run EXCEPT !.cut = @ \/ chunk.truncated]
      /\ result' = AppendQueryChunk(result, run.sheet, chunk)
      /\ UNCHANGED <<conn, connecting, selected, sql, panel>>
  BY DEF AppendChunk, Typed, Running, Runs
<1>2. loaded \in Nat /\ n \in Nat /\ StreamCap \in Nat BY GridAssumption DEF Typed, Shown, Results
<1>3. /\ chunk.rows \in Nat /\ chunk.truncated \in BOOLEAN
      /\ loaded <= StreamCap => loaded + chunk.rows <= StreamCap
      /\ result = None => chunk.rows <= StreamCap
      /\ result # None /\ result.rows <= StreamCap => result.rows + chunk.rows <= StreamCap
  BY <1>2 DEF LimitQueryChunk
<1> HIDE DEF loaded, chunk
<1>4. /\ run' \in Runs /\ run'.kind = run.kind /\ run'.next = run.next /\ run'.sheet = run.sheet
      /\ run.cut => run'.cut
      /\ chunk.truncated => run'.cut
  BY <1>1, <1>3 DEF Runs
<1>5. Same(run, run') BY <1>4 DEF Same
<1>6. Shape(run') /\ run' # None BY <1>1, <1>4, <1>5, SameShape, NoQueryAssumption
<1>7. CASE result = None
  <2>1. result' = [pages |-> <<run.sheet>>, rows |-> chunk.rows, lost |-> chunk.truncated, warned |-> FALSE]
    BY <1>1, <1>7 DEF AppendQueryChunk
  <2>2. /\ result' \in Results /\ result'.pages = <<run.sheet>> /\ result'.rows = chunk.rows
        /\ result'.lost => chunk.truncated
    BY <1>1, <1>3, <2>1 DEF Results
  <2>3. result'.rows <= StreamCap BY <1>3, <1>7, <2>2
  <2>4. result'.lost => run'.cut BY <1>4, <2>2
  <2>5. QED BY <1>1, <1>4, <1>5, <1>6, <1>7, <2>2, <2>3, <2>4
<1>8. CASE result # None
  <2>1. result \in Results BY <1>8 DEF Typed, Shown
  <2>2. result' = [result EXCEPT !.rows = @ + chunk.rows, !.lost = @ \/ chunk.truncated]
    BY <1>1, <1>8 DEF AppendQueryChunk
  <2>3. /\ result' \in Results /\ result'.pages = result.pages /\ result'.rows = result.rows + chunk.rows
        /\ result'.lost => result.lost \/ chunk.truncated
        /\ result'.warned = result.warned
    <3>1. result.rows + chunk.rows \in Nat /\ (result.lost \/ chunk.truncated) \in BOOLEAN
      BY <1>3, <2>1 DEF Results
    <3> DEFINE total == result.rows + chunk.rows
               over == result.lost \/ chunk.truncated
    <3>2. result' = [result EXCEPT !.rows = total, !.lost = over] BY <2>2
    <3>3. total \in Nat /\ over \in BOOLEAN BY <3>1
    <3> HIDE DEF total, over
    <3>4. result' \in Results /\ result'.pages = result.pages /\ result'.rows = total
          /\ result'.lost = over /\ result'.warned = result.warned
      BY <2>1, <3>2, <3>3 DEF Results
    <3>5. QED BY <3>4 DEF total, over
  <2>4. result.rows <= StreamCap => result'.rows <= StreamCap BY <1>3, <1>8, <2>3
  <2>5. result'.lost => run'.cut \/ result.lost BY <1>4, <2>3
  <2>6. QED BY <1>1, <1>4, <1>5, <1>6, <1>8, <2>3, <2>4, <2>5
<1>9. QED BY <1>7, <1>8

LEMMA FilledType ==
  ASSUME NEW sheet \in Sheets
  PROVE  /\ Filled(sheet) \in Results /\ Filled(sheet).pages = <<sheet>>
         /\ Filled(sheet).pages # <<>> /\ Filled(sheet).rows = 0
         /\ ~Filled(sheet).lost /\ ~Filled(sheet).warned
BY DEF Filled, Results

\* A page is put under the rows shown or takes their place.
LEMMA AppendResultType ==
  ASSUME Typed, NEW sheet \in Sheets
  PROVE  \/ /\ AppendResult(sheet) = Filled(sheet)
            /\ result # None => Columns(Head(result.pages).text) # Columns(sheet.text)
         \/ /\ result # None /\ AppendResult(sheet) \in Results
            /\ AppendResult(sheet).pages = Append(result.pages, sheet)
            /\ AppendResult(sheet).rows = result.rows /\ AppendResult(sheet).lost = result.lost
            /\ AppendResult(sheet).warned = result.warned
<1>1. CASE result = None BY <1>1 DEF AppendResult
<1>2. CASE result # None /\ Columns(Head(result.pages).text) # Columns(sheet.text)
  BY <1>2 DEF AppendResult
<1>3. CASE result # None /\ Columns(Head(result.pages).text) = Columns(sheet.text)
  <2>1. AppendResult(sheet) = [result EXCEPT !.pages = Append(result.pages, sheet)]
    BY <1>3 DEF AppendResult
  <2>2. result \in Results BY <1>3 DEF Typed, Shown
  <2>3. Append(result.pages, sheet) \in Seq(Sheets) BY <2>2 DEF Results
  <2> DEFINE pages == Append(result.pages, sheet)
  <2> HIDE DEF pages
  <2>4. AppendResult(sheet) \in Results /\ AppendResult(sheet).pages = pages
        /\ AppendResult(sheet).rows = result.rows /\ AppendResult(sheet).lost = result.lost
        /\ AppendResult(sheet).warned = result.warned
    BY <2>1, <2>2, <2>3 DEF Results, pages
  <2>5. QED BY <1>3, <2>4 DEF pages
<1>4. QED BY <1>1, <1>2, <1>3

LEMMA SucceedShownEffect ==
  ASSUME Typed, NEW more \in BOOLEAN, SucceedShown(more)
  PROVE  /\ run \in Runs /\ Shape(run) /\ run.sheet \in Sheets
         /\ run' = None /\ result' = Filled(run.sheet) /\ UNCHANGED conn
         /\ Panels' /\ Flags'
         /\ browse = None => browse' = None
         /\ browse # None => browse'.table = browse.table /\ browse'.filter = browse.filter
         /\ run.kind # "refreshBrowse" /\ browse # None => browse'.offset = browse.offset
         /\ IF run.kind = "filterQuery"
            THEN page' = [text |-> run.sheet.text, offset |-> 0, more |-> more, filter |-> run.sheet.filter]
            ELSE /\ page = None => page' = None
                 /\ page # None => page'.text = page.text /\ page'.filter = page.filter
                                   /\ page'.offset = page.offset
<1>1. run \in Runs /\ Shape(run) /\ run.sheet \in Sheets BY DEF SucceedShown, Typed, Running, Runs
<1>2. /\ run' = None /\ result' = Filled(run.sheet) /\ UNCHANGED conn
      /\ UNCHANGED <<connecting, selected, sql, staged, editing, filter, pendingSafety>>
  BY DEF SucceedShown
<1>3. browse = None \/ browse \in Browses BY DEF Typed, Panels
<1>4. page = None \/ page \in Pagings BY DEF Typed, Panels
<1>5. 0 \in 0..MaxPages BY GridAssumption
<1>6. /\ browse = None => browse' = None
      /\ browse # None => /\ browse' \in Browses
                          /\ browse'.table = browse.table /\ browse'.filter = browse.filter
                          /\ run.kind # "refreshBrowse" => browse'.offset = browse.offset
  BY <1>3, <1>5 DEF SucceedShown, Browses
<1>7. ASSUME run.kind = "filterQuery"
      PROVE  /\ page' = [text |-> run.sheet.text, offset |-> 0, more |-> more, filter |-> run.sheet.filter]
             /\ page' \in Pagings
  <2>1. page' = [text |-> run.sheet.text, offset |-> 0, more |-> more, filter |-> run.sheet.filter]
    BY <1>7 DEF SucceedShown
  <2>2. run.sheet.text \in Texts /\ run.sheet.filter \in Filters BY <1>1, <1>7 DEF Shape, Sheets
  <2>3. page' \in Pagings BY <1>5, <2>1, <2>2 DEF Pagings
  <2>4. QED BY <2>1, <2>3
<1>8. ASSUME run.kind # "filterQuery"
      PROVE  /\ page = None => page' = None
             /\ page # None => /\ page' \in Pagings
                               /\ page'.text = page.text /\ page'.filter = page.filter
                               /\ page'.offset = page.offset
  BY <1>4, <1>8 DEF SucceedShown, Pagings
<1>9. Panels' BY <1>3, <1>4, <1>6, <1>7, <1>8 DEF Panels
<1>10. Flags'
  <2>1. connecting' \in BOOLEAN /\ editing' \in BOOLEAN /\ picked' \in BOOLEAN
    BY Zenon DEF Typed, Flags, SucceedShown
  <2>2. QED BY <1>2, <2>1 DEF Typed, Flags
<1>11. QED BY <1>1, <1>2, <1>6, <1>7, <1>8, <1>9, <1>10

LEMMA SucceedPageEffect ==
  ASSUME Typed, NEW more \in BOOLEAN, SucceedPage(more)
  PROVE  /\ run \in Runs /\ Shape(run) /\ run.sheet \in Sheets /\ run.kind \in Paging
         /\ run' = None /\ result' = AppendResult(run.sheet) /\ UNCHANGED conn
         /\ Panels' /\ Flags'
         /\ browse = None => browse' = None
         /\ browse # None =>
              /\ browse'.table = browse.table /\ browse'.filter = browse.filter
              /\ browse'.offset = IF run.kind = "tablePage" THEN run.sheet.offset ELSE browse.offset
         /\ page = None => page' = None
         /\ page # None =>
              /\ page'.text = page.text /\ page'.filter = page.filter
              /\ page'.offset = IF run.kind = "queryPage" THEN run.sheet.offset ELSE page.offset
<1>1. /\ run \in Runs /\ Shape(run) /\ run.sheet \in Sheets /\ run.kind \in Paging
      /\ run.sheet.offset \in 0..MaxPages
  BY GridAssumption DEF SucceedPage, Typed, Running, Runs, Shape, Paging
<1>2. /\ run' = None /\ result' = AppendResult(run.sheet) /\ UNCHANGED conn
      /\ UNCHANGED <<connecting, selected, sql, staged, editing, filter, pendingSafety>>
  BY DEF SucceedPage
<1>3. (browse = None \/ browse \in Browses) /\ (page = None \/ page \in Pagings) BY DEF Typed, Panels
<1>4. /\ browse = None => browse' = None
      /\ browse # None =>
           /\ browse' \in Browses
           /\ browse'.table = browse.table /\ browse'.filter = browse.filter
           /\ browse'.offset = IF run.kind = "tablePage" THEN run.sheet.offset ELSE browse.offset
  BY <1>1, <1>3 DEF SucceedPage, Browses
<1>5. /\ page = None => page' = None
      /\ page # None =>
           /\ page' \in Pagings
           /\ page'.text = page.text /\ page'.filter = page.filter
           /\ page'.offset = IF run.kind = "queryPage" THEN run.sheet.offset ELSE page.offset
  BY <1>1, <1>3 DEF SucceedPage, Pagings
<1>6. Panels' BY <1>3, <1>4, <1>5 DEF Panels
<1>7. Flags'
  <2>1. connecting' \in BOOLEAN /\ editing' \in BOOLEAN /\ picked' \in BOOLEAN
    BY Zenon DEF Typed, Flags, SucceedPage
  <2>2. QED BY <1>2, <2>1 DEF Typed, Flags
<1>8. QED BY <1>1, <1>2, <1>4, <1>5, <1>6, <1>7

LEMMA SucceedStreamEffect ==
  ASSUME Typed, SucceedStream
  PROVE  /\ run.kind = "stream" /\ run.sheet \in Sheets /\ run.sheet.offset = Whole
         /\ run' = None /\ UNCHANGED <<conn, browse, page>> /\ Flags'
         /\ result' \in Results
         /\ result'.pages = IF result = None THEN <<run.sheet>> ELSE result.pages
         /\ result'.rows = IF result = None THEN 0 ELSE result.rows
         /\ result'.lost => result # None /\ result.lost
         /\ result # None /\ result.warned => result'.warned
         /\ run.cut => result'.warned
<1>1. /\ run \in Runs /\ run.kind = "stream" /\ run.sheet \in Sheets /\ run.sheet.offset = Whole
      /\ run.cut \in BOOLEAN
  BY DEF SucceedStream, Typed, Running, Runs, Shape, Refreshing, Paging
<1>2. run' = None /\ UNCHANGED <<conn, browse, page>> /\ result' = Streamed BY DEF SucceedStream
<1>3. Flags'
  <2>1. connecting' \in BOOLEAN /\ editing' \in BOOLEAN /\ picked' \in BOOLEAN
    BY Zenon DEF Typed, Flags, SucceedStream
  <2>2. QED BY <2>1 DEF Typed, Flags, SucceedStream
<1> DEFINE shown == IF result = None THEN Filled(run.sheet) ELSE result
           warned == shown.warned \/ run.cut
<1>4. /\ shown \in Results
      /\ shown.pages = IF result = None THEN <<run.sheet>> ELSE result.pages
      /\ shown.rows = IF result = None THEN 0 ELSE result.rows
      /\ shown.lost => result # None /\ result.lost
      /\ result # None => shown.warned = result.warned
  BY <1>1, FilledType DEF Typed, Shown
<1>5. warned \in BOOLEAN /\ (shown.warned => warned) /\ (run.cut => warned) BY <1>1, <1>4 DEF Results
<1>6. result' = [shown EXCEPT !.warned = warned] BY <1>2 DEF Streamed
<1> HIDE DEF shown, warned
<1>7. /\ result' \in Results /\ result'.pages = shown.pages /\ result'.rows = shown.rows
      /\ result'.lost = shown.lost /\ result'.warned = warned
  BY <1>4, <1>5, <1>6 DEF Results
<1>8. result'.lost => result # None /\ result.lost BY <1>4, <1>7
<1>9. result # None /\ result.warned => result'.warned BY <1>4, <1>5, <1>7
<1>10. run.cut => result'.warned BY <1>5, <1>7
<1>11. QED BY <1>1, <1>2, <1>3, <1>4, <1>7, <1>8, <1>9, <1>10

LEMMA SucceedWriteEffect ==
  ASSUME Typed, SucceedWrite
  PROVE  /\ run.kind \in Refreshing /\ run' # None /\ run' \in Runs /\ Shape(run')
         /\ run'.kind \in {"refresh", "refreshBrowse"}
         /\ UNCHANGED <<conn, result, browse, page>> /\ Flags'
<1> DEFINE kind == IF run.kind # "edit" /\ browse # None THEN "refreshBrowse" ELSE "refresh"
<1>1. /\ run \in Runs /\ run.kind \in Refreshing /\ run.next \in Texts \cup {Plan, Batch}
      /\ run' = Query(kind, run.next, NoFilter, Whole)
      /\ UNCHANGED <<conn, result, browse, page>>
  BY DEF SucceedWrite, Typed, Running, Shape, Refreshing
<1>2. kind \in Kinds /\ kind \in {"refresh", "refreshBrowse"} BY DEF Kinds
<1> HIDE DEF kind
<1>3. run' \in Runs /\ run'.kind = kind /\ run'.sheet.offset = Whole
  <2>1. run.next \in Texts \cup {Plan, Batch} BY <1>1
  <2>2. /\ Query(kind, run.next, NoFilter, Whole) \in Runs
        /\ Query(kind, run.next, NoFilter, Whole).kind = kind
        /\ Query(kind, run.next, NoFilter, Whole).sheet.offset = Whole
    BY <1>2, <2>1, WholeType, QueryType
  <2>3. QED BY <1>1, <2>2
<1>4. Shape(run') BY <1>2, <1>3 DEF Shape, Refreshing, Paging
<1>5. Flags'
  <2>1. connecting' \in BOOLEAN /\ editing' \in BOOLEAN /\ picked' \in BOOLEAN
    BY Zenon DEF Typed, Flags, SucceedWrite
  <2>2. QED BY <2>1 DEF Typed, Flags, SucceedWrite
<1>6. QED BY <1>1, <1>2, <1>3, <1>4, <1>5, NoQueryAssumption

\* A query that ends without an answer for the grid.
LEMMA EndsEffect ==
  ASSUME Typed, SucceedUpsert \/ Fail
  PROVE  /\ run # None /\ run' = None /\ UNCHANGED <<conn, result>> /\ Panels' /\ Flags'
         /\ ~(run.kind = "stream" /\ run.cut)
         /\ browse' \in {browse, None} /\ page' \in {page, None}
         /\ run.kind \in {"browse", "filterTable"} => browse' = None
         /\ run.kind = "run" /\ run.sheet.offset = 0 => page' = None
<1>1. Flags'
  <2>1. connecting' \in BOOLEAN /\ editing' \in BOOLEAN /\ picked' \in BOOLEAN
    BY Zenon DEF Typed, Flags, SucceedUpsert, Fail
  <2>2. QED BY <2>1 DEF Typed, Flags, SucceedUpsert, Fail
<1>2. QED BY <1>1 DEF SucceedUpsert, Fail, Typed, Panels

\* A connect leaves an empty grid, a failed one the grid as it is.
LEMMA ConnectedEffect ==
  ASSUME Typed, Connected
  PROVE  /\ Connection' /\ Panels' /\ Flags' /\ UNCHANGED run
         /\ (result' = None \/ UNCHANGED <<conn, result>>)
         /\ browse' \in {browse, None} /\ page' = page
<1>1. CASE FinishConnect
  <2>1. Connection'
    BY <1>1, GridAssumption DEF FinishConnect, Typed, Connection
  <2>2. connecting' \in BOOLEAN /\ editing' \in BOOLEAN /\ picked' \in BOOLEAN
    BY <1>1, Zenon DEF Typed, Flags, FinishConnect, ForgetSelection
  <2>3. Flags' BY <1>1, <2>2, GridAssumption DEF Typed, Flags, FinishConnect, ForgetSelection, Texts
  <2>4. QED BY <1>1, <2>1, <2>3 DEF FinishConnect, ForgetSelection, Typed, Panels
<1>2. CASE FailConnect
  <2>1. connecting' \in BOOLEAN /\ editing' \in BOOLEAN /\ picked' \in BOOLEAN
    BY <1>2, Zenon DEF Typed, Flags, FailConnect, panel
  <2>2. QED BY <1>2, <2>1 DEF FailConnect, Typed, Connection, Panels, Flags, panel
<1>3. QED BY <1>1, <1>2 DEF Connected

-----------------------------------------------------------------------------
LEMMA TypedStep == Typed /\ [Next]_vars => Typed'
<1> SUFFICES ASSUME Typed, [Next]_vars PROVE Typed' OBVIOUS
<1>1. CASE User
  <2>1. UserStep BY <1>1, UserSteps
  <2>2. CASE Forgets BY <2>1, <2>2, ForgetsTyped DEF UserStep, Typed
  <2>3. CASE \E q \in Runs : Asks(q) BY <2>1, <2>3, AsksTyped DEF UserStep, Typed
  <2>4. QED BY <2>1, <2>2, <2>3 DEF UserStep
<1>2. CASE Dispatch
  <2>1. Panels' BY <1>2, DispatchEffect DEF Typed, Panels, panel
  <2>2. connecting' \in BOOLEAN /\ editing' \in BOOLEAN /\ picked' \in BOOLEAN
    BY <1>2, Zenon DEF Typed, Flags, Dispatch, panel
  <2>3. Flags' BY <1>2, <2>2 DEF Typed, Flags, Dispatch, panel
  <2>4. Shown' /\ Connection' /\ Running'
    BY <1>2, DispatchEffect DEF Typed, Shown, Connection, Running
  <2>5. QED BY <2>1, <2>3, <2>4 DEF Typed
<1>3. ASSUME NEW n \in 0..ChunkRows, AppendChunk(n) PROVE Typed'
  <2>1. Panels' BY <1>3, AppendChunkEffect DEF Typed, Panels, panel
  <2>2. connecting' \in BOOLEAN /\ editing' \in BOOLEAN /\ picked' \in BOOLEAN
    BY <1>3, Zenon DEF Typed, Flags, AppendChunk, panel
  <2>3. Flags' BY <1>3, <2>2 DEF Typed, Flags, AppendChunk, panel
  <2>4. result'.pages # <<>> BY <1>3, AppendChunkEffect DEF Typed, Shown
  <2>5. Shown' /\ Connection' /\ Running'
    BY <1>3, <2>4, AppendChunkEffect DEF Typed, Shown, Connection, Running
  <2>6. QED BY <2>1, <2>3, <2>5 DEF Typed
<1>4. ASSUME NEW more \in BOOLEAN, SucceedShown(more) PROVE Typed'
  BY <1>4, SucceedShownEffect, FilledType DEF Typed, Shown, Connection, Running
<1>5. ASSUME NEW more \in BOOLEAN, SucceedPage(more) PROVE Typed'
  <2>1. run.sheet \in Sheets /\ result' = AppendResult(run.sheet) BY <1>5, SucceedPageEffect
  <2>2. result' \in Results /\ result'.pages # <<>>
    <3>1. CASE result' = Filled(run.sheet) BY <2>1, <3>1, FilledType
    <3>2. CASE /\ result # None /\ AppendResult(run.sheet) \in Results
               /\ AppendResult(run.sheet).pages = Append(result.pages, run.sheet)
      <4>1. result.pages \in Seq(Sheets) BY <3>2 DEF Typed, Shown, Results
      <4>2. Append(result.pages, run.sheet) # <<>> BY <2>1, <4>1
      <4>3. QED BY <2>1, <3>2, <4>2
    <3>3. QED BY <2>1, <3>1, <3>2, AppendResultType
  <2>3. QED BY <1>5, <2>2, SucceedPageEffect DEF Typed, Shown, Connection, Running
<1>6. CASE SucceedStream
  <2>1. Panels' BY <1>6, SucceedStreamEffect DEF Typed, Panels
  <2>2. result'.pages # <<>>
    <3>1. result'.pages = IF result = None THEN <<run.sheet>> ELSE result.pages
      BY <1>6, SucceedStreamEffect
    <3>2. QED BY <3>1 DEF Typed, Shown
  <2>3. QED BY <1>6, <2>1, <2>2, SucceedStreamEffect DEF Typed, Shown, Connection, Running
<1>7. CASE SucceedWrite
  <2>1. Panels' BY <1>7, SucceedWriteEffect DEF Typed, Panels
  <2>2. QED BY <1>7, <2>1, SucceedWriteEffect DEF Typed, Shown, Connection, Running
<1>8. CASE SucceedUpsert \/ Fail
  BY <1>8, EndsEffect DEF Typed, Shown, Connection, Running
<1>9. CASE Connected
  BY <1>9, ConnectedEffect DEF Typed, Shown, Running
<1>10. CASE UNCHANGED vars
  <2>1. connecting' \in BOOLEAN /\ editing' \in BOOLEAN /\ picked' \in BOOLEAN
    BY <1>10, Zenon DEF Typed, Flags, vars, store, panel
  <2>2. QED BY <1>10, <2>1 DEF Typed, Shown, Panels, Flags, Connection, Running, vars, store, panel
<1>11. QED
  BY <1>1, <1>2, <1>3, <1>4, <1>5, <1>6, <1>7, <1>8, <1>9, <1>10 DEF Next, Answer

LEMMA TypedGivesTypeOK == Typed => TypeOK
<1> SUFFICES ASSUME Typed PROVE TypeOK OBVIOUS
<1>1. connecting \in BOOLEAN /\ editing \in BOOLEAN /\ picked \in BOOLEAN BY Zenon DEF Typed, Flags
<1>2. QED BY <1>1 DEF Typed, TypeOK, Shown, Panels, Flags, Connection, Running

\* The window keeps in its variables what their types say, and a query in
\* flight has the statement and the offset its handler gives it (App.tsx and
\* runQuery of the store).
THEOREM GridTypeCorrect == Spec => []TypeOK
<1>1. Spec => []Typed
  <2>1. QED BY InitTyped, TypedStep, PTL DEF Spec
<1>2. QED BY <1>1, TypedGivesTypeOK, PTL

-----------------------------------------------------------------------------
(* A stream and its cap.                                                   *)

CutWarns == run # None /\ run.kind = "stream" /\ run.cut

Capped == result # None => result.rows <= StreamCap /\ (result.lost => result.warned \/ CutWarns)

LEMMA CappedStep == Typed /\ Capped /\ [Next]_vars => Capped'
<1> SUFFICES ASSUME Typed, Capped, [Next]_vars PROVE Capped' OBVIOUS
<1> USE DEF Capped, CutWarns
<1>1. CASE User
  <2>1. UserStep BY <1>1, UserSteps
  <2>2. CASE Forgets BY <2>2 DEF Forgets
  <2>3. ASSUME NEW q \in Runs, Asks(q) PROVE Capped' BY <2>3 DEF Asks
  <2>4. QED BY <2>1, <2>2, <2>3 DEF UserStep
<1>2. CASE Dispatch BY <1>2, DispatchEffect DEF Same
<1>3. ASSUME NEW n \in 0..ChunkRows, AppendChunk(n) PROVE Capped'
  BY <1>3, AppendChunkEffect DEF Same
<1>4. ASSUME NEW more \in BOOLEAN, SucceedShown(more) PROVE Capped'
  BY <1>4, SucceedShownEffect, FilledType, GridAssumption
<1>5. ASSUME NEW more \in BOOLEAN, SucceedPage(more) PROVE Capped'
  BY <1>5, SucceedPageEffect, AppendResultType, FilledType, GridAssumption DEF Paging
<1>6. CASE SucceedStream BY <1>6, SucceedStreamEffect, GridAssumption
<1>7. CASE SucceedWrite BY <1>7, SucceedWriteEffect DEF Refreshing
<1>8. CASE SucceedUpsert \/ Fail BY <1>8, EndsEffect
<1>9. CASE Connected BY <1>9, ConnectedEffect
<1>10. CASE UNCHANGED vars BY <1>10 DEF vars, store
<1>11. QED
  BY <1>1, <1>2, <1>3, <1>4, <1>5, <1>6, <1>7, <1>8, <1>9, <1>10 DEF Next, Answer

\* Whatever the chunks, connects and aborts in between, a stream leaves at most
\* its cap of rows, and rows it cut off are announced once it has ended
\* (limitQueryChunk, and runQuery in store.ts).
THEOREM StreamsAreBounded == Spec => []StreamIsBounded
<1>1. Init => Typed /\ Capped BY InitTyped DEF Init, Capped
<1>2. Typed /\ Capped /\ [Next]_vars => (Typed /\ Capped)' BY TypedStep, CappedStep
<1>3. Typed /\ Capped => StreamIsBounded BY DEF Capped, CutWarns, StreamIsBounded, Started
<1>4. QED BY <1>1, <1>2, <1>3, PTL DEF Spec

-----------------------------------------------------------------------------
(* The pages of a result and the paging state about them.                  *)

First == Head(result.pages)

Gapless ==
  FirstPageShown =>
    \A i \in DOMAIN result.pages :
      /\ result.pages[i].text = First.text /\ result.pages[i].filter = First.filter
      /\ result.pages[i].conn = First.conn /\ result.pages[i].offset = i - 1

\* The last page of the grid, as the browser or the paging state names it.
LastIs(text, flt, offset) ==
  text = First.text /\ flt = First.filter /\ offset = Len(result.pages) - 1

Aligned ==
  FirstPageShown =>
    /\ browse # None => LastIs(browse.table, browse.filter, browse.offset)
    /\ browse = None /\ page # None => LastIs(page.text, page.filter, page.offset)

\* One of the two pages at a time.
Exclusive == browse = None \/ page = None

\* The query in flight is a first page that replaces the grid.
Refills(q) == q.kind \in {"browse", "filterTable"} \/ (q.kind = "run" /\ q.sheet.offset = 0)

\* What a query in flight fits to, by its kind.
Expects(q) ==
  /\ q.kind \in {"explain", "stream", "run", "queryPage", "filterQuery"} => browse = None
  /\ q.kind \in {"explain", "stream", "browse", "filterTable", "tablePage"} => page = None
  /\ q.kind = "run" /\ page # None =>
       /\ q.sheet.offset = 0
       /\ page.text = q.sheet.text /\ page.filter = q.sheet.filter /\ page.offset = 0
  /\ q.kind \in {"browse", "filterTable"} /\ browse # None =>
       browse.table = q.sheet.text /\ browse.filter = q.sheet.filter /\ browse.offset = 0

\* A next page in flight continues the rows shown.
Continues(q) ==
  q.kind \in Paging /\ FirstPageShown =>
    /\ q.sheet.text = First.text /\ q.sheet.filter = First.filter
    /\ q.sheet.offset = Len(result.pages)
    /\ q.sent => q.sheet.conn = conn

Paged ==
  /\ Gapless /\ Exclusive
  /\ run # None => Expects(run) /\ Continues(run)
  /\ (run = None \/ ~Refills(run)) => Aligned

LEMMA OnePage ==
  ASSUME NEW sheet
  PROVE  /\ Head(<<sheet>>) = sheet /\ Len(<<sheet>>) = 1
         /\ DOMAIN <<sheet>> = {1} /\ <<sheet>>[1] = sheet
OBVIOUS

LEMMA AnotherPage ==
  ASSUME NEW S, NEW pages \in Seq(S), pages # <<>>, NEW sheet \in S
  PROVE  /\ Head(Append(pages, sheet)) = Head(pages)
         /\ Len(Append(pages, sheet)) = Len(pages) + 1
         /\ Len(pages) \in Nat
         /\ DOMAIN Append(pages, sheet) = DOMAIN pages \cup {Len(pages) + 1}
         /\ \A i \in DOMAIN pages : Append(pages, sheet)[i] = pages[i]
         /\ Append(pages, sheet)[Len(pages) + 1] = sheet
<1>1. DOMAIN pages = 1..Len(pages) /\ Len(pages) \in Nat /\ Len(pages) # 0 OBVIOUS
<1>2. DOMAIN Append(pages, sheet) = 1..(Len(pages) + 1) OBVIOUS
<1>3. \A i \in DOMAIN pages : Append(pages, sheet)[i] = pages[i] OBVIOUS
<1>4. Append(pages, sheet)[Len(pages) + 1] = sheet OBVIOUS
<1>5. Head(pages) = pages[1] /\ Head(Append(pages, sheet)) = Append(pages, sheet)[1] OBVIOUS
<1>6. 1 \in DOMAIN pages BY <1>1
<1>7. Len(Append(pages, sheet)) = Len(pages) + 1 OBVIOUS
<1>8. DOMAIN Append(pages, sheet) = DOMAIN pages \cup {Len(pages) + 1} BY <1>1, <1>2
<1>9. QED BY <1>1, <1>3, <1>4, <1>5, <1>6, <1>7, <1>8

\* A step that keeps the rows and at most forgets the paging.
LEMMA PagingForgotten ==
  ASSUME Exclusive, UNCHANGED <<conn, result>>, browse' \in {browse, None}, page' \in {page, None}
  PROVE  /\ FirstPageShown' = FirstPageShown /\ Exclusive'
         /\ Gapless => Gapless'
         /\ Aligned => Aligned'
<1>1. FirstPageShown' = FirstPageShown BY DEF FirstPageShown
<1>2. Exclusive' BY DEF Exclusive
<1>3. Gapless => Gapless' BY <1>1 DEF Gapless, First
<1>4. Aligned => Aligned' BY <1>1 DEF Aligned, LastIs, First, Exclusive
<1>5. QED BY <1>1, <1>2, <1>3, <1>4

LEMMA StillExpected ==
  ASSUME NEW q, Expects(q), browse' \in {browse, None}, page' \in {page, None}
  PROVE  /\ q.kind \in {"explain", "stream", "run", "queryPage", "filterQuery"} => browse' = None
         /\ q.kind \in {"explain", "stream", "browse", "filterTable", "tablePage"} => page' = None
         /\ q.kind = "run" /\ page' # None =>
              /\ q.sheet.offset = 0
              /\ page'.text = q.sheet.text /\ page'.filter = q.sheet.filter /\ page'.offset = 0
         /\ q.kind \in {"browse", "filterTable"} /\ browse' # None =>
              browse'.table = q.sheet.text /\ browse'.filter = q.sheet.filter /\ browse'.offset = 0
BY DEF Expects

\* The number of pages of a result.
LEMMA PageCount == Typed /\ FirstPageShown => result.pages \in Seq(Sheets) /\ result.pages # <<>>
                                               /\ Len(result.pages) \in Nat
<1> SUFFICES ASSUME Typed, FirstPageShown
             PROVE  result.pages \in Seq(Sheets) /\ result.pages # <<>> /\ Len(result.pages) \in Nat
  OBVIOUS
<1>1. result.pages \in Seq(Sheets) /\ result.pages # <<>> BY DEF Typed, Shown, FirstPageShown, Results
<1>2. QED BY <1>1

LEMMA AskedPaged ==
  ASSUME Typed, Paged, NEW q \in Runs, Asks(q)
  PROVE  Paged'
<1>1. /\ run = None /\ run' = q /\ Aligned /\ Gapless /\ Exclusive /\ ~q.sent
      /\ UNCHANGED <<conn, result>>
  BY DEF Asks, Paged
<1>2. FirstPageShown' = FirstPageShown BY <1>1 DEF FirstPageShown
<1>3. Gapless' BY <1>1, <1>2 DEF Gapless, First
<1>4. Exclusive' BY <1>1 DEF Asks, Exclusive
<1>5. Expects(q)'
  <2>1. CASE q.kind \in {"explain", "stream", "run"} BY <2>1 DEF Asks, Expects
  <2>2. CASE q.kind \in {"browse", "filterTable"} BY <2>2 DEF Asks, Expects
  <2>3. CASE q.kind \notin {"explain", "stream", "run", "browse", "filterTable"}
    BY <1>1, <2>3 DEF Asks, Expects, Exclusive
  <2>4. QED BY <2>1, <2>2, <2>3
<1>6. Continues(q)'
  <2> SUFFICES ASSUME q.kind \in Paging, FirstPageShown
               PROVE  /\ q.sheet.text = First.text /\ q.sheet.filter = First.filter
                      /\ q.sheet.offset = Len(result.pages)
    BY <1>1, <1>2 DEF Continues, First
  <2>1. Len(result.pages) \in Nat BY PageCount
  <2>2. QED BY <1>1, <2>1 DEF Asks, Paging, Aligned, LastIs
<1>7. ~Refills(q) => Aligned'
  <2>1. CASE q.kind \in {"explain", "stream", "run"}
    BY <2>1 DEF Asks, Refills, Aligned
  <2>2. CASE q.kind \notin {"explain", "stream", "run", "browse", "filterTable"}
    <3>1. UNCHANGED <<browse, page>> BY <2>2 DEF Asks
    <3>2. QED BY <1>1, <1>2, <3>1 DEF Aligned, LastIs, First
  <2>3. QED BY <2>1, <2>2 DEF Refills
<1>8. run' # None BY <1>1, NoQueryAssumption
<1>9. Refills(run)' = Refills(q) /\ Expects(run)' = Expects(q)' /\ Continues(run)' = Continues(q)'
  BY <1>1 DEF Refills, Expects, Continues
<1>10. QED BY <1>3, <1>4, <1>5, <1>6, <1>7, <1>8, <1>9 DEF Paged

LEMMA ForgetsPaged ==
  ASSUME Paged, Forgets
  PROVE  Paged'
<1>1. Exclusive /\ UNCHANGED <<conn, result, run>> /\ browse' \in {browse, None} /\ page' \in {page, None}
  BY DEF Paged, Forgets
<1>2. /\ FirstPageShown' = FirstPageShown /\ Exclusive'
      /\ Gapless => Gapless'
      /\ Aligned => Aligned'
  BY <1>1, PagingForgotten
<1>3. run # None => Expects(run)' BY <1>1, StillExpected DEF Paged, Expects
<1>4. run # None => Continues(run)' BY <1>1, <1>2 DEF Paged, Continues, First
<1>5. Refills(run)' = Refills(run) BY <1>1 DEF Refills
<1>6. QED BY <1>1, <1>2, <1>3, <1>4, <1>5 DEF Paged

LEMMA DispatchPaged ==
  ASSUME Typed, Paged, Dispatch
  PROVE  Paged'
<1>1. /\ run # None /\ run' # None /\ Same(run, run') /\ run'.sheet.conn = conn
      /\ UNCHANGED <<conn, browse, page>>
      /\ result' = IF run.kind = "stream" THEN None ELSE result
  BY DispatchEffect DEF Dispatch, panel
<1>2. /\ Expects(run) /\ Continues(run) /\ Gapless /\ Exclusive
      /\ ~Refills(run) => Aligned
  BY <1>1 DEF Paged
<1>3. Refills(run)' = Refills(run) BY <1>1 DEF Refills, Same
<1>4. Exclusive' BY <1>1, <1>2 DEF Exclusive
<1>5. Expects(run)' BY <1>1, <1>2 DEF Expects, Same
<1>6. CASE run.kind = "stream"
  <2>1. ~FirstPageShown' BY <1>1, <1>6 DEF FirstPageShown
  <2>2. QED BY <1>4, <1>5, <2>1 DEF Paged, Gapless, Aligned, Continues
<1>7. CASE run.kind # "stream"
  <2>1. UNCHANGED <<conn, result, browse, page>> BY <1>1, <1>7
  <2>2. FirstPageShown' = FirstPageShown BY <2>1 DEF FirstPageShown
  <2>3. Gapless' BY <1>2, <2>1, <2>2 DEF Gapless, First
  <2>4. Aligned => Aligned' BY <2>1, <2>2 DEF Aligned, LastIs, First
  <2>5. Continues(run)' BY <1>1, <1>2, <2>1, <2>2 DEF Continues, Same, First
  <2>6. QED BY <1>1, <1>2, <1>3, <1>4, <1>5, <2>3, <2>4, <2>5 DEF Paged
<1>8. QED BY <1>6, <1>7

\* A stream's rows are no page of anything, under rows already shown or alone.
LEMMA StreamPaged ==
  ASSUME Paged, Exclusive', run # None, run.kind = "stream", run.sheet.offset = Whole,
         UNCHANGED <<conn, browse, page>>,
         result'.pages = IF result = None THEN <<run.sheet>> ELSE result.pages,
         run' = None \/ Same(run, run')
  PROVE  Paged'
<1>1. browse' = None /\ page' = None BY DEF Paged, Expects
<1>2. Aligned' BY <1>1 DEF Aligned
<1>3. Gapless'
  <2>1. CASE result = None
    <3>1. Head(result'.pages).offset = -1 BY <2>1, OnePage DEF Whole
    <3>2. QED BY <3>1 DEF Gapless, FirstPageShown
  <2>2. CASE result # None
    <3>1. FirstPageShown' => FirstPageShown BY <2>2 DEF FirstPageShown
    <3>2. QED BY <2>2, <3>1 DEF Paged, Gapless, First
  <2>3. QED BY <2>1, <2>2
<1>4. run' # None => Expects(run)' /\ Continues(run)' BY <1>1 DEF Expects, Continues, Same, Paging
<1>5. QED BY <1>2, <1>3, <1>4 DEF Paged

LEMMA ShownPaged ==
  ASSUME Typed, Paged, NEW more \in BOOLEAN, SucceedShown(more)
  PROVE  Paged'
<1>1. /\ run' = None /\ result' = Filled(run.sheet) /\ UNCHANGED conn /\ run.sheet \in Sheets
      /\ Shape(run) /\ run # None
      /\ browse = None => browse' = None
      /\ browse # None => browse'.table = browse.table /\ browse'.filter = browse.filter
      /\ run.kind # "refreshBrowse" /\ browse # None => browse'.offset = browse.offset
  BY SucceedShownEffect DEF SucceedShown
<1>2. /\ run.kind = "filterQuery" =>
           page' = [text |-> run.sheet.text, offset |-> 0, more |-> more, filter |-> run.sheet.filter]
      /\ run.kind # "filterQuery" =>
           /\ page = None => page' = None
           /\ page # None => page'.text = page.text /\ page'.filter = page.filter
                             /\ page'.offset = page.offset
  BY SucceedShownEffect
<1>3. Expects(run) /\ Exclusive BY <1>1 DEF Paged
<1>4. Exclusive' BY <1>1, <1>2, <1>3 DEF Exclusive, Expects
<1>5. result'.pages = <<run.sheet>> BY <1>1, FilledType
<1>6. Head(result'.pages) = run.sheet /\ Len(result'.pages) = 1 /\ DOMAIN result'.pages = {1}
      /\ result'.pages[1] = run.sheet
  BY <1>5, OnePage
<1>7. First' = run.sheet BY <1>6 DEF First
<1>8. Gapless'
  <2> SUFFICES ASSUME FirstPageShown'
               PROVE  \A i \in DOMAIN result'.pages :
                        /\ result'.pages[i].text = First'.text /\ result'.pages[i].filter = First'.filter
                        /\ result'.pages[i].conn = First'.conn /\ result'.pages[i].offset = i - 1
    BY DEF Gapless
  <2>1. run.sheet.offset = 0 BY <1>6 DEF FirstPageShown
  <2>2. QED BY <1>6, <1>7, <2>1
<1>9. Aligned'
  <2> SUFFICES ASSUME FirstPageShown'
               PROVE  /\ browse' # None => LastIs(browse.table, browse.filter, browse.offset)'
                      /\ browse' = None /\ page' # None => LastIs(page.text, page.filter, page.offset)'
    BY DEF Aligned
  <2>1. run.sheet.offset = 0 BY <1>6 DEF FirstPageShown
  <2>2. run.kind \in {"run", "browse", "filterTable", "filterQuery"}
    BY <1>1, <2>1 DEF Shape, Paging, SucceedShown, Whole
  <2>3. CASE run.kind \in {"browse", "filterTable"}
    <3>1. page' = None BY <1>2, <1>3, <2>3 DEF Expects
    <3>2. browse' # None => browse'.table = run.sheet.text /\ browse'.filter = run.sheet.filter
                            /\ browse'.offset = 0
      BY <1>1, <1>3, <2>3 DEF Expects
    <3>3. QED BY <1>6, <1>7, <3>1, <3>2 DEF LastIs
  <2>4. CASE run.kind \in {"run", "filterQuery"}
    <3>1. browse' = None BY <1>1, <1>3, <2>4 DEF Expects
    <3>2. page' # None => page'.text = run.sheet.text /\ page'.filter = run.sheet.filter /\ page'.offset = 0
      BY <1>2, <1>3, <2>4 DEF Expects
    <3>3. QED BY <1>6, <1>7, <3>1, <3>2 DEF LastIs
  <2>5. QED BY <2>2, <2>3, <2>4
<1>10. QED BY <1>1, <1>4, <1>8, <1>9 DEF Paged

LEMMA PagePaged ==
  ASSUME Typed, Paged, NEW more \in BOOLEAN, SucceedPage(more)
  PROVE  Paged'
<1>1. /\ run' = None /\ result' = AppendResult(run.sheet) /\ UNCHANGED conn /\ run.sheet \in Sheets
      /\ Shape(run) /\ run # None /\ run.kind \in Paging /\ run.sent
      /\ browse = None => browse' = None
      /\ browse # None =>
           /\ browse'.table = browse.table /\ browse'.filter = browse.filter
           /\ browse'.offset = IF run.kind = "tablePage" THEN run.sheet.offset ELSE browse.offset
      /\ page = None => page' = None
      /\ page # None =>
           /\ page'.text = page.text /\ page'.filter = page.filter
           /\ page'.offset = IF run.kind = "queryPage" THEN run.sheet.offset ELSE page.offset
  BY SucceedPageEffect DEF SucceedPage
<1>2. Expects(run) /\ Continues(run) /\ Exclusive /\ Aligned /\ Gapless
  BY <1>1 DEF Paged, Refills, Paging
<1>3. Exclusive' BY <1>1, <1>2 DEF Exclusive
<1>4. CASE result' = Filled(run.sheet)
  <2>1. Head(result'.pages) = run.sheet BY <1>1, <1>4, FilledType, OnePage
  <2>2. run.sheet.offset # 0 BY <1>1 DEF Shape
  <2>3. ~FirstPageShown' BY <2>1, <2>2 DEF FirstPageShown
  <2>4. QED BY <1>1, <1>3, <2>3 DEF Paged, Gapless, Aligned
<1>5. CASE result # None /\ result'.pages = Append(result.pages, run.sheet)
  <2>1. result.pages \in Seq(Sheets) /\ result.pages # <<>> BY <1>5 DEF Typed, Shown, Results
  <2>2. /\ Head(result'.pages) = Head(result.pages)
        /\ Len(result'.pages) = Len(result.pages) + 1 /\ Len(result.pages) \in Nat
        /\ DOMAIN result'.pages = DOMAIN result.pages \cup {Len(result.pages) + 1}
        /\ \A i \in DOMAIN result.pages : result'.pages[i] = result.pages[i]
        /\ result'.pages[Len(result.pages) + 1] = run.sheet
    BY <1>1, <1>5, <2>1, AnotherPage
  <2>3. FirstPageShown' => FirstPageShown BY <1>1, <1>5, <2>2 DEF FirstPageShown
  <2>4. First' = First BY <2>2 DEF First
  <2>5. ASSUME FirstPageShown'
        PROVE  /\ run.sheet.text = First.text /\ run.sheet.filter = First.filter
               /\ run.sheet.offset = Len(result.pages) /\ run.sheet.conn = First.conn
    BY <1>1, <1>2, <2>3, <2>5 DEF Continues, FirstPageShown, First
  <2>6. Gapless'
    <3> SUFFICES ASSUME FirstPageShown', NEW i \in DOMAIN result'.pages
                 PROVE  /\ result'.pages[i].text = First'.text /\ result'.pages[i].filter = First'.filter
                        /\ result'.pages[i].conn = First'.conn /\ result'.pages[i].offset = i - 1
      BY DEF Gapless
    <3>1. CASE i \in DOMAIN result.pages BY <1>2, <2>2, <2>3, <2>4, <3>1 DEF Gapless
    <3>2. CASE i = Len(result.pages) + 1 BY <2>2, <2>4, <2>5, <3>2
    <3>3. QED BY <2>2, <3>1, <3>2
  <2>7. Aligned'
    <3> SUFFICES ASSUME FirstPageShown'
                 PROVE  /\ browse' # None => LastIs(browse.table, browse.filter, browse.offset)'
                        /\ browse' = None /\ page' # None => LastIs(page.text, page.filter, page.offset)'
      BY DEF Aligned
    <3>1. run.sheet.offset = Len(result'.pages) - 1 BY <2>2, <2>5
    <3>2. CASE run.kind = "tablePage"
      <4>1. page' = None BY <1>1, <1>2, <3>2 DEF Expects
      <4>2. browse' # None => /\ browse'.table = First.text /\ browse'.filter = First.filter
                              /\ browse'.offset = run.sheet.offset
        BY <1>1, <1>2, <2>3, <3>2 DEF Aligned, LastIs
      <4>3. QED BY <2>4, <3>1, <4>1, <4>2 DEF LastIs
    <3>3. CASE run.kind = "queryPage"
      <4>1. browse' = None /\ browse = None BY <1>1, <1>2, <3>3 DEF Expects
      <4>2. page' # None => /\ page'.text = First.text /\ page'.filter = First.filter
                            /\ page'.offset = run.sheet.offset
        BY <1>1, <1>2, <2>3, <3>3, <4>1 DEF Aligned, LastIs
      <4>3. QED BY <2>4, <3>1, <4>1, <4>2 DEF LastIs
    <3>4. QED BY <1>1, <3>2, <3>3 DEF Paging
  <2>8. QED BY <1>1, <1>3, <2>6, <2>7 DEF Paged
<1>6. QED BY <1>1, <1>4, <1>5, AppendResultType

LEMMA EndsPaged ==
  ASSUME Typed, Paged, SucceedUpsert \/ Fail
  PROVE  Paged'
<1>1. /\ run # None /\ run' = None /\ UNCHANGED <<conn, result>>
      /\ browse' \in {browse, None} /\ page' \in {page, None}
      /\ run.kind \in {"browse", "filterTable"} => browse' = None
      /\ run.kind = "run" /\ run.sheet.offset = 0 => page' = None
  BY EndsEffect
<1>2. Exclusive /\ Expects(run) /\ Gapless /\ (~Refills(run) => Aligned) BY <1>1 DEF Paged
<1>3. Exclusive' /\ Gapless' /\ (Aligned => Aligned') BY <1>1, <1>2, PagingForgotten
<1>4. Refills(run) => browse' = None /\ page' = None BY <1>1, <1>2 DEF Refills, Expects
<1>5. Aligned' BY <1>2, <1>3, <1>4 DEF Aligned
<1>6. QED BY <1>1, <1>3, <1>5 DEF Paged

LEMMA ConnectedPaged ==
  ASSUME Typed, Paged, Connected
  PROVE  Paged'
<1>1. /\ UNCHANGED run /\ browse' \in {browse, None} /\ page' \in {page, None}
      /\ result' = None \/ UNCHANGED <<conn, result>>
  BY ConnectedEffect
<1>2. CASE UNCHANGED <<conn, result>> BY <1>1, <1>2, ForgetsPaged DEF Forgets
<1>3. CASE result' = None
  <2>1. ~FirstPageShown' BY <1>3 DEF FirstPageShown
  <2>2. Exclusive' BY <1>1 DEF Paged, Exclusive
  <2>3. run # None => Expects(run)' BY <1>1, StillExpected DEF Paged, Expects
  <2>4. QED BY <1>1, <2>1, <2>2, <2>3 DEF Paged, Gapless, Aligned, Continues
<1>4. QED BY <1>1, <1>2, <1>3

LEMMA PagedStep == Typed /\ Paged /\ [Next]_vars => Paged'
<1> SUFFICES ASSUME Typed, Paged, [Next]_vars PROVE Paged' OBVIOUS
<1>1. CASE User BY <1>1, UserSteps, ForgetsPaged, AskedPaged DEF UserStep
<1>2. CASE Dispatch BY <1>2, DispatchPaged
<1>3. ASSUME NEW n \in 0..ChunkRows, AppendChunk(n) PROVE Paged'
  <2>1. Exclusive' BY <1>3, AppendChunkEffect DEF panel, Paged, Exclusive
  <2>2. run # None /\ run.sheet.offset = Whole
    BY <1>3 DEF AppendChunk, Typed, Running, Shape, Refreshing, Paging
  <2>3. QED BY <1>3, <2>1, <2>2, AppendChunkEffect, StreamPaged DEF panel
<1>4. ASSUME NEW more \in BOOLEAN, SucceedShown(more) PROVE Paged' BY <1>4, ShownPaged
<1>5. ASSUME NEW more \in BOOLEAN, SucceedPage(more) PROVE Paged' BY <1>5, PagePaged
<1>6. CASE SucceedStream
  <2>1. Exclusive' BY <1>6, SucceedStreamEffect DEF Paged, Exclusive
  <2>2. run # None BY <1>6 DEF SucceedStream
  <2>3. QED BY <1>6, <2>1, <2>2, SucceedStreamEffect, StreamPaged
<1>7. CASE SucceedWrite
  <2>1. /\ run.kind \in Refreshing /\ run # None /\ run'.kind \in {"refresh", "refreshBrowse"}
        /\ UNCHANGED <<conn, result, browse, page>>
    BY <1>7, SucceedWriteEffect DEF SucceedWrite
  <2>2. Exclusive /\ Gapless /\ Aligned BY <2>1 DEF Paged, Refills, Refreshing
  <2>3. Exclusive' /\ Gapless' /\ Aligned' BY <2>1, <2>2, PagingForgotten
  <2>4. Expects(run)' /\ Continues(run)' BY <2>1 DEF Expects, Continues, Paging
  <2>5. QED BY <2>3, <2>4 DEF Paged
<1>8. CASE SucceedUpsert \/ Fail BY <1>8, EndsPaged
<1>9. CASE Connected BY <1>9, ConnectedPaged
<1>10. CASE UNCHANGED vars
  <2>1. Forgets BY <1>10 DEF Forgets, vars, store, panel
  <2>2. QED BY <2>1, ForgetsPaged
<1>11. QED
  BY <1>1, <1>2, <1>3, <1>4, <1>5, <1>6, <1>7, <1>8, <1>9, <1>10 DEF Next, Answer

LEMMA SameSheet ==
  ASSUME NEW s \in Sheets, NEW f \in Sheets, NEW k,
         s.text = f.text, s.filter = f.filter, s.conn = f.conn, s.offset = k
  PROVE  s = [f EXCEPT !.offset = k]
<1> DEFINE r == [text |-> s.text, filter |-> s.filter, offset |-> s.offset, conn |-> s.conn]
<1>1. s = r BY DEF Sheets
<1>2. [f EXCEPT !.offset = k] = r BY DEF Sheets
<1>3. QED BY <1>1, <1>2

LEMMA PagedGivesContiguous == Typed /\ Paged => PagesContiguous
<1> SUFFICES ASSUME Typed, Paged, FirstPageShown
             PROVE  /\ \A i \in DOMAIN result.pages : result.pages[i] = [First EXCEPT !.offset = i - 1]
                    /\ Started /\ browse # None =>
                         /\ browse.table = First.text /\ browse.filter = First.filter
                         /\ browse.offset = Len(result.pages) - 1
                    /\ Started /\ browse = None /\ page # None =>
                         /\ page.text = First.text /\ page.filter = First.filter
                         /\ page.offset = Len(result.pages) - 1
  BY DEF PagesContiguous, First
<1>1. result.pages \in Seq(Sheets) /\ result.pages # <<>> BY PageCount
<1>2. First \in Sheets BY <1>1 DEF First
<1>3. ASSUME NEW i \in DOMAIN result.pages
      PROVE  result.pages[i] = [First EXCEPT !.offset = i - 1]
  <2>1. result.pages[i] \in Sheets BY <1>1
  <2>2. QED BY <1>2, <2>1, SameSheet DEF Paged, Gapless
<1>4. Started => Aligned BY DEF Started, Paged
<1>5. QED BY <1>3, <1>4 DEF Aligned, LastIs

\* A grid that starts with a first page of the connection in use is a gapless
\* run of pages of one statement, one filter and one connection, and the paging
\* state that asks for the next page is about these rows, however queries,
\* connects and selections fall between a page's request and its arrival
\* (loadNextTablePage, loadNextServerPage and appendResult).
THEOREM PagesAreContiguous == Spec => []PagesContiguous
<1>1. Init => Typed /\ Paged
  BY InitTyped, Zenon DEF Init, Paged, Gapless, Exclusive, Aligned, FirstPageShown
<1>2. Typed /\ Paged /\ [Next]_vars => (Typed /\ Paged)' BY TypedStep, PagedStep
<1>3. QED BY <1>1, <1>2, PagedGivesContiguous, PTL DEF Spec
=============================================================================
