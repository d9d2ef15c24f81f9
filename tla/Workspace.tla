------------------------------ MODULE Workspace ------------------------------
(***************************************************************************)
(* The workspace of the desktop window: query tabs, history, favorites,    *)
(* migration history and session audit in the application store            *)
(* (store.ts), their synchronous mirror in localStorage and their snapshot *)
(* in workspace.sqlite (workspaceStorage.ts).                              *)
(*                                                                         *)
(* Every handler ends with an autosave that nobody waits for; the native   *)
(* command behind it opens its own pool, so autosaves may reach the        *)
(* database in any order, fail, or be lost when the window ends.  A window *)
(* starts from the mirror and then replaces all of it by the snapshot the  *)
(* database, the legacy JSON file or the mirror holds.                     *)
(***************************************************************************)
EXTENDS Integers, Sequences, FiniteSets, Lists

CONSTANTS
  TabIds,       \* identities of tabs (random UUIDs in the code)
  Texts,        \* SQL texts
  Empty,        \* the empty text
  Sample,       \* the driver's sample statement
  None,
  TabCap, HistoryCap, FavoriteCap, MigrationCap, AuditCap,
  MaxTabs,      \* bound: tabs opened
  MaxList,      \* bound: entries of the other lists
  MaxSaves      \* bound: autosaves in flight

QueryTab == [id : TabIds, sql : Texts, dirty : BOOLEAN]
MigrationHistoryEntry == [sql : Texts, known : BOOLEAN, applied : BOOLEAN]

\* What the keys of localStorage hold together.
MirrorSnapshot ==
  [tabs : Seq(QueryTab), active : TabIds \cup {None}, history : Seq(Texts), favorites : Seq(Texts),
   migrations : Seq(MigrationHistoryEntry)]

\* A snapshot; an audit entry is the fact that its driver is kept.
WorkspaceSnapshot ==
  [tabs : Seq(QueryTab), active : TabIds, history : Seq(Texts), favorites : Seq(Texts),
   migrations : Seq(MigrationHistoryEntry), audit : Seq(BOOLEAN), days : {0, 1, 7, 30}]

ASSUME WorkspaceAssumption ==
  /\ {Empty, Sample} \subseteq Texts /\ None \notin Texts \cup MirrorSnapshot
  /\ IsFiniteSet(TabIds) /\ MaxTabs \in Nat \ {0} /\ MaxTabs < Cardinality(TabIds)
  /\ {TabCap, HistoryCap, FavoriteCap, MigrationCap, AuditCap} \subseteq Nat \ {0}

VARIABLES
  ws,       \* tabs, activeTabId, history, favorites, migrationHistory, sessionAudit, retention
  sql,      \* the text of the editor
  local,    \* the mirror in localStorage, None when a key is missing
  disk,     \* workspace_snapshots of workspace.sqlite, None when there is no row
  legacy,   \* queryx/workspace.json, never written
  saves,    \* autosaves sent and not answered, oldest first
  phase,    \* "starting" until loadWorkspace calls, "loading", "loaded"
  fallback, \* the tabs loadWorkspace was called with
  strayed   \* an autosave failed, overtook another or was sent before the load

workspaceVars == <<ws, sql, local, disk, legacy, saves, phase, fallback, strayed>>

Without(list, x) == Only(list, Entries(list) \ {x})
\* Mutant: the earlier entry stays.
PromoteTwice(x, list) == <<x>> \o list

\* The entry in front and once.
Promote(x, list) == <<x>> \o Without(list, x)

TabOf(tabs, id) == CHOOSE i \in DOMAIN tabs : tabs[i].id = id
Open(tabs) == {tabs[i].id : i \in DOMAIN tabs}
Fresh == CHOOSE id \in TabIds : id \notin Open(ws.tabs)
NewTab(id) == [id |-> id, sql |-> Empty, dirty |-> FALSE]
DefaultTabs == <<[id |-> CHOOSE id \in TabIds : TRUE, sql |-> Sample, dirty |-> FALSE]>>

Fallback(tabs) ==
  [tabs |-> tabs, active |-> tabs[1].id, history |-> <<>>, favorites |-> <<>>,
   migrations |-> <<>>, audit |-> <<>>, days |-> 7]

-----------------------------------------------------------------------------
(* normalizeSnapshot: what a snapshot becomes when it is written and read. *)

NormalizeTabs(tabs, other) == IF tabs = <<>> THEN other ELSE Take(tabs, TabCap)
NormalizeHistory(list) == Take(list, HistoryCap)
NormalizeFavorites(list) == Take(list, FavoriteCap)
NormalizeActive(tabs, id) == IF id \in Open(tabs) THEN id ELSE tabs[1].id
\* Migrations and observations of SQL Server and Oracle are not kept.
NormalizeMigrations(list) == Take(Only(list, {m \in Entries(list) : m.known}), MigrationCap)
NormalizeAudit(list) == Take(Only(list, {TRUE}), AuditCap)
NormalizeDays(days) == IF days \in {0, 1, 7, 30} THEN days ELSE 7

NormalizeSnapshot(snapshot, other) ==
  LET tabs == NormalizeTabs(snapshot.tabs, other.tabs)
  IN  [tabs |-> tabs, active |-> NormalizeActive(tabs, snapshot.active),
       history |-> NormalizeHistory(snapshot.history),
       favorites |-> NormalizeFavorites(snapshot.favorites),
       migrations |-> NormalizeMigrations(snapshot.migrations),
       audit |-> NormalizeAudit(snapshot.audit),
       days |-> NormalizeDays(snapshot.days)]

-----------------------------------------------------------------------------
(* The window starts: the store is made from the mirror.                   *)

Blank == [tabs |-> <<>>, active |-> None, history |-> <<>>, favorites |-> <<>>, migrations |-> <<>>]
Mirror == IF local = None THEN Blank ELSE local
ReadTabs == IF Mirror.tabs = <<>> THEN DefaultTabs ELSE Take(Mirror.tabs, TabCap)
ReadHistory == Take(Mirror.history, HistoryCap)
ReadFavorites == Take(Mirror.favorites, FavoriteCap)
ReadMigrationHistory == Take(Mirror.migrations, MigrationCap)

\* The session audit has no mirror.
Mirrored ==
  [tabs |-> ReadTabs, active |-> NormalizeActive(ReadTabs, Mirror.active),
   history |-> ReadHistory, favorites |-> ReadFavorites, migrations |-> ReadMigrationHistory,
   audit |-> <<>>, days |-> 7]

ShowActive(snapshot) == snapshot.tabs[TabOf(snapshot.tabs, snapshot.active)].sql

\* An older version may have left its JSON file.
LegacySnapshots ==
  {[Fallback(<<[id |-> id, sql |-> Empty, dirty |-> FALSE]>>) EXCEPT !.history = <<Sample>>] :
     id \in {CHOOSE id \in TabIds : TRUE}}

WorkspaceInit ==
  /\ local = None /\ disk = None /\ legacy \in {None} \cup LegacySnapshots
  /\ ws = Fallback(DefaultTabs) /\ sql = Sample
  /\ saves = <<>> /\ phase = "starting" /\ fallback = <<>> /\ strayed = FALSE

\* The process ends: what was in flight is lost, and the next window starts.
Restart ==
  /\ ws' = Mirrored /\ sql' = ShowActive(Mirrored)
  /\ saves' = <<>> /\ phase' = "starting" /\ fallback' = <<>> /\ strayed' = FALSE
  /\ UNCHANGED <<local, disk, legacy>>

\* loadWorkspace asks the native store; the tabs of now are its fallback.
BeginLoad ==
  /\ phase = "starting"
  /\ phase' = "loading" /\ fallback' = ws.tabs
  /\ UNCHANGED <<ws, sql, local, disk, legacy, saves, strayed>>

Adopt(snapshot) ==
  /\ ws' = snapshot /\ sql' = ShowActive(snapshot)
  /\ phase' = "loaded" /\ fallback' = <<>>

\* The snapshot of the database is restored.
LoadStored ==
  /\ phase = "loading" /\ disk # None
  /\ Adopt(NormalizeSnapshot(disk, Fallback(fallback)))
  /\ UNCHANGED <<local, disk, legacy, saves, strayed>>

\* The command failed or found nothing: the JSON file is imported and saved.
ImportLegacy(failed) ==
  /\ phase = "loading" /\ legacy # None /\ (disk = None \/ failed)
  /\ LET snapshot == NormalizeSnapshot(legacy, Fallback(fallback))
     IN  /\ Adopt(snapshot) /\ disk' = snapshot
  /\ strayed' = (strayed \/ saves # <<>>)
  /\ UNCHANGED <<local, legacy, saves>>

\* Nothing worth importing is in the mirror.
MirrorEmpty ==
  local = None \/ /\ local.tabs = <<>> /\ local.history = <<>>
                  /\ local.favorites = <<>> /\ local.migrations = <<>>

\* Neither: the mirror is imported, saved (unless that fails, too) and saved
\* once more by the store, or the tabs of the start stay.
ImportMirror(failed, stored) ==
  /\ phase = "loading" /\ (disk = None \/ failed) /\ (legacy = None \/ failed)
  /\ IF MirrorEmpty
     THEN Adopt(Fallback(fallback)) /\ UNCHANGED <<disk, saves>>
     ELSE LET snapshot == NormalizeSnapshot(
                [tabs |-> local.tabs, active |-> local.active, history |-> local.history,
                 favorites |-> local.favorites, migrations |-> local.migrations,
                 audit |-> <<>>, days |-> 7], Fallback(fallback))
          IN  /\ Adopt(snapshot)
              /\ disk' = IF stored THEN snapshot ELSE disk
              /\ saves' = Append(saves, NormalizeSnapshot(snapshot, snapshot))
  /\ strayed' = (strayed \/ saves # <<>> \/ failed)
  /\ UNCHANGED <<local, legacy>>

-----------------------------------------------------------------------------
(* Handlers of the store.                                                  *)

\* Mutant: the state before the change goes out.
PersistStale(snapshot) ==
  /\ Len(saves) < MaxSaves
  /\ saves' = Append(saves, NormalizeSnapshot(ws, ws))
  /\ strayed' = (strayed \/ phase # "loaded")

\* persistWorkspaceState: the snapshot of this moment goes out.
Persist(snapshot) ==
  /\ Len(saves) < MaxSaves
  /\ saves' = Append(saves, NormalizeSnapshot(snapshot, snapshot))
  /\ strayed' = (strayed \/ phase # "loaded")

\* writeWorkspaceTabs and the writers of the lists.
WriteTabs(tabs, active) == local' = [Mirror EXCEPT !.tabs = Take(tabs, TabCap), !.active = active]
WriteHistory(history) == local' = [Mirror EXCEPT !.history = Take(history, HistoryCap)]
WriteFavorites(favorites) == local' = [Mirror EXCEPT !.favorites = Take(favorites, FavoriteCap)]
WriteMigrationHistory(history) == local' = [Mirror EXCEPT !.migrations = Take(history, MigrationCap)]

ChangeTabs(tabs, active) ==
  LET next == [ws EXCEPT !.tabs = tabs, !.active = active]
  IN  /\ ws' = next /\ WriteTabs(tabs, active) /\ Persist(next)
      /\ UNCHANGED <<disk, legacy, phase, fallback>>

SetSql(text) ==
  /\ ChangeTabs([i \in DOMAIN ws.tabs |->
                   IF ws.tabs[i].id = ws.active THEN [ws.tabs[i] EXCEPT !.sql = text, !.dirty = TRUE]
                   ELSE ws.tabs[i]], ws.active)
  /\ sql' = text

NewQuery ==
  /\ Len(ws.tabs) < MaxTabs
  /\ ChangeTabs(Append(ws.tabs, NewTab(Fresh)), Fresh)
  /\ sql' = Empty

SelectQuery(id) ==
  /\ id \in Open(ws.tabs)
  /\ ChangeTabs(ws.tabs, id)
  /\ sql' = ws.tabs[TabOf(ws.tabs, id)].sql

\* closeQuery: the last tab is replaced by an empty one; a closed active tab
\* passes on to the tab that takes its place, or to the new last one.
CloseQuery(id) ==
  /\ id \in Open(ws.tabs)
  /\ LET index == TabOf(ws.tabs, id)
         remaining == Only(ws.tabs, {tab \in Entries(ws.tabs) : tab.id # id})
         replacement == remaining[IF index < Len(remaining) THEN index ELSE Len(remaining)]
     IN  IF remaining = <<>> THEN ChangeTabs(<<NewTab(Fresh)>>, Fresh) /\ sql' = Empty
         ELSE IF ws.active # id THEN ChangeTabs(remaining, ws.active) /\ UNCHANGED sql
         ELSE ChangeTabs(remaining, replacement.id) /\ sql' = replacement.sql

\* connectDatabase puts the sample statement into a clean active tab.
ReplaceSample ==
  LET clean(tab) == tab.id = ws.active /\ ~tab.dirty
  IN  /\ ChangeTabs([i \in DOMAIN ws.tabs |->
                       IF clean(ws.tabs[i]) THEN [ws.tabs[i] EXCEPT !.sql = Sample] ELSE ws.tabs[i]],
                    ws.active)
      /\ sql' = IF \E tab \in Entries(ws.tabs) : clean(tab) THEN Sample ELSE sql

ChangeLists(next) ==
  /\ ws' = next /\ Persist(next)
  /\ UNCHANGED <<sql, disk, legacy, phase, fallback>>

\* addHistory: the statement moves to the front; only the copies are capped.
AddHistory(text) ==
  LET history == Promote(text, ws.history)
  IN  /\ Len(history) <= MaxList
      /\ WriteHistory(history)
      /\ ChangeLists([ws EXCEPT !.history = history])

ClearHistory ==
  /\ ws.history # <<>>
  /\ local' = [Mirror EXCEPT !.history = <<>>]
  /\ ChangeLists([ws EXCEPT !.history = <<>>])

ToggleFavorite(text) ==
  LET favorites == IF text \in Entries(ws.favorites) THEN Without(ws.favorites, text)
                   ELSE <<text>> \o ws.favorites
  IN  /\ text # Empty /\ Len(favorites) <= MaxList
      /\ WriteFavorites(favorites)
      /\ ChangeLists([ws EXCEPT !.favorites = favorites])

\* addMigrationHistory: one entry per script, in the front, capped at once.
AddMigrationHistory(text, known) ==
  LET entry == [sql |-> text, known |-> known, applied |-> FALSE]
      others == Only(ws.migrations, {m \in Entries(ws.migrations) : m.sql # text})
      history == Take(<<entry>> \o others, MigrationCap)
  IN  /\ WriteMigrationHistory(history)
      /\ ChangeLists([ws EXCEPT !.migrations = history])

MarkMigrationApplied(text) ==
  LET history == [i \in DOMAIN ws.migrations |->
                    IF ws.migrations[i].sql = text THEN [ws.migrations[i] EXCEPT !.applied = TRUE]
                    ELSE ws.migrations[i]]
  IN  /\ text \in {ws.migrations[i].sql : i \in DOMAIN ws.migrations}
      /\ WriteMigrationHistory(history)
      /\ ChangeLists([ws EXCEPT !.migrations = history])

ClearMigrationHistory ==
  /\ ws.migrations # <<>>
  /\ local' = [Mirror EXCEPT !.migrations = <<>>]
  /\ ChangeLists([ws EXCEPT !.migrations = <<>>])

\* recordSessionAudit: an observation is the fact that its driver is kept;
\* no retention, no audit.
RecordSessionAudit(known) ==
  /\ Len(ws.audit) < MaxList
  /\ ChangeLists([ws EXCEPT !.audit = IF ws.days = 0 THEN <<>> ELSE Take(<<known>> \o @, AuditCap)])
  /\ UNCHANGED local

ClearSessionAudit ==
  /\ ws.audit # <<>> /\ ChangeLists([ws EXCEPT !.audit = <<>>]) /\ UNCHANGED local

SetSessionAuditRetentionDays(days) ==
  /\ days \in {0, 1, 7, 30} /\ days # ws.days
  /\ ChangeLists([ws EXCEPT !.days = days, !.audit = IF days = 0 THEN <<>> ELSE @])
  /\ UNCHANGED local

-----------------------------------------------------------------------------
(* The native store.                                                       *)

\* An autosave becomes the snapshot of the database.
LandSave(i) ==
  /\ i \in DOMAIN saves
  /\ disk' = saves[i]
  /\ saves' = SubSeq(saves, 1, i - 1) \o SubSeq(saves, i + 1, Len(saves))
  /\ strayed' = (strayed \/ i # 1 \/ phase # "loaded")
  /\ UNCHANGED <<ws, sql, local, legacy, phase, fallback>>

\* Its error is swallowed.
FailSave(i) ==
  /\ i \in DOMAIN saves
  /\ saves' = SubSeq(saves, 1, i - 1) \o SubSeq(saves, i + 1, Len(saves))
  /\ strayed' = TRUE
  /\ UNCHANGED <<ws, sql, local, disk, legacy, phase, fallback>>

TabHandlers ==
  \/ \E text \in Texts : SetSql(text)
  \/ NewQuery \/ ReplaceSample
  \/ \E id \in TabIds : SelectQuery(id) \/ CloseQuery(id)

QueryHandlers ==
  \/ \E text \in Texts : AddHistory(text) \/ ToggleFavorite(text)
  \/ ClearHistory

RecordHandlers ==
  \/ \E text \in Texts : MarkMigrationApplied(text)
  \/ \E text \in Texts, known \in BOOLEAN : AddMigrationHistory(text, known)
  \/ \E known \in BOOLEAN : RecordSessionAudit(known)
  \/ \E days \in {0, 7} : SetSessionAuditRetentionDays(days)
  \/ ClearMigrationHistory \/ ClearSessionAudit

User == TabHandlers \/ QueryHandlers \/ RecordHandlers

Storage ==
  \/ BeginLoad \/ LoadStored
  \/ \E failed \in BOOLEAN : ImportLegacy(failed) \/ \E stored \in BOOLEAN : ImportMirror(failed, stored)
  \/ \E i \in 1..MaxSaves + 1 : LandSave(i) \/ FailSave(i)

WorkspaceNext == User \/ Storage \/ Restart
WorkspaceSpec == WorkspaceInit /\ [][WorkspaceNext]_workspaceVars

-----------------------------------------------------------------------------
\* The editor shows the text of an open tab, the tabs are distinct, and no
\* statement is listed twice, through closings, restarts and every source a
\* workspace may be restored from (store.ts and workspaceStorage.ts).
WorkspaceCoherent ==
  /\ ws.active \in Open(ws.tabs) /\ Cardinality(Open(ws.tabs)) = Len(ws.tabs)
  /\ sql = ShowActive(ws)
  /\ Cardinality(Entries(ws.history)) = Len(ws.history)
  /\ Cardinality(Entries(ws.favorites)) = Len(ws.favorites)
  /\ ws.days = 0 => ws.audit = <<>>

\* No handler changes the workspace without an autosave of the outcome: when
\* every autosave landed, in order, the database holds what the window shows,
\* up to the caps and the drivers that are not kept (persistWorkspaceState).
AutosaveIsComplete ==
  phase = "loaded" /\ saves = <<>> /\ disk # None /\ ~strayed => disk = NormalizeSnapshot(ws, ws)
=============================================================================
