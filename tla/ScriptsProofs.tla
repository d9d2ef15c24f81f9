---------------------------- MODULE ScriptsProofs ----------------------------
(***************************************************************************)
(* Proofs about the SQL text the window writes and reads.  Row             *)
(* synchronisation: any tables, keys, values and dialects, any number of   *)
(* batches in flight and any writes of other sessions.  The scanners of    *)
(* SQL texts: any number of segments, with any values and comments.  Safe  *)
(* Mode: any number of phrases, nested to any depth.                       *)
(***************************************************************************)
EXTENDS DataSync, SqlTexts, ListsProofs

Kinds == {"insert", "update", "delete"}

\* A value that survives the way through the window and into a statement.
Intact(v, driver) == v \notin DOMAIN Rounded /\ SqlLiteral(v, driver) = v

\* A change as the comparison writes it.
Sound(change, driver) ==
  /\ change.key \in Keys /\ change.kind \in Kinds
  /\ change.kind # "delete" => change.source \in Rows
  /\ change.kind = "update" => change.target \in Rows
  /\ change.sql = BuildChangeSql(driver, change.kind, change.key, change.source, change.target)

SoundList(changes, driver) ==
  /\ changes \in Seq(Entries(changes))
  /\ \A i \in DOMAIN changes : Sound(changes[i], driver)
  /\ \A i, j \in DOMAIN changes : changes[i].key = changes[j].key => i = j

\* What the change says of the row it is about is so in this copy.
AgreesWith(change, copy) ==
  IF change.kind = "insert" THEN change.key \notin DOMAIN copy
  ELSE /\ change.key \in DOMAIN copy
       /\ change.kind = "update" =>
            \A c \in DataColumns : change.target[c] = RowValue(copy[change.key], c)

\* The change has been made in this copy.
Made(change, copy, driver) ==
  IF change.kind = "delete" THEN change.key \notin DOMAIN copy
  ELSE /\ change.key \in DOMAIN copy
       /\ (\A c \in DataColumns : Intact(change.source[c], driver)) => copy[change.key] = change.source

\* What has been counted and read, of a target that is this copy in its n-th version.
ComparingOK(c, copy, n) ==
  /\ c \in [sourceCount : Int, targetCount : Int, sourceRows : TableRows \cup {NotRead},
            targetRows : TableRows \cup {NotRead}, at : Nat]
  /\ c.targetCount <= dataCompareMaxRows
  /\ c.targetRows # NotRead =>
       /\ c.at <= n
       /\ c.at = n => \E rows \in BuildDataSelectSql(copy) : c.targetRows = Answer(rows)

\* A comparison is as old as its reading of the target, and right if nothing
\* has changed there since.
ComparisonOK(c, copy, n, driver) ==
  /\ SoundList(c.changes, driver) /\ c.at \in Nat /\ c.at <= n
  /\ c.at = n => \A i \in DOMAIN c.changes : AgreesWith(c.changes[i], copy)

\* A batch: the changes it was made of, and how many statements have run.
Chosen(B) == Selection(B.comparison, B.selected)
Run(B) == Len(Chosen(B)) - Len(B.left)
HeldRows == UNION {[kept -> Rows \cup {NoRow}] : kept \in {s \in SUBSET Keys : IsFiniteSet(s)}}

BatchTypeOK(B, driver) ==
  /\ SoundList(Chosen(B), driver) /\ Len(Chosen(B)) = Cardinality(B.selected)
  /\ B.comparison.at \in Nat /\ B.affected \in Nat
  /\ B.left \in Seq({change.sql : change \in Entries(Chosen(B))})
  /\ Len(B.left) <= Len(Chosen(B))
  /\ \A i \in 1..Len(B.left) : B.left[i] = Chosen(B)[Run(B) + i].sql
  /\ B.held \in HeldRows
  /\ \A k \in DOMAIN B.held : \E i \in 1..Run(B) : k = Chosen(B)[i].key

\* As long as every statement has changed its row, the changes are made and
\* their rows are held.
BatchMakesChanges(B, copy, driver) ==
  /\ B.affected <= Run(B)
  /\ B.affected = Run(B) =>
       \A i \in 1..Run(B) : Made(Chosen(B)[i], copy, driver) /\ Chosen(B)[i].key \in DOMAIN B.held

\* If only the batch itself has changed the target since it was compared, the
\* changes to come still agree with it, and a statement that missed its row did
\* so because of a value that does not survive.
BatchIsCalm(B, copy, n, driver) ==
  /\ B.comparison.at + B.affected <= n
  /\ B.comparison.at + B.affected = n =>
       /\ \A i \in Run(B) + 1..Len(Chosen(B)) : AgreesWith(Chosen(B)[i], copy)
       /\ B.affected < Run(B) =>
            \E i \in 1..Run(B), c \in DataColumns :
              /\ Chosen(B)[i].key \in DOMAIN copy \ DOMAIN B.held
              /\ ~Intact(copy[Chosen(B)[i].key][c], driver)

BatchOK(B, copy, n, driver) ==
  BatchTypeOK(B, driver) /\ BatchMakesChanges(B, copy, driver) /\ BatchIsCalm(B, copy, n, driver)

\* Every batch in flight is right, and no row is held by two of them.
IsBatch(B) ==
  B = [comparison |-> B.comparison, selected |-> B.selected, left |-> B.left,
       affected |-> B.affected, held |-> B.held]
BatchesOK(batches, copy, n, driver) ==
  /\ batches = [b \in Batches |-> batches[b]]
  /\ \A b \in Batches : batches[b] # NoBatch => IsBatch(batches[b]) /\ BatchOK(batches[b], copy, n, driver)
  /\ \A a, b \in Batches : a # b /\ batches[a] # NoBatch /\ batches[b] # NoBatch =>
       DOMAIN batches[a].held \cap DOMAIN batches[b].held = {}

\* What a report promises, of the values its dialect keeps.
ReportOK(r, driver) ==
  /\ r.ok => \A i \in DOMAIN Chosen(r) : Made(Chosen(r)[i], r.after, driver)
  /\ r.ended /\ ~r.ok /\ r.calm => \E k \in DOMAIN r.after, c \in DataColumns : ~Intact(r.after[k][c], driver)

DataInv ==
  /\ source \in TableRows /\ target \in TableRows /\ version \in Nat
  /\ comparing # NotComparing => ComparingOK(comparing, target, version)
  /\ comparison # NoComparison => ComparisonOK(comparison, target, version, dialect)
  /\ BatchesOK(batch, target, version, dialect)
  /\ ReportOK(report, dialect)

-----------------------------------------------------------------------------
(* Copies of a table.                                                      *)

LEMMA CopyOfTable ==
  ASSUME NEW copy
  PROVE  copy \in TableRows <=> /\ copy \in [DOMAIN copy -> Rows]
                               /\ DOMAIN copy \subseteq Keys \cup {NoKey} /\ IsFiniteSet(DOMAIN copy)
BY DEF TableRows

LEMMA PutRow ==
  ASSUME NEW copy \in TableRows, NEW k \in Keys, NEW row \in Rows
  PROVE  /\ Put(copy, k, row) \in TableRows
         /\ DOMAIN Put(copy, k, row) = DOMAIN copy \cup {k} /\ Put(copy, k, row)[k] = row
         /\ \A j \in DOMAIN copy \ {k} : Put(copy, k, row)[j] = copy[j]
<1> DEFINE new == Put(copy, k, row)
<1>1. /\ copy \in [DOMAIN copy -> Rows] /\ DOMAIN copy \subseteq Keys \cup {NoKey}
      /\ IsFiniteSet(DOMAIN copy)
  BY CopyOfTable
<1>2. DOMAIN new = DOMAIN copy \cup {k} BY DEF Put
<1>3. IsFiniteSet(DOMAIN new) BY <1>1, <1>2, FS_AddElement
<1>4. new \in [DOMAIN copy \cup {k} -> Rows] BY <1>1 DEF Put
<1>5. new[k] = row /\ \A j \in DOMAIN copy \ {k} : new[j] = copy[j] BY DEF Put
<1> HIDE DEF new
<1>6. new \in TableRows BY <1>1, <1>2, <1>3, <1>4, CopyOfTable
<1>7. QED BY <1>2, <1>5, <1>6 DEF new

LEMMA DropRow ==
  ASSUME NEW copy \in TableRows, NEW k
  PROVE  /\ Drop(copy, k) \in TableRows /\ DOMAIN Drop(copy, k) = DOMAIN copy \ {k}
         /\ \A j \in DOMAIN copy \ {k} : Drop(copy, k)[j] = copy[j]
<1> DEFINE new == Drop(copy, k)
<1>1. /\ copy \in [DOMAIN copy -> Rows] /\ DOMAIN copy \subseteq Keys \cup {NoKey}
      /\ IsFiniteSet(DOMAIN copy)
  BY CopyOfTable
<1>2. DOMAIN new = DOMAIN copy \ {k} BY DEF Drop
<1>3. IsFiniteSet(DOMAIN new) BY <1>1, <1>2, FS_Subset
<1>4. new \in [DOMAIN copy \ {k} -> Rows] BY <1>1 DEF Drop
<1>5. \A j \in DOMAIN copy \ {k} : new[j] = copy[j] BY DEF Drop
<1> HIDE DEF new
<1>6. new \in TableRows BY <1>1, <1>2, <1>3, <1>4, CopyOfTable
<1>7. QED BY <1>2, <1>5, <1>6 DEF new

LEMMA Shown ==
  ASSUME NEW row \in Rows, NEW c \in DataColumns, NEW driver
  PROVE  RowValue(row, c) \in Values /\ SqlLiteral(row[c], driver) \in Values
<1>1. row[c] \in Values BY DEF Rows
<1>2. \A v \in DOMAIN Rounded : Rounded[v] \in Values BY DataCompareAssumption
<1>3. \A v \in DOMAIN Unescaped : Unescaped[v] \in Values BY DataCompareAssumption
<1>4. QED BY <1>1, <1>2, <1>3 DEF RowValue, SqlLiteral

LEMMA AnswerIsTable ==
  ASSUME NEW copy \in TableRows
  PROVE  Answer(copy) \in TableRows /\ DOMAIN Answer(copy) = DOMAIN copy
<1>1. /\ copy \in [DOMAIN copy -> Rows] /\ DOMAIN copy \subseteq Keys \cup {NoKey}
      /\ IsFiniteSet(DOMAIN copy)
  BY CopyOfTable
<1>2. \A k \in DOMAIN copy : [c \in DataColumns |-> RowValue(copy[k], c)] \in Rows
  <2>1. \A k \in DOMAIN copy, c \in DataColumns : RowValue(copy[k], c) \in Values BY <1>1, Shown
  <2>2. QED BY <2>1 DEF Rows
<1>3. DOMAIN Answer(copy) = DOMAIN copy /\ Answer(copy) \in [DOMAIN copy -> Rows] BY <1>2 DEF Answer
<1>4. QED BY <1>1, <1>3, CopyOfTable

LEMMA SelectIsTable ==
  ASSUME NEW copy \in TableRows, NEW rows \in BuildDataSelectSql(copy)
  PROVE  /\ rows \in TableRows
         /\ Cardinality(DOMAIN rows) <= dataCompareMaxRows => rows = copy
<1>1. /\ copy \in [DOMAIN copy -> Rows] /\ DOMAIN copy \subseteq Keys \cup {NoKey}
      /\ IsFiniteSet(DOMAIN copy)
  BY CopyOfTable
<1>2. PICK kept \in SUBSET DOMAIN copy :
        /\ kept = DOMAIN copy \/ Cardinality(kept) = dataCompareMaxRows + 1
        /\ rows = [k \in kept |-> copy[k]]
  BY DEF BuildDataSelectSql
<1>3. DOMAIN rows = kept /\ rows \in [kept -> Rows] BY <1>1, <1>2
<1>4. rows \in TableRows
  <2>1. IsFiniteSet(kept) BY <1>1, <1>2, FS_Subset
  <2>2. QED BY <1>1, <1>3, <2>1, CopyOfTable
<1>5. ASSUME Cardinality(DOMAIN rows) <= dataCompareMaxRows PROVE rows = copy
  <2>1. dataCompareMaxRows \in Nat BY DataCompareAssumption
  <2>2. kept = DOMAIN copy BY <1>2, <1>3, <1>5, <2>1
  <2>3. QED BY <1>1, <1>2, <2>2
<1>6. QED BY <1>4, <1>5

-----------------------------------------------------------------------------
(* The comparison.                                                         *)

LEMMA MappedRows ==
  ASSUME NEW rows \in TableRows
  PROVE  /\ DOMAIN RowMap(rows) = DOMAIN rows \ {NoKey} /\ DOMAIN RowMap(rows) \subseteq Keys
         /\ IsFiniteSet(DOMAIN RowMap(rows))
         /\ \A k \in DOMAIN RowMap(rows) : RowMap(rows)[k] = rows[k] /\ rows[k] \in Rows
<1>1. rows \in [DOMAIN rows -> Rows] /\ DOMAIN rows \subseteq Keys \cup {NoKey} /\ IsFiniteSet(DOMAIN rows)
  BY CopyOfTable
<1>2. IsFiniteSet(DOMAIN rows \ {NoKey}) BY <1>1, FS_Subset
<1>3. QED BY <1>1, <1>2 DEF RowMap

\* What the comparison finds is sound, and right about the target it has read.
LEMMA ComparisonIsSound ==
  ASSUME NEW sourceRows \in TableRows, NEW targetRows \in TableRows, NEW driver
  PROVE  LET changes == CompareTableData(sourceRows, targetRows, driver).changes
         IN  /\ SoundList(changes, driver)
             /\ \A copy \in TableRows : targetRows = Answer(copy) =>
                  \A i \in DOMAIN changes : AgreesWith(changes[i], copy)
<1> DEFINE S == RowMap(sourceRows)
           T == RowMap(targetRows)
           keys == {k \in DOMAIN S \cup DOMAIN T :
                      k \in DOMAIN S \cap DOMAIN T => ChangedColumns(S[k], T[k]) # {}}
           order == Ascending(keys)
           changes == CompareTableData(sourceRows, targetRows, driver).changes
<1>1. changes = [n \in DOMAIN order |-> DataCompareChange(S, T, order[n], driver)]
  BY DEF CompareTableData
<1>2. /\ DOMAIN S \subseteq Keys /\ IsFiniteSet(DOMAIN S) /\ \A k \in DOMAIN S : S[k] \in Rows
      /\ DOMAIN T \subseteq Keys /\ IsFiniteSet(DOMAIN T) /\ \A k \in DOMAIN T : T[k] \in Rows
      /\ DOMAIN T = DOMAIN targetRows \ {NoKey} /\ \A k \in DOMAIN T : T[k] = targetRows[k]
  BY MappedRows
<1>3. keys \in SUBSET Keys /\ IsFiniteSet(keys) /\ keys \subseteq DOMAIN S \cup DOMAIN T
  <2>1. IsFiniteSet(DOMAIN S \cup DOMAIN T) BY <1>2, FS_Union
  <2>2. QED BY <1>2, <2>1, FS_Subset
<1> HIDE DEF S, T, keys
<1>4. keys \in SUBSET Nat BY <1>3, DataCompareAssumption
<1>5. /\ order \in [1..Cardinality(keys) -> keys] /\ Cardinality(keys) \in Nat
      /\ \A m, n \in DOMAIN order : order[m] = order[n] => m = n
  BY <1>3, <1>4, AscendingIsInjective
<1> HIDE DEF order, changes
<1>6. /\ DOMAIN changes = DOMAIN order /\ DOMAIN order = 1..Cardinality(keys)
      /\ \A n \in DOMAIN changes :
           /\ order[n] \in keys /\ changes[n] = DataCompareChange(S, T, order[n], driver)
           /\ changes[n].key = order[n]
  BY <1>1, <1>5 DEF DataCompareChange
<1>7. changes \in Seq(Entries(changes))
  <2>1. changes \in [1..Cardinality(keys) -> Entries(changes)] BY <1>1, <1>6 DEF Entries
  <2>2. QED BY <1>5, <2>1
<1>8. ASSUME NEW n \in DOMAIN changes PROVE Sound(changes[n], driver)
  <2> DEFINE k == order[n]
  <2>1. k \in DOMAIN S \cup DOMAIN T /\ k \in Keys BY <1>3, <1>6
  <2>2. changes[n] = DataCompareChange(S, T, k, driver) BY <1>6
  <2> HIDE DEF k
  <2>3. CASE k \notin DOMAIN T BY <1>2, <2>1, <2>2, <2>3 DEF DataCompareChange, Sound, Kinds
  <2>4. CASE k \in DOMAIN T /\ k \notin DOMAIN S
    BY <1>2, <2>1, <2>2, <2>4 DEF DataCompareChange, Sound, Kinds
  <2>5. CASE k \in DOMAIN T /\ k \in DOMAIN S
    BY <1>2, <2>1, <2>2, <2>5 DEF DataCompareChange, Sound, Kinds
  <2>6. QED BY <2>3, <2>4, <2>5
<1>9. SoundList(changes, driver) BY <1>5, <1>6, <1>7, <1>8 DEF SoundList
<1>10. ASSUME NEW copy \in TableRows, targetRows = Answer(copy), NEW n \in DOMAIN changes
       PROVE  AgreesWith(changes[n], copy)
  <2> DEFINE k == order[n]
  <2>1. k \in DOMAIN S \cup DOMAIN T /\ k \in Keys BY <1>3, <1>6
  <2>2. changes[n] = DataCompareChange(S, T, k, driver) BY <1>6
  <2> HIDE DEF k
  <2>3. DOMAIN targetRows = DOMAIN copy BY <1>10, AnswerIsTable
  <2>4. k # NoKey BY <2>1, DataCompareAssumption
  <2>5. k \in DOMAIN T <=> k \in DOMAIN copy BY <1>2, <2>3, <2>4
  <2>6. CASE k \notin DOMAIN T BY <2>2, <2>5, <2>6 DEF DataCompareChange, AgreesWith
  <2>7. CASE k \in DOMAIN T
    <3>1. \A c \in DataColumns : T[k][c] = RowValue(copy[k], c) BY <1>2, <1>10, <2>3, <2>7 DEF Answer
    <3>2. QED BY <2>2, <2>5, <2>7, <3>1 DEF DataCompareChange, AgreesWith
  <2>8. QED BY <2>6, <2>7
<1>11. QED BY <1>9, <1>10 DEF changes

-----------------------------------------------------------------------------
(* The chosen changes and their statements.                                *)

LEMMA SelectionIsSound ==
  ASSUME NEW c, NEW driver, SoundList(c.changes, driver),
         NEW selected \in SUBSET {c.changes[n].key : n \in DOMAIN c.changes}
  PROVE  /\ SoundList(Selection(c, selected), driver)
         /\ Entries(Selection(c, selected)) \subseteq Entries(c.changes)
         /\ Len(Selection(c, selected)) = Cardinality(selected)
<1> DEFINE all == c.changes
           chosen == Selection(c, selected)
           wanted == {change \in Entries(all) : change.key \in selected}
<1>1. all \in Seq(Entries(all)) /\ DOMAIN all = 1..Len(all) BY DEF SoundList
<1>2. Distinct(all) BY DEF SoundList, Distinct
<1>3. /\ chosen \in Seq(Entries(all)) /\ Entries(chosen) = Entries(all) \cap wanted /\ Distinct(chosen)
  BY <1>1, <1>2, OnlyProperties DEF Selection
<1>4. SoundList(all, driver) OBVIOUS
<1>5. selected \subseteq {all[n].key : n \in DOMAIN all} OBVIOUS
<1> HIDE DEF all, chosen
<1>6. DOMAIN chosen = 1..Len(chosen) /\ Len(chosen) \in Nat BY <1>3
<1>7. \A i \in DOMAIN chosen : chosen[i] \in Entries(chosen) BY DEF Entries
<1>8. \A i, j \in DOMAIN chosen : chosen[i].key = chosen[j].key => i = j
  <2> SUFFICES ASSUME NEW i \in DOMAIN chosen, NEW j \in DOMAIN chosen, chosen[i].key = chosen[j].key
               PROVE  i = j
    OBVIOUS
  <2>1. PICK m \in DOMAIN all : chosen[i] = all[m] BY <1>3, <1>7 DEF Entries
  <2>2. PICK n \in DOMAIN all : chosen[j] = all[n] BY <1>3, <1>7 DEF Entries
  <2>3. m = n BY <1>4, <2>1, <2>2 DEF SoundList
  <2>4. QED BY <1>3, <2>1, <2>2, <2>3 DEF Distinct
<1>9. \A i \in DOMAIN chosen : Sound(chosen[i], driver)
  <2> SUFFICES ASSUME NEW i \in DOMAIN chosen PROVE Sound(chosen[i], driver) OBVIOUS
  <2>1. PICK m \in DOMAIN all : chosen[i] = all[m] BY <1>3, <1>7 DEF Entries
  <2>2. QED BY <1>4, <2>1 DEF SoundList
<1>10. chosen \in Seq(Entries(chosen))
  <2>1. chosen \in [1..Len(chosen) -> Entries(chosen)] BY <1>3, <1>6, <1>7
  <2>2. QED BY <1>6, <2>1
<1>11. SoundList(chosen, driver) BY <1>8, <1>9, <1>10 DEF SoundList
<1>12. Len(chosen) = Cardinality(selected)
  <2> DEFINE key == [i \in 1..Len(chosen) |-> chosen[i].key]
  <2>1. \A i \in DOMAIN chosen : chosen[i].key \in selected BY <1>3, <1>7
  <2>2. \A k \in selected : \E i \in DOMAIN chosen : chosen[i].key = k
    <3> SUFFICES ASSUME NEW k \in selected PROVE \E i \in DOMAIN chosen : chosen[i].key = k OBVIOUS
    <3>1. PICK n \in DOMAIN all : all[n].key = k BY <1>5
    <3>2. all[n] \in Entries(chosen) BY <1>3, <3>1 DEF Entries
    <3>3. QED BY <3>1, <3>2 DEF Entries
  <2>3. key \in Bijection(1..Len(chosen), selected)
    BY <1>6, <1>8, <2>1, <2>2 DEF Bijection, Injection, Surjection, IsInjective
  <2>4. IsFiniteSet(1..Len(chosen)) /\ Cardinality(1..Len(chosen)) = Len(chosen)
    <3>1. PICK n \in Nat : n = Len(chosen) BY <1>6
    <3>2. IsFiniteSet(1..n) /\ Cardinality(1..n) = n BY FS_Interval
    <3>3. QED BY <3>1, <3>2
  <2>5. QED BY <2>3, <2>4, FS_Bijection DEF ExistsBijection
<1>13. QED BY <1>3, <1>11, <1>12 DEF all, chosen

\* A statement changes its row only, and makes its change when it hits.
LEMMA StatementMakes ==
  ASSUME NEW change, NEW driver, Sound(change, driver), NEW copy \in TableRows, Hits(copy, change.sql)
  PROVE  /\ Changed(copy, change.sql) \in TableRows
         /\ Made(change, Changed(copy, change.sql), driver)
         /\ DOMAIN Changed(copy, change.sql) \ {change.key} = DOMAIN copy \ {change.key}
         /\ \A k \in DOMAIN copy \ {change.key} : Changed(copy, change.sql)[k] = copy[k]
<1> DEFINE sql == change.sql
           k == change.key
           new == Changed(copy, sql)
<1>1. /\ k \in Keys /\ change.kind \in Kinds
      /\ change.kind # "delete" => change.source \in Rows
      /\ change.kind = "update" => change.target \in Rows
      /\ sql = BuildChangeSql(driver, change.kind, k, change.source, change.target)
  BY DEF Sound
<1>2. sql.do = change.kind /\ sql.key = k BY <1>1 DEF BuildChangeSql, Kinds
<1>3. SUFFICES /\ new \in TableRows /\ Made(change, new, driver) /\ DOMAIN new \ {k} = DOMAIN copy \ {k}
               /\ \A j \in DOMAIN copy \ {k} : new[j] = copy[j]
  OBVIOUS
<1>4. CASE change.kind = "delete"
  <2>1. new = Drop(copy, k) BY <1>2, <1>4 DEF Changed
  <2> HIDE DEF new
  <2>2. /\ new \in TableRows /\ DOMAIN new = DOMAIN copy \ {k}
        /\ \A j \in DOMAIN copy \ {k} : new[j] = copy[j]
    BY <2>1, DropRow
  <2>3. QED BY <1>4, <2>2 DEF Made
<1>5. CASE change.kind = "insert"
  <2> DEFINE row == [c \in DataColumns |-> SqlLiteral(change.source[c], driver)]
  <2>1. sql.set = row BY <1>1, <1>5 DEF BuildChangeSql
  <2>2. row \in Rows
    <3>1. \A c \in DataColumns : SqlLiteral(change.source[c], driver) \in Values BY <1>1, <1>5, Shown
    <3>2. QED BY <3>1 DEF Rows
  <2>3. (\A c \in DataColumns : Intact(change.source[c], driver)) => row = change.source
    BY <1>1, <1>5 DEF Intact, Rows
  <2> HIDE DEF row
  <2>4. new = Put(copy, k, row) BY <1>2, <1>5, <2>1 DEF Changed
  <2> HIDE DEF new
  <2>5. /\ new \in TableRows /\ DOMAIN new = DOMAIN copy \cup {k} /\ new[k] = row
        /\ \A j \in DOMAIN copy \ {k} : new[j] = copy[j]
    <3>1. k \in Keys BY <1>1
    <3> HIDE DEF k
    <3>2. /\ Put(copy, k, row) \in TableRows /\ DOMAIN Put(copy, k, row) = DOMAIN copy \cup {k}
          /\ Put(copy, k, row)[k] = row
          /\ \A j \in DOMAIN copy \ {k} : Put(copy, k, row)[j] = copy[j]
      BY <2>2, <3>1, PutRow, ZenonT(60)
    <3>3. QED BY <2>4, <3>2
  <2>6. Made(change, new, driver) BY <1>5, <2>3, <2>5 DEF Made
  <2>7. QED BY <2>5, <2>6
<1>6. CASE change.kind = "update"
  <2> DEFINE cs == ChangedColumns(change.source, change.target)
             row == [c \in DataColumns |-> IF c \in DOMAIN sql.set THEN sql.set[c] ELSE copy[k][c]]
  <2>1. /\ DOMAIN sql.set = cs /\ \A c \in cs : sql.set[c] = SqlLiteral(change.source[c], driver)
        /\ DOMAIN sql.where = DataColumns
        /\ \A c \in DataColumns : sql.where[c] = SqlLiteral(change.target[c], driver)
    BY <1>1, <1>6 DEF BuildChangeSql, WhereClause
  <2>2. /\ k \in DOMAIN copy
        /\ \A c \in DataColumns : copy[k][c] = SqlLiteral(change.target[c], driver)
    BY <1>2, <1>6, <2>1 DEF Hits
  <2>3. \A c \in DataColumns : c \notin cs => change.source[c] = change.target[c] BY DEF ChangedColumns
  <2>4. \A c \in DataColumns : row[c] = SqlLiteral(change.source[c], driver) BY <2>1, <2>2, <2>3
  <2>5. row \in Rows
    <3>1. \A c \in DataColumns : SqlLiteral(change.source[c], driver) \in Values BY <1>1, <1>6, Shown
    <3>2. \A c \in DataColumns : row[c] \in Values BY <2>4, <3>1
    <3>3. QED BY <3>2 DEF Rows
  <2>6. (\A c \in DataColumns : Intact(change.source[c], driver)) => row = change.source
    <3> SUFFICES ASSUME \A c \in DataColumns : Intact(change.source[c], driver) PROVE row = change.source OBVIOUS
    <3>1. \A c \in DataColumns : row[c] = change.source[c] BY <2>4 DEF Intact
    <3>2. QED BY <1>1, <1>6, <2>5, <3>1 DEF Rows
  <2>7. new = Put(copy, k, row) BY <1>2, <1>6 DEF Changed
  <2> HIDE DEF row, new
  <2>8. /\ new \in TableRows /\ DOMAIN new = DOMAIN copy \cup {k} /\ new[k] = row
        /\ \A j \in DOMAIN copy \ {k} : new[j] = copy[j]
    <3>1. k \in Keys BY <1>1
    <3> HIDE DEF k
    <3>2. /\ Put(copy, k, row) \in TableRows /\ DOMAIN Put(copy, k, row) = DOMAIN copy \cup {k}
          /\ Put(copy, k, row)[k] = row
          /\ \A j \in DOMAIN copy \ {k} : Put(copy, k, row)[j] = copy[j]
      BY <2>5, <3>1, PutRow, ZenonT(60)
    <3>3. QED BY <2>7, <3>2
  <2>9. Made(change, new, driver) BY <1>6, <2>6, <2>8 DEF Made
  <2>10. QED BY <2>8, <2>9
<1>7. QED BY <1>1, <1>4, <1>5, <1>6 DEF Kinds

\* A statement that agrees with the table and misses has met a value that
\* does not survive, and none that agrees is refused.
LEMMA StatementMisses ==
  ASSUME NEW change, NEW driver, Sound(change, driver), NEW copy \in TableRows, AgreesWith(change, copy)
  PROVE  /\ ~Violates(copy, change.sql)
         /\ ~Hits(copy, change.sql) =>
              /\ change.key \in DOMAIN copy
              /\ \E c \in DataColumns : ~Intact(copy[change.key][c], driver)
<1> DEFINE sql == change.sql
           k == change.key
<1>1. change.kind \in Kinds /\ sql = BuildChangeSql(driver, change.kind, k, change.source, change.target)
  BY DEF Sound
<1>2. sql.do = change.kind /\ sql.key = k BY <1>1 DEF BuildChangeSql, Kinds
<1>3. ~Violates(copy, sql) BY <1>2 DEF Violates, AgreesWith
<1>4. ASSUME ~Hits(copy, sql)
      PROVE  k \in DOMAIN copy /\ \E c \in DataColumns : ~Intact(copy[k][c], driver)
  <2>1. change.kind # "insert" BY <1>2, <1>4 DEF Hits
  <2>2. k \in DOMAIN copy BY <2>1 DEF AgreesWith
  <2>3. change.kind # "delete"
    <3>1. change.kind = "delete" => DOMAIN sql.where = {} BY <1>1 DEF BuildChangeSql, WhereClause
    <3>2. QED BY <1>2, <1>4, <2>2, <3>1 DEF Hits
  <2>4. change.kind = "update" BY <1>1, <2>1, <2>3 DEF Kinds
  <2>5. /\ DOMAIN sql.where = DataColumns
        /\ \A c \in DataColumns : sql.where[c] = SqlLiteral(change.target[c], driver)
    BY <1>1, <2>4 DEF BuildChangeSql, WhereClause
  <2>6. PICK c \in DataColumns : copy[k][c] # SqlLiteral(change.target[c], driver)
    BY <1>2, <1>4, <2>2, <2>5 DEF Hits
  <2>7. change.target[c] = RowValue(copy[k], c) BY <2>4 DEF AgreesWith
  <2>8. ~Intact(copy[k][c], driver) BY <2>6, <2>7 DEF Intact, RowValue
  <2>9. QED BY <2>2, <2>8
<1>5. QED BY <1>3, <1>4

-----------------------------------------------------------------------------
(* A batch, and what happens around it.                                    *)

LEMMA BatchParts ==
  ASSUME NEW B, NEW driver, BatchTypeOK(B, driver)
  PROVE  /\ DOMAIN Chosen(B) = 1..Len(Chosen(B)) /\ Len(Chosen(B)) \in Nat
         /\ Len(B.left) \in Nat /\ Run(B) \in 0..Len(Chosen(B)) /\ Len(B.left) = Len(Chosen(B)) - Run(B)
         /\ \A i \in 1..Len(Chosen(B)) : Sound(Chosen(B)[i], driver)
         /\ \A i, j \in 1..Len(Chosen(B)) : Chosen(B)[i].key = Chosen(B)[j].key => i = j
<1>1. Chosen(B) \in Seq(Entries(Chosen(B))) BY DEF BatchTypeOK, SoundList
<1>2. DOMAIN Chosen(B) = 1..Len(Chosen(B)) /\ Len(Chosen(B)) \in Nat BY <1>1
<1>3. Len(B.left) \in Nat /\ Len(B.left) <= Len(Chosen(B)) BY DEF BatchTypeOK
<1>4. Run(B) \in 0..Len(Chosen(B)) /\ Len(B.left) = Len(Chosen(B)) - Run(B) BY <1>2, <1>3 DEF Run
<1>5. QED BY <1>2, <1>3, <1>4 DEF BatchTypeOK, SoundList

\* The target changes, but no row the batch holds.
LEMMA BatchKept ==
  ASSUME NEW B, NEW driver, NEW copy, NEW other, NEW m \in Nat, NEW n \in Nat,
         BatchOK(B, copy, m, driver), (other = copy /\ n = m) \/ n > m,
         \A k \in DOMAIN B.held : /\ k \in DOMAIN other <=> k \in DOMAIN copy
                                  /\ k \in DOMAIN copy => other[k] = copy[k]
  PROVE  BatchOK(B, other, n, driver)
<1>1. BatchTypeOK(B, driver) BY DEF BatchOK
<1>2. BatchMakesChanges(B, other, driver)
  <2> SUFFICES ASSUME B.affected = Run(B), NEW i \in 1..Run(B)
               PROVE  Made(Chosen(B)[i], other, driver) /\ Chosen(B)[i].key \in DOMAIN B.held
    BY DEF BatchOK, BatchMakesChanges
  <2>1. Made(Chosen(B)[i], copy, driver) /\ Chosen(B)[i].key \in DOMAIN B.held
    BY DEF BatchOK, BatchMakesChanges
  <2>2. QED BY <2>1 DEF Made
<1>3. B.comparison.at \in Nat /\ B.affected \in Nat BY <1>1 DEF BatchTypeOK
<1>4. BatchIsCalm(B, copy, m, driver) BY DEF BatchOK
<1>5. BatchIsCalm(B, other, n, driver)
  <2>1. CASE other = copy /\ n = m BY <2>1, <1>4
  <2>2. CASE n > m
    <3>1. B.comparison.at + B.affected <= m BY <1>4 DEF BatchIsCalm
    <3>2. B.comparison.at + B.affected <= n /\ B.comparison.at + B.affected # n BY <1>3, <2>2, <3>1
    <3>3. QED BY <3>2 DEF BatchIsCalm
  <2>3. QED BY <2>1, <2>2
<1>6. QED BY <1>1, <1>2, <1>5 DEF BatchOK

LEMMA HeldPut ==
  ASSUME NEW held \in HeldRows, NEW k \in Keys, NEW row \in Rows \cup {NoRow}
  PROVE  Put(held, k, row) \in HeldRows /\ DOMAIN Put(held, k, row) = DOMAIN held \cup {k}
<1>1. held \in [DOMAIN held -> Rows \cup {NoRow}] /\ DOMAIN held \subseteq Keys /\ IsFiniteSet(DOMAIN held)
  BY DEF HeldRows
<1>2. DOMAIN Put(held, k, row) = DOMAIN held \cup {k} BY DEF Put
<1>3. IsFiniteSet(DOMAIN held \cup {k}) BY <1>1, FS_AddElement
<1>4. Put(held, k, row) \in [DOMAIN held \cup {k} -> Rows \cup {NoRow}] BY <1>1 DEF Put
<1>5. DOMAIN held \cup {k} \in {s \in SUBSET Keys : IsFiniteSet(s)} BY <1>1, <1>3
<1>6. QED BY <1>2, <1>4, <1>5 DEF HeldRows

\* The next statement is that of the next change.
LEMMA NextStatement ==
  ASSUME NEW B, NEW driver, BatchTypeOK(B, driver), B.left # <<>>
  PROVE  /\ Run(B) + 1 \in 1..Len(Chosen(B)) /\ Head(B.left) = Chosen(B)[Run(B) + 1].sql
         /\ Head(B.left).key = Chosen(B)[Run(B) + 1].key /\ Chosen(B)[Run(B) + 1].key \in Keys
<1> DEFINE i == Run(B) + 1
<1>1. B.left \in Seq({change.sql : change \in Entries(Chosen(B))}) BY DEF BatchTypeOK
<1>2. Len(B.left) \in Nat /\ Len(B.left) # 0 /\ Head(B.left) = B.left[1] BY <1>1
<1>3. /\ Run(B) \in 0..Len(Chosen(B)) /\ Len(B.left) = Len(Chosen(B)) - Run(B) /\ Len(Chosen(B)) \in Nat
      /\ \A j \in 1..Len(Chosen(B)) : Sound(Chosen(B)[j], driver)
  BY BatchParts
<1>4. i \in 1..Len(Chosen(B)) BY <1>2, <1>3
<1>5. Head(B.left) = Chosen(B)[i].sql
  <2>1. 1 \in 1..Len(B.left) BY <1>2
  <2>2. QED BY <1>2, <2>1 DEF BatchTypeOK
<1>6. Sound(Chosen(B)[i], driver) BY <1>3, <1>4
<1>7. Chosen(B)[i].sql.key = Chosen(B)[i].key /\ Chosen(B)[i].key \in Keys
  BY <1>6 DEF Sound, BuildChangeSql, Kinds
<1>8. QED BY <1>4, <1>5, <1>7

\* One statement of the batch.
LEMMA BatchRuns ==
  ASSUME NEW B, NEW driver, NEW copy \in TableRows, NEW n \in Nat, BatchOK(B, copy, n, driver),
         B.left # <<>>, NEW sql, sql = Head(B.left), ~Violates(copy, sql),
         NEW hit, hit = (IF Hits(copy, sql) THEN 1 ELSE 0), NEW row \in Rows \cup {NoRow},
         NEW C, C.comparison = B.comparison, C.selected = B.selected, C.left = Tail(B.left),
         C.affected = B.affected + hit, C.held = (IF hit = 1 THEN Put(B.held, sql.key, row) ELSE B.held)
  PROVE  BatchOK(C, Changed(copy, sql), n + hit, driver)
<1>1. BatchTypeOK(B, driver) BY DEF BatchOK
<1>2. PICK chosen : chosen = Chosen(B) OBVIOUS
<1>3. PICK r : r = Run(B) OBVIOUS
<1>4. Chosen(C) = chosen BY <1>2 DEF Chosen
<1>5. /\ \A i \in 1..Len(chosen) : Sound(chosen[i], driver)
      /\ \A i, j \in 1..Len(chosen) : chosen[i].key = chosen[j].key => i = j
  BY <1>1, <1>2, BatchParts
<1>r. r \in Nat /\ Len(chosen) \in Nat /\ r <= Len(chosen) /\ Len(B.left) \in Nat /\ Len(B.left) = Len(chosen) - r
  <2>1. /\ Len(Chosen(B)) \in Nat /\ Len(B.left) \in Nat /\ Run(B) \in 0..Len(Chosen(B))
        /\ Len(B.left) = Len(Chosen(B)) - Run(B)
    BY <1>1, BatchParts
  <2>2. PICK length \in Nat : length = Len(Chosen(B)) BY <2>1
  <2>3. r \in 0..length /\ Len(B.left) = length - r /\ length = Len(chosen) BY <1>2, <1>3, <2>1, <2>2
  <2>4. r \in Nat /\ r <= length BY <2>3
  <2>5. QED BY <2>1, <2>2, <2>3, <2>4
<1>6. /\ r + 1 \in 1..Len(chosen) /\ sql = chosen[r + 1].sql /\ sql.key = chosen[r + 1].key
      /\ chosen[r + 1].key \in Keys
  BY <1>1, <1>2, <1>3, NextStatement
<1>7. PICK k : k = sql.key OBVIOUS
<1>8. hit \in {0, 1} OBVIOUS
<1>9. /\ Tail(B.left) \in Seq({change.sql : change \in Entries(chosen)})
      /\ Len(Tail(B.left)) = Len(B.left) - 1
      /\ \A i \in 1..Len(B.left) - 1 : Tail(B.left)[i] = B.left[i + 1]
  <2>1. B.left \in Seq({change.sql : change \in Entries(chosen)}) BY <1>1, <1>2 DEF BatchTypeOK
  <2>2. QED BY <2>1
<1>10. Run(C) = r + 1
  <2>1. Len(chosen) - (Len(B.left) - 1) = r + 1 BY <1>r
  <2>2. QED BY <1>4, <1>9, <2>1 DEF Run
<1>11. /\ B.affected \in Nat /\ B.comparison.at \in Nat /\ B.held \in HeldRows
       /\ \A j \in DOMAIN B.held : \E i \in 1..r : j = chosen[i].key
  BY <1>1, <1>2, <1>3 DEF BatchTypeOK
<1>12. k \notin DOMAIN B.held /\ \A i \in 1..r : chosen[i].key # k
  <2>1. \A i \in 1..r : i \in 1..Len(chosen) /\ i # r + 1 BY <1>r
  <2>2. \A i \in 1..r : chosen[i].key # k BY <1>5, <1>r, <1>6, <1>7, <2>1
  <2>3. QED BY <1>11, <2>2
<1>13. /\ C.held \in HeldRows
       /\ DOMAIN C.held = IF hit = 1 THEN DOMAIN B.held \cup {k} ELSE DOMAIN B.held
  <2>1. Put(B.held, k, row) \in HeldRows /\ DOMAIN Put(B.held, k, row) = DOMAIN B.held \cup {k}
    BY <1>6, <1>7, <1>11, HeldPut
  <2>2. QED BY <1>7, <1>11, <2>1
<1>14. BatchTypeOK(C, driver)
  <2>1. \A i \in 1..Len(C.left) : C.left[i] = chosen[r + 1 + i].sql
    <3> SUFFICES ASSUME NEW i \in 1..Len(C.left) PROVE C.left[i] = chosen[r + 1 + i].sql OBVIOUS
    <3>1. i + 1 \in 1..Len(B.left) /\ i \in 1..Len(B.left) - 1 BY <1>5, <1>r, <1>9
    <3>2. B.left[i + 1] = chosen[r + (i + 1)].sql BY <1>1, <1>2, <1>3, <3>1 DEF BatchTypeOK
    <3>3. r + (i + 1) = r + 1 + i BY <1>r
    <3>4. QED BY <1>9, <3>1, <3>2, <3>3
  <2>2. Len(C.left) <= Len(chosen) BY <1>5, <1>r, <1>9
  <2>3. \A j \in DOMAIN C.held : \E i \in 1..r + 1 : j = chosen[i].key
    <3> SUFFICES ASSUME NEW j \in DOMAIN C.held PROVE \E i \in 1..r + 1 : j = chosen[i].key OBVIOUS
    <3>1. CASE j \in DOMAIN B.held
      <4>1. PICK i \in 1..r : j = chosen[i].key BY <1>11, <3>1
      <4>2. i \in 1..r + 1 BY <1>r
      <4>3. QED BY <4>1, <4>2
    <3>2. CASE j = k
      <4>1. r + 1 \in 1..r + 1 BY <1>r
      <4>2. QED BY <1>6, <1>7, <3>2, <4>1
    <3>3. QED BY <1>13, <3>1, <3>2
  <2>4. C.affected \in Nat BY <1>8, <1>11
  <2>5. SoundList(chosen, driver) /\ Len(chosen) = Cardinality(C.selected) BY <1>1, <1>2 DEF BatchTypeOK
  <2>6. QED BY <1>4, <1>9, <1>10, <1>11, <1>13, <2>1, <2>2, <2>3, <2>4, <2>5 DEF BatchTypeOK
<1>15. PICK new : new = Changed(copy, sql) OBVIOUS
<1>16. Sound(chosen[r + 1], driver) BY <1>5, <1>r, <1>6
<1>17. /\ DOMAIN new \ {k} = DOMAIN copy \ {k} /\ \A j \in DOMAIN copy \ {k} : new[j] = copy[j]
       /\ hit = 1 => Made(chosen[r + 1], new, driver)
  <2>1. CASE Hits(copy, sql) BY <1>6, <1>7, <1>15, <1>16, <2>1, StatementMakes
  <2>2. CASE ~Hits(copy, sql)
    <3>1. new = copy /\ hit = 0 BY <1>15, <2>2 DEF Changed
    <3>2. QED BY <3>1
  <2>3. QED BY <2>1, <2>2
<1>18. BatchMakesChanges(B, copy, driver) /\ BatchIsCalm(B, copy, n, driver) BY DEF BatchOK
<1>19. BatchMakesChanges(C, new, driver)
  <2>1. B.affected <= r BY <1>3, <1>18 DEF BatchMakesChanges
  <2>2. C.affected <= r + 1 BY <1>5, <1>r, <1>8, <1>11, <2>1
  <2>3. ASSUME C.affected = r + 1, NEW i \in 1..r + 1
        PROVE  Made(chosen[i], new, driver) /\ chosen[i].key \in DOMAIN C.held
    <3>1. hit = 1 /\ B.affected = r BY <1>5, <1>r, <1>8, <1>11, <2>1, <2>3
    <3>2. CASE i = r + 1 BY <1>6, <1>7, <1>13, <1>17, <3>1, <3>2
    <3>3. CASE i # r + 1
      <4>1. i \in 1..r BY <1>5, <1>r, <3>3
      <4>2. Made(chosen[i], copy, driver) /\ chosen[i].key \in DOMAIN B.held
        BY <1>2, <1>3, <1>18, <3>1, <4>1 DEF BatchMakesChanges
      <4>3. chosen[i].key # k BY <1>12, <4>1
      <4>4. Made(chosen[i], new, driver) BY <1>17, <4>2, <4>3 DEF Made
      <4>5. QED BY <1>13, <4>2, <4>4
    <3>4. QED BY <3>2, <3>3
  <2>4. QED BY <1>4, <1>10, <2>2, <2>3 DEF BatchMakesChanges
<1>20. BatchIsCalm(C, new, n + hit, driver)
  <2>1. B.comparison.at + B.affected <= n BY <1>18 DEF BatchIsCalm
  <2>2. C.comparison.at + C.affected <= n + hit BY <1>8, <1>11, <2>1
  <2>3. ASSUME C.comparison.at + C.affected = n + hit
        PROVE  /\ \A i \in r + 2..Len(chosen) : AgreesWith(chosen[i], new)
               /\ C.affected < r + 1 =>
                    \E i \in 1..r + 1, c \in DataColumns :
                      /\ chosen[i].key \in DOMAIN new \ DOMAIN C.held
                      /\ ~Intact(new[chosen[i].key][c], driver)
    <3>1. B.comparison.at + B.affected = n BY <1>8, <1>11, <2>3
    <3>2. \A i \in r + 1..Len(chosen) : AgreesWith(chosen[i], copy)
      BY <1>2, <1>3, <1>18, <3>1 DEF BatchIsCalm
    <3>3. ASSUME NEW i \in r + 2..Len(chosen) PROVE AgreesWith(chosen[i], new)
      <4>1. i \in r + 1..Len(chosen) /\ i \in 1..Len(chosen) /\ i # r + 1 BY <1>r
      <4>2. chosen[i].key # k BY <1>5, <1>r, <1>6, <1>7, <4>1
      <4>3. QED BY <1>17, <3>2, <4>1, <4>2 DEF AgreesWith
    <3>4. ASSUME B.affected < r
          PROVE  \E i \in 1..r + 1, c \in DataColumns :
                   /\ chosen[i].key \in DOMAIN new \ DOMAIN C.held
                   /\ ~Intact(new[chosen[i].key][c], driver)
      <4>1. PICK i \in 1..r, c \in DataColumns :
              /\ chosen[i].key \in DOMAIN copy \ DOMAIN B.held
              /\ ~Intact(copy[chosen[i].key][c], driver)
        BY <1>2, <1>3, <1>18, <3>1, <3>4 DEF BatchIsCalm
      <4>2. i \in 1..r + 1 /\ chosen[i].key # k BY <1>5, <1>r, <1>12
      <4>3. QED BY <1>13, <1>17, <4>1, <4>2
    <3>5. ASSUME hit = 0
          PROVE  \E i \in 1..r + 1, c \in DataColumns :
                   /\ chosen[i].key \in DOMAIN new \ DOMAIN C.held
                   /\ ~Intact(new[chosen[i].key][c], driver)
      <4>1. ~Hits(copy, sql) /\ new = copy BY <1>15, <3>5 DEF Changed
      <4>2. AgreesWith(chosen[r + 1], copy) BY <1>5, <1>r, <1>6, <3>2
      <4>3. k \in DOMAIN copy /\ \E c \in DataColumns : ~Intact(copy[k][c], driver)
        BY <1>6, <1>7, <1>16, <4>1, <4>2, StatementMisses
      <4>4. r + 1 \in 1..r + 1 BY <1>r
      <4>5. QED BY <1>6, <1>7, <1>12, <1>13, <3>5, <4>1, <4>3, <4>4
    <3>6. C.affected < r + 1 => B.affected < r \/ hit = 0 BY <1>5, <1>r, <1>8, <1>11
    <3>7. QED BY <3>3, <3>4, <3>5, <3>6
  <2>4. (r + 1) + 1 = r + 2 BY <1>r
  <2>5. QED BY <1>4, <1>10, <2>2, <2>3, <2>4 DEF BatchIsCalm
<1>21. QED BY <1>14, <1>15, <1>19, <1>20 DEF BatchOK

\* A batch is sent.
LEMMA BatchStarts ==
  ASSUME NEW c, NEW driver, NEW copy, NEW n \in Nat, ComparisonOK(c, copy, n, driver),
         NEW selected \in SUBSET {c.changes[i].key : i \in DOMAIN c.changes},
         NEW B, B = [comparison |-> c, selected |-> selected, left |-> BuildDataSyncStatements(c, selected),
                     affected |-> 0, held |-> NoRows]
  PROVE  BatchOK(B, copy, n, driver)
<1>1. /\ B.comparison = c /\ B.selected = selected /\ B.left = BuildDataSyncStatements(c, selected)
      /\ B.affected = 0 /\ B.held = NoRows
  OBVIOUS
<1>2. PICK chosen : chosen = Chosen(B) OBVIOUS
<1>3. chosen = Selection(c, selected) BY <1>1, <1>2 DEF Chosen
<1>4. SoundList(c.changes, driver) BY DEF ComparisonOK
<1>5. /\ SoundList(chosen, driver) /\ Entries(chosen) \subseteq Entries(c.changes)
      /\ Len(chosen) = Cardinality(selected)
  BY <1>3, <1>4, SelectionIsSound, Zenon
<1>6. PICK m \in Nat : m = Len(chosen) /\ DOMAIN chosen = 1..m
  <2>1. chosen \in Seq(Entries(chosen)) BY <1>5 DEF SoundList
  <2>2. Len(chosen) \in Nat /\ DOMAIN chosen = 1..Len(chosen) BY <2>1
  <2>3. QED BY <2>2, Zenon
<1>7. B.left = [i \in 1..m |-> chosen[i].sql] BY <1>1, <1>3, <1>6 DEF BuildDataSyncStatements
<1>8. /\ B.left \in Seq({change.sql : change \in Entries(chosen)}) /\ Len(B.left) = m
      /\ \A i \in 1..m : B.left[i] = chosen[i].sql
  <2>1. \A i \in 1..m : chosen[i] \in Entries(chosen) BY <1>6 DEF Entries
  <2>2. B.left \in [1..m -> {change.sql : change \in Entries(chosen)}] BY <1>7, <2>1
  <2>3. B.left \in Seq({change.sql : change \in Entries(chosen)}) BY <2>2
  <2>4. Len(B.left) = m BY <1>7
  <2>5. QED BY <1>7, <2>3, <2>4
<1>9. Run(B) = 0 BY <1>2, <1>6, <1>8 DEF Run
<1>10. B.held \in HeldRows /\ DOMAIN B.held = {}
  <2>1. NoRows \in [{} -> Rows \cup {NoRow}] /\ DOMAIN NoRows = {} BY DEF NoRows
  <2>2. {} \in {s \in SUBSET Keys : IsFiniteSet(s)} BY FS_EmptySet
  <2>3. QED BY <1>1, <2>1, <2>2 DEF HeldRows
<1>11. c.at \in Nat BY DEF ComparisonOK
<1>12. BatchTypeOK(B, driver)
  <2>1. \A i \in 1..Len(B.left) : B.left[i] = chosen[0 + i].sql BY <1>8
  <2>2. QED BY <1>1, <1>2, <1>5, <1>6, <1>8, <1>9, <1>10, <1>11, <2>1 DEF BatchTypeOK
<1>13. BatchMakesChanges(B, copy, driver) BY <1>1, <1>9 DEF BatchMakesChanges
<1>14. BatchIsCalm(B, copy, n, driver)
  <2>1. c.at + 0 <= n BY <1>11 DEF ComparisonOK
  <2>2. ASSUME c.at + 0 = n, NEW i \in 0 + 1..Len(chosen) PROVE AgreesWith(chosen[i], copy)
    <3>1. c.at = n BY <1>11, <2>2
    <3>2. chosen[i] \in Entries(c.changes)
      <4>1. i \in DOMAIN chosen BY <1>6
      <4>2. chosen[i] \in Entries(chosen) BY <4>1 DEF Entries
      <4>3. QED BY <1>5, <4>2
    <3>3. PICK j \in DOMAIN c.changes : chosen[i] = c.changes[j] BY <3>2 DEF Entries
    <3>4. QED BY <3>1, <3>3 DEF ComparisonOK
  <2>3. QED BY <1>1, <1>2, <1>9, <2>1, <2>2 DEF BatchIsCalm
<1>15. QED BY <1>12, <1>13, <1>14 DEF BatchOK

\* A batch that may be committed has made its changes.
LEMMA BatchCommits ==
  ASSUME NEW B, NEW driver, NEW copy, NEW n, BatchOK(B, copy, n, driver), B.left = <<>>,
         B.affected = Cardinality(B.selected)
  PROVE  \A i \in DOMAIN Chosen(B) : Made(Chosen(B)[i], copy, driver)
<1>1. BatchTypeOK(B, driver) /\ BatchMakesChanges(B, copy, driver) BY DEF BatchOK
<1>2. PICK m \in Nat : m = Len(Chosen(B)) /\ DOMAIN Chosen(B) = 1..m BY <1>1, BatchParts
<1>3. Run(B) = m BY <1>2 DEF Run
<1>4. B.affected = m BY <1>1, <1>2 DEF BatchTypeOK
<1>5. QED BY <1>1, <1>2, <1>3, <1>4 DEF BatchMakesChanges

\* A batch that fails in a target nobody else has changed has met a value that
\* does not survive, and leaves its row.
LEMMA BatchFails ==
  ASSUME NEW B, NEW driver, NEW copy \in TableRows, NEW n \in Nat, BatchOK(B, copy, n, driver),
         IF B.left = <<>> THEN B.affected # Cardinality(B.selected) ELSE Violates(copy, Head(B.left)),
         n = B.comparison.at + B.affected,
         NEW after, \A k \in DOMAIN copy \ DOMAIN B.held : k \in DOMAIN after /\ after[k] = copy[k]
  PROVE  \E k \in DOMAIN after, c \in DataColumns : ~Intact(after[k][c], driver)
<1>1. BatchTypeOK(B, driver) /\ BatchMakesChanges(B, copy, driver) /\ BatchIsCalm(B, copy, n, driver)
  BY DEF BatchOK
<1>2. PICK m \in Nat : m = Len(Chosen(B)) /\ DOMAIN Chosen(B) = 1..m BY <1>1, BatchParts
<1>3. B.left = <<>>
  <2> SUFFICES ASSUME B.left # <<>> PROVE FALSE OBVIOUS
  <2>1. PICK i : i = Run(B) + 1 OBVIOUS
  <2>2. i \in 1..m /\ Head(B.left) = Chosen(B)[i].sql BY <1>1, <1>2, <2>1, NextStatement
  <2>3. i \in Run(B) + 1..m
    <3>1. Run(B) \in 0..m BY <1>1, <1>2, BatchParts
    <3>2. QED BY <2>1, <2>2, <3>1
  <2>4. AgreesWith(Chosen(B)[i], copy) BY <1>1, <1>2, <2>3 DEF BatchIsCalm
  <2>5. Sound(Chosen(B)[i], driver) BY <1>1, <1>2, <2>2, BatchParts
  <2>6. ~Violates(copy, Chosen(B)[i].sql) BY <2>4, <2>5, StatementMisses
  <2>7. QED BY <2>2, <2>6
<1>4. Run(B) = m BY <1>2, <1>3 DEF Run
<1>5. B.affected < Run(B)
  <2>1. B.affected # m BY <1>1, <1>2, <1>3 DEF BatchTypeOK
  <2>2. B.affected <= m /\ B.affected \in Nat BY <1>1, <1>4 DEF BatchTypeOK, BatchMakesChanges
  <2>3. QED BY <1>4, <2>1, <2>2
<1>6. PICK i \in 1..Run(B), c \in DataColumns :
        Chosen(B)[i].key \in DOMAIN copy \ DOMAIN B.held /\ ~Intact(copy[Chosen(B)[i].key][c], driver)
  BY <1>1, <1>5 DEF BatchIsCalm
<1>7. QED BY <1>6

\* The rows a batch held are back, and the other rows untouched.
Undone(copy, held) ==
  [k \in {j \in DOMAIN copy \cup DOMAIN held : j \in DOMAIN held => held[j] # NoRow} |->
     IF k \in DOMAIN held THEN held[k] ELSE copy[k]]

LEMMA UndoneIsTable ==
  ASSUME NEW copy \in TableRows, NEW held \in HeldRows
  PROVE  /\ Undone(copy, held) \in TableRows
         /\ \A k : k \notin DOMAIN held =>
              /\ k \in DOMAIN Undone(copy, held) <=> k \in DOMAIN copy
              /\ k \in DOMAIN copy => Undone(copy, held)[k] = copy[k]
<1> DEFINE new == Undone(copy, held)
           kept == {j \in DOMAIN copy \cup DOMAIN held : j \in DOMAIN held => held[j] # NoRow}
<1>1. copy \in [DOMAIN copy -> Rows] /\ DOMAIN copy \subseteq Keys \cup {NoKey} /\ IsFiniteSet(DOMAIN copy)
  BY CopyOfTable
<1>2. held \in [DOMAIN held -> Rows \cup {NoRow}] /\ DOMAIN held \subseteq Keys /\ IsFiniteSet(DOMAIN held)
  BY DEF HeldRows
<1>3. IsFiniteSet(DOMAIN copy \cup DOMAIN held) BY <1>1, <1>2, FS_Union
<1>4. kept \in SUBSET (DOMAIN copy \cup DOMAIN held) OBVIOUS
<1>5. IsFiniteSet(kept) BY <1>3, <1>4, FS_Subset
<1>6. DOMAIN new = kept /\ new \in [kept -> Rows] BY <1>1, <1>2 DEF Undone
<1>7. \A k : k \notin DOMAIN held => (k \in DOMAIN new <=> k \in DOMAIN copy) /\ (k \in DOMAIN copy => new[k] = copy[k])
  BY DEF Undone
<1> HIDE DEF new
<1>8. new \in TableRows
  <2>1. kept \subseteq Keys \cup {NoKey} BY <1>1, <1>2
  <2> HIDE DEF kept
  <2>2. QED BY <1>5, <1>6, <2>1, CopyOfTable
<1>9. QED BY <1>7, <1>8 DEF new

-----------------------------------------------------------------------------
(* Steps.                                                                  *)

\* The target is as it was, or has changed and is a version later.
Later(copy, m, other, n) == m \in Nat /\ n \in Nat /\ ((other = copy /\ n = m) \/ n > m)

LEMMA ComparingKept ==
  ASSUME NEW c, NEW copy, NEW m, NEW other, NEW n, ComparingOK(c, copy, m), Later(copy, m, other, n)
  PROVE  ComparingOK(c, other, n)
<1>1. CASE other = copy /\ n = m BY <1>1
<1>2. CASE n > m
  <2>1. ASSUME c.targetRows # NotRead PROVE c.at <= n /\ c.at # n
    <3>1. c.at <= m /\ c.at \in Nat BY <2>1 DEF ComparingOK
    <3>2. QED BY <1>2, <3>1 DEF Later
  <2>2. QED BY <2>1 DEF ComparingOK
<1>3. QED BY <1>1, <1>2 DEF Later

LEMMA ComparisonKept ==
  ASSUME NEW c, NEW copy, NEW m, NEW other, NEW n, NEW driver, ComparisonOK(c, copy, m, driver),
         Later(copy, m, other, n)
  PROVE  ComparisonOK(c, other, n, driver)
<1>1. CASE other = copy /\ n = m BY <1>1
<1>2. CASE n > m
  <2>1. c.at <= n /\ c.at # n
    <3>1. c.at <= m /\ c.at \in Nat BY DEF ComparisonOK
    <3>2. QED BY <1>2, <3>1 DEF Later
  <2>2. QED BY <2>1 DEF ComparisonOK
<1>3. QED BY <1>1, <1>2 DEF Later

\* The rows of a batch are the same in both copies.
SameRows(held, copy, other) ==
  \A k \in DOMAIN held : (k \in DOMAIN other <=> k \in DOMAIN copy) /\ (k \in DOMAIN copy => other[k] = copy[k])

\* One batch takes a step, or ends; the rows of the others stay.
LEMMA BatchReplaced ==
  ASSUME NEW batches, NEW copy, NEW m, NEW other, NEW n, NEW driver, NEW b \in Batches,
         BatchesOK(batches, copy, m, driver), Later(copy, m, other, n),
         NEW B, B # NoBatch => IsBatch(B) /\ BatchOK(B, other, n, driver),
         \A a \in Batches \ {b} : batches[a] # NoBatch =>
           /\ SameRows(batches[a].held, copy, other)
           /\ B # NoBatch => DOMAIN batches[a].held \cap DOMAIN B.held = {}
  PROVE  BatchesOK([batches EXCEPT ![b] = B], other, n, driver)
<1> DEFINE new == [batches EXCEPT ![b] = B]
<1>1. new = [a \in Batches |-> IF a = b THEN B ELSE batches[a]] BY DEF BatchesOK
<1>2. new[b] = B /\ \A a \in Batches \ {b} : new[a] = batches[a] BY <1>1
<1>3. new = [a \in Batches |-> new[a]] BY <1>1
<1> HIDE DEF new
<1>4. ASSUME NEW a \in Batches, new[a] # NoBatch PROVE IsBatch(new[a]) /\ BatchOK(new[a], other, n, driver)
  <2>1. CASE a = b BY <1>2, <1>4, <2>1
  <2>2. CASE a # b
    <3>1. new[a] = batches[a] BY <1>2, <2>2
    <3>2. IsBatch(batches[a]) /\ BatchOK(batches[a], copy, m, driver) BY <1>4, <3>1 DEF BatchesOK
    <3>3. SameRows(batches[a].held, copy, other) BY <1>4, <2>2, <3>1
    <3>4. BatchOK(batches[a], other, n, driver) BY <3>2, <3>3, BatchKept DEF Later, SameRows
    <3>5. QED BY <3>1, <3>2, <3>4
  <2>3. QED BY <2>1, <2>2
<1>5. ASSUME NEW a \in Batches, NEW d \in Batches, a # d, new[a] # NoBatch, new[d] # NoBatch
      PROVE  DOMAIN new[a].held \cap DOMAIN new[d].held = {}
  <2>1. CASE a = b BY <1>2, <1>5, <2>1
  <2>2. CASE d = b BY <1>2, <1>5, <2>2
  <2>3. CASE a # b /\ d # b BY <1>2, <1>5, <2>3 DEF BatchesOK
  <2>4. QED BY <2>1, <2>2, <2>3
<1>6. QED BY <1>3, <1>4, <1>5 DEF BatchesOK, new

\* No batch takes a step.
LEMMA BatchesKept ==
  ASSUME NEW batches, NEW copy, NEW m, NEW other, NEW n, NEW driver,
         BatchesOK(batches, copy, m, driver), Later(copy, m, other, n),
         \A a \in Batches : batches[a] # NoBatch => SameRows(batches[a].held, copy, other)
  PROVE  BatchesOK(batches, other, n, driver)
<1>1. ASSUME NEW a \in Batches, batches[a] # NoBatch PROVE BatchOK(batches[a], other, n, driver)
  <2>1. BatchOK(batches[a], copy, m, driver) BY <1>1 DEF BatchesOK
  <2>2. SameRows(batches[a].held, copy, other) BY <1>1
  <2>3. QED BY <2>1, <2>2, BatchKept DEF Later, SameRows
<1>2. QED BY <1>1 DEF BatchesOK

LEMMA CountIsNat ==
  ASSUME NEW copy \in TableRows
  PROVE  BuildDataCountSql(copy) \in Nat
<1>1. IsFiniteSet(DOMAIN copy) BY CopyOfTable
<1>2. QED BY <1>1, FS_CardinalityType DEF BuildDataCountSql

LEMMA InitialData == DataInit => DataInv
<1> SUFFICES ASSUME DataInit PROVE DataInv OBVIOUS
<1>1. source \in TableRows /\ target \in TableRows /\ version = 0 BY DataSyncAssumption DEF DataInit
<1>2. BatchesOK(batch, target, version, dialect) BY DEF DataInit, BatchesOK
<1>3. ReportOK(report, dialect) BY DEF DataInit, NoReport, ReportOK
<1>4. QED BY <1>1, <1>2, <1>3 DEF DataInit, DataInv

LEMMA CountSourceStep == DataInv /\ CountSource => DataInv'
<1> SUFFICES ASSUME DataInv, CountSource PROVE DataInv' OBVIOUS
<1>1. BuildDataCountSql(source) \in Nat /\ dataCompareMaxRows \in Nat
  BY CountIsNat, DataCompareAssumption DEF DataInv
<1>2. ComparingOK(comparing', target, version)
  <2>1. PICK n \in Nat : n = BuildDataCountSql(source) BY <1>1
  <2>2. comparing' = [sourceCount |-> n, targetCount |-> -1, sourceRows |-> NotRead, targetRows |-> NotRead, at |-> 0]
    BY <2>1 DEF CountSource, Unread
  <2>3. QED BY <1>1, <2>2 DEF ComparingOK
<1>3. QED BY <1>2 DEF CountSource, Stored, DataInv

LEMMA CountTargetStep == DataInv /\ CountTarget => DataInv'
<1> SUFFICES ASSUME DataInv, CountTarget PROVE DataInv' OBVIOUS
<1>1. PICK n \in Nat : n = BuildDataCountSql(target) BY CountIsNat DEF DataInv
<1>2. dataCompareMaxRows \in Nat BY DataCompareAssumption
<1>3. ComparingOK(comparing, target, version) BY DEF DataInv, CountTarget, Comparing
<1>4. ASSUME comparing' # NotComparing PROVE ComparingOK(comparing', target, version)
  <2>1. n <= dataCompareMaxRows /\ comparing' = [comparing EXCEPT !.targetCount = n]
    BY <1>1, <1>2, <1>4 DEF CountTarget
  <2>2. QED BY <1>3, <2>1 DEF ComparingOK
<1>5. QED BY <1>4 DEF CountTarget, Stored, DataInv

LEMMA SelectSourceStep == DataInv /\ SelectSource => DataInv'
<1> SUFFICES ASSUME DataInv, SelectSource PROVE DataInv' OBVIOUS
<1>1. PICK rows \in BuildDataSelectSql(source) : comparing' = [comparing EXCEPT !.sourceRows = Answer(rows)]
  BY DEF SelectSource
<1>2. Answer(rows) \in TableRows BY SelectIsTable, AnswerIsTable DEF DataInv
<1>3. ComparingOK(comparing, target, version) BY DEF DataInv, SelectSource, Counted, Comparing
<1>4. ComparingOK(comparing', target, version) BY <1>1, <1>2, <1>3 DEF ComparingOK
<1>5. QED BY <1>4 DEF SelectSource, Stored, DataInv

LEMMA SelectTargetStep == DataInv /\ SelectTarget => DataInv'
<1> SUFFICES ASSUME DataInv, SelectTarget PROVE DataInv' OBVIOUS
<1>1. PICK rows \in BuildDataSelectSql(target) :
        comparing' = [comparing EXCEPT !.targetRows = Answer(rows), !.at = version]
  BY DEF SelectTarget
<1>2. Answer(rows) \in TableRows BY SelectIsTable, AnswerIsTable DEF DataInv
<1>3. ComparingOK(comparing, target, version) BY DEF DataInv, SelectTarget, Counted, Comparing
<1>4. version \in Nat BY DEF DataInv
<1>5. ComparingOK(comparing', target, version)
  <2>1. PICK c : c = comparing' OBVIOUS
  <2>2. PICK shown \in TableRows : shown = Answer(rows) BY <1>2
  <2>3. c = [comparing EXCEPT !.targetRows = shown, !.at = version] BY <1>1, <2>1, <2>2
  <2>4. comparing \in [sourceCount : Int, targetCount : Int, sourceRows : TableRows \cup {NotRead},
                       targetRows : TableRows \cup {NotRead}, at : Nat]
    BY <1>3 DEF ComparingOK
  <2>5. c \in [sourceCount : Int, targetCount : Int, sourceRows : TableRows \cup {NotRead},
               targetRows : TableRows \cup {NotRead}, at : Nat]
    BY <1>4, <2>3, <2>4
  <2>6. c.targetCount = comparing.targetCount /\ c.targetRows = shown /\ c.at = version BY <2>3, <2>4
  <2>7. c.targetCount <= dataCompareMaxRows BY <1>3, <2>6 DEF ComparingOK
  <2>8. c.at <= version BY <1>4, <2>6
  <2>9. QED BY <2>1, <2>2, <2>5, <2>6, <2>7, <2>8 DEF ComparingOK
<1>6. QED BY <1>5 DEF SelectTarget, Stored, DataInv

\* Rows that add up to a count within the bound are the whole table.
LEMMA CompareStep == DataInv /\ CompareSavedDataConnection => DataInv'
<1> SUFFICES ASSUME DataInv, CompareSavedDataConnection PROVE DataInv' OBVIOUS
<1>1. ComparingOK(comparing, target, version)
  BY DEF DataInv, CompareSavedDataConnection, Counted, Comparing
<1>2. /\ comparing.sourceRows \in TableRows /\ comparing.targetRows \in TableRows
      /\ comparing.targetRows # NotRead
      /\ comparing.at \in Nat /\ comparing.at <= version
  BY <1>1 DEF ComparingOK, CompareSavedDataConnection
<1>3. ASSUME comparison' # comparison PROVE ComparisonOK(comparison', target, version, dialect)
  <2> DEFINE found == CompareTableData(comparing.sourceRows, comparing.targetRows, dialect)
  <2>1. /\ BuildDataCountSql(comparing.targetRows) = comparing.targetCount
        /\ comparison' = [found EXCEPT !.at = comparing.at]
    BY <1>3 DEF CompareSavedDataConnection
  <2>2. comparison'.changes = found.changes /\ comparison'.at = comparing.at
    BY <2>1 DEF CompareTableData
  <2>3. /\ SoundList(found.changes, dialect)
        /\ \A copy \in TableRows : comparing.targetRows = Answer(copy) =>
             \A i \in DOMAIN found.changes : AgreesWith(found.changes[i], copy)
    BY <1>2, ComparisonIsSound
  <2> HIDE DEF found
  <2>4. ASSUME comparing.at = version PROVE \A i \in DOMAIN found.changes : AgreesWith(found.changes[i], target)
    <3>1. PICK rows \in BuildDataSelectSql(target) : comparing.targetRows = Answer(rows)
      BY <1>1, <1>2, <2>4 DEF ComparingOK
    <3>2. target \in TableRows BY DEF DataInv
    <3>3. rows \in TableRows BY <3>2, SelectIsTable
    <3>4. DOMAIN comparing.targetRows = DOMAIN rows BY <3>1, <3>3, AnswerIsTable
    <3>5. Cardinality(DOMAIN rows) <= dataCompareMaxRows
      BY <1>1, <2>1, <3>4 DEF ComparingOK, BuildDataCountSql
    <3>6. rows = target BY <3>2, <3>5, SelectIsTable
    <3>7. QED BY <2>3, <3>1, <3>2, <3>6
  <2>5. QED BY <1>2, <2>2, <2>3, <2>4 DEF ComparisonOK
<1>4. ASSUME comparison' # NoComparison PROVE ComparisonOK(comparison', target, version, dialect)
  BY <1>3, <1>4 DEF DataInv
<1>5. QED BY <1>4 DEF CompareSavedDataConnection, Stored, DataInv

LEMMA FailComparisonStep == DataInv /\ FailComparison => DataInv'
BY DEF FailComparison, Stored, DataInv

LEMMA ApplyStep ==
  ASSUME DataInv, NEW b \in Batches, ApplyDataSynchronization(b)
  PROVE  DataInv'
<1>1. PICK selected \in Selectable :
        batch' = [batch EXCEPT ![b] =
          [comparison |-> comparison, selected |-> selected,
           left |-> BuildDataSyncStatements(comparison, selected), affected |-> 0, held |-> NoRows]]
  BY DEF ApplyDataSynchronization
<1>2. comparison # NoComparison /\ selected \in SUBSET {comparison.changes[i].key : i \in DOMAIN comparison.changes}
  BY DEF Selectable
<1>3. PICK B : B = [comparison |-> comparison, selected |-> selected,
                    left |-> BuildDataSyncStatements(comparison, selected), affected |-> 0, held |-> NoRows]
  OBVIOUS
<1>4. ComparisonOK(comparison, target, version, dialect) /\ version \in Nat BY <1>2 DEF DataInv
<1>5. BatchOK(B, target, version, dialect) BY <1>2, <1>3, <1>4, BatchStarts
<1>6. IsBatch(B) /\ DOMAIN B.held = {} BY <1>3 DEF IsBatch, NoRows
<1>7. BatchesOK(batch, target, version, dialect) BY DEF DataInv
<1>8. \A a \in Batches : SameRows(batch[a].held, target, target) BY DEF SameRows
<1>9. Later(target, version, target, version) BY <1>4 DEF Later
<1>10. BatchesOK([batch EXCEPT ![b] = B], target, version, dialect)
  BY <1>5, <1>6, <1>7, <1>8, <1>9, BatchReplaced
<1>11. QED BY <1>1, <1>3, <1>10 DEF ApplyDataSynchronization, Stored, DataInv

\* The rows other batches hold are not written.
LEMMA NotHeld ==
  ASSUME NEW k, ~Held(k), NEW other, DOMAIN other \ {k} = DOMAIN target \ {k},
         \A j \in DOMAIN target \ {k} : other[j] = target[j],
         NEW a \in Batches, Running(a)
  PROVE  SameRows(batch[a].held, target, other) /\ k \notin DOMAIN batch[a].held
<1>1. k \notin DOMAIN batch[a].held BY DEF Held
<1>2. QED BY <1>1 DEF SameRows

LEMMA RunStep ==
  ASSUME DataInv, NEW b \in Batches, RunStatement(b)
  PROVE  DataInv'
<1>1. PICK B : B = batch[b] OBVIOUS
<1>2. PICK sql : sql = Head(B.left) OBVIOUS
<1>3. PICK hit : hit = IF Hits(target, sql) THEN 1 ELSE 0 OBVIOUS
<1>4. PICK row : row = Found(sql.key) OBVIOUS
<1>5. /\ B # NoBatch /\ B.left # <<>> /\ ~Held(sql.key) /\ ~Violates(target, sql)
      /\ target' = Changed(target, sql) /\ version' = version + hit
      /\ batch' = [batch EXCEPT ![b].left = Tail(@), ![b].affected = @ + hit,
                     ![b].held = IF hit = 1 THEN Put(@, sql.key, row) ELSE @]
  BY <1>1, <1>2, <1>3, <1>4 DEF RunStatement, Running
<1>6. BatchesOK(batch, target, version, dialect) /\ target \in TableRows /\ version \in Nat BY DEF DataInv
<1>7. IsBatch(B) /\ BatchOK(B, target, version, dialect) BY <1>1, <1>5, <1>6 DEF BatchesOK
<1>8. row \in Rows \cup {NoRow} BY <1>4, <1>6, CopyOfTable DEF Found
<1>9. PICK C : C = [B EXCEPT !.left = Tail(@), !.affected = @ + hit,
                      !.held = IF hit = 1 THEN Put(@, sql.key, row) ELSE @]
  OBVIOUS
<1>10. batch' = [batch EXCEPT ![b] = C]
  <2>1. batch = [a \in Batches |-> batch[a]] BY <1>6 DEF BatchesOK
  <2>2. QED BY <1>1, <1>5, <1>9, <2>1
<1>11. /\ IsBatch(C) /\ C.comparison = B.comparison /\ C.selected = B.selected /\ C.left = Tail(B.left)
       /\ C.affected = B.affected + hit
       /\ C.held = IF hit = 1 THEN Put(B.held, sql.key, row) ELSE B.held
  BY <1>7, <1>9 DEF IsBatch
<1>12. PICK other : other = Changed(target, sql) OBVIOUS
<1>13. BatchOK(C, other, version + hit, dialect)
  BY <1>2, <1>3, <1>5, <1>6, <1>7, <1>8, <1>11, <1>12, BatchRuns
<1>14. /\ other \in TableRows /\ DOMAIN other \ {sql.key} = DOMAIN target \ {sql.key}
       /\ \A j \in DOMAIN target \ {sql.key} : other[j] = target[j]
  <2>1. PICK i : i = Run(B) + 1 OBVIOUS
  <2>2. BatchTypeOK(B, dialect) BY <1>7 DEF BatchOK
  <2>3. /\ i \in 1..Len(Chosen(B)) /\ sql = Chosen(B)[i].sql /\ sql.key = Chosen(B)[i].key
    BY <1>2, <1>5, <2>1, <2>2, NextStatement
  <2>4. Sound(Chosen(B)[i], dialect) BY <2>2, <2>3, BatchParts
  <2>5. CASE Hits(target, sql) BY <1>6, <1>12, <2>3, <2>4, <2>5, StatementMakes
  <2>6. CASE ~Hits(target, sql) BY <1>6, <1>12, <2>6 DEF Changed
  <2>7. QED BY <2>5, <2>6
<1>15. Later(target, version, other, version + hit)
  <2>1. CASE Hits(target, sql) BY <1>3, <1>6, <2>1 DEF Later
  <2>2. CASE ~Hits(target, sql)
    <3>1. other = target /\ hit = 0 BY <1>3, <1>12, <2>2 DEF Changed
    <3>2. QED BY <1>6, <3>1 DEF Later
  <2>3. QED BY <2>1, <2>2
<1>16. ASSUME NEW a \in Batches \ {b}, batch[a] # NoBatch
       PROVE  SameRows(batch[a].held, target, other) /\ DOMAIN batch[a].held \cap DOMAIN C.held = {}
  <2>1. SameRows(batch[a].held, target, other) /\ sql.key \notin DOMAIN batch[a].held
    BY <1>5, <1>14, <1>16, NotHeld DEF Running
  <2>2. DOMAIN batch[a].held \cap DOMAIN B.held = {} BY <1>1, <1>5, <1>6, <1>16 DEF BatchesOK
  <2>3. DOMAIN C.held \subseteq DOMAIN B.held \cup {sql.key} BY <1>11 DEF Put
  <2>4. QED BY <2>1, <2>2, <2>3
<1>17. BatchesOK([batch EXCEPT ![b] = C], other, version + hit, dialect)
  BY <1>6, <1>11, <1>13, <1>15, <1>16, BatchReplaced
<1>18. comparing # NotComparing => ComparingOK(comparing, other, version + hit)
  BY <1>15, ComparingKept DEF DataInv
<1>19. comparison # NoComparison => ComparisonOK(comparison, other, version + hit, dialect)
  BY <1>15, ComparisonKept DEF DataInv
<1>20. version + hit \in Nat BY <1>15 DEF Later
<1>21. QED BY <1>5, <1>10, <1>12, <1>14, <1>17, <1>18, <1>19, <1>20 DEF RunStatement, DataInv

LEMMA CommitStep ==
  ASSUME DataInv, NEW b \in Batches, CommitBatch(b)
  PROVE  DataInv'
<1>1. PICK B : B = batch[b] OBVIOUS
<1>2. /\ B # NoBatch /\ B.left = <<>> /\ B.affected = Cardinality(B.selected)
      /\ report'.ok /\ report'.comparison = B.comparison /\ report'.selected = B.selected
      /\ report'.after = target /\ batch' = [batch EXCEPT ![b] = NoBatch]
  BY <1>1 DEF CommitBatch, Running, Ended
<1>3. BatchesOK(batch, target, version, dialect) /\ version \in Nat BY DEF DataInv
<1>4. BatchOK(B, target, version, dialect) BY <1>1, <1>2, <1>3 DEF BatchesOK
<1>5. \A i \in DOMAIN Chosen(B) : Made(Chosen(B)[i], target, dialect) BY <1>2, <1>4, BatchCommits
<1>6. ReportOK(report', dialect)
  <2>1. Chosen(report') = Chosen(B) BY <1>2 DEF Chosen
  <2>2. QED BY <1>2, <1>5, <2>1 DEF ReportOK
<1>7. \A a \in Batches : SameRows(batch[a].held, target, target) BY DEF SameRows
<1>8. Later(target, version, target, version) BY <1>3 DEF Later
<1>9. BatchesOK([batch EXCEPT ![b] = NoBatch], target, version, dialect)
  BY <1>3, <1>7, <1>8, BatchReplaced
<1>10. comparison' = NoComparison BY DEF CommitBatch
<1>11. QED BY <1>2, <1>6, <1>9, <1>10 DEF CommitBatch, Stored, DataInv

LEMMA RollBackStep ==
  ASSUME DataInv, NEW b \in Batches, RollBackBatch(b)
  PROVE  DataInv'
<1>1. PICK B : B = batch[b] OBVIOUS
<1>2. PICK other : other = Undone(target, B.held) OBVIOUS
<1>3. /\ B # NoBatch
      /\ IF B.left = <<>> THEN B.affected # Cardinality(B.selected) ELSE Violates(target, Head(B.left))
      /\ target' = other /\ version' = version + 1 /\ batch' = [batch EXCEPT ![b] = NoBatch]
  BY <1>1, <1>2 DEF RollBackBatch, Running, Undone
<1>4. ~report'.ok /\ report'.after = other /\ (report'.calm => version = B.comparison.at + B.affected)
  BY <1>1, <1>3 DEF RollBackBatch, Ended
<1>5. BatchesOK(batch, target, version, dialect) /\ target \in TableRows /\ version \in Nat BY DEF DataInv
<1>6. BatchOK(B, target, version, dialect) BY <1>1, <1>3, <1>5 DEF BatchesOK
<1>7. B.held \in HeldRows BY <1>6 DEF BatchOK, BatchTypeOK
<1>8. /\ other \in TableRows
      /\ \A k : k \notin DOMAIN B.held =>
           (k \in DOMAIN other <=> k \in DOMAIN target) /\ (k \in DOMAIN target => other[k] = target[k])
  BY <1>2, <1>5, <1>7, UndoneIsTable
<1>9. ReportOK(report', dialect)
  <2>1. \A k \in DOMAIN target \ DOMAIN B.held : k \in DOMAIN other /\ other[k] = target[k] BY <1>8
  <2>2. ASSUME version = B.comparison.at + B.affected
        PROVE  \E k \in DOMAIN other, c \in DataColumns : ~Intact(other[k][c], dialect)
    BY <1>3, <1>5, <1>6, <2>1, <2>2, BatchFails
  <2>3. QED BY <1>4, <2>2 DEF ReportOK
<1>10. Later(target, version, other, version + 1) BY <1>5 DEF Later
<1>11. ASSUME NEW a \in Batches \ {b}, batch[a] # NoBatch PROVE SameRows(batch[a].held, target, other)
  <2>1. DOMAIN batch[a].held \cap DOMAIN B.held = {} BY <1>1, <1>3, <1>5, <1>11 DEF BatchesOK
  <2>2. QED BY <1>8, <2>1 DEF SameRows
<1>12. BatchesOK([batch EXCEPT ![b] = NoBatch], other, version + 1, dialect)
  BY <1>5, <1>10, <1>11, BatchReplaced
<1>13. comparing # NotComparing => ComparingOK(comparing, other, version + 1)
  BY <1>10, ComparingKept DEF DataInv
<1>14. comparison # NoComparison => ComparisonOK(comparison, other, version + 1, dialect)
  BY <1>10, ComparisonKept DEF DataInv
<1>15. version + 1 \in Nat BY <1>5
<1>16. QED BY <1>3, <1>8, <1>9, <1>12, <1>13, <1>14, <1>15 DEF RollBackBatch, DataInv

\* What another session writes.
LEMMA WriteIsTable ==
  ASSUME NEW copy \in TableRows, NEW k \in Keys, NEW other \in Writes(copy, k)
  PROVE  /\ other \in TableRows /\ DOMAIN other \ {k} = DOMAIN copy \ {k}
         /\ \A j \in DOMAIN copy \ {k} : other[j] = copy[j]
<1>1. CASE other = Drop(copy, k)
  <2>1. /\ Drop(copy, k) \in TableRows /\ DOMAIN Drop(copy, k) = DOMAIN copy \ {k}
        /\ \A j \in DOMAIN copy \ {k} : Drop(copy, k)[j] = copy[j]
    BY DropRow
  <2>2. QED BY <1>1, <2>1
<1>2. ASSUME NEW row \in WrittenRows, other = Put(copy, k, row)
      PROVE  /\ other \in TableRows /\ DOMAIN other \ {k} = DOMAIN copy \ {k}
             /\ \A j \in DOMAIN copy \ {k} : other[j] = copy[j]
  <2>1. row \in Rows BY DataSyncAssumption
  <2>2. /\ Put(copy, k, row) \in TableRows /\ DOMAIN Put(copy, k, row) = DOMAIN copy \cup {k}
        /\ \A j \in DOMAIN copy \ {k} : Put(copy, k, row)[j] = copy[j]
    BY <2>1, PutRow, ZenonT(60)
  <2>3. QED BY <1>2, <2>2
<1>3. QED BY <1>1, <1>2 DEF Writes

LEMMA WriteSourceStep == DataInv /\ WriteSource => DataInv'
<1> SUFFICES ASSUME DataInv, WriteSource PROVE DataInv' OBVIOUS
<1>1. source' \in TableRows BY WriteIsTable DEF WriteSource, DataInv
<1>2. QED BY <1>1 DEF WriteSource, DataInv

LEMMA WriteTargetStep == DataInv /\ WriteTarget => DataInv'
<1> SUFFICES ASSUME DataInv, WriteTarget PROVE DataInv' OBVIOUS
<1>1. PICK k \in Keys : ~Held(k) /\ target' \in Writes(target, k) BY DEF WriteTarget
<1>2. PICK other : other = target' OBVIOUS
<1>3. BatchesOK(batch, target, version, dialect) /\ target \in TableRows /\ version \in Nat BY DEF DataInv
<1>4. /\ other \in TableRows /\ DOMAIN other \ {k} = DOMAIN target \ {k}
      /\ \A j \in DOMAIN target \ {k} : other[j] = target[j]
  BY <1>1, <1>2, <1>3, WriteIsTable
<1>5. Later(target, version, other, version + 1) BY <1>3 DEF Later
<1>6. \A a \in Batches : batch[a] # NoBatch => SameRows(batch[a].held, target, other)
  BY <1>1, <1>4, NotHeld DEF Running
<1>7. BatchesOK(batch, other, version + 1, dialect) BY <1>3, <1>5, <1>6, BatchesKept
<1>8. comparing # NotComparing => ComparingOK(comparing, other, version + 1)
  BY <1>5, ComparingKept DEF DataInv
<1>9. comparison # NoComparison => ComparisonOK(comparison, other, version + 1, dialect)
  BY <1>5, ComparisonKept DEF DataInv
<1>10. version + 1 \in Nat BY <1>3
<1>11. QED BY <1>2, <1>4, <1>7, <1>8, <1>9, <1>10 DEF WriteTarget, DataInv

-----------------------------------------------------------------------------
\* Whatever batches and other sessions do to the target, every comparison is
\* sound and, while nothing has changed since, right about it; every batch holds
\* the rows it has changed, and as long as none was missed they are as the
\* source has them (App.tsx, compareSavedDataConnection and
\* applyDataSynchronization; dataCompare.ts).
THEOREM DataInvHolds == DataSpec => []DataInv
<1>1. DataInit => DataInv BY InitialData
<1>2. DataInv /\ [DataNext]_dataVars => DataInv'
  <2> SUFFICES ASSUME DataInv, [DataNext]_dataVars PROVE DataInv' OBVIOUS
  <2>1. CASE CountSource BY <2>1, CountSourceStep
  <2>2. CASE CountTarget BY <2>2, CountTargetStep
  <2>3. CASE SelectSource BY <2>3, SelectSourceStep
  <2>4. CASE SelectTarget BY <2>4, SelectTargetStep
  <2>5. CASE CompareSavedDataConnection BY <2>5, CompareStep
  <2>6. CASE FailComparison BY <2>6, FailComparisonStep
  <2>7. ASSUME NEW b \in Batches, ApplyDataSynchronization(b) PROVE DataInv' BY <2>7, ApplyStep
  <2>8. ASSUME NEW b \in Batches, RunStatement(b) PROVE DataInv' BY <2>8, RunStep
  <2>9. ASSUME NEW b \in Batches, CommitBatch(b) PROVE DataInv' BY <2>9, CommitStep
  <2>10. ASSUME NEW b \in Batches, RollBackBatch(b) PROVE DataInv' BY <2>10, RollBackStep
  <2>11. CASE WriteSource BY <2>11, WriteSourceStep
  <2>12. CASE WriteTarget BY <2>12, WriteTargetStep
  <2>13. CASE UNCHANGED dataVars BY <2>13 DEF dataVars, DataInv
  <2>14. QED
    BY <2>1, <2>2, <2>3, <2>4, <2>5, <2>6, <2>7, <2>8, <2>9, <2>10, <2>11, <2>12, <2>13 DEF DataNext
<1>3. QED BY <1>1, <1>2, PTL DEF DataSpec

\* A synchronization that is reported as applied has left the source's row, or
\* none, for every chosen key, whatever other sessions wrote meanwhile; and one
\* that fails though nobody wrote has met a value the window or the dialect
\* does not keep (dataCompare.ts, buildChangeSql; App.tsx,
\* applyDataSynchronization).
THEOREM SyncReproducesSourceHolds == DataSpec => []SyncReproducesSource
<1>1. DataInv => SyncReproducesSource
  <2> SUFFICES ASSUME DataInv PROVE SyncReproducesSource OBVIOUS
  <2>1. ReportOK(report, dialect) BY DEF DataInv
  <2>2. Applied = Chosen(report) BY DEF Applied, Chosen
  <2>3. \A v : Survives(v) <=> Intact(v, dialect) BY DEF Survives, Intact
  <2>4. QED BY <2>1, <2>2, <2>3 DEF ReportOK, Made, SyncReproducesSource
<1>2. QED BY <1>1, DataInvHolds, PTL

-----------------------------------------------------------------------------
(* A scanner on its way through a text.                                    *)

Classes == {"code", "quoted", "comment"}
Modes == {"code", "quote", "block", "line", "dollar"}
Delimiters == {"--", "/*", "*/", "nl"}
Symbols == STRING \cup Quotes \cup Delimiters
ScanStates == [mode : Modes, quote : Symbols \cup {""}, nest : Int, skip : BOOLEAN, class : Seq(Classes)]

\* The first n symbols have been given the classes they should have.
Reading(s, mode, wanted, n) ==
  s \in ScanStates /\ s.mode = mode /\ ~s.skip /\ s.class = Beginning(wanted, n)

LEMMA ClassGrows ==
  ASSUME NEW wanted \in Seq(Classes), NEW n \in Nat, n < Len(wanted), NEW class, class = Beginning(wanted, n)
  PROVE  Append(class, wanted[n + 1]) = Beginning(wanted, n + 1) /\ Append(class, wanted[n + 1]) \in Seq(Classes)
<1>1. \A i \in 1..n + 1 : wanted[i] \in Classes OBVIOUS
<1>2. class \in Seq(Classes) /\ Len(class) = n /\ \A i \in 1..n : class[i] = wanted[i]
  BY <1>1 DEF Beginning
<1>3. PICK more : more = Append(class, wanted[n + 1]) OBVIOUS
<1>4. /\ more \in Seq(Classes) /\ Len(more) = n + 1 /\ more[n + 1] = wanted[n + 1]
      /\ \A i \in 1..n : more[i] = wanted[i]
  BY <1>1, <1>2, <1>3
<1>5. more = [i \in 1..n + 1 |-> more[i]] BY <1>4
<1>6. \A i \in 1..n + 1 : more[i] = wanted[i]
  <2> SUFFICES ASSUME NEW i \in 1..n + 1 PROVE more[i] = wanted[i] OBVIOUS
  <2>1. i \in 1..n \/ i = n + 1 OBVIOUS
  <2>2. QED BY <1>4, <2>1
<1>7. QED BY <1>3, <1>4, <1>5, <1>6 DEF Beginning

\* A scan, with every state it goes through.
IsScan(text, scanner, f, n) ==
  f = [m \in 0..n |-> IF m = 0 THEN ScanStart ELSE ScanSymbol(text, m, f[m - 1], scanner)]

LEMMA ScanExists ==
  ASSUME NEW text, NEW scanner, NEW n \in Nat
  PROVE  \E f : IsScan(text, scanner, f, n)
<1> DEFINE T == {m \in Nat : ~ \E f : IsScan(text, scanner, f, m)}
<1>1. SUFFICES ASSUME T # {} PROVE FALSE OBVIOUS
<1>2. PICK m \in T : \A k \in T : m <= k BY <1>1, LeastMember
<1>3. CASE m = 0
  <2>1. IsScan(text, scanner, [k \in 0..0 |-> ScanStart], 0) BY DEF IsScan
  <2>2. QED BY <2>1, <1>3
<1>4. CASE m > 0
  <2>1. m - 1 \in Nat /\ m - 1 \notin T BY <1>4, <1>2
  <2>2. PICK g : IsScan(text, scanner, g, m - 1) BY <2>1
  <2>3. PICK last : last = ScanSymbol(text, m, g[m - 1], scanner) OBVIOUS
  <2> DEFINE f == [k \in 0..m |-> IF k < m THEN g[k] ELSE last]
  <2>4. \A k \in 0..m : f[k] = IF k = 0 THEN ScanStart ELSE ScanSymbol(text, k, f[k - 1], scanner)
    <3> SUFFICES ASSUME NEW k \in 0..m
                 PROVE  f[k] = IF k = 0 THEN ScanStart ELSE ScanSymbol(text, k, f[k - 1], scanner)
      OBVIOUS
    <3>1. CASE k = m BY <3>1, <1>4, <2>3
    <3>2. CASE k < m
      <4>1. k \in 0..m - 1 /\ (k # 0 => k - 1 \in 0..m - 1) BY <3>2
      <4>2. g[k] = IF k = 0 THEN ScanStart ELSE ScanSymbol(text, k, g[k - 1], scanner)
        BY <2>2, <4>1 DEF IsScan
      <4>3. QED BY <4>1, <4>2, <3>2
    <3>3. QED BY <3>1, <3>2
  <2>5. f = [k \in 0..m |-> f[k]] OBVIOUS
  <2> HIDE DEF f
  <2>6. IsScan(text, scanner, f, m) BY <2>4, <2>5 DEF IsScan
  <2>7. QED BY <2>6
<1>5. QED BY <1>3, <1>4

LEMMA ScanEnds ==
  ASSUME NEW text, Len(text) \in Nat, NEW scanner
  PROVE  \E f : /\ IsScan(text, scanner, f, Len(text))
                /\ Scan(text, scanner) = [class |-> f[Len(text)].class,
                                          open |-> f[Len(text)].mode \in {"quote", "block"}]
<1> DEFINE State == CHOOSE f : f = [n \in 0..Len(text) |->
                                     IF n = 0 THEN ScanStart ELSE ScanSymbol(text, n, f[n - 1], scanner)]
<1>1. \E f : IsScan(text, scanner, f, Len(text)) BY ScanExists
<1>2. IsScan(text, scanner, State, Len(text)) BY <1>1 DEF IsScan
<1>3. Scan(text, scanner) = [class |-> State[Len(text)].class,
                             open |-> State[Len(text)].mode \in {"quote", "block"}]
  BY DEF Scan
<1> HIDE DEF State
<1>4. QED BY <1>2, <1>3

\* What one symbol does.
LEMMA ScanNext ==
  ASSUME NEW text, NEW scanner, NEW f, Len(text) \in Nat, IsScan(text, scanner, f, Len(text)),
         NEW n \in Nat, n < Len(text)
  PROVE  f[n + 1] = ScanSymbol(text, n + 1, f[n], scanner)
<1>1. n + 1 \in 0..Len(text) /\ n + 1 # 0 /\ (n + 1) - 1 = n OBVIOUS
<1>2. f[n + 1] = IF n + 1 = 0 THEN ScanStart ELSE ScanSymbol(text, n + 1, f[(n + 1) - 1], scanner)
  BY <1>1 DEF IsScan
<1>3. QED BY <1>1, <1>2

Moved(s, mode, nest, class) == [s EXCEPT !.mode = mode, !.nest = nest, !.class = class]

LEMMA StateMoves ==
  ASSUME NEW wanted \in Seq(Classes), NEW n \in Nat, n < Len(wanted), NEW s, NEW from, Reading(s, from, wanted, n),
         NEW mode \in Modes, NEW nest \in Int
  PROVE  LET next == Moved(s, mode, nest, Append(s.class, wanted[n + 1]))
         IN  Reading(next, mode, wanted, n + 1) /\ next.nest = nest /\ next.quote = s.quote
<1>1. PICK class : class = Append(s.class, wanted[n + 1]) OBVIOUS
<1>2. class = Beginning(wanted, n + 1) /\ class \in Seq(Classes) BY <1>1, ClassGrows DEF Reading
<1>3. PICK next : next = Moved(s, mode, nest, class) OBVIOUS
<1>4. next.mode = mode /\ next.nest = nest /\ next.class = class /\ next.skip = s.skip /\ next.quote = s.quote
  BY <1>3 DEF ScanStates, Moved, Reading
<1>5. next = [mode |-> next.mode, quote |-> next.quote, nest |-> next.nest, skip |-> next.skip,
              class |-> next.class]
  BY <1>3 DEF ScanStates, Moved, Reading
<1>6. next \in ScanStates BY <1>2, <1>4, <1>5 DEF ScanStates, Reading
<1>7. Reading(next, mode, wanted, n + 1) BY <1>2, <1>4, <1>6 DEF Reading
<1>8. QED BY <1>1, <1>3, <1>4, <1>7

LEMMA InCode ==
  ASSUME NEW text, NEW scanner, NEW wanted \in Seq(Classes), NEW n \in Nat, n < Len(wanted), NEW s,
         Reading(s, "code", wanted, n), text[n + 1] \notin Quotes,
         scanner.comments => text[n + 1] \notin {"--", "/*"},
         scanner.dollar # "code" => text[n + 1] # "$$", wanted[n + 1] = "code"
  PROVE  Reading(ScanSymbol(text, n + 1, s, scanner), "code", wanted, n + 1)
<1>1. ScanSymbol(text, n + 1, s, scanner) = [s EXCEPT !.class = Append(@, "code")]
  BY DEF ScanSymbol, ScanCode, Reading
<1>2. Append(s.class, "code") = Beginning(wanted, n + 1) /\ Append(s.class, "code") \in Seq(Classes)
  BY ClassGrows DEF Reading
<1>3. QED BY <1>1, <1>2 DEF Reading, ScanStates

LEMMA OpensQuote ==
  ASSUME NEW text, NEW scanner, NEW wanted \in Seq(Classes), NEW n \in Nat, n < Len(wanted), NEW s,
         Reading(s, "code", wanted, n), text[n + 1] \in Quotes, wanted[n + 1] = "quoted"
  PROVE  /\ Reading(ScanSymbol(text, n + 1, s, scanner), "quote", wanted, n + 1)
         /\ ScanSymbol(text, n + 1, s, scanner).quote = text[n + 1]
<1>1. ScanSymbol(text, n + 1, s, scanner) =
        [s EXCEPT !.mode = "quote", !.quote = text[n + 1], !.class = Append(@, "quoted")]
  BY DEF ScanSymbol, ScanCode, Reading
<1>2. Append(s.class, "quoted") = Beginning(wanted, n + 1) /\ Append(s.class, "quoted") \in Seq(Classes)
  BY ClassGrows DEF Reading
<1>3. QED BY <1>1, <1>2 DEF Reading, ScanStates, Modes, Symbols

LEMMA InLine ==
  ASSUME NEW text, NEW scanner, NEW wanted \in Seq(Classes), NEW n \in Nat, n < Len(wanted), NEW s,
         wanted[n + 1] = "comment"
  PROVE  /\ Reading(s, "code", wanted, n) /\ scanner.comments /\ text[n + 1] = "--" =>
              Reading(ScanSymbol(text, n + 1, s, scanner), "line", wanted, n + 1)
         /\ Reading(s, "line", wanted, n) =>
              Reading(ScanSymbol(text, n + 1, s, scanner), IF text[n + 1] = "nl" THEN "code" ELSE "line",
                      wanted, n + 1)
<1>1. s.class = Beginning(wanted, n) =>
        Append(s.class, "comment") = Beginning(wanted, n + 1) /\ Append(s.class, "comment") \in Seq(Classes)
  BY ClassGrows
<1>2. ASSUME Reading(s, "code", wanted, n), scanner.comments, text[n + 1] = "--"
      PROVE  Reading(ScanSymbol(text, n + 1, s, scanner), "line", wanted, n + 1)
  <2>1. ScanSymbol(text, n + 1, s, scanner) = [s EXCEPT !.mode = "line", !.class = Append(@, "comment")]
    BY <1>2 DEF ScanSymbol, ScanCode, Reading, Quotes
  <2>2. QED BY <1>1, <1>2, <2>1 DEF Reading, ScanStates, Modes
<1>3. ASSUME Reading(s, "line", wanted, n)
      PROVE  Reading(ScanSymbol(text, n + 1, s, scanner), IF text[n + 1] = "nl" THEN "code" ELSE "line",
                     wanted, n + 1)
  <2>1. ScanSymbol(text, n + 1, s, scanner) =
          [s EXCEPT !.mode = IF text[n + 1] = "nl" THEN "code" ELSE @, !.class = Append(@, "comment")]
    BY <1>3 DEF ScanSymbol, Reading
  <2>2. QED BY <1>1, <1>3, <2>1 DEF Reading, ScanStates, Modes
<1>4. QED BY <1>2, <1>3

LEMMA InBlock ==
  ASSUME NEW text, NEW scanner, NEW wanted \in Seq(Classes), NEW n \in Nat, n < Len(wanted), NEW s,
         wanted[n + 1] = "comment"
  PROVE  /\ Reading(s, "code", wanted, n) /\ scanner.comments /\ text[n + 1] = "/*" =>
              /\ Reading(ScanSymbol(text, n + 1, s, scanner), "block", wanted, n + 1)
              /\ ScanSymbol(text, n + 1, s, scanner).nest = 1
         /\ Reading(s, "block", wanted, n) /\ s.nest = 1 /\ text[n + 1] # "/*" =>
              /\ Reading(ScanSymbol(text, n + 1, s, scanner), IF text[n + 1] = "*/" THEN "code" ELSE "block",
                         wanted, n + 1)
              /\ text[n + 1] # "*/" => ScanSymbol(text, n + 1, s, scanner).nest = 1
<1>1. PICK next : next = ScanSymbol(text, n + 1, s, scanner) OBVIOUS
<1>2. ASSUME Reading(s, "code", wanted, n), scanner.comments, text[n + 1] = "/*"
      PROVE  Reading(next, "block", wanted, n + 1) /\ next.nest = 1
  <2>1. next = Moved(s, "block", 1, Append(s.class, "comment"))
    BY <1>1, <1>2 DEF ScanSymbol, ScanCode, Reading, Quotes, Moved
  <2>2. "block" \in Modes BY DEF Modes
  <2>3. QED BY <1>2, <2>1, <2>2, StateMoves
<1>3. ASSUME Reading(s, "block", wanted, n), s.nest = 1, text[n + 1] # "/*"
      PROVE  /\ Reading(next, IF text[n + 1] = "*/" THEN "code" ELSE "block", wanted, n + 1)
             /\ text[n + 1] # "*/" => next.nest = 1
  <2>1. next = ScanBlock(text[n + 1], s, scanner) BY <1>1, <1>3 DEF ScanSymbol, Reading
  <2>2. next = LET nest == IF text[n + 1] = "*/" THEN 0 ELSE 1
               IN  Moved(s, IF nest = 0 THEN "code" ELSE s.mode, nest, Append(s.class, "comment"))
    <3>1. CASE text[n + 1] = "*/"
      <4>1. next = [s EXCEPT !.mode = "code", !.nest = 0, !.class = Append(@, "comment")]
        BY <1>3, <2>1, <3>1 DEF ScanBlock, Reading
      <4>2. QED BY <3>1, <4>1 DEF Moved
    <3>2. CASE text[n + 1] # "*/"
      <4>1. next = [s EXCEPT !.mode = s.mode, !.nest = 1, !.class = Append(@, "comment")]
        BY <1>3, <2>1, <3>2 DEF ScanBlock
      <4>2. QED BY <3>2, <4>1 DEF Moved
    <3>3. QED BY <3>1, <3>2
  <2>3. s.mode = "block" /\ {"block", "code"} \subseteq Modes BY <1>3 DEF Reading, Modes
  <2>4. CASE text[n + 1] = "*/"
    <3>1. next = Moved(s, "code", 0, Append(s.class, "comment")) BY <2>2, <2>4
    <3>2. Reading(next, "code", wanted, n + 1) BY <1>3, <2>3, <3>1, StateMoves
    <3>3. QED BY <2>4, <3>2
  <2>5. CASE text[n + 1] # "*/"
    <3>1. next = Moved(s, "block", 1, Append(s.class, "comment")) BY <2>2, <2>3, <2>5
    <3>2. Reading(next, "block", wanted, n + 1) /\ next.nest = 1 BY <1>3, <2>3, <3>1, StateMoves
    <3>3. QED BY <2>5, <3>2
  <2>6. QED BY <2>4, <2>5
<1>4. QED BY <1>1, <1>2, <1>3

\* An ordinary symbol in quotes, a quote that is written twice, and the
\* closing quote.
LEMMA InQuote ==
  ASSUME NEW text, NEW scanner, NEW wanted \in Seq(Classes), NEW n \in Nat, n < Len(wanted), NEW s,
         Reading(s, "quote", wanted, n), wanted[n + 1] = "quoted", text[n + 1] # Backslash,
         text[n + 1] # s.quote
  PROVE  /\ Reading(ScanSymbol(text, n + 1, s, scanner), "quote", wanted, n + 1)
         /\ ScanSymbol(text, n + 1, s, scanner).quote = s.quote
<1>1. ScanSymbol(text, n + 1, s, scanner) = [s EXCEPT !.class = Append(@, "quoted")]
  BY DEF ScanSymbol, ScanQuote, Reading
<1>2. Append(s.class, "quoted") = Beginning(wanted, n + 1) /\ Append(s.class, "quoted") \in Seq(Classes)
  BY ClassGrows DEF Reading
<1>3. QED BY <1>1, <1>2 DEF Reading, ScanStates

LEMMA ClosesQuote ==
  ASSUME NEW text, NEW scanner, NEW wanted \in Seq(Classes), NEW n \in Nat, n < Len(wanted), NEW s,
         Reading(s, "quote", wanted, n), wanted[n + 1] = "quoted", text[n + 1] # Backslash,
         text[n + 1] = s.quote, text[n] # Backslash, n + 1 < Len(text) => text[n + 2] # s.quote
  PROVE  Reading(ScanSymbol(text, n + 1, s, scanner), "code", wanted, n + 1)
<1>1. AfterQuote(text, n + 1, s, scanner) = "end"
  <2>1. (n + 1) - 1 = n /\ (n + 1) + 1 = n + 2 OBVIOUS
  <2>2. QED BY <2>1 DEF AfterQuote
<1>2. ScanSymbol(text, n + 1, s, scanner) = [s EXCEPT !.class = Append(@, "quoted"), !.mode = "code"]
  BY <1>1 DEF ScanSymbol, ScanQuote, Reading, ScanStates
<1>3. Append(s.class, "quoted") = Beginning(wanted, n + 1) /\ Append(s.class, "quoted") \in Seq(Classes)
  BY ClassGrows DEF Reading
<1>4. QED BY <1>2, <1>3 DEF Reading, ScanStates, Modes

LEMMA InDoubledQuote ==
  ASSUME NEW text, Len(text) \in Nat, NEW scanner, NEW wanted \in Seq(Classes), Len(wanted) = Len(text),
         NEW n \in Nat, n + 2 <= Len(wanted), NEW s,
         Reading(s, "quote", wanted, n), wanted[n + 1] = "quoted", wanted[n + 2] = "quoted",
         text[n + 1] # Backslash, text[n + 1] = s.quote, text[n] # Backslash, text[n + 2] = s.quote,
         NEW t, t = ScanSymbol(text, n + 1, s, scanner)
  PROVE  /\ Reading(ScanSymbol(text, n + 2, t, scanner), "quote", wanted, n + 2)
         /\ ScanSymbol(text, n + 2, t, scanner).quote = s.quote
<1>1. AfterQuote(text, n + 1, s, scanner) = "skip"
  <2>1. (n + 1) - 1 = n /\ (n + 1) + 1 = n + 2 /\ n + 1 < Len(text) OBVIOUS
  <2>2. QED BY <2>1 DEF AfterQuote
<1>2. t = [s EXCEPT !.class = Append(@, "quoted"), !.skip = TRUE]
  BY <1>1 DEF ScanSymbol, ScanQuote, Reading, ScanStates
<1>3. PICK class : class = Append(s.class, "quoted") OBVIOUS
<1>4. class = Beginning(wanted, n + 1) /\ class \in Seq(Classes)
  BY <1>3, ClassGrows DEF Reading
<1>5. t.skip /\ t.mode = "quote" /\ t.class = class /\ t.quote = s.quote /\ t \in ScanStates
  <2>1. t = [s EXCEPT !.class = class, !.skip = TRUE] BY <1>2, <1>3
  <2>2. t.skip /\ t.mode = "quote" /\ t.class = class /\ t.quote = s.quote /\ t.nest = s.nest
    BY <2>1 DEF Reading, ScanStates
  <2>3. t = [mode |-> t.mode, quote |-> t.quote, nest |-> t.nest, skip |-> TRUE, class |-> t.class]
    BY <2>1 DEF Reading, ScanStates
  <2>4. QED BY <1>4, <2>2, <2>3 DEF Reading, ScanStates
<1>6. ScanSymbol(text, n + 2, t, scanner) = [t EXCEPT !.skip = FALSE, !.class = Append(@, "quoted")]
  BY <1>5 DEF ScanSymbol
<1>7. Append(t.class, "quoted") = Beginning(wanted, n + 2) /\ Append(t.class, "quoted") \in Seq(Classes)
  <2>1. n + 1 \in Nat /\ n + 1 < Len(wanted) /\ (n + 1) + 1 = n + 2 OBVIOUS
  <2>2. QED BY <1>4, <1>5, <2>1, ClassGrows
<1>8. QED BY <1>5, <1>6, <1>7 DEF Reading, ScanStates

-----------------------------------------------------------------------------
(* A segment, from its first to its last symbol.                           *)

\* A part of a text, and what is in it has the same class.
At(text, wanted, o, part, class) ==
  /\ o \in Nat /\ Len(part) \in Nat /\ o + Len(part) <= Len(text)
  /\ \A i \in 1..Len(part) : text[o + i] = part[i] /\ wanted[o + i] = class
Scanned(text, scanner, wanted, f) ==
  /\ text \in Seq(Symbols) /\ wanted \in Seq(Classes) /\ Len(wanted) = Len(text)
  /\ IsScan(text, scanner, f, Len(text))

LEMMA Framed ==
  ASSUME NEW a \in Symbols, NEW b \in Symbols, NEW part \in Seq(Symbols)
  PROVE  /\ <<a>> \o part \in Seq(Symbols) /\ <<a>> \o part \o <<b>> \in Seq(Symbols)
         /\ Len(<<a>> \o part) = Len(part) + 1 /\ Len(<<a>> \o part \o <<b>>) = Len(part) + 2
         /\ (<<a>> \o part)[1] = a /\ (<<a>> \o part \o <<b>>)[1] = a
         /\ \A i \in 1..Len(part) : (<<a>> \o part)[i + 1] = part[i] /\ (<<a>> \o part \o <<b>>)[i + 1] = part[i]
         /\ (<<a>> \o part \o <<b>>)[Len(part) + 2] = b
<1>1. PICK n \in Nat : n = Len(part) OBVIOUS
<1>2. <<a>> \in Seq(Symbols) /\ Len(<<a>>) = 1 /\ <<b>> \in Seq(Symbols) /\ Len(<<b>>) = 1 OBVIOUS
<1>3. PICK s : s = <<a>> \o part OBVIOUS
<1>4. s \in Seq(Symbols) /\ Len(s) = n + 1 /\ s[1] = a /\ \A i \in 1..n : s[i + 1] = part[i]
  BY <1>1, <1>2, <1>3
<1>5. PICK t : t = s \o <<b>> OBVIOUS
<1>6. t \in Seq(Symbols) /\ Len(t) = n + 2 /\ t[n + 2] = b /\ \A i \in 1..n + 1 : t[i] = s[i]
  BY <1>2, <1>4, <1>5
<1>7. t[1] = a /\ \A i \in 1..n : t[i + 1] = part[i] BY <1>4, <1>6
<1>8. QED BY <1>1, <1>3, <1>4, <1>5, <1>6, <1>7

LEMMA ReadsOn ==
  ASSUME NEW text, NEW scanner, NEW wanted, NEW f, Scanned(text, scanner, wanted, f),
         NEW n \in Nat, n < Len(text)
  PROVE  f[n + 1] = ScanSymbol(text, n + 1, f[n], scanner) /\ n < Len(wanted) /\ wanted \in Seq(Classes)
BY ScanNext DEF Scanned

\* The class in the quotes is right up to any place between two of its symbols.
WithinQuotes(f, wanted, q, n) == Reading(f[n], "quote", wanted, n) /\ f[n].quote = q

LEMMA ReadsQuotedSymbol ==
  ASSUME NEW text, NEW scanner, NEW wanted, NEW f, Scanned(text, scanner, wanted, f),
         NEW q, NEW n \in Nat, NEW part, part = <<q, q>> \/ \E c : c \notin {q, Backslash} /\ part = <<c>>,
         q # Backslash, WithinQuotes(f, wanted, q, n), At(text, wanted, n, part, "quoted"), text[n] # Backslash
  PROVE  WithinQuotes(f, wanted, q, n + Len(part)) /\ text[n + Len(part)] # Backslash
<1>1. CASE part = <<q, q>>
  <2>1. Len(part) = 2 /\ part[1] = q /\ part[2] = q BY <1>1
  <2>2. /\ n + 2 <= Len(text) /\ text[n + 1] = q /\ text[n + 2] = q
        /\ wanted[n + 1] = "quoted" /\ wanted[n + 2] = "quoted"
    BY <2>1 DEF At
  <2>3. Len(text) \in Nat /\ Len(wanted) = Len(text) BY DEF Scanned
  <2>4. n + 1 \in Nat /\ (n + 1) + 1 = n + 2 /\ n < Len(text) /\ n + 1 < Len(text) BY <2>2, <2>3
  <2>5. f[n + 1] = ScanSymbol(text, n + 1, f[n], scanner) /\ f[n + 2] = ScanSymbol(text, n + 2, f[n + 1], scanner)
    BY <2>4, ReadsOn
  <2>6. wanted \in Seq(Classes) BY DEF Scanned
  <2>7. Reading(f[n + 2], "quote", wanted, n + 2) /\ f[n + 2].quote = q
    BY <2>2, <2>3, <2>5, <2>6, InDoubledQuote DEF WithinQuotes
  <2>8. QED BY <2>1, <2>2, <2>7 DEF WithinQuotes
<1>2. CASE \E c : c \notin {q, Backslash} /\ part = <<c>>
  <2>1. PICK c : c \notin {q, Backslash} /\ part = <<c>> BY <1>2
  <2>2. Len(part) = 1 /\ part[1] = c BY <2>1
  <2>3. n + 1 <= Len(text) /\ text[n + 1] = c /\ wanted[n + 1] = "quoted" BY <2>2 DEF At
  <2>4. Len(text) \in Nat BY DEF Scanned
  <2>5. n < Len(text) BY <2>3, <2>4
  <2>6. f[n + 1] = ScanSymbol(text, n + 1, f[n], scanner) /\ n < Len(wanted) /\ wanted \in Seq(Classes)
    BY <2>5, ReadsOn
  <2>7. Reading(f[n + 1], "quote", wanted, n + 1) /\ f[n + 1].quote = q
    <3>1. PICK s : s = f[n] OBVIOUS
    <3>2. Reading(s, "quote", wanted, n) /\ s.quote = q BY <3>1 DEF WithinQuotes
    <3>3. text[n + 1] # s.quote /\ text[n + 1] # Backslash BY <2>1, <2>3, <3>2
    <3>4. /\ Reading(ScanSymbol(text, n + 1, s, scanner), "quote", wanted, n + 1)
          /\ ScanSymbol(text, n + 1, s, scanner).quote = s.quote
      <4>1. wanted \in Seq(Classes) /\ n < Len(wanted) /\ wanted[n + 1] = "quoted" BY <2>3, <2>6
      <4>2. n \in Nat /\ n < Len(wanted) BY <4>1
      <4>3. ASSUME text[n + 1] # s.quote, text[n + 1] # Backslash, Reading(s, "quote", wanted, n)
            PROVE  /\ Reading(ScanSymbol(text, n + 1, s, scanner), "quote", wanted, n + 1)
                   /\ ScanSymbol(text, n + 1, s, scanner).quote = s.quote
        BY <4>1, <4>2, <4>3, InQuote
      <4>4. QED BY <3>2, <3>3, <4>3
    <3>5. QED BY <2>6, <3>1, <3>2, <3>4
  <2>8. QED BY <2>1, <2>2, <2>3, <2>7 DEF WithinQuotes
<1>3. QED BY <1>1, <1>2

DoubledParts(inside, q) == [n \in DOMAIN inside |-> IF inside[n] = q THEN <<q, q>> ELSE <<inside[n]>>]

LEMMA DoubledIsText ==
  ASSUME NEW inside \in Seq(Symbols \ {Backslash}), NEW q \in Quotes
  PROVE  /\ DoubledParts(inside, q) \in Seq(Seq(Symbols)) /\ Len(DoubledParts(inside, q)) = Len(inside)
         /\ Doubled(inside, q) = FlattenSeq(DoubledParts(inside, q)) /\ Doubled(inside, q) \in Seq(Symbols)
         /\ \A k \in 1..Len(inside) :
              LET part == DoubledParts(inside, q)[k]
              IN  part = <<q, q>> \/ \E c : c \notin {q, Backslash} /\ part = <<c>>
<1>1. PICK n \in Nat : n = Len(inside) OBVIOUS
<1>2. PICK parts : parts = DoubledParts(inside, q) OBVIOUS
<1>3. parts = [k \in 1..n |-> IF inside[k] = q THEN <<q, q>> ELSE <<inside[k]>>]
  BY <1>1, <1>2 DEF DoubledParts
<1>4. \A k \in 1..n : inside[k] \in Symbols /\ inside[k] # Backslash BY <1>1
<1>5. \A k \in 1..n : parts[k] = IF inside[k] = q THEN <<q, q>> ELSE <<inside[k]>> BY <1>3
<1>6. q \in Symbols BY DEF Symbols
<1>7. \A k \in 1..n : parts[k] \in Seq(Symbols)
  <2> SUFFICES ASSUME NEW k \in 1..n PROVE parts[k] \in Seq(Symbols) OBVIOUS
  <2>1. <<q, q>> \in Seq(Symbols) /\ <<inside[k]>> \in Seq(Symbols) BY <1>4, <1>6
  <2>2. QED BY <1>5, <2>1
<1>8. parts \in Seq(Seq(Symbols)) /\ Len(parts) = n BY <1>3, <1>7
<1>9. Doubled(inside, q) = FlattenSeq(parts) BY <1>2 DEF Doubled, DoubledParts
<1>10. Doubled(inside, q) \in Seq(Symbols) BY <1>8, <1>9, FlattenParts
<1>11. ASSUME NEW k \in 1..n PROVE parts[k] = <<q, q>> \/ \E c : c \notin {q, Backslash} /\ parts[k] = <<c>>
  BY <1>4, <1>5
<1>12. QED BY <1>1, <1>2, <1>8, <1>9, <1>10, <1>11

\* From the opening quote to the end of what is in the quotes.
LEMMA ReadsQuoted ==
  ASSUME NEW text, NEW scanner, NEW wanted, NEW f, Scanned(text, scanner, wanted, f),
         NEW q \in Quotes, NEW inside \in Seq(Symbols \ {Backslash}), NEW n \in Nat,
         At(text, wanted, n, <<q>> \o Doubled(inside, q), "quoted"), Reading(f[n], "code", wanted, n)
  PROVE  /\ WithinQuotes(f, wanted, q, n + 1 + Len(Doubled(inside, q)))
         /\ text[n + 1 + Len(Doubled(inside, q))] # Backslash
<1>1. PICK d \in Seq(Symbols) : d = Doubled(inside, q) BY DoubledIsText
<1>2. PICK parts : parts = DoubledParts(inside, q) OBVIOUS
<1>3. PICK m \in Nat : m = Len(inside) OBVIOUS
<1>4. /\ parts \in Seq(Seq(Symbols)) /\ Len(parts) = m /\ d = FlattenSeq(parts)
      /\ \A k \in 1..m : parts[k] = <<q, q>> \/ \E c : c \notin {q, Backslash} /\ parts[k] = <<c>>
  BY <1>1, <1>2, <1>3, DoubledIsText
<1>5. PICK off : /\ IsOffsets(off, parts) /\ off[m] = Len(d)
                 /\ \A k \in 1..m : \A i \in 1..Len(parts[k]) : d[off[k - 1] + i] = parts[k][i]
  <2>1. \E off : /\ IsOffsets(off, parts) /\ off[Len(parts)] = Len(FlattenSeq(parts))
                 /\ \A k \in 1..Len(parts) : \A i \in 1..Len(parts[k]) :
                      FlattenSeq(parts)[off[k - 1] + i] = parts[k][i]
    BY <1>4, FlattenParts
  <2>2. Len(parts) = m /\ FlattenSeq(parts) = d BY <1>4
  <2>3. QED BY <2>1, <2>2, ZenonT(60)
<1>6. PICK l \in Nat : l = Len(d) BY <1>1
<1>7. /\ n + 1 + l <= Len(text) /\ text[n + 1] = q /\ wanted[n + 1] = "quoted"
      /\ \A i \in 1..l : text[n + 1 + i] = d[i] /\ wanted[n + 1 + i] = "quoted"
  <2>1. PICK whole : whole = <<q>> \o d OBVIOUS
  <2>2. Len(whole) = l + 1 /\ whole[1] = q /\ \A i \in 1..l : whole[i + 1] = d[i]
    BY <1>1, <1>6, <2>1, Framed DEF Symbols
  <2>3. n + (l + 1) <= Len(text) /\ \A i \in 1..l + 1 : text[n + i] = whole[i] /\ wanted[n + i] = "quoted"
    BY <1>1, <2>1, <2>2 DEF At
  <2>4. Len(text) \in Nat BY DEF Scanned
  <2>5. 1 \in 1..l + 1 /\ \A i \in 1..l : i + 1 \in 1..l + 1 /\ n + 1 + i = n + (i + 1) OBVIOUS
  <2>6. QED BY <2>2, <2>3, <2>4, <2>5
<1>8. q # Backslash BY DEF Quotes, Backslash
<1>9. WithinQuotes(f, wanted, q, n + 1)
  <2>1. Len(text) \in Nat BY DEF Scanned
  <2>2. n < Len(text) BY <1>7, <2>1
  <2>3. f[n + 1] = ScanSymbol(text, n + 1, f[n], scanner) /\ n < Len(wanted) /\ wanted \in Seq(Classes)
    BY <2>2, ReadsOn
  <2>4. PICK s : s = f[n] OBVIOUS
  <2>5. /\ Reading(ScanSymbol(text, n + 1, s, scanner), "quote", wanted, n + 1)
        /\ ScanSymbol(text, n + 1, s, scanner).quote = text[n + 1]
    <3>1. wanted \in Seq(Classes) /\ n < Len(wanted) /\ wanted[n + 1] = "quoted" BY <1>7, <2>3
    <3>2. Reading(s, "code", wanted, n) /\ text[n + 1] \in Quotes BY <1>7, <2>4
    <3>3. QED BY ONLY n \in Nat, <3>1, <3>2, OpensQuote
  <2>6. QED BY <1>7, <2>3, <2>4, <2>5 DEF WithinQuotes
<1>10. \A k \in 0..m : /\ off[k] \in Nat /\ WithinQuotes(f, wanted, q, n + 1 + off[k])
                       /\ text[n + 1 + off[k]] # Backslash
  <2> DEFINE T == {k \in Nat : k \in 0..m /\ ~(/\ off[k] \in Nat /\ WithinQuotes(f, wanted, q, n + 1 + off[k])
                                               /\ text[n + 1 + off[k]] # Backslash)}
  <2>1. SUFFICES ASSUME T # {} PROVE FALSE OBVIOUS
  <2>2. PICK k \in T : \A j \in T : k <= j BY <2>1, LeastMember
  <2>3. off[0] = 0 /\ n + 1 + 0 = n + 1 BY <1>5 DEF IsOffsets
  <2>4. k # 0 BY <1>7, <1>8, <1>9, <2>2, <2>3
  <2>5. k \in 1..m /\ k - 1 \in Nat /\ k - 1 \in 0..m /\ k - 1 \notin T BY <2>2, <2>4
  <2>6. PICK o \in Nat : o = off[k - 1] BY <2>5
  <2>7. WithinQuotes(f, wanted, q, n + 1 + o) /\ text[n + 1 + o] # Backslash BY <2>5, <2>6
  <2>8. PICK part : part = parts[k] OBVIOUS
  <2>9. /\ off[k] = o + Len(part) /\ Len(part) \in Nat /\ o + Len(part) <= l
        /\ part = <<q, q>> \/ \E c : c \notin {q, Backslash} /\ part = <<c>>
        /\ \A i \in 1..Len(part) : d[o + i] = part[i]
    <3>1. off[k] = o + Len(part) BY <1>4, <1>5, <2>5, <2>6, <2>8 DEF IsOffsets
    <3>2. part \in Seq(Symbols) BY <1>4, <2>5, <2>8
    <3>3. off[k] <= off[m]
      <4>1. \A i \in 1..m : Len(parts[i]) \in Nat BY <1>4
      <4>2. k \in 0..m /\ m \in 0..m /\ k <= m BY <2>5
      <4>3. QED BY <1>4, <1>5, <4>1, <4>2, OffsetsGrow
    <3>4. Len(part) \in Nat /\ o + Len(part) <= l BY <1>5, <1>6, <3>1, <3>2, <3>3
    <3>5. part = <<q, q>> \/ \E c : c \notin {q, Backslash} /\ part = <<c>> BY <1>4, <2>5, <2>8
    <3>6. \A i \in 1..Len(part) : d[o + i] = part[i] BY <1>5, <2>5, <2>6, <2>8
    <3>7. QED BY <3>1, <3>4, <3>5, <3>6
  <2>10. At(text, wanted, n + 1 + o, part, "quoted")
    <3>1. \A i \in 1..Len(part) : o + i \in 1..l /\ n + 1 + (o + i) = (n + 1 + o) + i BY <2>9
    <3>2. ASSUME NEW i \in 1..Len(part)
          PROVE  text[(n + 1 + o) + i] = part[i] /\ wanted[(n + 1 + o) + i] = "quoted"
      <4>1. PICK j : j = o + i OBVIOUS
      <4>2. j \in 1..l /\ n + 1 + j = (n + 1 + o) + i BY <3>1, <4>1
      <4>3. text[n + 1 + j] = d[j] /\ wanted[n + 1 + j] = "quoted" BY <1>7, <4>2
      <4>4. QED BY <2>9, <4>1, <4>2, <4>3
    <3>3. (n + 1 + o) + Len(part) <= Len(text)
      <4>1. Len(text) \in Nat BY DEF Scanned
      <4>2. QED BY <1>7, <2>9, <4>1
    <3>4. QED BY <2>9, <3>2, <3>3 DEF At
  <2>11. /\ WithinQuotes(f, wanted, q, (n + 1 + o) + Len(part)) /\ text[(n + 1 + o) + Len(part)] # Backslash
    <3>1. n + 1 + o \in Nat OBVIOUS
    <3>2. QED BY <1>8, <2>7, <2>9, <2>10, <3>1, ReadsQuotedSymbol
  <2>12. (n + 1 + o) + Len(part) = n + 1 + off[k] /\ off[k] \in Nat BY <2>9
  <2>13. QED BY <2>2, <2>11, <2>12
<1>11. m \in 0..m /\ off[m] = Len(Doubled(inside, q)) BY <1>1, <1>5
<1>12. QED BY <1>10, <1>11

LEMMA ReadsValue ==
  ASSUME NEW text, NEW scanner, NEW wanted, NEW f, Scanned(text, scanner, wanted, f),
         NEW q \in Quotes, NEW inside \in Seq(Symbols \ {Backslash}), NEW n \in Nat, NEW value,
         value = <<q>> \o Doubled(inside, q) \o <<q>>, At(text, wanted, n, value, "quoted"),
         n + Len(value) < Len(text) => text[n + Len(value) + 1] # q, Reading(f[n], "code", wanted, n)
  PROVE  Reading(f[n + Len(value)], "code", wanted, n + Len(value))
<1>1. PICK d \in Seq(Symbols) : d = Doubled(inside, q) BY DoubledIsText
<1>2. PICK l \in Nat : l = Len(d) BY <1>1
<1>3. PICK front : front = <<q>> \o d OBVIOUS
<1>4. /\ value \in Seq(Symbols) /\ Len(value) = l + 2 /\ Len(front) = l + 1 /\ value[l + 2] = q
      /\ value[1] = q /\ front[1] = q /\ \A i \in 1..l : value[i + 1] = d[i] /\ front[i + 1] = d[i]
  BY <1>1, <1>2, <1>3, Framed DEF Symbols
<1>5. /\ n + (l + 2) <= Len(text) /\ Len(text) \in Nat
      /\ \A i \in 1..l + 2 : text[n + i] = value[i] /\ wanted[n + i] = "quoted"
  <2>1. Len(text) \in Nat BY DEF Scanned
  <2>2. PICK k \in Nat : k = l + 2 OBVIOUS
  <2>3. Len(value) = k BY <1>4, <2>2
  <2>4. n + k <= Len(text) /\ \A i \in 1..k : text[n + i] = value[i] /\ wanted[n + i] = "quoted"
    <3>1. At(text, wanted, n, value, "quoted") OBVIOUS
    <3>2. QED BY <2>3, <3>1 DEF At
  <2>5. QED BY <2>1, <2>2, <2>4
<1>6. At(text, wanted, n, front, "quoted")
  <2>1. ASSUME NEW i \in 1..l + 1 PROVE text[n + i] = front[i] /\ wanted[n + i] = "quoted"
    <3>1. text[n + i] = value[i] /\ wanted[n + i] = "quoted"
      <4>1. i \in 1..l + 2 OBVIOUS
      <4>2. QED BY <1>5, <4>1
    <3>2. CASE i = 1 BY <1>4, <3>1, <3>2
    <3>3. CASE i # 1
      <4>1. PICK j \in 1..l : i = j + 1
        <5>1. i - 1 \in 1..l /\ i = (i - 1) + 1 BY <3>3
        <5>2. QED BY <5>1
      <4>2. value[j + 1] = front[j + 1] BY <1>4
      <4>3. QED BY <3>1, <4>1, <4>2
    <3>4. QED BY <3>2, <3>3
  <2>2. n + (l + 1) <= Len(text) /\ l + 1 \in Nat BY <1>5
  <2>3. QED BY <1>4, <2>1, <2>2 DEF At
<1>7. PICK m \in Nat : m = n + 1 + l OBVIOUS
<1>8. WithinQuotes(f, wanted, q, m) /\ text[m] # Backslash BY <1>1, <1>2, <1>3, <1>6, <1>7, ReadsQuoted
<1>9. m + 1 = n + (l + 2) /\ m < Len(text) BY <1>5, <1>7
<1>10. text[m + 1] = q /\ wanted[m + 1] = "quoted"
  <2>1. l + 2 \in 1..l + 2 OBVIOUS
  <2>2. text[n + (l + 2)] = q /\ wanted[n + (l + 2)] = "quoted" BY <1>4, <1>5, <2>1
  <2>3. QED BY <1>9, <2>2
<1>11. m + 1 < Len(text) => text[m + 2] # q
  <2>1. PICK k \in Nat : k = Len(value) BY <1>4
  <2>2. m + 1 = n + k /\ m + 2 = n + k + 1 BY <1>4, <1>9, <2>1
  <2>3. QED BY <2>1, <2>2
<1>12. f[m + 1] = ScanSymbol(text, m + 1, f[m], scanner) /\ m < Len(wanted) /\ wanted \in Seq(Classes)
  BY <1>9, ReadsOn
<1>13. PICK s : s = f[m] OBVIOUS
<1>14. Reading(s, "quote", wanted, m) /\ s.quote = q BY <1>8, <1>13 DEF WithinQuotes
<1>15. q # Backslash BY DEF Quotes, Backslash
<1>16. Reading(ScanSymbol(text, m + 1, s, scanner), "code", wanted, m + 1)
  BY <1>8, <1>10, <1>11, <1>12, <1>14, <1>15, ClosesQuote
<1>17. QED BY <1>4, <1>9, <1>12, <1>13, <1>16, ZenonT(60)

\* Symbols that are none of the delimiters a scanner looks for.
LEMMA ReadsPlain ==
  ASSUME NEW text, NEW scanner, NEW wanted, NEW f, Scanned(text, scanner, wanted, f),
         NEW n \in Nat, NEW part \in Seq(Symbols), At(text, wanted, n, part, "code"),
         \A i \in 1..Len(part) : /\ part[i] \notin Quotes
                                 /\ scanner.comments => part[i] \notin {"--", "/*"}
                                 /\ scanner.dollar # "code" => part[i] # "$$",
         Reading(f[n], "code", wanted, n)
  PROVE  Reading(f[n + Len(part)], "code", wanted, n + Len(part))
<1>1. PICK l \in Nat : l = Len(part) OBVIOUS
<1>2. \A i \in 0..l : Reading(f[n + i], "code", wanted, n + i)
  <2> DEFINE T == {i \in Nat : i \in 0..l /\ ~Reading(f[n + i], "code", wanted, n + i)}
  <2>1. SUFFICES ASSUME T # {} PROVE FALSE
    <3>1. 0..l \subseteq Nat OBVIOUS
    <3>2. QED BY <3>1, Zenon
  <2>2. PICK i \in T : \A j \in T : i <= j BY <2>1, LeastMember
  <2>3. n + 0 = n OBVIOUS
  <2>4. i # 0 BY <2>2, <2>3
  <2>5. i \in 1..l /\ i - 1 \in Nat /\ i - 1 \in 0..l /\ i - 1 \notin T BY <2>2, <2>4
  <2>6. PICK m \in Nat : m = n + (i - 1) BY <2>5
  <2>7. m + 1 = n + i BY <2>5, <2>6
  <2>8. Reading(f[m], "code", wanted, m) BY <2>5, <2>6
  <2>9. text[m + 1] = part[i] /\ wanted[m + 1] = "code" /\ m < Len(text)
    <3>1. text[n + i] = part[i] /\ wanted[n + i] = "code" /\ n + l <= Len(text) BY <1>1, <2>5 DEF At
    <3>2. Len(text) \in Nat BY DEF Scanned
    <3>3. QED BY <2>5, <2>7, <3>1, <3>2
  <2>10. f[m + 1] = ScanSymbol(text, m + 1, f[m], scanner) /\ m < Len(wanted) /\ wanted \in Seq(Classes)
    BY <2>9, ReadsOn
  <2>11. /\ text[m + 1] \notin Quotes
         /\ scanner.comments => text[m + 1] \notin {"--", "/*"}
         /\ scanner.dollar # "code" => text[m + 1] # "$$"
    BY <1>1, <2>5, <2>9
  <2>12. Reading(ScanSymbol(text, m + 1, f[m], scanner), "code", wanted, m + 1)
    BY <2>8, <2>9, <2>10, <2>11, InCode
  <2>13. QED BY <2>2, <2>7, <2>10, <2>12
<1>3. QED BY <1>1, <1>2

LEMMA ReadsLine ==
  ASSUME NEW text, NEW scanner, NEW wanted, NEW f, Scanned(text, scanner, wanted, f), scanner.comments,
         NEW n \in Nat, NEW inside \in Seq(Symbols \ {"nl"}), NEW part, part = <<"--">> \o inside \o <<"nl">>,
         At(text, wanted, n, part, "comment"), Reading(f[n], "code", wanted, n)
  PROVE  Reading(f[n + Len(part)], "code", wanted, n + Len(part))
<1>1. PICK l \in Nat : l = Len(inside) OBVIOUS
<1>2. inside \in Seq(Symbols) /\ "--" \in Symbols /\ "nl" \in Symbols /\ \A i \in 1..l : inside[i] # "nl"
  <2>1. inside \in [1..l -> Symbols \ {"nl"}] BY <1>1
  <2>2. inside \in [1..l -> Symbols] BY <2>1
  <2>3. inside \in Seq(Symbols) BY <2>2, SeqDef
  <2>4. "--" \in Symbols /\ "nl" \in Symbols
    BY DEF Symbols, Delimiters
  <2>5. QED BY <2>1, <2>3, <2>4
<1>3. /\ Len(part) = l + 2 /\ part[1] = "--" /\ part[l + 2] = "nl"
      /\ \A i \in 1..l : part[i + 1] = inside[i]
  BY <1>1, <1>2, Framed
<1>4. Len(text) \in Nat /\ wanted \in Seq(Classes) /\ Len(wanted) = Len(text) BY DEF Scanned
<1>5. n + (l + 2) <= Len(text) /\ \A i \in 1..l + 2 : text[n + i] = part[i] /\ wanted[n + i] = "comment"
  <2>1. PICK k \in Nat : k = l + 2 OBVIOUS
  <2>2. Len(part) = k BY <1>3, <2>1
  <2>3. n + k <= Len(text) /\ \A i \in 1..k : text[n + i] = part[i] /\ wanted[n + i] = "comment"
    BY <2>2 DEF At
  <2>4. QED BY <2>1, <2>3
<1>6. ASSUME NEW i \in 1..l + 2, NEW m \in Nat, m + 1 = n + i
      PROVE  /\ text[m + 1] = part[i] /\ wanted[m + 1] = "comment" /\ m < Len(wanted)
             /\ f[m + 1] = ScanSymbol(text, m + 1, f[m], scanner)
  <2>1. m < Len(text) BY <1>4, <1>5, <1>6
  <2>2. f[m + 1] = ScanSymbol(text, m + 1, f[m], scanner) /\ m < Len(wanted) BY <2>1, ReadsOn
  <2>3. text[n + i] = part[i] /\ wanted[n + i] = "comment" BY <1>5
  <2>4. QED BY <1>6, <2>2, <2>3
<1>7. Reading(f[n + 1], "line", wanted, n + 1)
  <2>1. 1 \in 1..l + 2 OBVIOUS
  <2>2. text[n + 1] = "--" /\ wanted[n + 1] = "comment" /\ n < Len(wanted)
        /\ f[n + 1] = ScanSymbol(text, n + 1, f[n], scanner)
    BY <1>3, <1>6, <2>1
  <2>3. QED BY <1>4, <2>2, InLine
<1>8. \A i \in 1..l + 1 : Reading(f[n + i], "line", wanted, n + i)
  <2> DEFINE T == {i \in Nat : i \in 1..l + 1 /\ ~Reading(f[n + i], "line", wanted, n + i)}
  <2>1. SUFFICES ASSUME T # {} PROVE FALSE
    <3>1. 1..l + 1 \subseteq Nat OBVIOUS
    <3>2. QED BY <3>1, Zenon
  <2>2. PICK i \in T : \A j \in T : i <= j BY <2>1, LeastMember
  <2>3. i # 1 BY <1>7, <2>2
  <2>4. i \in 1..l + 2 /\ i - 1 \in 1..l /\ i - 1 \in 1..l + 1 /\ i - 1 \in Nat /\ i - 1 \notin T
    <3>1. i \in Nat /\ i \in 1..l + 1 BY <2>2
    <3>2. i \in 1..l + 2 /\ i - 1 \in 1..l /\ i - 1 \in 1..l + 1 /\ i - 1 \in Nat /\ ~(i <= i - 1)
      BY <2>3, <3>1
    <3>3. QED BY <2>2, <3>2
  <2>5. PICK m \in Nat : m = n + (i - 1) BY <2>4
  <2>6. m + 1 = n + i BY <2>4, <2>5
  <2>7. Reading(f[m], "line", wanted, m) BY <2>4, <2>5
  <2>8. text[m + 1] = part[i] /\ wanted[m + 1] = "comment" /\ m < Len(wanted)
        /\ f[m + 1] = ScanSymbol(text, m + 1, f[m], scanner)
    BY <1>6, <2>4, <2>6
  <2>9. part[i] # "nl"
    <3>1. PICK j \in 1..l : i = j + 1
      <4>1. i = (i - 1) + 1 BY <2>4
      <4>2. QED BY <2>4, <4>1
    <3>2. QED BY <1>2, <1>3, <3>1
  <2>10. Reading(f[m + 1], "line", wanted, m + 1) BY <1>4, <2>7, <2>8, <2>9, InLine
  <2>11. QED BY <2>2, <2>6, <2>10
<1>9. PICK m \in Nat : m = n + (l + 1) OBVIOUS
<1>10. m + 1 = n + (l + 2) /\ l + 2 \in 1..l + 2 /\ l + 1 \in 1..l + 1 BY <1>9
<1>11. text[m + 1] = "nl" /\ wanted[m + 1] = "comment" /\ m < Len(wanted)
       /\ f[m + 1] = ScanSymbol(text, m + 1, f[m], scanner)
  BY <1>3, <1>6, <1>10
<1>12. Reading(f[m], "line", wanted, m) BY <1>8, <1>9, <1>10
<1>13. Reading(f[m + 1], "code", wanted, m + 1) BY <1>4, <1>11, <1>12, InLine
<1>14. QED BY <1>3, <1>10, <1>13

LEMMA ReadsBlock ==
  ASSUME NEW text, NEW scanner, NEW wanted, NEW f, Scanned(text, scanner, wanted, f), scanner.comments,
         NEW n \in Nat, NEW inside \in Seq(Symbols \ {"/*", "*/"}), NEW part, part = <<"/*">> \o inside \o <<"*/">>,
         At(text, wanted, n, part, "comment"), Reading(f[n], "code", wanted, n)
  PROVE  Reading(f[n + Len(part)], "code", wanted, n + Len(part))
<1>1. PICK l \in Nat : l = Len(inside) OBVIOUS
<1>2. inside \in Seq(Symbols) /\ "/*" \in Symbols /\ "*/" \in Symbols /\ \A i \in 1..l : inside[i] \notin {"/*", "*/"}
  <2>1. inside \in [1..l -> Symbols \ {"/*", "*/"}] BY <1>1
  <2>2. inside \in [1..l -> Symbols] BY <2>1
  <2>3. inside \in Seq(Symbols) BY <2>2, SeqDef
  <2>4. "/*" \in Symbols /\ "*/" \in Symbols BY DEF Symbols, Delimiters
  <2>5. QED BY <2>1, <2>3, <2>4
<1>3. /\ Len(part) = l + 2 /\ part[1] = "/*" /\ part[l + 2] = "*/"
      /\ \A i \in 1..l : part[i + 1] = inside[i]
  BY <1>1, <1>2, Framed
<1>4. Len(text) \in Nat /\ wanted \in Seq(Classes) /\ Len(wanted) = Len(text) BY DEF Scanned
<1>5. n + (l + 2) <= Len(text) /\ \A i \in 1..l + 2 : text[n + i] = part[i] /\ wanted[n + i] = "comment"
  <2>1. PICK k \in Nat : k = l + 2 OBVIOUS
  <2>2. Len(part) = k BY <1>3, <2>1
  <2>3. n + k <= Len(text) /\ \A i \in 1..k : text[n + i] = part[i] /\ wanted[n + i] = "comment"
    BY <2>2 DEF At
  <2>4. QED BY <2>1, <2>3
<1>6. ASSUME NEW i \in 1..l + 2, NEW m \in Nat, m + 1 = n + i
      PROVE  /\ text[m + 1] = part[i] /\ wanted[m + 1] = "comment" /\ m < Len(wanted)
             /\ f[m + 1] = ScanSymbol(text, m + 1, f[m], scanner)
  <2>1. m < Len(text) BY <1>4, <1>5, <1>6
  <2>2. f[m + 1] = ScanSymbol(text, m + 1, f[m], scanner) /\ m < Len(wanted) BY <2>1, ReadsOn
  <2>3. text[n + i] = part[i] /\ wanted[n + i] = "comment" BY <1>5
  <2>4. QED BY <1>6, <2>2, <2>3
<1>7. Reading(f[n + 1], "block", wanted, n + 1) /\ f[n + 1].nest = 1
  <2>1. 1 \in 1..l + 2 OBVIOUS
  <2>2. text[n + 1] = "/*" /\ wanted[n + 1] = "comment" /\ n < Len(wanted)
        /\ f[n + 1] = ScanSymbol(text, n + 1, f[n], scanner)
    BY <1>3, <1>6, <2>1
  <2>3. QED BY <1>4, <2>2, InBlock
<1>8. \A i \in 1..l + 1 : Reading(f[n + i], "block", wanted, n + i) /\ f[n + i].nest = 1
  <2> DEFINE T == {i \in Nat : i \in 1..l + 1 /\ ~(Reading(f[n + i], "block", wanted, n + i) /\ f[n + i].nest = 1)}
  <2>1. SUFFICES ASSUME T # {} PROVE FALSE
    <3>1. 1..l + 1 \subseteq Nat OBVIOUS
    <3>2. QED BY <3>1, Zenon
  <2>2. PICK i \in T : \A j \in T : i <= j BY <2>1, LeastMember
  <2>3. i # 1 BY <1>7, <2>2
  <2>4. i \in 1..l + 2 /\ i - 1 \in 1..l /\ i - 1 \in 1..l + 1 /\ i - 1 \in Nat /\ i - 1 \notin T
    <3>1. i \in Nat /\ i \in 1..l + 1 BY <2>2
    <3>2. i \in 1..l + 2 /\ i - 1 \in 1..l /\ i - 1 \in 1..l + 1 /\ i - 1 \in Nat /\ ~(i <= i - 1)
      BY <2>3, <3>1
    <3>3. QED BY <2>2, <3>2
  <2>5. PICK m \in Nat : m = n + (i - 1) BY <2>4
  <2>6. m + 1 = n + i BY <2>4, <2>5
  <2>7. Reading(f[m], "block", wanted, m) /\ f[m].nest = 1 BY <2>4, <2>5
  <2>8. text[m + 1] = part[i] /\ wanted[m + 1] = "comment" /\ m < Len(wanted)
        /\ f[m + 1] = ScanSymbol(text, m + 1, f[m], scanner)
    BY <1>6, <2>4, <2>6, ZenonT(60)
  <2>9. part[i] \notin {"/*", "*/"}
    <3>1. PICK j \in 1..l : i = j + 1
      <4>1. i = (i - 1) + 1 BY <2>4
      <4>2. QED BY <2>4, <4>1
    <3>2. QED BY <1>2, <1>3, <3>1
  <2>10. Reading(f[m + 1], "block", wanted, m + 1) /\ f[m + 1].nest = 1
    <3>1. PICK s : s = f[m] OBVIOUS
    <3>2. Reading(s, "block", wanted, m) /\ s.nest = 1 BY <2>7, <3>1
    <3>3. text[m + 1] # "/*" /\ text[m + 1] # "*/" /\ wanted[m + 1] = "comment" /\ m < Len(wanted) BY <2>8, <2>9
    <3>4. /\ Reading(ScanSymbol(text, m + 1, s, scanner), "block", wanted, m + 1)
          /\ ScanSymbol(text, m + 1, s, scanner).nest = 1
      BY <1>4, <3>2, <3>3, InBlock
    <3>5. QED BY <2>8, <3>1, <3>4
  <2>11. QED BY <2>2, <2>6, <2>10
<1>9. PICK m \in Nat : m = n + (l + 1) OBVIOUS
<1>10. m + 1 = n + (l + 2) /\ l + 2 \in 1..l + 2 /\ l + 1 \in 1..l + 1 BY <1>9
<1>11. text[m + 1] = "*/" /\ wanted[m + 1] = "comment" /\ m < Len(wanted)
       /\ f[m + 1] = ScanSymbol(text, m + 1, f[m], scanner)
  BY <1>3, <1>6, <1>10
<1>12. Reading(f[m], "block", wanted, m) /\ f[m].nest = 1 BY <1>8, <1>9, <1>10
<1>13. Reading(f[m + 1], "code", wanted, m + 1) BY <1>4, <1>11, <1>12, InBlock
<1>14. QED BY <1>3, <1>10, <1>13

\* What is written for each kind of segment.
IsCode(segment) ==
  /\ segment.kind = "code" /\ segment.quote = "" /\ Len(Written(segment)) = 1
  /\ Written(segment)[1] \notin Quotes \cup {"--", "/*", "$$"}
IsValue(segment) ==
  /\ segment.kind \in {"value", "open"} /\ segment.quote \in Quotes
  /\ segment.inside \in Seq(Symbols \ {Backslash})
  /\ Written(segment) = IF segment.kind = "open" THEN <<segment.quote>> \o Doubled(segment.inside, segment.quote)
                        ELSE <<segment.quote>> \o Doubled(segment.inside, segment.quote) \o <<segment.quote>>
IsLine(segment) ==
  /\ segment.kind = "line" /\ segment.quote = "" /\ segment.inside \in Seq(Symbols \ {"nl"})
  /\ Written(segment) = <<"--">> \o segment.inside \o <<"nl">>
IsBlock(segment) ==
  /\ segment.kind = "block" /\ segment.quote = "" /\ segment.inside \in Seq(Symbols \ {"/*", "*/"})
  /\ Written(segment) = <<"/*">> \o segment.inside \o <<"*/">>

LEMMA SegmentKinds ==
  ASSUME NEW segment \in Segments
  PROVE  /\ IsCode(segment) \/ IsValue(segment) \/ IsLine(segment) \/ IsBlock(segment)
         /\ Written(segment) \in Seq(Symbols) /\ Len(Written(segment)) > 0
         /\ segment.quote # "" => segment.quote \in Quotes
         /\ Written(segment)[1] = segment.quote \/ Written(segment)[1] \notin Quotes
<1>1. CASE \E c \in CodeSymbols : segment = Code(c)
  <2>1. PICK c \in CodeSymbols : segment = Code(c) BY <1>1
  <2>2. c \in STRING /\ c \notin Quotes \cup {"--", "/*", "$$"} BY SqlTextsAssumption
  <2>3. segment.kind = "code" /\ segment.quote = "" /\ segment.inside = <<c>> BY <2>1 DEF Code
  <2>4. Written(segment) = <<c>> BY <2>3 DEF Written
  <2>5. PICK w : w = Written(segment) OBVIOUS
  <2>6. w = <<c>> BY <2>4, <2>5
  <2>7. Len(w) = 1 /\ w[1] = c BY <2>6
  <2>8. IsCode(segment) BY <2>2, <2>3, <2>5, <2>7 DEF IsCode
  <2>9. w \in Seq(Symbols) BY <2>2, <2>6 DEF Symbols
  <2>10. Len(w) > 0 /\ w[1] \notin Quotes BY <2>2, <2>7
  <2>11. QED BY <2>3, <2>5, <2>8, <2>9, <2>10
<1>2. CASE \E kind \in {"value", "open"}, q \in Quotes, inside \in InValues : segment = Quoted(kind, q, inside)
  <2>1. PICK kind \in {"value", "open"}, q \in Quotes, inside \in InValues : segment = Quoted(kind, q, inside) BY <1>2
  <2>2. inside \in Seq(Symbols \ {Backslash})
    <3>1. inside \in Seq(STRING \ {Backslash}) BY SqlTextsAssumption
    <3>2. STRING \ {Backslash} \subseteq Symbols \ {Backslash} BY DEF Symbols
    <3>3. QED BY <3>1, <3>2, SeqOfMore
  <2>3. segment.kind = kind /\ segment.quote = q /\ segment.inside = inside BY <2>1 DEF Quoted
  <2>4. Written(segment) = IF kind = "open" THEN <<q>> \o Doubled(inside, q) ELSE <<q>> \o Doubled(inside, q) \o <<q>>
    <3>1. CASE kind = "open" BY <2>3, <3>1 DEF Written
    <3>2. CASE kind = "value" BY <2>3, <3>2 DEF Written
    <3>3. QED BY <3>1, <3>2
  <2>5. IsValue(segment) BY <2>2, <2>3, <2>4 DEF IsValue
  <2>6. Doubled(inside, q) \in Seq(Symbols) BY <2>2, DoubledIsText
  <2>7. Written(segment) \in Seq(Symbols) /\ Len(Written(segment)) > 0 /\ Written(segment)[1] = q
    <3>1. PICK d \in Seq(Symbols) : d = Doubled(inside, q) BY <2>6
    <3>2. PICK l \in Nat : l = Len(d) OBVIOUS
    <3>3. /\ <<q>> \o d \in Seq(Symbols) /\ Len(<<q>> \o d) = l + 1 /\ (<<q>> \o d)[1] = q
          /\ <<q>> \o d \o <<q>> \in Seq(Symbols) /\ Len(<<q>> \o d \o <<q>>) = l + 2 /\ (<<q>> \o d \o <<q>>)[1] = q
      BY <3>2, Framed DEF Symbols
    <3>4. CASE kind = "open" BY <2>4, <3>1, <3>3, <3>4
    <3>5. CASE kind # "open" BY <2>4, <3>1, <3>3, <3>5
    <3>6. QED BY <3>4, <3>5
  <2>8. QED BY <2>3, <2>5, <2>7
<1>3. CASE \E kind \in {"line", "block"}, inside \in InComments : segment = Comment(kind, inside)
  <2>1. PICK kind \in {"line", "block"}, inside \in InComments : segment = Comment(kind, inside) BY <1>3
  <2>2. inside \in Seq(Symbols \ {"nl"}) /\ inside \in Seq(Symbols \ {"/*", "*/"}) /\ inside \in Seq(Symbols)
    <3>1. inside \in Seq(STRING \ {"nl", "/*", "*/"}) BY SqlTextsAssumption
    <3>2. /\ STRING \ {"nl", "/*", "*/"} \subseteq Symbols \ {"nl"}
          /\ STRING \ {"nl", "/*", "*/"} \subseteq Symbols \ {"/*", "*/"}
          /\ STRING \ {"nl", "/*", "*/"} \subseteq Symbols
      BY DEF Symbols
    <3>3. inside \in Seq(Symbols \ {"nl"}) BY <3>1, <3>2, SeqOfMore
    <3>4. inside \in Seq(Symbols \ {"/*", "*/"})
      <4>1. PICK T : T = Symbols \ {"/*", "*/"} OBVIOUS
      <4>2. STRING \ {"nl", "/*", "*/"} \subseteq T BY <3>2, <4>1
      <4>3. inside \in Seq(T) BY <3>1, <4>2, SeqOfMore
      <4>4. QED BY <4>1, <4>3
    <3>5. inside \in Seq(Symbols) BY <3>1, <3>2, SeqOfMore
    <3>6. QED BY <3>3, <3>4, <3>5
  <2>3. segment.kind = kind /\ segment.quote = "" /\ segment.inside = inside BY <2>1 DEF Comment
  <2>4. /\ "--" \in Symbols /\ "nl" \in Symbols /\ "/*" \in Symbols /\ "*/" \in Symbols
        /\ "--" \notin Quotes /\ "/*" \notin Quotes
    BY DEF Symbols, Delimiters, Quotes
  <2>5. CASE kind = "line"
    <3>1. Written(segment) = <<"--">> \o inside \o <<"nl">> BY <2>3, <2>5 DEF Written
    <3>2. IsLine(segment) BY <2>2, <2>3, <2>5, <3>1 DEF IsLine
    <3>3. Written(segment) \in Seq(Symbols) /\ Len(Written(segment)) = Len(inside) + 2 /\ Written(segment)[1] = "--"
      BY <2>2, <2>4, <3>1, Framed
    <3>4. Len(Written(segment)) > 0
      <4>1. PICK l \in Nat : l = Len(inside) BY <2>2
      <4>2. Len(Written(segment)) = l + 2 BY <3>3, <4>1
      <4>3. QED BY <4>2
    <3>5. Written(segment)[1] \notin Quotes BY <2>4, <3>3
    <3>6. QED BY <2>3, <3>2, <3>3, <3>4, <3>5
  <2>6. CASE kind = "block"
    <3>1. Written(segment) = <<"/*">> \o inside \o <<"*/">> BY <2>3, <2>6 DEF Written
    <3>2. IsBlock(segment) BY <2>2, <2>3, <2>6, <3>1 DEF IsBlock
    <3>3. Written(segment) \in Seq(Symbols) /\ Len(Written(segment)) = Len(inside) + 2 /\ Written(segment)[1] = "/*"
      BY <2>2, <2>4, <3>1, Framed
    <3>4. Len(Written(segment)) > 0
      <4>1. PICK l \in Nat : l = Len(inside) BY <2>2
      <4>2. Len(Written(segment)) = l + 2 BY <3>3, <4>1
      <4>3. QED BY <4>2
    <3>5. Written(segment)[1] \notin Quotes BY <2>4, <3>3
    <3>6. QED BY <2>3, <3>2, <3>3, <3>4, <3>5
  <2>7. QED BY <2>5, <2>6
<1>4. \/ \E c \in CodeSymbols : segment = Code(c)
      \/ \E kind \in {"value", "open"}, q \in Quotes, inside \in InValues : segment = Quoted(kind, q, inside)
      \/ \E kind \in {"line", "block"}, inside \in InComments : segment = Comment(kind, inside)
  BY DEF Segments
<1>5. QED BY <1>1, <1>2, <1>3, <1>4

\* What a scanner makes of a segment: one that knows no comments reads them as
\* code, if there is no quote in them.
ClassFor(scanner, segment) ==
  IF segment.kind \in {"line", "block"} /\ ~scanner.comments THEN "code" ELSE ClassOf(segment)
Readable(scanner, segment) ==
  segment.kind \in {"line", "block"} /\ ~scanner.comments =>
    scanner.dollar = "code" /\ \A i \in 1..Len(Written(segment)) : Written(segment)[i] \notin Quotes

LEMMA ReadsSegment ==
  ASSUME NEW text, NEW scanner, NEW wanted, NEW f, Scanned(text, scanner, wanted, f), NEW n \in Nat,
         NEW segment \in Segments, NEW l, l = Len(Written(segment)),
         At(text, wanted, n, Written(segment), ClassFor(scanner, segment)), Readable(scanner, segment),
         segment.kind = "value" /\ n + l < Len(text) => text[n + l + 1] # segment.quote,
         Reading(f[n], "code", wanted, n)
  PROVE  Reading(f[n + l], IF segment.kind = "open" THEN "quote" ELSE "code", wanted, n + l)
<1>1. PICK part \in Seq(Symbols) : part = Written(segment) BY SegmentKinds
<1>2. PICK class : class = ClassFor(scanner, segment) OBVIOUS
<1>3. At(text, wanted, n, part, class) /\ l = Len(part) BY <1>1, <1>2
<1>4. CASE IsCode(segment)
  <2>1. segment.kind = "code" BY <1>4 DEF IsCode
  <2>2. class = "code" BY <1>2, <2>1 DEF ClassFor, ClassOf
  <2>3. \A i \in 1..Len(part) : part[i] \notin Quotes /\ part[i] \notin {"--", "/*"} /\ part[i] # "$$"
    <3>1. PICK c : c = part[1] OBVIOUS
    <3>2. c \notin Quotes /\ c \notin {"--", "/*"} /\ c # "$$" BY <1>1, <1>4, <3>1 DEF IsCode
    <3>3. \A i \in 1..Len(part) : i = 1
      <4>1. Len(part) = 1 BY <1>1, <1>4 DEF IsCode
      <4>2. QED BY <4>1
    <3>4. QED BY <3>1, <3>2, <3>3
  <2>4. Reading(f[n + l], "code", wanted, n + l) BY <1>3, <2>2, <2>3, ReadsPlain
  <2>5. QED BY <2>1, <2>4
<1>5. CASE IsValue(segment)
  <2>1. PICK q \in Quotes : q = segment.quote BY <1>5 DEF IsValue
  <2>2. PICK inside \in Seq(Symbols \ {Backslash}) : inside = segment.inside BY <1>5 DEF IsValue
  <2>3. segment.kind \in {"value", "open"} BY <1>5 DEF IsValue
  <2>4. class = "quoted" BY <1>2, <2>3 DEF ClassFor, ClassOf
  <2>5. CASE segment.kind = "open"
    <3>1. part = <<q>> \o Doubled(inside, q) BY <1>1, <1>5, <2>1, <2>2, <2>5 DEF IsValue
    <3>2. PICK k \in Nat : k = Len(Doubled(inside, q))
      <4>1. Doubled(inside, q) \in Seq(Symbols) BY DoubledIsText
      <4>2. QED BY <4>1
    <3>3. Len(part) = k + 1
      <4>1. PICK d \in Seq(Symbols) : d = Doubled(inside, q) BY DoubledIsText
      <4>2. Len(<<q>> \o d) = Len(d) + 1 BY Framed DEF Symbols
      <4>3. QED BY <3>1, <3>2, <4>1, <4>2
    <3>4. At(text, wanted, n, <<q>> \o Doubled(inside, q), "quoted") BY <1>3, <2>4, <3>1
    <3>5. WithinQuotes(f, wanted, q, n + 1 + Len(Doubled(inside, q))) BY <3>4, ReadsQuoted
    <3>6. n + 1 + k = n + l BY <1>3, <3>3
    <3>7. Reading(f[n + l], "quote", wanted, n + l) BY <3>2, <3>5, <3>6 DEF WithinQuotes
    <3>8. QED BY <2>5, <3>7
  <2>6. CASE segment.kind = "value"
    <3>1. part = <<q>> \o Doubled(inside, q) \o <<q>> BY <1>1, <1>5, <2>1, <2>2, <2>6 DEF IsValue
    <3>2. At(text, wanted, n, part, "quoted") BY <1>3, <2>4
    <3>3. n + Len(part) < Len(text) => text[n + Len(part) + 1] # q BY <1>3, <2>1, <2>6
    <3>4. Reading(f[n + Len(part)], "code", wanted, n + Len(part)) BY <3>1, <3>2, <3>3, ReadsValue
    <3>5. QED BY <1>3, <2>6, <3>4
  <2>7. QED BY <2>3, <2>5, <2>6
<1>6. CASE segment.kind \in {"line", "block"} /\ ~scanner.comments
  <2>1. class = "code" BY <1>2, <1>6 DEF ClassFor
  <2>2. scanner.dollar = "code" /\ \A i \in 1..Len(part) : part[i] \notin Quotes BY <1>1, <1>6 DEF Readable
  <2>3. Reading(f[n + l], "code", wanted, n + l) BY <1>3, <1>6, <2>1, <2>2, ReadsPlain
  <2>4. QED BY <1>6, <2>3
<1>7. CASE segment.kind \in {"line", "block"} /\ scanner.comments
  <2>1. class = "comment" BY <1>2, <1>7 DEF ClassFor, ClassOf
  <2>2. PICK inside : inside = segment.inside OBVIOUS
  <2>3. CASE IsLine(segment)
    <3>1. inside \in Seq(Symbols \ {"nl"}) /\ part = <<"--">> \o inside \o <<"nl">> /\ segment.kind = "line"
      BY <1>1, <2>2, <2>3 DEF IsLine
    <3>2. Reading(f[n + Len(part)], "code", wanted, n + Len(part)) BY <1>3, <1>7, <2>1, <3>1, ReadsLine
    <3>3. QED BY <1>3, <3>1, <3>2
  <2>4. CASE IsBlock(segment)
    <3>1. inside \in Seq(Symbols \ {"/*", "*/"}) /\ part = <<"/*">> \o inside \o <<"*/">> /\ segment.kind = "block"
      BY <1>1, <2>2, <2>4 DEF IsBlock
    <3>2. Reading(f[n + Len(part)], "code", wanted, n + Len(part)) BY <1>3, <1>7, <2>1, <3>1, ReadsBlock
    <3>3. QED BY <1>3, <3>1, <3>2
  <2>5. ~IsCode(segment) /\ ~IsValue(segment) BY <1>7 DEF IsCode, IsValue
  <2>6. QED BY <2>3, <2>4, <2>5, SegmentKinds
<1>8. QED
  <2>1. IsLine(segment) \/ IsBlock(segment) => segment.kind \in {"line", "block"} BY DEF IsLine, IsBlock
  <2>2. QED BY <1>4, <1>5, <1>6, <1>7, <2>1, SegmentKinds

-----------------------------------------------------------------------------
(* A whole text.                                                           *)

\* Only the last segment may be open, and values in the same quotes are apart.
WellWritten(written) ==
  /\ written \in Seq(Segments)
  /\ \A k \in 1..Len(written) - 1 :
       /\ written[k].kind # "open"
       /\ written[k + 1].quote # "" => written[k].quote # written[k + 1].quote

WrittenParts(written) == [n \in DOMAIN written |-> Written(written[n])]
ClassParts(scanner, written) ==
  [n \in DOMAIN written |-> [i \in DOMAIN Written(written[n]) |-> ClassFor(scanner, written[n])]]
MeaningFor(scanner, written) == FlattenSeq(ClassParts(scanner, written))

\* Segments one after the other in a text, and their classes.
LaidOut(text, wanted, scanner, written, off) ==
  /\ text \in Seq(Symbols) /\ wanted \in Seq(Classes) /\ Len(wanted) = Len(text)
  /\ IsOffsets(off, WrittenParts(written)) /\ off[Len(written)] = Len(text)
  /\ \A k \in 1..Len(written) :
       /\ off[k - 1] \in Nat /\ off[k] = off[k - 1] + Len(Written(written[k]))
       /\ At(text, wanted, off[k - 1], Written(written[k]), ClassFor(scanner, written[k]))

LEMMA TextIsLaidOut ==
  ASSUME NEW written \in Seq(Segments), NEW scanner
  PROVE  \E off : LaidOut(TextOf(written), MeaningFor(scanner, written), scanner, written, off)
<1>1. PICK m \in Nat : m = Len(written) OBVIOUS
<1>2. PICK parts : parts = WrittenParts(written) OBVIOUS
<1>3. PICK classes : classes = ClassParts(scanner, written) OBVIOUS
<1>4. \A k \in 1..m : written[k] \in Segments BY <1>1
<1>5. parts = [k \in 1..m |-> Written(written[k])] BY <1>1, <1>2 DEF WrittenParts
<1>6. \A k \in 1..m : parts[k] = Written(written[k]) /\ parts[k] \in Seq(Symbols) BY <1>4, <1>5, SegmentKinds
<1>7. parts \in Seq(Seq(Symbols)) /\ Len(parts) = m BY <1>5, <1>6
<1>8. classes = [k \in 1..m |-> [i \in DOMAIN Written(written[k]) |-> ClassFor(scanner, written[k])]]
  BY <1>1, <1>3 DEF ClassParts
<1>9. ASSUME NEW k \in 1..m
      PROVE  /\ classes[k] \in Seq(Classes) /\ Len(classes[k]) = Len(parts[k])
             /\ \A i \in 1..Len(parts[k]) : classes[k][i] = ClassFor(scanner, written[k])
  <2>1. ClassFor(scanner, written[k]) \in Classes
    <3>1. PICK segment \in Segments : segment = written[k] BY <1>4
    <3>2. segment.kind \in {"code", "value", "open", "line", "block"}
      BY SegmentKinds DEF IsCode, IsValue, IsLine, IsBlock
    <3>3. ClassOf(segment) \in Classes BY <3>2 DEF ClassOf, Classes
    <3>4. QED BY <3>1, <3>3 DEF ClassFor, Classes
  <2>2. PICK class \in Classes : class = ClassFor(scanner, written[k]) BY <2>1
  <2>3. PICK part \in Seq(Symbols) : part = parts[k] BY <1>6
  <2>4. PICK l \in Nat : l = Len(part) OBVIOUS
  <2>5. DOMAIN Written(written[k]) = 1..l BY <1>6, <2>3, <2>4
  <2>6. classes[k] = [i \in 1..l |-> class] BY <1>8, <2>2, <2>5
  <2>7. PICK own : own = [i \in 1..l |-> class] OBVIOUS
  <2>8. own \in Seq(Classes) /\ Len(own) = l /\ \A i \in 1..l : own[i] = class BY <2>7
  <2>9. QED BY <2>2, <2>3, <2>4, <2>6, <2>7, <2>8
<1>10. classes \in Seq(Seq(Classes)) /\ Len(classes) = m
  <2>1. DOMAIN classes = 1..m /\ \A k \in 1..m : classes[k] \in Seq(Classes) BY <1>8, <1>9
  <2>2. classes = [k \in 1..m |-> classes[k]] BY <1>8
  <2>3. classes \in [1..m -> Seq(Classes)] BY <2>1, <2>2
  <2>4. QED BY <2>3, SeqDef
<1>11. PICK text : text = FlattenSeq(parts) OBVIOUS
<1>12. PICK wanted : wanted = FlattenSeq(classes) OBVIOUS
<1>13. text = TextOf(written) /\ wanted = MeaningFor(scanner, written)
  BY <1>2, <1>3, <1>11, <1>12 DEF TextOf, WrittenParts, MeaningFor
<1>14. PICK off : /\ IsOffsets(off, parts) /\ off[m] = Len(text)
                  /\ \A k \in 1..m : \A i \in 1..Len(parts[k]) : text[off[k - 1] + i] = parts[k][i]
  <2>1. \E off : /\ IsOffsets(off, parts) /\ off[Len(parts)] = Len(FlattenSeq(parts))
                 /\ \A k \in 1..Len(parts) : \A i \in 1..Len(parts[k]) :
                      FlattenSeq(parts)[off[k - 1] + i] = parts[k][i]
    BY <1>7, FlattenParts
  <2>2. QED BY <1>7, <1>11, <2>1, ZenonT(60)
<1>15. PICK oth : /\ IsOffsets(oth, classes) /\ oth[m] = Len(wanted)
                  /\ \A k \in 1..m : \A i \in 1..Len(classes[k]) : wanted[oth[k - 1] + i] = classes[k][i]
  <2>1. \E o : /\ IsOffsets(o, classes) /\ o[Len(classes)] = Len(FlattenSeq(classes))
                 /\ \A k \in 1..Len(classes) : \A i \in 1..Len(classes[k]) :
                      FlattenSeq(classes)[o[k - 1] + i] = classes[k][i]
    BY <1>10, FlattenParts
  <2>2. QED BY <1>10, <1>12, <2>1, ZenonT(60)
<1>16. off = oth
  <2>1. Len(parts) \in Nat /\ Len(classes) = Len(parts) /\ \A k \in 1..Len(parts) : Len(classes[k]) = Len(parts[k])
    BY <1>7, <1>9, <1>10
  <2>2. QED BY <1>14, <1>15, <2>1, OffsetsUnique
<1>17. text \in Seq(Symbols) /\ wanted \in Seq(Classes) BY <1>7, <1>10, <1>11, <1>12, FlattenParts
<1>18. ASSUME NEW k \in 1..m
       PROVE  /\ off[k - 1] \in Nat /\ off[k] = off[k - 1] + Len(Written(written[k]))
              /\ At(text, wanted, off[k - 1], Written(written[k]), ClassFor(scanner, written[k]))
  <2>1. PICK part \in Seq(Symbols) : part = Written(written[k]) /\ part = parts[k] BY <1>6
  <2>2. PICK l \in Nat : l = Len(part) OBVIOUS
  <2>3. PICK o : o = off[k - 1] OBVIOUS
  <2>4. o \in Nat /\ off[k] = o + l
    <3>1. k - 1 \in 0..m BY <1>1
    <3>2. QED BY <1>7, <1>14, <2>1, <2>2, <2>3, <3>1 DEF IsOffsets
  <2>5. o + l <= Len(text)
    <3>1. \A i \in 1..m : Len(parts[i]) \in Nat BY <1>6
    <3>2. k \in 0..m /\ m \in 0..m /\ k <= m BY <1>1
    <3>3. off[k] <= off[m] BY <1>7, <1>14, <3>1, <3>2, OffsetsGrow
    <3>4. QED BY <1>14, <2>4, <3>3
  <2>6. \A i \in 1..l : text[o + i] = part[i] BY <1>14, <2>1, <2>2, <2>3
  <2>7. \A i \in 1..l : wanted[o + i] = ClassFor(scanner, written[k])
    <3>1. Len(classes[k]) = l /\ \A i \in 1..l : classes[k][i] = ClassFor(scanner, written[k])
      BY <1>9, <2>1, <2>2
    <3>2. \A i \in 1..l : wanted[o + i] = classes[k][i] BY <1>15, <1>16, <2>3, <3>1
    <3>3. QED BY <3>1, <3>2
  <2>8. At(text, wanted, o, part, ClassFor(scanner, written[k])) BY <2>2, <2>4, <2>5, <2>6, <2>7 DEF At
  <2>9. QED BY <2>1, <2>2, <2>3, <2>4, <2>8
<1>19. LaidOut(text, wanted, scanner, written, off)
  <2>1. Len(wanted) = Len(text) BY <1>14, <1>15, <1>16
  <2>2. QED BY <1>1, <1>2, <1>14, <1>17, <1>18, <2>1 DEF LaidOut
<1>20. QED BY <1>13, <1>19

LEMMA ScanBegins ==
  ASSUME NEW text, Len(text) \in Nat, NEW scanner, NEW wanted, NEW f, IsScan(text, scanner, f, Len(text))
  PROVE  Reading(f[0], "code", wanted, 0)
<1>1. f[0] = ScanStart BY DEF IsScan
<1>2. PICK none : none = Beginning(wanted, 0) OBVIOUS
<1>3. none = [i \in {} |-> wanted[i]]
  <2>1. 1..0 = {} OBVIOUS
  <2>2. QED BY <1>2, <2>1 DEF Beginning
<1>4. none \in [1..0 -> Classes] BY <1>3
<1>5. none \in Seq(Classes) /\ Len(none) = 0 BY <1>4, SeqDef
<1>6. none = <<>> BY <1>5, EmptySeq
<1>7. <<>> \in Seq(Classes) OBVIOUS
<1>8. ScanStart \in ScanStates BY <1>7 DEF ScanStart, ScanStates, Modes
<1>9. ScanStart.mode = "code" /\ ~ScanStart.skip /\ ScanStart.class = Beginning(wanted, 0)
  BY <1>2, <1>6 DEF ScanStart
<1>10. QED BY <1>1, <1>8, <1>9 DEF Reading

\* The classes of a text of any length are those its writer gave it.
LEMMA ReadsText ==
  ASSUME NEW written, WellWritten(written), NEW scanner,
         \A k \in 1..Len(written) : Readable(scanner, written[k])
  PROVE  /\ Scan(TextOf(written), scanner).class = MeaningFor(scanner, written)
         /\ Scan(TextOf(written), scanner).open <=>
              written # <<>> /\ written[Len(written)].kind = "open"
<1>1. written \in Seq(Segments) BY DEF WellWritten
<1>2. PICK m \in Nat : m = Len(written) BY <1>1
<1>3. \A k \in 1..m : written[k] \in Segments BY <1>1, <1>2
<1>4. PICK text : text = TextOf(written) OBVIOUS
<1>5. PICK wanted : wanted = MeaningFor(scanner, written) OBVIOUS
<1>6. PICK off : LaidOut(text, wanted, scanner, written, off) BY <1>1, <1>4, <1>5, TextIsLaidOut
<1>7. /\ text \in Seq(Symbols) /\ wanted \in Seq(Classes) /\ Len(wanted) = Len(text) /\ Len(text) \in Nat
      /\ off[m] = Len(text)
      /\ \A k \in 1..m : /\ off[k - 1] \in Nat /\ off[k] = off[k - 1] + Len(Written(written[k]))
                         /\ At(text, wanted, off[k - 1], Written(written[k]), ClassFor(scanner, written[k]))
  BY <1>2, <1>6 DEF LaidOut
<1>8. off[0] = 0 BY <1>6 DEF LaidOut, IsOffsets
<1>9. PICK f : /\ IsScan(text, scanner, f, Len(text))
               /\ Scan(text, scanner) = [class |-> f[Len(text)].class,
                                         open |-> f[Len(text)].mode \in {"quote", "block"}]
  BY <1>7, ScanEnds
<1>10. Scanned(text, scanner, wanted, f) BY <1>7, <1>9 DEF Scanned
<1> DEFINE ModeAfter(k) == IF k > 0 /\ written[k].kind = "open" THEN "quote" ELSE "code"
           Read(k) == Reading(f[off[k]], ModeAfter(k), wanted, off[k])
<1>11. Read(0)
  <2>1. Reading(f[0], "code", wanted, 0) BY <1>7, <1>9, ScanBegins
  <2>2. QED BY <1>8, <2>1
<1>12. ASSUME NEW k \in 1..m, Read(k - 1) PROVE Read(k)
  <2>1. PICK segment \in Segments : segment = written[k] BY <1>3
  <2>2. PICK n \in Nat : n = off[k - 1] BY <1>7
  <2>3. PICK l \in Nat : l = Len(Written(segment))
    <3>1. Written(segment) \in Seq(Symbols) BY SegmentKinds
    <3>2. QED BY <3>1
  <2>4. off[k] = n + l BY <1>7, <2>1, <2>2, <2>3
  <2>5. At(text, wanted, n, Written(segment), ClassFor(scanner, segment)) BY <1>7, <2>1, <2>2
  <2>6. Readable(scanner, segment) BY <1>2, <2>1
  <2>7. ModeAfter(k - 1) = "code"
    <3>1. CASE k = 1 BY <3>1
    <3>2. CASE k # 1
      <4>1. k - 1 \in 1..Len(written) - 1 BY <1>2, <3>2
      <4>2. written[k - 1].kind # "open" BY <4>1 DEF WellWritten
      <4>3. QED BY <4>2
    <3>3. QED BY <3>1, <3>2
  <2>8. Reading(f[n], "code", wanted, n) BY <1>12, <2>2, <2>7
  <2>9. ASSUME segment.kind = "value", n + l < Len(text) PROVE text[n + l + 1] # segment.quote
    <3>1. k # m BY <1>7, <2>4, <2>9
    <3>2. k + 1 \in 1..m /\ (k + 1) - 1 = k /\ k \in 1..Len(written) - 1 BY <1>2, <3>1
    <3>3. PICK next \in Segments : next = written[k + 1] BY <1>3, <3>2
    <3>4. At(text, wanted, off[(k + 1) - 1], Written(next), ClassFor(scanner, next)) BY <1>7, <3>2, <3>3
    <3>5. At(text, wanted, n + l, Written(next), ClassFor(scanner, next)) BY <2>4, <3>2, <3>4
    <3>6. 1 \in 1..Len(Written(next))
      <4>1. PICK w \in Seq(Symbols) : w = Written(next) BY SegmentKinds
      <4>2. Len(Written(next)) > 0 BY SegmentKinds
      <4>3. PICK size \in Nat : size = Len(w) OBVIOUS
      <4>4. 1 \in 1..size BY <4>1, <4>2, <4>3
      <4>5. QED BY <4>1, <4>3, <4>4
    <3>7. text[(n + l) + 1] = Written(next)[1] BY <3>5, <3>6 DEF At
    <3>8. next.quote # "" => segment.quote # next.quote BY <2>1, <3>2, <3>3 DEF WellWritten
    <3>9. segment.quote \in Quotes /\ "" \notin Quotes
      BY <2>9, SegmentKinds DEF IsCode, IsValue, IsLine, IsBlock, Quotes
    <3>10. Written(next)[1] # segment.quote BY <3>8, <3>9, SegmentKinds
    <3>11. QED BY <3>7, <3>10
  <2>10. Reading(f[n + l], IF segment.kind = "open" THEN "quote" ELSE "code", wanted, n + l)
    BY <1>10, <2>3, <2>5, <2>6, <2>8, <2>9, ReadsSegment
  <2>11. ModeAfter(k) = IF segment.kind = "open" THEN "quote" ELSE "code" BY <2>1
  <2>12. QED BY <2>4, <2>10, <2>11
<1> HIDE DEF Read
<1>13. \A k \in 0..m : Read(k)
  <2> DEFINE T == {k \in Nat : k \in 0..m /\ ~Read(k)}
  <2>1. SUFFICES ASSUME T # {} PROVE FALSE OBVIOUS
  <2>2. PICK k \in T : \A j \in T : k <= j BY <2>1, LeastMember
  <2>3. k # 0 BY <1>11, <2>2
  <2>4. k \in 1..m /\ k - 1 \in Nat /\ k - 1 \in 0..m /\ k - 1 \notin T BY <2>2, <2>3
  <2>5. QED BY <1>12, <2>2, <2>4
<1>14. Reading(f[Len(text)], ModeAfter(m), wanted, Len(text))
  <2>1. Read(m) BY <1>13
  <2>2. QED BY <1>7, <2>1 DEF Read
<1>15. f[Len(text)].class = wanted
  <2>1. f[Len(text)].class = Beginning(wanted, Len(text)) BY <1>14 DEF Reading
  <2>2. Beginning(wanted, Len(text)) = wanted BY <1>7 DEF Beginning
  <2>3. QED BY <2>1, <2>2
<1>16. f[Len(text)].mode = ModeAfter(m) BY <1>14 DEF Reading
<1>17. f[Len(text)].mode \in {"quote", "block"} <=> m > 0 /\ written[m].kind = "open" BY <1>16
<1>18. written # <<>> <=> m > 0 BY <1>1, <1>2, EmptySeq
<1>19. Scan(text, scanner).class = wanted BY <1>9, <1>15
<1>20. Scan(text, scanner).open <=> m > 0 /\ written[m].kind = "open"
  <2>1. PICK e : e = f[Len(text)] OBVIOUS
  <2>2. Scan(text, scanner).open = (e.mode \in {"quote", "block"}) BY <1>9, <2>1
  <2>3. e.mode \in {"quote", "block"} <=> m > 0 /\ written[m].kind = "open" BY <1>17, <2>1
  <2>4. QED BY <2>2, <2>3
<1>21. QED BY <1>2, <1>4, <1>5, <1>18, <1>19, <1>20

-----------------------------------------------------------------------------
(* What the code in a text is.                                             *)

\* No statement changes anything, and nothing comes after a delimiter.
ChangesNothing(code) == ToSet(code) \cap Mutating = {}
OneStatement(code) == \A i, j \in DOMAIN code : i < j /\ code[i] = ";" => code[j] = "nl"
OneStatementIn(text, class, classes) ==
  \A a, b \in 1..Len(text) :
    a < b /\ text[a] = ";" /\ class[a] \in classes /\ class[b] \in classes => text[b] = "nl"

LEMMA KeptIsInOrder ==
  ASSUME NEW text, Len(text) \in Nat, DOMAIN text = 1..Len(text), NEW class, NEW classes
  PROVE  /\ ToSet(Kept(text, class, classes)) = {text[i] : i \in {i \in 1..Len(text) : class[i] \in classes}}
         /\ OneStatementIn(text, class, classes) => OneStatement(Kept(text, class, classes))
<1>1. PICK l \in Nat : l = Len(text) OBVIOUS
<1>2. PICK places : places = [i \in 1..l |-> i] OBVIOUS
<1>3. places \in Seq(Int) /\ Len(places) = l /\ \A i \in 1..l : places[i] = i BY <1>2
<1>4. PICK wanted : wanted = {i \in 1..l : class[i] \in classes} OBVIOUS
<1>5. PICK order : order = Only(places, wanted) OBVIOUS
<1>6. order \in Seq(Int) /\ Entries(order) = Entries(places) \cap wanted BY <1>3, <1>5, OnlyProperties
<1>7. \A i, j \in 1..Len(order) : i < j => order[i] < order[j]
  <2>1. \A i, j \in 1..Len(places) : i < j => places[i] < places[j] BY <1>3
  <2>2. QED BY <1>3, <1>5, <2>1, OnlyKeepsOrder
<1>8. Entries(places) = 1..l BY <1>3 DEF Entries
<1>9. Entries(order) = wanted BY <1>4, <1>6, <1>8
<1>10. PICK m \in Nat : m = Len(order) BY <1>6
<1>11. DOMAIN order = 1..m BY <1>6, <1>10
<1>12. PICK kept : kept = Kept(text, class, classes) OBVIOUS
<1>13. kept = [n \in 1..m |-> text[order[n]]]
  <2>1. kept = [n \in DOMAIN order |-> text[order[n]]] BY <1>1, <1>2, <1>4, <1>5, <1>12 DEF Kept
  <2>2. QED BY <1>11, <2>1
<1>14. \A n \in 1..m : order[n] \in wanted BY <1>9, <1>11 DEF Entries
<1>15. \A i \in wanted : \E n \in 1..m : order[n] = i BY <1>9, <1>11 DEF Entries
<1>16. ToSet(kept) = {text[i] : i \in wanted}
  <2>1. ToSet(kept) = {kept[n] : n \in 1..m} BY <1>13 DEF ToSet
  <2>2. QED BY <1>13, <1>14, <1>15, <2>1
<1>17. ASSUME OneStatementIn(text, class, classes), NEW i \in 1..m, NEW j \in 1..m, i < j, kept[i] = ";"
       PROVE  kept[j] = "nl"
  <2>1. order[i] < order[j] BY <1>7, <1>10, <1>17
  <2>2. order[i] \in wanted /\ order[j] \in wanted BY <1>14
  <2>3. kept[i] = text[order[i]] /\ kept[j] = text[order[j]] BY <1>13
  <2>4. PICK a \in 1..l : a = order[i] BY <1>4, <2>2
  <2>5. PICK b \in 1..l : b = order[j] BY <1>4, <2>2
  <2>6. a < b /\ text[a] = ";" /\ class[a] \in classes /\ class[b] \in classes
    BY <1>4, <1>17, <2>1, <2>2, <2>3, <2>4, <2>5
  <2>7. text[b] = "nl" BY <1>1, <1>17, <2>6 DEF OneStatementIn
  <2>8. QED BY <2>3, <2>5, <2>7
<1>18. DOMAIN kept = 1..m BY <1>13
<1>19. OneStatementIn(text, class, classes) => OneStatement(kept) BY <1>17, <1>18 DEF OneStatement
<1>20. QED BY <1>1, <1>4, <1>12, <1>16, <1>19

LEMMA MeaningIsMeaningFor ==
  ASSUME NEW written, NEW scanner, scanner.comments
  PROVE  MeaningFor(scanner, written) = Meaning(written)
BY DEF MeaningFor, ClassParts, ClassFor, Meaning

\* Scanners that know comments agree with the writer on everything.
LEMMA ClassesAgree ==
  ASSUME NEW written, WellWritten(written), NEW scanner, scanner.comments
  PROVE  /\ Scan(TextOf(written), scanner).class = Meaning(written)
         /\ Scan(TextOf(written), scanner).open <=>
              written # <<>> /\ written[Len(written)].kind = "open"
<1>1. MeaningFor(scanner, written) = Meaning(written) BY MeaningIsMeaningFor
<1>2. \A k \in 1..Len(written) : Readable(scanner, written[k]) BY DEF Readable
<1>3. QED BY <1>1, <1>2, ReadsText

\* Where in a text a segment is, for the writer and for a scanner.
LEMMA PlaceOfSegment ==
  ASSUME NEW written \in Seq(Segments), NEW scanner,
         NEW i \in 1..Len(TextOf(written))
  PROVE  /\ Len(TextOf(written)) \in Nat /\ DOMAIN TextOf(written) = 1..Len(TextOf(written))
         /\ \E k \in 1..Len(written) :
              /\ Meaning(written)[i] = ClassOf(written[k])
              /\ MeaningFor(scanner, written)[i] = ClassFor(scanner, written[k])
<1>1. PICK knows : knows = [comments |-> TRUE] OBVIOUS
<1>2. MeaningFor(knows, written) = Meaning(written)
  BY <1>1, MeaningIsMeaningFor
<1>3. PICK text : text = TextOf(written) OBVIOUS
<1>4. PICK off : LaidOut(text, MeaningFor(knows, written), knows, written, off) BY <1>3, TextIsLaidOut
<1>5. PICK oth : LaidOut(text, MeaningFor(scanner, written), scanner, written, oth) BY <1>3, TextIsLaidOut
<1>6. PICK m \in Nat : m = Len(written) OBVIOUS
<1>7. PICK parts : parts = WrittenParts(written) OBVIOUS
<1>8. parts = [k \in 1..m |-> Written(written[k])] BY <1>6, <1>7 DEF WrittenParts
<1>9. \A k \in 1..m : parts[k] = Written(written[k]) /\ Len(parts[k]) \in Nat
  <2> SUFFICES ASSUME NEW k \in 1..m PROVE parts[k] = Written(written[k]) /\ Len(parts[k]) \in Nat OBVIOUS
  <2>1. PICK segment \in Segments : segment = written[k] BY <1>6
  <2>2. Written(segment) \in Seq(Symbols) BY SegmentKinds
  <2>3. QED BY <1>8, <2>1, <2>2
<1>10. Len(parts) = m
  <2>1. parts \in [1..m -> {parts[k] : k \in 1..m}] BY <1>8
  <2>2. QED BY <2>1
<1>11. off = oth
  <2>1. IsOffsets(off, parts) /\ IsOffsets(oth, parts) BY <1>4, <1>5, <1>7 DEF LaidOut
  <2>2. QED BY <1>10, <2>1, OffsetsUnique
<1>12. text \in Seq(Symbols) /\ off[m] = Len(text) BY <1>4, <1>6 DEF LaidOut
<1>13. \E k \in 1..m : \E j \in 1..Len(parts[k]) : i = off[k - 1] + j
  <2>1. IsOffsets(off, parts) /\ i \in 1..off[Len(parts)] BY <1>3, <1>4, <1>7, <1>10, <1>12 DEF LaidOut
  <2>2. \E k \in 1..Len(parts) : \E j \in 1..Len(parts[k]) : i = off[k - 1] + j BY <1>10, <2>1, OffsetsCover
  <2>3. QED BY <1>10, <2>2
<1>14. PICK k \in 1..m : \E j \in 1..Len(parts[k]) : i = off[k - 1] + j BY <1>13
<1>15. PICK j \in 1..Len(parts[k]) : i = off[k - 1] + j BY <1>14
<1>16. /\ At(text, Meaning(written), off[k - 1], Written(written[k]), ClassFor(knows, written[k]))
       /\ At(text, MeaningFor(scanner, written), off[k - 1], Written(written[k]), ClassFor(scanner, written[k]))
  BY <1>2, <1>4, <1>5, <1>6, <1>11 DEF LaidOut
<1>17. j \in 1..Len(Written(written[k])) BY <1>9, <1>15
<1>18. /\ Meaning(written)[i] = ClassFor(knows, written[k])
       /\ MeaningFor(scanner, written)[i] = ClassFor(scanner, written[k])
  BY <1>15, <1>16, <1>17 DEF At
<1>19. ClassFor(knows, written[k]) = ClassOf(written[k]) BY <1>1 DEF ClassFor
<1>20. DOMAIN text = 1..Len(text) /\ Len(text) \in Nat BY <1>12
<1>21. QED BY <1>3, <1>6, <1>18, <1>19, <1>20

LEMMA MeaningIsCode ==
  ASSUME NEW written, WellWritten(written), NEW scanner,
         \A k \in 1..Len(written) : Readable(scanner, written[k])
  PROVE  ToSet(Kept(TextOf(written), Meaning(written), {"code"})) \subseteq ToSet(CodeOf(TextOf(written), scanner))
<1>1. PICK text : text = TextOf(written) OBVIOUS
<1>2. written \in Seq(Segments) BY DEF WellWritten
<1>3. Len(text) \in Nat /\ DOMAIN text = 1..Len(text)
  <2>1. \E off : LaidOut(text, MeaningFor(scanner, written), scanner, written, off) BY <1>1, <1>2, TextIsLaidOut
  <2>2. text \in Seq(Symbols) BY <2>1 DEF LaidOut
  <2>3. QED BY <2>2
<1>4. PICK own : own = MeaningFor(scanner, written) OBVIOUS
<1>5. CodeOf(text, scanner) = Kept(text, own, {"code"}) BY <1>1, <1>4, ReadsText DEF CodeOf
<1>6. PICK meaning : meaning = Meaning(written) OBVIOUS
<1>7. \A i \in 1..Len(text) : meaning[i] \in {"code"} => own[i] \in {"code"}
  <2> SUFFICES ASSUME NEW i \in 1..Len(text), meaning[i] \in {"code"} PROVE own[i] \in {"code"} OBVIOUS
  <2>1. PICK k \in 1..Len(written) : meaning[i] = ClassOf(written[k]) /\ own[i] = ClassFor(scanner, written[k])
    BY <1>1, <1>2, <1>4, <1>6, PlaceOfSegment
  <2>2. QED BY <2>1 DEF ClassFor
<1>8. /\ ToSet(Kept(text, meaning, {"code"})) = {text[i] : i \in {i \in 1..Len(text) : meaning[i] \in {"code"}}}
      /\ ToSet(Kept(text, own, {"code"})) = {text[i] : i \in {i \in 1..Len(text) : own[i] \in {"code"}}}
  BY <1>3, KeptIsInOrder
<1>9. ToSet(Kept(text, meaning, {"code"})) \subseteq ToSet(Kept(text, own, {"code"})) BY <1>7, <1>8
<1>10. QED BY <1>1, <1>5, <1>6, <1>9

\* A scanner that knows no comments, where there is no quote in one.
LEMMA WithoutQuotes ==
  ASSUME NEW written \in Seq(Segments), NEW scanner, scanner.dollar = "code",
         \A i \in DOMAIN TextOf(written) : Meaning(written)[i] = "comment" => TextOf(written)[i] \notin Quotes
  PROVE  \A k \in 1..Len(written) : Readable(scanner, written[k])
<1> SUFFICES ASSUME NEW k \in 1..Len(written), written[k].kind \in {"line", "block"},
                    NEW i \in 1..Len(Written(written[k]))
             PROVE  Written(written[k])[i] \notin Quotes
  BY DEF Readable
<1>1. PICK knows : knows = [comments |-> TRUE] OBVIOUS
<1>2. MeaningFor(knows, written) = Meaning(written)
  BY <1>1, MeaningIsMeaningFor
<1>3. PICK text : text = TextOf(written) OBVIOUS
<1>4. PICK off : LaidOut(text, Meaning(written), knows, written, off) BY <1>2, <1>3, TextIsLaidOut
<1>5. At(text, Meaning(written), off[k - 1], Written(written[k]), ClassFor(knows, written[k])) BY <1>4 DEF LaidOut
<1>6. ClassFor(knows, written[k]) = "comment" BY <1>1 DEF ClassFor, ClassOf
<1>7. PICK n \in Nat : n = off[k - 1] BY <1>5 DEF At
<1>8. PICK part : part = Written(written[k]) OBVIOUS
<1>9. /\ Len(part) \in Nat /\ n + Len(part) <= Len(text)
      /\ text[n + i] = part[i] /\ Meaning(written)[n + i] = "comment" /\ i \in 1..Len(part)
  BY <1>5, <1>6, <1>7, <1>8 DEF At
<1>10. n + i \in DOMAIN text
  <2>1. text \in Seq(Symbols) BY <1>4 DEF LaidOut
  <2>2. Len(text) \in Nat /\ DOMAIN text = 1..Len(text) BY <2>1
  <2>3. n + i \in 1..Len(text) BY <1>9, <2>2
  <2>4. QED BY <2>2, <2>3
<1>11. QED BY <1>3, <1>8, <1>9, <1>10

\* Every segment is closed, if the scanners find the text closed.
LEMMA ClosedText ==
  ASSUME NEW written, WellWritten(written), ~(written # <<>> /\ written[Len(written)].kind = "open")
  PROVE  \A n \in DOMAIN written : written[n].kind # "open"
<1>1. written \in Seq(Segments) BY DEF WellWritten
<1>2. Len(written) \in Nat /\ DOMAIN written = 1..Len(written) BY <1>1
<1>3. SUFFICES ASSUME NEW n \in 1..Len(written) PROVE written[n].kind # "open" BY <1>2
<1>4. CASE n = Len(written)
  <2>1. written # <<>> BY <1>2, <1>3
  <2>2. QED BY <1>4, <2>1
<1>5. CASE n # Len(written)
  <2>1. PICK m \in Nat : m = Len(written) BY <1>2
  <2>2. n \in 1..m - 1 BY <1>3, <1>5, <2>1
  <2>3. QED BY <2>1, <2>2, ZenonT(60) DEF WellWritten
<1>6. QED BY <1>4, <1>5

-----------------------------------------------------------------------------
(* Texts are well written.                                                 *)

LEMMA TextsAreWellWritten ==
  TextSpec => []WellWritten(segments)
<1>1. TextInit => WellWritten(segments)
  <2>1. <<>> \in Seq(Segments) /\ Len(<<>>) = 0 /\ 1..0 - 1 = {} OBVIOUS
  <2>2. QED BY <2>1 DEF TextInit, WellWritten
<1>2. WellWritten(segments) /\ [WriteText]_textVars => WellWritten(segments)'
  <2> SUFFICES ASSUME WellWritten(segments), [WriteText]_textVars PROVE WellWritten(segments)' OBVIOUS
  <2>1. CASE segments' = segments BY <2>1 DEF WellWritten
  <2>2. ASSUME NEW segment \in Segments, WriteSegment(segment) PROVE WellWritten(segments)'
    <3>1. segments \in Seq(Segments) BY DEF WellWritten
    <3>2. PICK m \in Nat : m = Len(segments) BY <3>1
    <3>3. PICK more : more = segments' OBVIOUS
    <3>4. more = Append(segments, segment) BY <2>2, <3>3 DEF WriteSegment
    <3>5. /\ more \in Seq(Segments) /\ Len(more) = m + 1 /\ more[m + 1] = segment
          /\ \A k \in 1..m : more[k] = segments[k]
      BY <3>1, <3>2, <3>4
    <3>6. ASSUME NEW k \in 1..m
          PROVE  more[k].kind # "open" /\ (more[k + 1].quote # "" => more[k].quote # more[k + 1].quote)
      <4>1. CASE k = m
        <5>1. segments # <<>> BY <3>1, <3>2, EmptySeq
        <5>2. Last(segments) = segments[m] BY <3>2 DEF Last
        <5>3. segments[m].kind # "open" /\ (segment.quote # "" => segments[m].quote # segment.quote)
          BY <2>2, <5>1, <5>2 DEF WriteSegment
        <5>4. QED BY <3>5, <4>1, <5>3
      <4>2. CASE k # m
        <5>1. k \in 1..Len(segments) - 1 /\ k + 1 \in 1..m BY <3>2, <4>2
        <5>2. segments[k].kind # "open" /\ (segments[k + 1].quote # "" => segments[k].quote # segments[k + 1].quote)
          BY <5>1 DEF WellWritten
        <5>3. QED BY <3>5, <5>1, <5>2
      <4>3. QED BY <4>1, <4>2
    <3>7. 1..Len(more) - 1 = 1..m BY <3>5
    <3>8. WellWritten(more) BY <3>5, <3>6, <3>7 DEF WellWritten
    <3>9. QED BY <3>3, <3>8 DEF WellWritten
  <2>3. ASSUME NEW p \in Phrases, WritePhrase(p) PROVE segments' = segments BY <2>3 DEF WritePhrase
  <2>4. CASE UNCHANGED textVars BY <2>1, <2>4 DEF textVars
  <2>5. QED BY <2>1, <2>2, <2>3, <2>4 DEF WriteText
<1>3. QED BY <1>1, <1>2, PTL DEF TextSpec

-----------------------------------------------------------------------------
(* What follows for the checks made before a text is run.                  *)

LEMMA TextIsSequence ==
  ASSUME NEW written, WellWritten(written)
  PROVE  /\ written \in Seq(Segments) /\ TextOf(written) \in Seq(Symbols)
         /\ Len(TextOf(written)) \in Nat /\ DOMAIN TextOf(written) = 1..Len(TextOf(written))
         /\ Meaning(written) \in Seq(Classes) /\ DOMAIN Meaning(written) = 1..Len(TextOf(written))
<1>1. written \in Seq(Segments) BY DEF WellWritten
<1>2. PICK knows : knows = [comments |-> TRUE] OBVIOUS
<1>3. MeaningFor(knows, written) = Meaning(written)
  BY <1>2, MeaningIsMeaningFor
<1>4. PICK off : LaidOut(TextOf(written), Meaning(written), knows, written, off) BY <1>1, <1>3, TextIsLaidOut
<1>5. /\ TextOf(written) \in Seq(Symbols) /\ Meaning(written) \in Seq(Classes)
      /\ Len(Meaning(written)) = Len(TextOf(written))
  BY <1>4 DEF LaidOut
<1>6. QED BY <1>1, <1>5

LEMMA PagedTextIsAQuery ==
  ASSUME NEW written, WellWritten(written), NEW text, text = TextOf(written), NEW meaning, meaning = Meaning(written),
         NEW code, code = Kept(text, meaning, {"code"}), ValidatePageRequest(text),
         ~\E i \in DOMAIN text : meaning[i] = "comment" /\ text[i] \in Quotes
  PROVE  (\A n \in DOMAIN written : written[n].kind # "open") /\ ChangesNothing(code) /\ OneStatement(code)
<1>1. AnalyzeStatementScanner.comments /\ ~MutationCheckScanner.comments /\ MutationCheckScanner.dollar = "code"
  BY DEF AnalyzeStatementScanner, MutationCheckScanner, Scanner
<1>2. Scan(text, AnalyzeStatementScanner).class = meaning
  BY <1>1, ClassesAgree
<1>3. \A n \in DOMAIN written : written[n].kind # "open"
  <2>1. ~Scan(text, AnalyzeStatementScanner).open BY DEF ValidatePageRequest
  <2>2. QED BY <1>1, <2>1, ClassesAgree, ClosedText
<1>4. ChangesNothing(code)
  <2>1. ToSet(CodeOf(text, MutationCheckScanner)) \cap Mutating = {}
    BY DEF ValidatePageRequest, HasMutationClause
  <2>2. \A k \in 1..Len(written) : Readable(MutationCheckScanner, written[k])
    BY <1>1, WithoutQuotes, TextIsSequence
  <2>3. ToSet(code) \subseteq ToSet(CodeOf(text, MutationCheckScanner)) BY <2>2, MeaningIsCode
  <2>4. QED BY <2>1, <2>3 DEF ChangesNothing
<1>5. OneStatement(code)
  <2>1. ~HasMultipleStatements(text) BY DEF ValidatePageRequest
  <2>2. Len(text) \in Nat /\ DOMAIN text = 1..Len(text) BY TextIsSequence
  <2>3. PICK classes : classes = {"code"} OBVIOUS
  <2>4. OneStatementIn(text, meaning, classes)
    <3>1. PICK l \in Nat : l = Len(text) BY <2>2
    <3>2. DOMAIN text = 1..l BY <2>2, <3>1
    <3>3. ASSUME NEW a \in 1..l, NEW b \in 1..l, a < b, text[a] = ";", meaning[a] = "code", meaning[b] = "code"
          PROVE  text[b] = "nl"
      BY <1>2, <2>1, <3>2, <3>3 DEF HasMultipleStatements
    <3>4. QED BY <2>3, <3>1, <3>3, ZenonT(60) DEF OneStatementIn
  <2>5. QED BY <2>2, <2>3, <2>4, KeptIsInOrder
<1>6. QED BY <1>3, <1>4, <1>5

LEMMA ViewDefinitionIsAQuery ==
  ASSUME NEW written, WellWritten(written), NEW text, text = TextOf(written), NEW meaning, meaning = Meaning(written),
         NEW code, code = Kept(text, meaning, {"code"}), InspectViewDefinition(text)
  PROVE  /\ \A n \in DOMAIN written : written[n].kind # "open"
         /\ ChangesNothing(code) /\ "comment" \notin ToSet(meaning) /\ ";" \notin ToSet(code)
<1>1. InspectViewDefinitionScanner.comments BY DEF InspectViewDefinitionScanner, Scanner
<1>2. Scan(text, InspectViewDefinitionScanner).class = meaning BY <1>1, ClassesAgree
<1>3. \A n \in DOMAIN written : written[n].kind # "open"
  <2>1. ~Scan(text, InspectViewDefinitionScanner).open BY DEF InspectViewDefinition
  <2>2. QED BY <1>1, <2>1, ClassesAgree, ClosedText
<1>4. ToSet(code) \cap (Mutating \cup {"DROP", ";"}) = {} /\ "comment" \notin ToSet(meaning)
  BY <1>2 DEF InspectViewDefinition
<1>5. QED BY <1>3, <1>4 DEF ChangesNothing

LEMMA CheckExpressionIsOne ==
  ASSUME NEW written, WellWritten(written), NEW text, text = TextOf(written), NEW meaning, meaning = Meaning(written),
         NEW code, code = Kept(text, meaning, {"code"}), ConstraintExpression(text)
  PROVE  ChangesNothing(code) /\ "comment" \notin ToSet(meaning) /\ ";" \notin ToSet(code)
<1>1. written \in Seq(Segments) /\ Len(text) \in Nat /\ DOMAIN text = 1..Len(text) /\ DOMAIN meaning = 1..Len(text)
  BY TextIsSequence
<1>2. {";", "--", "/*"} \cap ToSet(text) = {}
      /\ ToSet(CodeOf(text, ConstraintScanner)) \cap (Mutating \cup {"DROP"}) = {}
  BY DEF ConstraintExpression
<1>3. \A i \in 1..Len(text) : text[i] \notin {";", "--", "/*"} BY <1>1, <1>2 DEF ToSet
<1>4. \A k \in 1..Len(written) : written[k].kind \notin {"line", "block"}
  <2> SUFFICES ASSUME NEW k \in 1..Len(written), written[k].kind \in {"line", "block"} PROVE FALSE OBVIOUS
  <2>1. PICK off : LaidOut(text, MeaningFor(ConstraintScanner, written), ConstraintScanner, written, off)
    BY <1>1, TextIsLaidOut
  <2>2. PICK segment \in Segments : segment = written[k] BY <1>1
  <2>3. PICK n : n = off[k - 1] OBVIOUS
  <2>4. At(text, MeaningFor(ConstraintScanner, written), n, Written(segment), ClassFor(ConstraintScanner, segment))
    BY <2>1, <2>2, <2>3 DEF LaidOut
  <2>5. PICK part \in Seq(Symbols) : part = Written(segment) BY SegmentKinds
  <2>6. PICK l \in Nat : l = Len(part) OBVIOUS
  <2>7. l > 0 BY <2>5, <2>6, SegmentKinds
  <2>8. n \in Nat /\ n + l <= Len(text) /\ \A i \in 1..l : text[n + i] = part[i] BY <2>4, <2>5, <2>6 DEF At
  <2>9. n + 1 \in 1..Len(text) /\ text[n + 1] = part[1] BY <1>1, <2>7, <2>8
  <2>10. part[1] \in {"--", "/*"}
    <3>1. IsLine(segment) \/ IsBlock(segment) BY <2>2, SegmentKinds DEF IsCode, IsValue
    <3>2. "--" \in Symbols /\ "nl" \in Symbols /\ "/*" \in Symbols /\ "*/" \in Symbols BY DEF Symbols, Delimiters
    <3>3. CASE IsLine(segment)
      <4>1. PICK inside : inside \in Seq(Symbols \ {"nl"}) /\ part = <<"--">> \o inside \o <<"nl">>
        BY <2>5, <3>3 DEF IsLine
      <4>2. inside \in Seq(Symbols) BY <4>1, SeqOfMore
      <4>3. part[1] = "--" BY <3>2, <4>1, <4>2, Framed
      <4>4. QED BY <4>3
    <3>4. CASE IsBlock(segment)
      <4>1. PICK inside : inside \in Seq(Symbols \ {"/*", "*/"}) /\ part = <<"/*">> \o inside \o <<"*/">>
        BY <2>5, <3>4 DEF IsBlock
      <4>2. inside \in Seq(Symbols) BY <4>1, SeqOfMore
      <4>3. part[1] = "/*" BY <3>2, <4>1, <4>2, Framed
      <4>4. QED BY <4>3
    <3>5. QED BY <3>1, <3>3, <3>4
  <2>11. QED BY <1>3, <2>9, <2>10
<1>5. \A k \in 1..Len(written) : Readable(ConstraintScanner, written[k]) BY <1>4 DEF Readable
<1>6. ToSet(code) \subseteq ToSet(CodeOf(text, ConstraintScanner)) BY <1>5, MeaningIsCode
<1>7. ";" \notin ToSet(code)
  <2>1. ToSet(code) = {text[i] : i \in {i \in 1..Len(text) : meaning[i] \in {"code"}}} BY <1>1, KeptIsInOrder
  <2>2. QED BY <1>3, <2>1
<1>8. "comment" \notin ToSet(meaning)
  <2> SUFFICES ASSUME NEW i \in 1..Len(text), meaning[i] = "comment" PROVE FALSE BY <1>1 DEF ToSet
  <2>1. PICK k \in 1..Len(written) : meaning[i] = ClassOf(written[k]) BY <1>1, PlaceOfSegment
  <2>2. PICK segment \in Segments : segment = written[k] BY <1>1
  <2>3. segment.kind \in {"code", "value", "open"}
    BY <1>4, <2>2, SegmentKinds DEF IsCode, IsValue, IsLine, IsBlock
  <2>4. ClassOf(segment) # "comment" BY <2>3 DEF ClassOf
  <2>5. QED BY <2>1, <2>2, <2>4
<1>9. QED BY <1>2, <1>6, <1>7, <1>8 DEF ChangesNothing

-----------------------------------------------------------------------------
(* The results.                                                            *)

(* The scanners understand every text that is written segment by segment,  *)
(* of any length, with anything but a backslash in its values and anything *)
(* but delimiters of comments in its comments.  (splitSqlStatements,       *)
(* analyzeStatement, inspectViewDefinition, constraintExpressionError,     *)
(* tokenizeSql and redactSqlForAudit.)                                     *)
THEOREM TextsAreUnderstoodHolds == TextSpec => []TextsAreUnderstood
<1>1. ASSUME WellWritten(segments) PROVE TextsAreUnderstood
  <2>1. PICK text : text = TextOf(segments) OBVIOUS
  <2>2. PICK meaning : meaning = Meaning(segments) OBVIOUS
  <2>3. PICK code : code = Kept(text, meaning, {"code"}) OBVIOUS
  <2> DEFINE closed == \A n \in DOMAIN segments : segments[n].kind # "open"
             commented == "comment" \in ToSet(meaning)
             quoteInComment == \E i \in DOMAIN text : meaning[i] = "comment" /\ text[i] \in Quotes
             changes == ToSet(code) \cap Mutating # {}
             oneStatement == \A i, j \in DOMAIN code : i < j /\ code[i] = ";" => code[j] = "nl"
  <2>4. ASSUME NEW scanner, scanner.comments PROVE Scan(text, scanner).class = meaning
    BY <1>1, <2>1, <2>2, <2>4, ClassesAgree
  <2>5. \A scanner \in {AnalyzeStatementScanner, InspectViewDefinitionScanner, TokenizeSqlScanner} :
          Scan(text, scanner).class = meaning
    BY <2>4 DEF AnalyzeStatementScanner, InspectViewDefinitionScanner, TokenizeSqlScanner, Scanner
  <2>6. SplitSqlStatements(text) = Pieces(Marked(text, meaning))
    <3>1. SplitSqlStatementsScanner.comments BY DEF SplitSqlStatementsScanner, Scanner
    <3>2. QED BY <2>4, <3>1 DEF SplitSqlStatements
  <2>7. RedactSqlForAudit(text) = code
    <3>1. RedactSqlScanner.comments BY DEF RedactSqlScanner, Scanner
    <3>2. QED BY <2>3, <2>4, <3>1 DEF RedactSqlForAudit, CodeOf
  <2>8. ASSUME ValidatePageRequest(text), ~quoteInComment PROVE closed /\ ~changes /\ oneStatement
    <3>1. closed /\ ChangesNothing(code) /\ OneStatement(code)
      BY <1>1, <2>1, <2>2, <2>3, <2>8, PagedTextIsAQuery
    <3>2. QED BY <3>1 DEF ChangesNothing, OneStatement
  <2>9. ASSUME InspectViewDefinition(text)
        PROVE  closed /\ ~changes /\ ~commented /\ ";" \notin ToSet(code)
    <3>1. closed /\ ChangesNothing(code) /\ "comment" \notin ToSet(meaning) /\ ";" \notin ToSet(code)
      BY <1>1, <2>1, <2>2, <2>3, <2>9, ViewDefinitionIsAQuery
    <3>2. QED BY <3>1 DEF ChangesNothing
  <2>10. ASSUME ConstraintExpression(text)
         PROVE  ~changes /\ ~commented /\ ";" \notin ToSet(code)
    <3>1. ChangesNothing(code) /\ "comment" \notin ToSet(meaning) /\ ";" \notin ToSet(code)
      BY <1>1, <2>1, <2>2, <2>3, <2>10, CheckExpressionIsOne
    <3>2. QED BY <3>1 DEF ChangesNothing
  <2> HIDE DEF closed, commented, quoteInComment, changes, oneStatement
  <2>11. /\ \A scanner \in {AnalyzeStatementScanner, InspectViewDefinitionScanner, TokenizeSqlScanner} :
              Scan(text, scanner).class = meaning
         /\ SplitSqlStatements(text) = Pieces(Marked(text, meaning))
         /\ RedactSqlForAudit(text) = code
         /\ ValidatePageRequest(text) /\ ~quoteInComment => closed /\ ~changes /\ oneStatement
         /\ InspectViewDefinition(text) => closed /\ ~changes /\ ~commented /\ ";" \notin ToSet(code)
         /\ ConstraintExpression(text) /\ closed => ~changes /\ ~commented /\ ";" \notin ToSet(code)
    BY <2>5, <2>6, <2>7, <2>8, <2>9, <2>10
  <2>12. QED BY <2>1, <2>2, <2>3, <2>11 DEF TextsAreUnderstood, closed, commented, quoteInComment, changes, oneStatement
<1>2. QED BY <1>1, TextsAreWellWritten, PTL


-----------------------------------------------------------------------------
(* Phrases.                                                                *)

\* The words a phrase may have behind its first one.
Fillers == {"x", "FROM", "AS"}
Firsts == {"UPDATE", "DELETE", "DROP", "SELECT", "WHERE", "WITH", "(", ")", ";"}
Words == Firsts \cup Fillers

\* A phrase is known by its first word.
IsPhrase(p) ==
  /\ p \in Seq(Words) /\ Len(p) \in 1..3 /\ p[1] \in Firsts /\ \A m \in 2..Len(p) : p[m] \in Fillers
  /\ p = Update <=> p[1] = "UPDATE"
  /\ p = Delete <=> p[1] = "DELETE"
  /\ p = DropTable <=> p[1] = "DROP"
  /\ p = Where <=> p[1] = "WHERE"
  /\ p = Open <=> p[1] = "("
  /\ p = Close <=> p[1] = ")"
  /\ p = Delimiter <=> p[1] = ";"
  /\ p \in {Update, Delete, DropTable} => Len(p) > 1 /\ p[2] # "AS" /\ (p = Delete => p[2] = "FROM")
  /\ p \in {Open, Close, Delimiter} => Len(p) = 1

\* The phrases one by one.
PhrasesBegin ==
  /\ Update[1] = "UPDATE" /\ Delete[1] = "DELETE" /\ DropTable[1] = "DROP" /\ Select[1] = "SELECT"
  /\ Where[1] = "WHERE" /\ WithClause[1] = "WITH" /\ Open[1] = "(" /\ Close[1] = ")" /\ Delimiter[1] = ";"

LEMMA PhrasesBegun == PhrasesBegin
BY DEF PhrasesBegin, Update, Delete, DropTable, Select, Where, WithClause, Open, Close, Delimiter

LEMMA PhrasesAre == \A p \in Phrases : IsPhrase(p)
<1>1. Update \in Seq(Words) /\ Len(Update) = 2 /\ Update[1] = "UPDATE" /\ Update[2] = "x"
  BY DEF Update, Words, Firsts, Fillers
<1>2. Delete \in Seq(Words) /\ Len(Delete) = 3 /\ Delete[1] = "DELETE" /\ Delete[2] = "FROM" /\ Delete[3] = "x"
  BY DEF Delete, Words, Firsts, Fillers
<1>3. DropTable \in Seq(Words) /\ Len(DropTable) = 2 /\ DropTable[1] = "DROP" /\ DropTable[2] = "x"
  BY DEF DropTable, Words, Firsts, Fillers
<1>4. Select \in Seq(Words) /\ Len(Select) = 2 /\ Select[1] = "SELECT" /\ Select[2] = "x"
  BY DEF Select, Words, Firsts, Fillers
<1>5. Where \in Seq(Words) /\ Len(Where) = 2 /\ Where[1] = "WHERE" /\ Where[2] = "x"
  BY DEF Where, Words, Firsts, Fillers
<1>6. WithClause \in Seq(Words) /\ Len(WithClause) = 3 /\ WithClause[1] = "WITH" /\ WithClause[2] = "x" /\ WithClause[3] = "AS"
  BY DEF WithClause, Words, Firsts, Fillers
<1>7. Open \in Seq(Words) /\ Len(Open) = 1 /\ Open[1] = "("
  BY DEF Open, Words, Firsts, Fillers
<1>8. Close \in Seq(Words) /\ Len(Close) = 1 /\ Close[1] = ")"
  BY DEF Close, Words, Firsts, Fillers
<1>9. Delimiter \in Seq(Words) /\ Len(Delimiter) = 1 /\ Delimiter[1] = ";"
  BY DEF Delimiter, Words, Firsts, Fillers
<1>10. PhrasesBegin BY PhrasesBegun
<1>11. ASSUME NEW p \in Phrases PROVE IsPhrase(p)
  <2>1. p \in Seq(Words) /\ Len(p) \in 1..3 /\ \A m \in 2..Len(p) : p[m] \in Fillers
    <3>1. CASE p \in {Update, DropTable, Select, Where}
      <4>1. p \in Seq(Words) /\ Len(p) = 2 /\ p[2] = "x" BY <1>1, <1>3, <1>4, <1>5, <3>1
      <4>2. QED BY <4>1 DEF Fillers
    <3>2. CASE p \in {Delete, WithClause}
      <4>1. p \in Seq(Words) /\ Len(p) = 3 /\ p[2] \in Fillers /\ p[3] \in Fillers BY <1>2, <1>6, <3>2 DEF Fillers
      <4>2. \A m \in 2..3 : m = 2 \/ m = 3 OBVIOUS
      <4>3. QED BY <4>1, <4>2
    <3>3. CASE p \in {Open, Close, Delimiter}
      <4>1. p \in Seq(Words) /\ Len(p) = 1 BY <1>7, <1>8, <1>9, <3>3
      <4>2. 2..1 = {} OBVIOUS
      <4>3. QED BY <4>1, <4>2
    <3>4. QED BY <3>1, <3>2, <3>3 DEF Phrases
  <2>2. /\ p[1] \in Firsts
        /\ p = Update <=> p[1] = "UPDATE"
        /\ p = Delete <=> p[1] = "DELETE"
        /\ p = DropTable <=> p[1] = "DROP"
        /\ p = Where <=> p[1] = "WHERE"
        /\ p = Open <=> p[1] = "("
        /\ p = Close <=> p[1] = ")"
        /\ p = Delimiter <=> p[1] = ";"
    BY <1>10 DEF PhrasesBegin, Phrases, Firsts
  <2>3. p \in {Update, Delete, DropTable} => Len(p) > 1 /\ p[2] # "AS" /\ (p = Delete => p[2] = "FROM")
    BY <1>1, <1>2, <1>3
  <2>4. p \in {Open, Close, Delimiter} => Len(p) = 1 BY <1>7, <1>8, <1>9
  <2>5. QED BY <2>1, <2>2, <2>3, <2>4 DEF IsPhrase
<1>12. QED BY <1>11

\* A parenthesis opens or closes a depth, and no other phrase does.
Count(ph, p, k) == Cardinality({i \in 1..k : ph[i] = p})
Counts(ph, p, k) == Count(ph, p, k) = IF ph[k] = p THEN Count(ph, p, k - 1) + 1 ELSE Count(ph, p, k - 1)
Depths(ph, k) == Count(ph, Open, k) - Count(ph, Close, k)

LEMMA CountNext ==
  ASSUME NEW ph, NEW p
  PROVE  /\ Count(ph, p, 0) = 0
         /\ \A k \in Nat : Count(ph, p, k) \in Nat
         /\ \A k \in Nat \ {0} : Counts(ph, p, k)
<1> DEFINE Places(k) == {i \in 1..k : ph[i] = p}
<1>1. \A k \in Nat : IsFiniteSet(Places(k)) /\ Cardinality(Places(k)) \in Nat
  <2> SUFFICES ASSUME NEW k \in Nat PROVE IsFiniteSet(Places(k)) /\ Cardinality(Places(k)) \in Nat OBVIOUS
  <2>1. Places(k) \in SUBSET (1..k) /\ IsFiniteSet(1..k) BY FS_Interval
  <2> HIDE DEF Places
  <2>2. IsFiniteSet(Places(k)) BY <2>1, FS_Subset
  <2>3. QED BY <2>2, FS_CardinalityType
<1>2. Places(0) = {} OBVIOUS
<1>3. \A k \in Nat \ {0} : /\ ph[k] = p => Places(k) = Places(k - 1) \cup {k}
                           /\ ph[k] # p => Places(k) = Places(k - 1)
                           /\ k \notin Places(k - 1)
  <2> SUFFICES ASSUME NEW k \in Nat \ {0}
               PROVE  /\ ph[k] = p => Places(k) = Places(k - 1) \cup {k}
                      /\ ph[k] # p => Places(k) = Places(k - 1)
                      /\ k \notin Places(k - 1)
    OBVIOUS
  <2>1. 1..k = (1..k - 1) \cup {k} /\ k \notin 1..k - 1 OBVIOUS
  <2>2. QED BY <2>1
<1>4. \A k \in Nat : Count(ph, p, k) = Cardinality(Places(k)) BY DEF Count
<1> HIDE DEF Places
<1>5. ASSUME NEW k \in Nat \ {0}
      PROVE  Counts(ph, p, k)
  <2>1. k - 1 \in Nat /\ k \in Nat OBVIOUS
  <2>2. IsFiniteSet(Places(k - 1)) BY <1>1, <2>1
  <2>3. CASE ph[k] = p
    <3>1. Cardinality(Places(k - 1) \cup {k}) = Cardinality(Places(k - 1)) + 1 BY <1>3, <2>2, FS_AddElement
    <3>2. QED BY <1>3, <1>4, <2>1, <2>3, <3>1 DEF Counts
  <2>4. CASE ph[k] # p BY <1>3, <1>4, <2>1, <2>4 DEF Counts
  <2>5. QED BY <2>3, <2>4
<1>6. QED BY <1>1, <1>2, <1>4, <1>5, FS_EmptySet

LEMMA DepthNext ==
  ASSUME NEW ph
  PROVE  /\ Depths(ph, 0) = 0
         /\ \A k \in Nat : Depths(ph, k) \in Int
         /\ \A k \in Nat \ {0} : Depths(ph, k) = IF ph[k] = Open THEN Depths(ph, k - 1) + 1
                                                ELSE IF ph[k] = Close THEN Depths(ph, k - 1) - 1
                                                ELSE Depths(ph, k - 1)
<1>1. Open # Close
  <2>1. Open \in Phrases /\ Close \in Phrases BY DEF Phrases
  <2>2. Open[1] = "(" /\ Close[1] = ")" BY <2>1, PhrasesAre DEF IsPhrase
  <2>3. QED BY <2>2
<1>2. Depths(ph, 0) = 0 BY CountNext DEF Depths
<1>3. ASSUME NEW k \in Nat PROVE Depths(ph, k) \in Int
  <2>1. Count(ph, Open, k) \in Nat /\ Count(ph, Close, k) \in Nat BY CountNext
  <2>2. QED BY <2>1 DEF Depths
<1>4. ASSUME NEW k \in Nat \ {0}
      PROVE  Depths(ph, k) = IF ph[k] = Open THEN Depths(ph, k - 1) + 1
                             ELSE IF ph[k] = Close THEN Depths(ph, k - 1) - 1 ELSE Depths(ph, k - 1)
  <2>1. k - 1 \in Nat OBVIOUS
  <2>2. Count(ph, Open, k - 1) \in Nat /\ Count(ph, Close, k - 1) \in Nat BY <2>1, CountNext
  <2>3. Counts(ph, Open, k) /\ Counts(ph, Close, k) BY CountNext
  <2>4. QED BY <1>1, <2>2, <2>3 DEF Counts, Depths
<1>5. QED BY <1>2, <1>3, <1>4

LEMMA DepthAtIs == \A k : DepthAt(k) = Depths(phrases, k)
BY DEF DepthAt, Depths, Occurrences, Count

-----------------------------------------------------------------------------
(* What the writer of phrases keeps to.                                    *)

Before(ph, k) == IF k = 1 THEN <<>> ELSE ph[k - 1]
PhraseFits(ph, k) ==
  /\ Depths(ph, k) >= 0
  /\ ph[k] \in {Update, Delete, DropTable} =>
       Before(ph, k) \in {<<>>, Delimiter, Open} \/ (Before(ph, k) = Close /\ Depths(ph, k - 1) = 0)
  /\ ph[k] \in {DropTable, Delimiter} => Depths(ph, k - 1) = 0
  /\ ph[k] = Open => \A j \in 1..k - 1 : ph[j] = Open => Depths(ph, j) # Depths(ph, k - 1) + 1
PhrasesFit(ph) == ph \in Seq(Phrases) /\ \A k \in 1..Len(ph) : PhraseFits(ph, k)

\* What a phrase may follow, kind by kind.
LEMMA FollowsIs ==
  ASSUME NEW previous, NEW depth
  PROVE  /\ \A p \in Heads : Follows(p, previous, depth) =>
              /\ previous \in {<<>>, Delimiter, Open} \/ (previous = Close /\ depth = 0)
              /\ p = DropTable => depth = 0
         /\ Follows(Open, previous, depth) =>
              \A k \in DOMAIN phrases : phrases[k] = Open => DepthAt(k) # depth + 1
         /\ Follows(Close, previous, depth) => depth > 0
         /\ Follows(Delimiter, previous, depth) => depth = 0
<1>1. Heads \subseteq Phrases /\ {Open, Close, Delimiter, WithClause, Where} \subseteq Phrases
  BY DEF Heads, Phrases
<1>2. PhrasesBegin BY PhrasesBegun
<1>3. \A p \in Heads : Follows(p, previous, depth) =>
        /\ previous \in {<<>>, Delimiter, Open} \/ (previous = Close /\ depth = 0)
        /\ p = DropTable => depth = 0
  <2> SUFFICES ASSUME NEW p \in Heads, Follows(p, previous, depth)
               PROVE  /\ previous \in {<<>>, Delimiter, Open} \/ (previous = Close /\ depth = 0)
                      /\ p = DropTable => depth = 0
    OBVIOUS
  <2>1. p # WithClause /\ p # Where /\ p # Open /\ p # Close /\ p # Delimiter
    BY <1>2 DEF PhrasesBegin, Heads
  <2>2. QED BY <2>1 DEF Follows
<1>4. Open \notin Heads /\ Close \notin Heads /\ Delimiter \notin Heads BY <1>2 DEF PhrasesBegin, Heads
<1>5. /\ Open # WithClause /\ Open # Where /\ Open # Close /\ Open # Delimiter
      /\ Close # WithClause /\ Close # Where /\ Close # Delimiter
      /\ Delimiter # WithClause /\ Delimiter # Where
  BY <1>2 DEF PhrasesBegin
<1>6. Follows(Open, previous, depth) => \A k \in DOMAIN phrases : phrases[k] = Open => DepthAt(k) # depth + 1
  BY <1>4, <1>5 DEF Follows
<1>7. Follows(Close, previous, depth) => depth > 0 BY <1>4, <1>5 DEF Follows
<1>8. Follows(Delimiter, previous, depth) => depth = 0 BY <1>4, <1>5 DEF Follows
<1>9. QED BY <1>3, <1>6, <1>7, <1>8

\* What a phrase may follow is what makes it fit.
LEMMA PhraseFollows ==
  ASSUME NEW ph, NEW n \in Nat, NEW p \in Phrases, ph[n + 1] = p, \A k \in 0..n : Depths(ph, k) >= 0,
         phrases \in Seq(Phrases), Len(phrases) = n, \A i \in 1..n : phrases[i] = ph[i],
         \A k \in 0..n : DepthAt(k) = Depths(ph, k), Follows(p, Before(ph, n + 1), DepthAt(n))
  PROVE  PhraseFits(ph, n + 1)
<1>1. n \in 0..n /\ n + 1 \in Nat \ {0} /\ (n + 1) - 1 = n OBVIOUS
<1>2. /\ DepthAt(n) = Depths(ph, n) /\ Depths(ph, n) \in Int
      /\ Depths(ph, n + 1) = IF p = Open THEN Depths(ph, n) + 1
                             ELSE IF p = Close THEN Depths(ph, n) - 1 ELSE Depths(ph, n)
  BY <1>1, DepthNext
<1>3. Depths(ph, n) >= 0 BY <1>1
<1>4. PhrasesBegin BY PhrasesBegun
<1>5. Depths(ph, n + 1) >= 0
  <2>1. p = Close => Depths(ph, n) > 0 BY <1>2, FollowsIs
  <2>2. QED BY <1>2, <1>3, <2>1
<1>6. ASSUME p \in {Update, Delete, DropTable}
      PROVE  Before(ph, n + 1) \in {<<>>, Delimiter, Open} \/ (Before(ph, n + 1) = Close /\ Depths(ph, n) = 0)
  <2>1. p \in Heads BY <1>6 DEF Heads
  <2>2. QED BY <1>2, <2>1, FollowsIs
<1>7. ASSUME p \in {DropTable, Delimiter} PROVE Depths(ph, n) = 0
  <2>1. DropTable \in Heads BY DEF Heads
  <2>2. QED BY <1>2, <1>7, <2>1, FollowsIs
<1>8. ASSUME p = Open, NEW j \in 1..n, ph[j] = Open PROVE Depths(ph, j) # Depths(ph, n) + 1
  <2>1. j \in DOMAIN phrases /\ phrases[j] = Open /\ DepthAt(j) = Depths(ph, j) BY <1>8
  <2>2. QED BY <1>2, <1>8, <2>1, FollowsIs
<1>9. QED BY <1>1, <1>5, <1>6, <1>7, <1>8 DEF PhraseFits

LEMMA DepthsSame ==
  ASSUME NEW ph, NEW other, NEW n \in Nat, \A i \in 1..n : ph[i] = other[i]
  PROVE  \A k \in 0..n : Depths(ph, k) = Depths(other, k)
<1>1. ASSUME NEW k \in 0..n, NEW p PROVE Count(ph, p, k) = Count(other, p, k)
  <2>1. {i \in 1..k : ph[i] = p} = {i \in 1..k : other[i] = p} OBVIOUS
  <2>2. QED BY <2>1 DEF Count
<1>2. QED BY <1>1 DEF Depths

LEMMA PhraseIsWritten ==
  ASSUME PhrasesFit(phrases), NEW p \in Phrases, WritePhrase(p)
  PROVE  PhrasesFit(phrases')
<1>1. PICK n \in Nat : n = Len(phrases) BY DEF PhrasesFit
<1>2. PICK ph : ph = phrases' OBVIOUS
<1>3. ph \in Seq(Phrases) /\ Len(ph) = n + 1 /\ ph[n + 1] = p /\ \A i \in 1..n : ph[i] = phrases[i]
  BY <1>1, <1>2 DEF WritePhrase, PhrasesFit
<1>4. phrases \in Seq(Phrases) /\ \A k \in 1..n : PhraseFits(phrases, k) BY <1>1 DEF PhrasesFit
<1>5. \A k \in 0..n : Depths(ph, k) = Depths(phrases, k) BY <1>3, DepthsSame
<1>6. ASSUME NEW k \in 1..n PROVE PhraseFits(ph, k)
  <2>1. PhraseFits(phrases, k) BY <1>4
  <2>2. Depths(ph, k) = Depths(phrases, k) /\ Depths(ph, k - 1) = Depths(phrases, k - 1) BY <1>5
  <2>3. ph[k] = phrases[k] BY <1>3
  <2>4. Before(ph, k) = Before(phrases, k)
    <3>1. k # 1 => k - 1 \in 1..n OBVIOUS
    <3>2. QED BY <1>3, <3>1 DEF Before
  <2>5. \A j \in 1..k - 1 : j \in 0..n /\ j \in 1..n OBVIOUS
  <2>6. \A j \in 1..k - 1 : Depths(ph, j) = Depths(phrases, j) /\ ph[j] = phrases[j] BY <1>3, <1>5, <2>5
  <2>7. QED BY <2>1, <2>2, <2>3, <2>4, <2>6 DEF PhraseFits
<1>7. PhraseFits(ph, n + 1)
  <2> DEFINE previous == IF phrases = <<>> THEN <<>> ELSE Last(phrases)
  <2>1. Follows(p, previous, DepthAt(n)) BY <1>1 DEF WritePhrase
  <2>2. Before(ph, n + 1) = previous
    <3>1. phrases = <<>> <=> n = 0 BY <1>1, <1>4
    <3>2. CASE n = 0 BY <3>1, <3>2 DEF Before
    <3>3. CASE n # 0
      <4>1. n \in 1..n /\ (n + 1) - 1 = n /\ n + 1 # 1 BY <3>3
      <4>2. ph[n] = phrases[n] BY <1>3, <4>1
      <4>3. Before(ph, n + 1) = ph[n] BY <4>1 DEF Before
      <4>4. QED BY <1>1, <3>1, <3>3, <4>2, <4>3 DEF Last
    <3>4. QED BY <3>2, <3>3
  <2> HIDE DEF previous
  <2>3. \A k \in 0..n : DepthAt(k) = Depths(ph, k) BY <1>5, DepthAtIs
  <2>4. \A k \in 0..n : Depths(ph, k) >= 0
    <3> SUFFICES ASSUME NEW k \in 0..n PROVE Depths(ph, k) >= 0 OBVIOUS
    <3>1. CASE k = 0 BY <3>1, DepthNext
    <3>2. CASE k \in 1..n BY <1>6, <3>2 DEF PhraseFits
    <3>3. QED BY <3>1, <3>2
  <2>5. QED BY <1>1, <1>3, <1>4, <2>1, <2>2, <2>3, <2>4, PhraseFollows
<1>8. QED
  <2>1. \A k \in 1..n + 1 : k \in 1..n \/ k = n + 1 OBVIOUS
  <2>2. QED BY <1>2, <1>3, <1>6, <1>7, <2>1 DEF PhrasesFit

(* The inductive invariant of the writer of phrases: the depth is never    *)
(* negative, a command comes where a statement or group begins, DROP and   *)
(* delimiters are outside of all groups, and no depth is opened twice.     *)
THEOREM PhrasesAlwaysFit == TextSpec => []PhrasesFit(phrases)
<1>1. TextInit => PhrasesFit(phrases)
  <2>1. <<>> \in Seq(Phrases) /\ Len(<<>>) = 0 /\ 1..0 = {} OBVIOUS
  <2>2. QED BY <2>1 DEF TextInit, PhrasesFit
<1>2. PhrasesFit(phrases) /\ [WriteText]_textVars => PhrasesFit(phrases)'
  <2>1. ASSUME NEW segment \in Segments, WriteSegment(segment) PROVE phrases' = phrases BY <2>1 DEF WriteSegment
  <2>2. QED BY <2>1, PhraseIsWritten DEF WriteText, textVars
<1>3. QED BY <1>1, <1>2, PTL DEF TextSpec

-----------------------------------------------------------------------------
(* The tokens of a text of phrases.                                        *)

LEMMA WordsAreCode ==
  \A w \in Words : w \notin Quotes /\ w \notin {"--", "/*", "*/", "nl", "$$"} /\ w # Backslash
<1>1. \A w \in Words : w # "'" BY DEF Words, Firsts, Fillers
<1>2. \A w \in Words : w # "\"" BY Zenon DEF Words, Firsts, Fillers
<1>3. \A w \in Words : w \notin {"--", "/*", "*/", "nl", "$$"} BY DEF Words, Firsts, Fillers
<1>4. \A w \in Words : w # Backslash BY Zenon DEF Words, Firsts, Fillers, Backslash
<1>5. QED BY <1>1, <1>2, <1>3, <1>4 DEF Quotes

\* A text of words is code from beginning to end.
LEMMA AllIsCode ==
  ASSUME NEW text \in Seq(Words)
  PROVE  CodeOf(text, TokenizeSqlScanner) = text
<1>1. PICK l \in Nat : l = Len(text) OBVIOUS
<1>2. PICK scanner : scanner = TokenizeSqlScanner OBVIOUS
<1>3. PICK wanted : wanted = [i \in 1..l |-> "code"] OBVIOUS
<1>4. wanted \in Seq(Classes) /\ Len(wanted) = l /\ \A i \in 1..l : wanted[i] = "code" BY <1>3 DEF Classes
<1>5. PICK f : /\ IsScan(text, scanner, f, l)
               /\ Scan(text, scanner) = [class |-> f[l].class, open |-> f[l].mode \in {"quote", "block"}]
  BY <1>1, ScanEnds
<1> DEFINE Read(n) == Reading(f[n], "code", wanted, n)
           T == {n \in 0..l : ~Read(n)}
<1>6. Read(0) BY <1>1, <1>5, ScanBegins
<1>7. ASSUME NEW n \in 0..l - 1, Read(n) PROVE Read(n + 1)
  <2>1. n \in Nat /\ n < l /\ n + 1 \in 1..l OBVIOUS
  <2>2. text[n + 1] \in Words BY <1>1, <2>1
  <2>3. text[n + 1] \notin Quotes /\ text[n + 1] \notin {"--", "/*"} /\ text[n + 1] # "$$"
    BY <2>2, WordsAreCode
  <2>4. f[n + 1] = ScanSymbol(text, n + 1, f[n], scanner) BY <1>1, <1>5, <2>1, ScanNext
  <2>5. wanted[n + 1] = "code" BY <1>4, <2>1
  <2>6. QED BY <1>4, <1>7, <2>1, <2>3, <2>4, <2>5, InCode
<1>8. T = {}
  <2>1. SUFFICES ASSUME T # {} PROVE FALSE OBVIOUS
  <2>2. T \subseteq Nat OBVIOUS
  <2>3. PICK n \in T : \A m \in T : n <= m BY <2>1, <2>2, LeastMember
  <2>4. n # 0 BY <1>6, <2>3
  <2>5. n - 1 \in 0..l - 1 /\ (n - 1) + 1 = n BY <2>3, <2>4
  <2>6. Read(n - 1) BY <2>3, <2>5
  <2>7. Read((n - 1) + 1) BY <1>7, <2>5, <2>6
  <2>8. QED BY <2>3, <2>5, <2>7
<1>9. Read(l) BY <1>8
<1> HIDE DEF Read, T
<1>10. PICK class : class = Scan(text, scanner).class OBVIOUS
<1>11. class = wanted
  <2>1. class = f[l].class BY <1>5, <1>10
  <2>2. Reading(f[l], "code", wanted, l) BY <1>9 DEF Read
  <2>3. class = Beginning(wanted, l) BY <2>1, <2>2 DEF Reading
  <2>4. QED BY <1>4, <2>3, BeginningGrows
<1>12. PICK places : places = [i \in 1..l |-> i] OBVIOUS
<1>13. places \in Seq(Int) /\ Len(places) = l /\ DOMAIN places = 1..l /\ \A i \in 1..l : places[i] = i
  BY <1>12
<1>14. PICK all : all = {i \in 1..l : class[i] \in {"code"}} OBVIOUS
<1>15. all = 1..l BY <1>4, <1>11, <1>14
<1>16. Only(places, all) = places
  <2>1. Entries(places) \subseteq all BY <1>13, <1>15 DEF Entries
  <2>2. QED BY <1>13, <2>1, OnlyProperties
<1>17. DOMAIN text = 1..l BY <1>1
<1>18. Kept(text, class, {"code"}) = [n \in 1..l |-> text[places[n]]]
  BY <1>12, <1>13, <1>14, <1>16, <1>17 DEF Kept
<1>19. Kept(text, class, {"code"}) = [n \in 1..l |-> text[n]] BY <1>13, <1>18
<1>20. text = [n \in 1..l |-> text[n]] BY <1>17
<1>21. QED BY <1>2, <1>10, <1>19, <1>20 DEF CodeOf

\* The depth after every symbol.
DepthStep(code, f, n) ==
  IF n = 0 THEN 0
  ELSE IF code[n] = "(" THEN f[n - 1] + 1
  ELSE IF code[n] = ")" /\ f[n - 1] > 0 THEN f[n - 1] - 1 ELSE f[n - 1]
IsDepth(code, f, n) == f = [m \in 0..n |-> DepthStep(code, f, m)]

LEMMA DepthExists ==
  ASSUME NEW code, NEW n \in Nat
  PROVE  \E f : IsDepth(code, f, n)
<1> DEFINE T == {m \in Nat : ~ \E f : IsDepth(code, f, m)}
<1>1. SUFFICES ASSUME T # {} PROVE FALSE OBVIOUS
<1>2. PICK m \in T : \A k \in T : m <= k BY <1>1, LeastMember
<1>3. CASE m = 0
  <2> DEFINE f == [k \in 0..0 |-> 0]
  <2>1. IsDepth(code, f, 0) BY DEF IsDepth, DepthStep
  <2>2. QED BY <2>1, <1>3
<1>4. CASE m > 0
  <2>1. m - 1 \in Nat /\ m - 1 \notin T BY <1>4, <1>2
  <2>2. PICK g : IsDepth(code, g, m - 1) BY <2>1
  <2>3. PICK last : last = DepthStep(code, g, m) OBVIOUS
  <2> DEFINE f == [k \in 0..m |-> IF k < m THEN g[k] ELSE last]
  <2>4. \A k \in 0..m : f[k] = DepthStep(code, f, k)
    <3> SUFFICES ASSUME NEW k \in 0..m PROVE f[k] = DepthStep(code, f, k) OBVIOUS
    <3>1. CASE k = m BY <3>1, <1>4, <2>3 DEF DepthStep
    <3>2. CASE k < m
      <4>1. k \in 0..m - 1 /\ (k # 0 => k - 1 \in 0..m - 1) BY <3>2
      <4>2. g[k] = DepthStep(code, g, k) BY <2>2, <4>1 DEF IsDepth
      <4>3. QED BY <4>1, <4>2, <3>2 DEF DepthStep
    <3>3. QED BY <3>1, <3>2
  <2>5. f = [k \in 0..m |-> f[k]] OBVIOUS
  <2> HIDE DEF f
  <2>6. IsDepth(code, f, m) BY <2>4, <2>5 DEF IsDepth
  <2>7. QED BY <2>6
<1>5. QED BY <1>3, <1>4

\* The first l symbols are tokens, with the depths of f.
AreTokensOf(text, tokens, f, l) ==
  /\ \A n \in 0..l : f[n] = DepthStep(text, f, n)
  /\ DOMAIN tokens = 1..l /\ Len(tokens) = l
  /\ \A n \in 1..l : /\ tokens[n].word = text[n]
                     /\ tokens[n].depth = IF text[n] = "(" THEN f[n - 1] ELSE f[n]

LEMMA TokensAre ==
  ASSUME NEW text \in Seq(Words), NEW l \in Nat, l = Len(text)
  PROVE  \E f : AreTokensOf(text, TokenizeSql(text), f, l)
<1> DEFINE symbols == CodeOf(text, TokenizeSqlScanner)
           code == Only(symbols, Entries(symbols) \ {"nl", "*/", Backslash})
           F(f) == f = [n \in 0..Len(code) |->
                          IF n = 0 THEN 0
                          ELSE IF code[n] = "(" THEN f[n - 1] + 1
                          ELSE IF code[n] = ")" /\ f[n - 1] > 0 THEN f[n - 1] - 1 ELSE f[n - 1]]
           depth == CHOOSE f : F(f)
<1>1. TokenizeSql(text) = [n \in DOMAIN code |-> [word |-> code[n],
                                                  depth |-> IF code[n] = "(" THEN depth[n - 1] ELSE depth[n]]]
  BY DEF TokenizeSql
<1>2. symbols = text BY AllIsCode
<1> HIDE DEF symbols
<1>3. Only(text, Entries(text) \ {"nl", "*/", Backslash}) = text
  <2>1. \A i \in DOMAIN text : text[i] \in Words OBVIOUS
  <2>2. Entries(text) \subseteq Entries(text) \ {"nl", "*/", Backslash} BY <2>1, WordsAreCode DEF Entries
  <2>3. QED BY <2>2, OnlyProperties
<1>4. code = text BY <1>2, <1>3
<1> HIDE DEF code
<1>5. \E f : F(f)
  <2>1. Len(code) \in Nat BY <1>4
  <2>2. PICK f : IsDepth(code, f, Len(code)) BY <2>1, DepthExists
  <2>3. F(f) BY <2>2 DEF IsDepth, DepthStep
  <2>4. QED BY <2>3
<1>6. F(depth) BY <1>5
<1> HIDE DEF depth
<1>7. \A n \in 0..l : depth[n] = DepthStep(text, depth, n) BY <1>4, <1>6 DEF DepthStep
<1>8. DOMAIN text = 1..l OBVIOUS
<1>9. PICK tokens : tokens = TokenizeSql(text) OBVIOUS
<1>10. tokens = [n \in 1..l |-> [word |-> text[n], depth |-> IF text[n] = "(" THEN depth[n - 1] ELSE depth[n]]]
  BY <1>1, <1>4, <1>8, <1>9
<1>11. /\ DOMAIN tokens = 1..l /\ Len(tokens) = l
       /\ \A n \in 1..l : /\ tokens[n].word = text[n]
                          /\ tokens[n].depth = IF text[n] = "(" THEN depth[n - 1] ELSE depth[n]
  BY <1>10
<1>12. AreTokensOf(text, tokens, depth, l) BY <1>7, <1>11 DEF AreTokensOf
<1>13. QED BY <1>9, <1>12

-----------------------------------------------------------------------------
(* The tokens of phrases.                                                  *)

\* An opening parenthesis is outside of the group it opens, as a closing one is.
PhraseDepth(ph, k) == IF ph[k] = Open THEN Depths(ph, k - 1) ELSE Depths(ph, k)

\* off[k] tokens stand for the first k phrases.
AreTokens(ph, tokens, off) ==
  /\ IsOffsets(off, ph) /\ DOMAIN tokens = 1..off[Len(ph)] /\ Len(tokens) = off[Len(ph)]
  /\ \A k \in 1..Len(ph) : \A m \in 1..Len(ph[k]) :
       /\ tokens[off[k - 1] + m].word = ph[k][m]
       /\ tokens[off[k - 1] + m].depth = PhraseDepth(ph, k)

\* A place in the text with the depth that phrase k has.
DeepAt(text, f, i, ph, k) ==
  f[i] = Depths(ph, k) /\ (IF text[i] = "(" THEN f[i - 1] ELSE f[i]) = PhraseDepth(ph, k)

\* The depth before a phrase, after its words, and of its tokens.
LEMMA DepthOfPhrase ==
  ASSUME NEW text, NEW f, NEW n \in Nat, NEW ph, NEW k \in Nat \ {0}, NEW p \in Phrases, p = ph[k],
         \A m \in 1..Len(p) : text[n + m] = p[m] /\ f[n + m] = DepthStep(text, f, n + m),
         f[n] = Depths(ph, k - 1), Depths(ph, k - 1) >= 0, Depths(ph, k) >= 0
  PROVE  \A m \in 1..Len(p) : DeepAt(text, f, n + m, ph, k)
<1>1. IsPhrase(p) BY PhrasesAre
<1>2. PICK l \in 1..3 : l = Len(p) BY <1>1 DEF IsPhrase
<1>3. \A m \in 1..l : n + m \in Nat /\ n + m # 0 /\ (n + m) - 1 = n + (m - 1) OBVIOUS
<1>4. \A m \in 1..l : f[n + m] = IF p[m] = "(" THEN f[n + (m - 1)] + 1
                                ELSE IF p[m] = ")" /\ f[n + (m - 1)] > 0 THEN f[n + (m - 1)] - 1
                                ELSE f[n + (m - 1)]
  BY <1>2, <1>3 DEF DepthStep
<1>5. PICK a : a = Depths(ph, k - 1) OBVIOUS
<1>6. PICK b : b = Depths(ph, k) OBVIOUS
<1>7. a \in Nat /\ b \in Nat
  <2>1. k - 1 \in Nat /\ k \in Nat OBVIOUS
  <2>2. QED BY <1>5, <1>6, <2>1, DepthNext
<1>8. b = IF p = Open THEN a + 1 ELSE IF p = Close THEN a - 1 ELSE a BY <1>5, <1>6, DepthNext
<1>9. f[n + 1] = b
  <2>1. f[n + 1] = IF p[1] = "(" THEN a + 1 ELSE IF p[1] = ")" /\ a > 0 THEN a - 1 ELSE a
    <3>1. 1 \in 1..l /\ n + (1 - 1) = n OBVIOUS
    <3>2. QED BY <1>4, <1>5, <3>1
  <2>2. (p = Open <=> p[1] = "(") /\ (p = Close <=> p[1] = ")") BY <1>1 DEF IsPhrase
  <2>3. QED BY <1>7, <1>8, <2>1, <2>2
<1>10. \A m \in 2..l : p[m] # "(" /\ p[m] # ")"
  <2>1. \A m \in 2..l : p[m] \in Fillers BY <1>1, <1>2 DEF IsPhrase
  <2>2. "(" \notin Fillers /\ ")" \notin Fillers BY DEF Fillers
  <2>3. QED BY <2>1, <2>2
<1>11. \A m \in 2..l : f[n + m] = f[n + (m - 1)]
  <2> SUFFICES ASSUME NEW m \in 2..l PROVE f[n + m] = f[n + (m - 1)] OBVIOUS
  <2>1. m \in 1..l OBVIOUS
  <2>2. f[n + m] = IF p[m] = "(" THEN f[n + (m - 1)] + 1
                   ELSE IF p[m] = ")" /\ f[n + (m - 1)] > 0 THEN f[n + (m - 1)] - 1 ELSE f[n + (m - 1)]
    BY <1>4, <2>1
  <2>3. p[m] # "(" /\ p[m] # ")" BY <1>10
  <2>4. QED BY <2>2, <2>3
<1>12. l > 1 => f[n + 2] = b
  <2>1. ASSUME l > 1 PROVE f[n + 2] = f[n + (2 - 1)] BY <1>11, <2>1
  <2>2. n + (2 - 1) = n + 1 OBVIOUS
  <2>3. QED BY <1>9, <2>1, <2>2
<1>13. l > 2 => f[n + 3] = b
  <2>1. ASSUME l > 2 PROVE f[n + 3] = f[n + (3 - 1)] BY <1>11, <2>1
  <2>2. n + (3 - 1) = n + 2 OBVIOUS
  <2>3. QED BY <1>12, <2>1, <2>2
<1>14. \A m \in 1..l : f[n + m] = b
  <2>1. \A m \in 1..l : m = 1 \/ (m = 2 /\ l > 1) \/ (m = 3 /\ l > 2) OBVIOUS
  <2>2. QED BY <1>9, <1>12, <1>13, <2>1
<1>15. ASSUME NEW m \in 1..l
       PROVE  (IF text[n + m] = "(" THEN f[n + m - 1] ELSE f[n + m]) = PhraseDepth(ph, k)
  <2>1. text[n + m] = p[m] BY <1>2
  <2>2. CASE p = Open
    <3>1. l = 1 /\ p[1] = "(" BY <1>1, <1>2, <2>2 DEF IsPhrase
    <3>2. m = 1 /\ n + m - 1 = n BY <3>1
    <3>3. PhraseDepth(ph, k) = a BY <1>5, <2>2 DEF PhraseDepth
    <3>4. QED BY <1>5, <2>1, <3>1, <3>2, <3>3
  <2>3. CASE p # Open
    <3>1. p[1] # "(" BY <1>1, <2>3 DEF IsPhrase
    <3>2. p[m] # "("
      <4>1. m = 1 \/ m \in 2..l OBVIOUS
      <4>2. QED BY <1>10, <3>1, <4>1
    <3>3. PhraseDepth(ph, k) = b BY <1>6, <2>3 DEF PhraseDepth
    <3>4. QED BY <1>14, <2>1, <3>2, <3>3
  <2>4. QED BY <2>2, <2>3
<1>16. QED BY <1>2, <1>6, <1>14, <1>15 DEF DeepAt

LEMMA TokensOfPhrases ==
  ASSUME NEW ph, PhrasesFit(ph)
  PROVE  \E off : AreTokens(ph, TokenizeSql(FlattenSeq(ph)), off)
<1>1. PICK n \in Nat : n = Len(ph) BY DEF PhrasesFit
<1>2. ph \in Seq(Phrases) /\ \A k \in 1..n : ph[k] \in Phrases /\ IsPhrase(ph[k]) /\ Depths(ph, k) >= 0
  BY <1>1, PhrasesAre DEF PhrasesFit, PhraseFits
<1>3. ph \in Seq(Seq(Words))
  <2>1. Phrases \subseteq Seq(Words) BY PhrasesAre DEF IsPhrase
  <2>2. QED BY <1>2, <2>1, SeqOfMore
<1>4. PICK text : text = FlattenSeq(ph) OBVIOUS
<1>5. PICK off : /\ IsOffsets(off, ph) /\ off[n] = Len(text)
                 /\ \A k \in 1..n : \A i \in 1..Len(ph[k]) : text[off[k - 1] + i] = ph[k][i]
  BY <1>1, <1>3, <1>4, FlattenParts
<1>6. text \in Seq(Words) BY <1>3, <1>4, FlattenParts
<1>7. off \in [0..n -> Nat] /\ off[0] = 0 /\ \A k \in 1..n : off[k] = off[k - 1] + Len(ph[k])
  BY <1>1, <1>5 DEF IsOffsets
<1>8. PICK l \in Nat : l = off[n] BY <1>7
<1>9. PICK tokens : tokens = TokenizeSql(text) OBVIOUS
<1>10. PICK f : AreTokensOf(text, tokens, f, l) BY <1>5, <1>6, <1>8, <1>9, TokensAre
<1>11. \A k \in 1..n : \A m \in 1..Len(ph[k]) : off[k - 1] + m \in 1..l
  <2> SUFFICES ASSUME NEW k \in 1..n, NEW m \in 1..Len(ph[k]) PROVE off[k - 1] + m \in 1..l OBVIOUS
  <2>1. \A j \in 1..n : Len(ph[j]) \in Nat
    <3> SUFFICES ASSUME NEW j \in 1..n PROVE Len(ph[j]) \in Nat OBVIOUS
    <3>1. Len(ph[j]) \in 1..3 BY <1>2 DEF IsPhrase
    <3>2. QED BY <3>1
  <2>2. off[k] <= off[n]
    <3>1. k \in 0..n /\ n \in 0..n /\ k <= n OBVIOUS
    <3>2. \A j \in 0..n : k <= j => off[k] <= off[j] BY <1>1, <1>5, <2>1, <3>1, OffsetsGrow
    <3>3. QED BY <3>1, <3>2
  <2>3. off[k - 1] \in Nat /\ off[k] = off[k - 1] + Len(ph[k]) BY <1>7
  <2>4. QED BY <1>8, <2>1, <2>2, <2>3
<1> DEFINE Deep(k) == f[off[k]] = Depths(ph, k)
           T == {k \in 0..n : ~Deep(k)}
<1>12. \A k \in 0..n : Depths(ph, k) >= 0
  <2> SUFFICES ASSUME NEW k \in 0..n PROVE Depths(ph, k) >= 0 OBVIOUS
  <2>1. k = 0 \/ k \in 1..n OBVIOUS
  <2>2. QED BY <1>2, <2>1, DepthNext
<1>13. ASSUME NEW k \in 1..n, Deep(k - 1)
       PROVE  \A m \in 1..Len(ph[k]) : DeepAt(text, f, off[k - 1] + m, ph, k)
  <2>1. PICK o \in Nat : o = off[k - 1] BY <1>7
  <2>2. PICK p \in Phrases : p = ph[k] BY <1>2
  <2>3. \A m \in 1..Len(p) : text[o + m] = p[m] /\ f[o + m] = DepthStep(text, f, o + m)
    <3> SUFFICES ASSUME NEW m \in 1..Len(p) PROVE text[o + m] = p[m] /\ f[o + m] = DepthStep(text, f, o + m)
      OBVIOUS
    <3>1. o + m \in 1..l BY <1>11, <2>1, <2>2
    <3>2. o + m \in 0..l BY <3>1
    <3>3. f[o + m] = DepthStep(text, f, o + m) BY <1>10, <3>2 DEF AreTokensOf
    <3>4. QED BY <1>5, <2>1, <2>2, <3>3
  <2>4. f[o] = Depths(ph, k - 1) BY <1>13, <2>1
  <2>5. Depths(ph, k - 1) >= 0 /\ Depths(ph, k) >= 0 /\ k \in Nat \ {0} BY <1>12
  <2> HIDE DEF Deep
  <2>6. \A m \in 1..Len(p) : DeepAt(text, f, o + m, ph, k)
    BY <2>2, <2>3, <2>4, <2>5, DepthOfPhrase
  <2>7. QED BY <2>1, <2>2, <2>6
<1>14. T = {}
  <2>1. SUFFICES ASSUME T # {} PROVE FALSE OBVIOUS
  <2>2. T \subseteq Nat OBVIOUS
  <2>3. PICK k \in T : \A j \in T : k <= j BY <2>1, <2>2, LeastMember
  <2>4. k # 0
    <3>1. 0 \in 0..l BY <1>8
    <3>2. f[0] = 0 BY <1>10, <3>1 DEF AreTokensOf, DepthStep
    <3>3. Deep(0) BY <1>7, <3>2, DepthNext
    <3>4. QED BY <2>3, <3>3
  <2>5. k \in 1..n /\ k - 1 \in 0..n BY <2>3, <2>4
  <2>6. Deep(k - 1) BY <2>3, <2>5
  <2>7. Len(ph[k]) \in 1..3 BY <1>2, <2>5 DEF IsPhrase
  <2> HIDE DEF T
  <2>8. PICK m \in 1..3 : m = Len(ph[k]) BY <2>7
  <2>9. m \in 1..Len(ph[k])
    <3>1. m \in 1..m OBVIOUS
    <3>2. QED BY <2>8, <3>1
  <2>10. DeepAt(text, f, off[k - 1] + m, ph, k) BY <1>13, <2>5, <2>6, <2>9
  <2>11. f[off[k]] = Depths(ph, k) BY <1>7, <2>5, <2>8, <2>10 DEF DeepAt
  <2>12. QED BY <2>3, <2>11 DEF T
<1>15. ASSUME NEW k \in 1..n, NEW m \in 1..Len(ph[k])
       PROVE  /\ tokens[off[k - 1] + m].word = ph[k][m]
              /\ tokens[off[k - 1] + m].depth = PhraseDepth(ph, k)
  <2>1. PICK i \in 1..l : i = off[k - 1] + m BY <1>11
  <2>2. k - 1 \in 0..n OBVIOUS
  <2>3. Deep(k - 1) BY <1>14, <2>2
  <2>4. DeepAt(text, f, i, ph, k) BY <1>13, <2>1, <2>3
  <2>5. text[i] = ph[k][m] BY <1>5, <2>1
  <2> HIDE DEF Deep, T
  <2>6. tokens[i].word = text[i] /\ tokens[i].depth = IF text[i] = "(" THEN f[i - 1] ELSE f[i]
    BY <1>10 DEF AreTokensOf
  <2>7. QED BY <2>1, <2>4, <2>5, <2>6 DEF DeepAt
<1> HIDE DEF Deep, T
<1>16. DOMAIN tokens = 1..l /\ Len(tokens) = l BY <1>10 DEF AreTokensOf
<1>17. AreTokens(ph, tokens, off) BY <1>1, <1>5, <1>8, <1>15, <1>16 DEF AreTokens
<1>18. QED BY <1>4, <1>9, <1>17

-----------------------------------------------------------------------------
(* Where the tokens of a phrase are.                                       *)

\* Word m of phrase k is the token at off[k - 1] + m.
Laid(ph, tokens, off, n) ==
  /\ n \in Nat /\ n = Len(ph) /\ DOMAIN tokens = 1..Len(tokens) /\ Len(tokens) \in Nat
  /\ \A k \in 1..n : /\ ph[k] \in Phrases /\ Len(ph[k]) \in 1..3 /\ off[k - 1] \in Nat
                     /\ k > 1 => off[k - 1] = off[k - 2] + Len(ph[k - 1])
  /\ \A k \in 1..n : \A m \in 1..Len(ph[k]) :
       /\ off[k - 1] + m \in 1..Len(tokens)
       /\ tokens[off[k - 1] + m].word = ph[k][m]
       /\ tokens[off[k - 1] + m].depth = PhraseDepth(ph, k)
  /\ \A i \in 1..Len(tokens) : \E k \in 1..n : \E m \in 1..Len(ph[k]) : i = off[k - 1] + m
  /\ \A j, k \in 1..n : \A m \in 1..Len(ph[j]) : \A q \in 1..Len(ph[k]) :
       j < k => off[j - 1] + m < off[k - 1] + q

LEMMA TokensAreLaid ==
  ASSUME NEW ph, PhrasesFit(ph), NEW tokens, NEW off, AreTokens(ph, tokens, off)
  PROVE  Laid(ph, tokens, off, Len(ph))
<1>1. PICK n \in Nat : n = Len(ph) BY DEF PhrasesFit
<1>2. ASSUME NEW k \in 1..n PROVE ph[k] \in Phrases /\ Len(ph[k]) \in 1..3
  <2>1. ph[k] \in Phrases BY <1>1 DEF PhrasesFit
  <2>2. QED BY <2>1, PhrasesAre DEF IsPhrase
<1>3. IsOffsets(off, ph) /\ DOMAIN tokens = 1..off[n] /\ Len(tokens) = off[n] BY <1>1 DEF AreTokens
<1>4. off \in [0..n -> Nat] /\ off[0] = 0 /\ \A k \in 1..n : off[k] = off[k - 1] + Len(ph[k])
  BY <1>1, <1>3 DEF IsOffsets
<1>5. PICK l \in Nat : l = off[n] BY <1>4
<1>6. \A j, k \in 0..n : j <= k => off[j] <= off[k]
  <2>1. ASSUME NEW k \in 1..n PROVE Len(ph[k]) \in Nat
    <3>1. Len(ph[k]) \in 1..3 BY <1>2
    <3>2. QED BY <3>1
  <2>2. QED BY <1>1, <1>3, <2>1, OffsetsGrow
<1>7. ASSUME NEW k \in 1..n
      PROVE  off[k - 1] \in Nat /\ off[k] \in Nat /\ off[k] = off[k - 1] + Len(ph[k]) /\ off[k] <= l
  <2>1. k - 1 \in 0..n /\ k \in 0..n /\ n \in 0..n /\ k <= n OBVIOUS
  <2>2. QED BY <1>4, <1>5, <1>6, <2>1
<1>8. ASSUME NEW k \in 1..n, k > 1 PROVE off[k - 1] = off[k - 2] + Len(ph[k - 1])
  <2>1. k - 1 \in 1..n /\ (k - 1) - 1 = k - 2 BY <1>8
  <2>2. off[k - 1] = off[(k - 1) - 1] + Len(ph[k - 1]) BY <1>4, <2>1
  <2>3. QED BY <2>1, <2>2
<1>9. ASSUME NEW k \in 1..n, NEW m \in 1..Len(ph[k])
      PROVE  /\ off[k - 1] + m \in 1..l /\ tokens[off[k - 1] + m].word = ph[k][m]
             /\ tokens[off[k - 1] + m].depth = PhraseDepth(ph, k)
  <2>1. PICK c \in 1..3 : c = Len(ph[k]) BY <1>2
  <2>2. off[k - 1] \in Nat /\ off[k] = off[k - 1] + c /\ off[k] <= l BY <1>7, <2>1
  <2>3. m \in 1..c BY <2>1
  <2>4. off[k - 1] + m \in 1..l BY <2>2, <2>3
  <2>5. QED BY <1>1, <2>4 DEF AreTokens
<1>10. \A i \in 1..l : \E k \in 1..n : \E m \in 1..Len(ph[k]) : i = off[k - 1] + m
  BY <1>1, <1>3, <1>5, OffsetsCover
<1>11. ASSUME NEW j \in 1..n, NEW k \in 1..n, j < k, NEW m \in 1..Len(ph[j]), NEW q \in 1..Len(ph[k])
       PROVE  off[j - 1] + m < off[k - 1] + q
  <2>1. PICK c \in 1..3 : c = Len(ph[j]) BY <1>2
  <2>2. PICK d \in 1..3 : d = Len(ph[k]) BY <1>2
  <2>3. m \in 1..c /\ q \in 1..d BY <2>1, <2>2
  <2>4. off[j - 1] \in Nat /\ off[j] = off[j - 1] + c BY <1>7, <2>1
  <2>5. off[k - 1] \in Nat BY <1>7
  <2>6. j \in 0..n /\ k - 1 \in 0..n /\ j <= k - 1 BY <1>11
  <2>7. off[j] <= off[k - 1] BY <1>6, <2>6
  <2>8. QED BY <2>3, <2>4, <2>5, <2>7
<1>12. \A k \in 1..n : /\ ph[k] \in Phrases /\ Len(ph[k]) \in 1..3 /\ off[k - 1] \in Nat
                       /\ k > 1 => off[k - 1] = off[k - 2] + Len(ph[k - 1])
  BY <1>2, <1>7, <1>8
<1>13. Len(tokens) = l /\ DOMAIN tokens = 1..l BY <1>3, <1>5
<1>14. QED BY <1>1, <1>9, <1>10, <1>11, <1>12, <1>13 DEF Laid

\* The depth of a phrase, and of the place before it.
LEMMA PhraseDepthIs ==
  ASSUME NEW ph, PhrasesFit(ph), NEW k \in 1..Len(ph)
  PROVE  /\ Depths(ph, k) \in Nat /\ Depths(ph, k - 1) \in Nat
         /\ PhraseDepth(ph, k) \in {Depths(ph, k), Depths(ph, k - 1)}
         /\ PhraseDepth(ph, k) <= Depths(ph, k) /\ PhraseDepth(ph, k) <= Depths(ph, k - 1)
         /\ ph[k] = Open => Depths(ph, k) = PhraseDepth(ph, k) + 1
         /\ ph[k] \notin {Open, Close} => Depths(ph, k) = PhraseDepth(ph, k) /\ Depths(ph, k - 1) = PhraseDepth(ph, k)
         /\ ph[k] = Close => Depths(ph, k) = PhraseDepth(ph, k)
         /\ ph[k] # Open => Depths(ph, k) <= Depths(ph, k - 1)
<1>1. PICK n \in Nat : n = Len(ph) BY DEF PhrasesFit
<1>2. ASSUME NEW j \in 0..n PROVE Depths(ph, j) \in Nat
  <2>1. j = 0 \/ j \in 1..n OBVIOUS
  <2>2. j \in 1..n => Depths(ph, j) >= 0 BY <1>1 DEF PhrasesFit, PhraseFits
  <2>3. j \in Nat OBVIOUS
  <2>4. QED BY <2>1, <2>2, <2>3, DepthNext
<1>3. k \in 0..n /\ k - 1 \in 0..n /\ k \in Nat \ {0} BY <1>1
<1>4. PICK a \in Nat : a = Depths(ph, k - 1) BY <1>2, <1>3
<1>5. PICK b \in Nat : b = Depths(ph, k) BY <1>2, <1>3
<1>6. b = IF ph[k] = Open THEN a + 1 ELSE IF ph[k] = Close THEN a - 1 ELSE a
  BY <1>3, <1>4, <1>5, DepthNext
<1>7. PhraseDepth(ph, k) = IF ph[k] = Open THEN a ELSE b BY <1>4, <1>5 DEF PhraseDepth
<1>8. Open # Close BY PhrasesBegun DEF PhrasesBegin
<1>9. QED BY <1>4, <1>5, <1>6, <1>7, <1>8

\* There is one group at each depth, so what precedes its first phrase is less deep.
LEMMA NothingAsDeep ==
  ASSUME NEW ph, PhrasesFit(ph), NEW k \in 2..Len(ph), ph[k - 1] = Open
  PROVE  \A j \in 1..k - 1 : PhraseDepth(ph, j) < Depths(ph, k - 1)
<1>1. PICK n \in Nat : n = Len(ph) BY DEF PhrasesFit
<1>2. k - 1 \in 1..n /\ k - 1 \in 1..Len(ph) /\ (k - 1) - 1 = k - 2 BY <1>1
<1>3. PICK d \in Nat : d = Depths(ph, k - 1) BY <1>2, PhraseDepthIs
<1>4. d = PhraseDepth(ph, k - 1) + 1 /\ d = Depths(ph, k - 2) + 1
  <2>1. d = PhraseDepth(ph, k - 1) + 1 BY <1>2, <1>3, PhraseDepthIs
  <2>2. PhraseDepth(ph, k - 1) = Depths(ph, k - 2) BY <1>2 DEF PhraseDepth
  <2>3. QED BY <2>1, <2>2
<1> DEFINE T == {j \in 1..k - 2 : Depths(ph, j) >= d}
<1>5. T = {}
  <2>1. SUFFICES ASSUME T # {} PROVE FALSE OBVIOUS
  <2>2. T \subseteq Nat OBVIOUS
  <2>3. PICK j \in T : \A i \in T : j <= i BY <2>1, <2>2, LeastMember
  <2>4. j \in 1..k - 2 /\ Depths(ph, j) >= d BY <2>3
  <2>5. j \in 1..Len(ph) /\ j \in Nat \ {0} BY <1>1, <2>4
  <2>6. Depths(ph, j) \in Nat /\ Depths(ph, j - 1) \in Nat BY <2>5, PhraseDepthIs
  <2>7. Depths(ph, j - 1) < d
    <3>1. CASE j = 1
      <4>1. Depths(ph, j - 1) = 0 BY <3>1, DepthNext
      <4>2. PhraseDepth(ph, k - 1) \in Nat BY <1>2, PhraseDepthIs
      <4>3. QED BY <1>4, <4>1, <4>2
    <3>2. CASE j # 1
      <4>1. j - 1 \in 1..k - 2 /\ j - 1 < j BY <2>4, <3>2
      <4>2. j - 1 \notin T BY <2>3, <4>1
      <4>3. QED BY <2>6, <4>1, <4>2
    <3>3. QED BY <3>1, <3>2
  <2>8. ph[j] = Open /\ Depths(ph, j) = d
    <3>1. Depths(ph, j) = IF ph[j] = Open THEN Depths(ph, j - 1) + 1
                          ELSE IF ph[j] = Close THEN Depths(ph, j - 1) - 1 ELSE Depths(ph, j - 1)
      BY <2>5, DepthNext
    <3>2. QED BY <2>4, <2>6, <2>7, <3>1
  <2>9. PhraseFits(ph, k - 1) BY <1>2 DEF PhrasesFit
  <2>10. j \in 1..(k - 1) - 1 BY <2>4
  <2>11. Depths(ph, j) # Depths(ph, k - 2) + 1 BY <1>2, <2>8, <2>9, <2>10 DEF PhraseFits
  <2>12. QED BY <1>4, <2>8, <2>11
<1> HIDE DEF T
<1>6. ASSUME NEW j \in 1..k - 1 PROVE PhraseDepth(ph, j) < d
  <2>1. CASE j = k - 1
    <3>1. PhraseDepth(ph, k - 1) \in Nat BY <1>2, PhraseDepthIs
    <3>2. QED BY <1>4, <2>1, <3>1
  <2>2. CASE j \in 1..k - 2
    <3>1. j \in 1..Len(ph) BY <1>1, <2>2
    <3>2. PhraseDepth(ph, j) <= Depths(ph, j) /\ Depths(ph, j) \in Nat /\ PhraseDepth(ph, j) \in Int
      BY <3>1, PhraseDepthIs
    <3>3. ~(Depths(ph, j) >= d) BY <1>5, <2>2 DEF T
    <3>4. QED BY <3>2, <3>3
  <2>3. QED BY <2>1, <2>2
<1>7. QED BY <1>3, <1>6

-----------------------------------------------------------------------------
(* What inspectQuerySafety finds at a command.                             *)

\* A word that begins a phrase is where its phrase is.
Begins(ph, tokens, off, i, k) ==
  /\ i = off[k - 1] + 1 /\ tokens[i].word = ph[k][1]
  /\ tokens[i].depth = PhraseDepth(ph, k) /\ IsPhrase(ph[k])

LEMMA TokenOfPhrase ==
  ASSUME NEW ph, NEW tokens, NEW off, NEW n, Laid(ph, tokens, off, n),
         NEW i \in 1..Len(tokens), tokens[i].word \notin Fillers
  PROVE  \E k \in 1..n : Begins(ph, tokens, off, i, k)
<1>1. PICK k \in 1..n : \E m \in 1..Len(ph[k]) : i = off[k - 1] + m BY DEF Laid
<1>2. PICK m \in 1..Len(ph[k]) : i = off[k - 1] + m BY <1>1
<1>3. tokens[i].word = ph[k][m] /\ tokens[i].depth = PhraseDepth(ph, k) /\ ph[k] \in Phrases
  BY <1>2 DEF Laid
<1>4. IsPhrase(ph[k]) BY <1>3, PhrasesAre
<1>5. PICK l \in 1..3 : l = Len(ph[k]) BY <1>4 DEF IsPhrase
<1>6. m \in 1..l BY <1>5
<1>7. m = 1
  <2>1. m \notin 2..l BY <1>3, <1>4, <1>5 DEF IsPhrase
  <2>2. QED BY <1>6, <2>1
<1>8. QED BY <1>2, <1>3, <1>4, <1>7 DEF Begins

\* The first word of a phrase, and the place before it.
LEMMA FirstOfPhrase ==
  ASSUME NEW ph, NEW tokens, NEW off, NEW n, Laid(ph, tokens, off, n), NEW k \in 1..n
  PROVE  /\ off[k - 1] + 1 \in 1..Len(tokens) /\ tokens[off[k - 1] + 1].word = ph[k][1]
         /\ tokens[off[k - 1] + 1].depth = PhraseDepth(ph, k) /\ IsPhrase(ph[k])
<1>1. PICK l \in 1..3 : l = Len(ph[k]) BY DEF Laid
<1>2. 1 \in 1..Len(ph[k])
  <2>1. 1 \in 1..l OBVIOUS
  <2>2. QED BY <1>1, <2>1
<1>3. ph[k] \in Phrases BY DEF Laid
<1>4. QED BY <1>2, <1>3, PhrasesAre DEF Laid

Commands == {Update, Delete, DropTable}

LEMMA PreviousOfCommand ==
  ASSUME NEW ph, PhrasesFit(ph), NEW tokens, NEW off, NEW n, Laid(ph, tokens, off, n),
         NEW k \in 1..n, ph[k] \in Commands, NEW i, i = off[k - 1] + 1, NEW d, d = tokens[i].depth
  PROVE  \/ PreviousAtDepth(tokens, i, d) = NoToken
         \/ PreviousAtDepth(tokens, i, d).word \notin Clauses /\ d = 0
<1>1. n \in Nat /\ n = Len(ph) BY DEF Laid
<1>2. i \in 1..Len(tokens) /\ d = PhraseDepth(ph, k) /\ Len(tokens) \in Nat
  <2>1. Len(tokens) \in Nat BY DEF Laid
  <2>2. QED BY <2>1, FirstOfPhrase
<1>3. ph[k] \notin {Open, Close}
  <2>1. \A c \in Commands : c # Open /\ c # Close BY PhrasesBegun DEF PhrasesBegin, Commands
  <2>2. QED BY <2>1
<1>4. d = Depths(ph, k - 1) /\ d \in Nat BY <1>1, <1>2, <1>3, PhraseDepthIs
<1>5. Before(ph, k) \in {<<>>, Delimiter, Open} \/ (Before(ph, k) = Close /\ Depths(ph, k - 1) = 0)
  <2>1. PhraseFits(ph, k) BY <1>1 DEF PhrasesFit
  <2>2. QED BY <2>1 DEF PhraseFits, Commands
<1>6. PICK before : before = {j \in 1..i - 1 : tokens[j].depth = d} OBVIOUS
<1>7. PreviousAtDepth(tokens, i, d) = IF before = {} THEN NoToken
                                      ELSE tokens[CHOOSE j \in before : \A q \in before : q <= j]
  BY <1>6 DEF PreviousAtDepth
<1>8. CASE k = 1
  <2>1. \A j \in 1..i - 1 : FALSE
    <3> SUFFICES ASSUME NEW j \in 1..i - 1 PROVE FALSE OBVIOUS
    <3>1. j \in 1..Len(tokens) /\ j < i BY <1>2
    <3>2. PICK a \in 1..n : \E m \in 1..Len(ph[a]) : j = off[a - 1] + m BY <3>1 DEF Laid
    <3>3. PICK m \in 1..Len(ph[a]) : j = off[a - 1] + m BY <3>2
    <3>4. PICK l \in 1..3 : l = Len(ph[a]) BY DEF Laid
    <3>5. m \in 1..l BY <3>4
    <3>6. off[a - 1] \in Nat /\ off[k - 1] \in Nat BY DEF Laid
    <3>7. a # k BY <3>1, <3>3, <3>5, <3>6
    <3>8. k < a BY <1>8, <3>7
    <3>9. 1 \in 1..Len(ph[k])
      <4>1. PICK c \in 1..3 : c = Len(ph[k]) BY DEF Laid
      <4>2. 1 \in 1..c OBVIOUS
      <4>3. QED BY <4>1, <4>2
    <3>10. off[k - 1] + 1 < off[a - 1] + m BY <3>3, <3>8, <3>9 DEF Laid
    <3>11. QED BY <3>1, <3>3, <3>5, <3>6, <3>10
  <2>2. before = {} BY <1>6, <2>1
  <2>3. QED BY <1>7, <2>2
<1>9. CASE k # 1 /\ ph[k - 1] = Open
  <2>1. k \in 2..Len(ph) BY <1>1, <1>9
  <2>2. \A j \in 1..k - 1 : PhraseDepth(ph, j) < d BY <1>4, <1>9, <2>1, NothingAsDeep
  <2>3. \A j \in 1..i - 1 : tokens[j].depth # d
    <3> SUFFICES ASSUME NEW j \in 1..i - 1 PROVE tokens[j].depth # d OBVIOUS
    <3>1. j \in 1..Len(tokens) /\ j < i BY <1>2
    <3>2. PICK a \in 1..n : \E m \in 1..Len(ph[a]) : j = off[a - 1] + m BY <3>1 DEF Laid
    <3>3. PICK m \in 1..Len(ph[a]) : j = off[a - 1] + m BY <3>2
    <3>4. tokens[j].depth = PhraseDepth(ph, a) BY <3>3 DEF Laid
    <3>5. PICK l \in 1..3 : l = Len(ph[a]) BY DEF Laid
    <3>6. m \in 1..l BY <3>5
    <3>7. off[a - 1] \in Nat /\ off[k - 1] \in Nat BY DEF Laid
    <3>8. a # k BY <3>1, <3>3, <3>6, <3>7
    <3>9. ~(k < a)
      <4>1. SUFFICES ASSUME k < a PROVE FALSE OBVIOUS
      <4>2. PICK c \in 1..3 : c = Len(ph[k]) BY DEF Laid
      <4>3. 1 \in 1..Len(ph[k])
        <5>1. 1 \in 1..c OBVIOUS
        <5>2. QED BY <4>2, <5>1
      <4>4. off[k - 1] + 1 < off[a - 1] + m BY <3>3, <4>1, <4>3 DEF Laid
      <4>5. QED BY <3>1, <3>3, <3>6, <3>7, <4>4
    <3>10. a \in 1..k - 1 BY <3>8, <3>9
    <3>11. PhraseDepth(ph, a) < d BY <2>2, <3>10
    <3>12. PhraseDepth(ph, a) \in Int BY <1>1, PhraseDepthIs
    <3>13. QED BY <1>4, <3>4, <3>11, <3>12
  <2>4. before = {} BY <1>6, <2>3
  <2>5. QED BY <1>7, <2>4
<1>10. CASE k # 1 /\ ph[k - 1] # Open
  <2>1. k - 1 \in 1..n /\ (k - 1) - 1 = k - 2 /\ k > 1 BY <1>1, <1>10
  <2>2. Before(ph, k) = ph[k - 1] BY <1>10 DEF Before
  <2>3. IsPhrase(ph[k - 1]) BY <2>1, PhrasesAre DEF Laid
  <2>4. ph[k - 1] # <<>>
    <3>1. PICK c \in 1..3 : c = Len(ph[k - 1]) BY <2>3 DEF IsPhrase
    <3>2. ASSUME ph[k - 1] = <<>> PROVE c = 0 BY <3>1, <3>2
    <3>3. QED BY <3>2
  <2>5. ph[k - 1] = Delimiter \/ (ph[k - 1] = Close /\ d = 0) BY <1>4, <1>5, <1>10, <2>2, <2>4
  <2>6. Len(ph[k - 1]) = 1 BY <2>3, <2>5 DEF IsPhrase
  <2>7. i - 1 = off[k - 2] + 1 /\ i - 1 \in Nat
    <3>1. off[k - 1] = off[k - 2] + 1 BY <2>1, <2>6 DEF Laid
    <3>2. off[k - 1] \in Nat BY DEF Laid
    <3>3. QED BY <3>1, <3>2
  <2>8. /\ i - 1 \in 1..Len(tokens) /\ tokens[i - 1].word = ph[k - 1][1]
        /\ tokens[i - 1].depth = PhraseDepth(ph, k - 1)
    BY <2>1, <2>7, FirstOfPhrase
  <2>9. tokens[i - 1].depth = 0 /\ d = 0
    <3>1. PhraseDepth(ph, k - 1) = d
      <4>1. CASE ph[k - 1] = Delimiter
        <5>1. Delimiter # Open BY PhrasesBegun DEF PhrasesBegin
        <5>2. QED BY <1>4, <4>1, <5>1 DEF PhraseDepth
      <4>2. CASE ph[k - 1] = Close
        <5>1. Close # Open BY PhrasesBegun DEF PhrasesBegin
        <5>2. QED BY <1>4, <4>2, <5>1 DEF PhraseDepth
      <4>3. QED BY <2>5, <4>1, <4>2
    <3>2. d = 0
      <4>1. CASE ph[k - 1] = Delimiter
        <5>1. PhraseFits(ph, k - 1) BY <1>1, <2>1 DEF PhrasesFit
        <5>2. Depths(ph, (k - 1) - 1) = 0 BY <4>1, <5>1 DEF PhraseFits
        <5>3. k - 1 \in 1..Len(ph) /\ Delimiter # Open /\ Delimiter # Close
          BY <1>1, <2>1, PhrasesBegun DEF PhrasesBegin
        <5>4. Depths(ph, (k - 1) - 1) = PhraseDepth(ph, k - 1) BY <4>1, <5>3, PhraseDepthIs
        <5>5. QED BY <3>1, <5>2, <5>4
      <4>2. QED BY <2>5, <4>1
    <3>3. QED BY <2>8, <3>1, <3>2
  <2>10. tokens[i - 1].word \notin Clauses
    <3>1. tokens[i - 1].word \in {";", ")"} BY <2>3, <2>5, <2>8 DEF IsPhrase
    <3>2. QED BY <3>1 DEF Clauses
  <2>11. i - 1 \in before /\ \A q \in before : q <= i - 1 BY <1>2, <1>6, <2>8, <2>9
  <2>12. (CHOOSE j \in before : \A q \in before : q <= j) = i - 1
    <3>1. \A j \in before : (\A q \in before : q <= j) => j = i - 1
      <4> SUFFICES ASSUME NEW j \in before, \A q \in before : q <= j PROVE j = i - 1 OBVIOUS
      <4>1. i - 1 <= j /\ j <= i - 1 /\ j \in Int BY <1>6, <2>11
      <4>2. QED BY <1>2, <4>1
    <3>2. QED BY <2>11, <3>1
  <2>13. QED BY <1>7, <2>9, <2>10, <2>11, <2>12
<1>11. QED BY <1>8, <1>9, <1>10

NextIsSecond(tokens, i, d, p) == NextAtDepth(tokens, i, d).word = p[2]

LEMMA NextOfCommand ==
  ASSUME NEW ph, NEW tokens, NEW off, NEW n, Laid(ph, tokens, off, n),
         NEW k \in 1..n, ph[k] \in Commands, NEW i, i = off[k - 1] + 1, NEW d, d = tokens[i].depth, d \in Nat
  PROVE  NextIsSecond(tokens, i, d, ph[k])
<1>1. IsPhrase(ph[k]) /\ i \in 1..Len(tokens) /\ d = PhraseDepth(ph, k) /\ Len(tokens) \in Nat
  <2>1. Len(tokens) \in Nat BY DEF Laid
  <2>2. QED BY <2>1, FirstOfPhrase
<1>2. PICK l \in 1..3 : l = Len(ph[k]) BY <1>1 DEF IsPhrase
<1>3. l > 1 BY <1>1, <1>2 DEF IsPhrase, Commands
<1>4. 2 \in 1..Len(ph[k])
  <2>1. 2 \in 1..l BY <1>3
  <2>2. QED BY <1>2, <2>1
<1>5. off[k - 1] \in Nat BY DEF Laid
<1>6. i + 1 = off[k - 1] + 2 BY <1>5
<1>7. i + 1 \in 1..Len(tokens) /\ tokens[i + 1].word = ph[k][2] /\ tokens[i + 1].depth = d
  <2>1. /\ off[k - 1] + 2 \in 1..Len(tokens) /\ tokens[off[k - 1] + 2].word = ph[k][2]
        /\ tokens[off[k - 1] + 2].depth = PhraseDepth(ph, k)
    BY <1>4 DEF Laid
  <2>2. QED BY <1>1, <1>6, <2>1
<1>8. PICK after : after = {j \in i + 1..Len(tokens) : tokens[j].depth <= d} OBVIOUS
<1>9. PICK first : first = CHOOSE j \in after : \A q \in after : j <= q OBVIOUS
<1>10. NextAtDepth(tokens, i, d) =
         IF after = {} THEN NoToken ELSE IF tokens[first].depth < d THEN NoToken ELSE tokens[first]
  BY <1>8, <1>9 DEF NextAtDepth
<1>11. i + 1 \in after /\ \A q \in after : i + 1 <= q BY <1>1, <1>7, <1>8
<1>12. first = i + 1
  <2>1. first \in after /\ \A q \in after : first <= q BY <1>9, <1>11
  <2>2. first <= i + 1 /\ i + 1 <= first /\ first \in Int BY <1>8, <1>11, <2>1
  <2>3. QED BY <1>1, <2>2
<1>13. QED BY <1>7, <1>10, <1>11, <1>12 DEF NextIsSecond

\* The condition the tokens have is the one the phrases have.
LEMMA ConditionIs ==
  ASSUME PhrasesFit(phrases), NEW tokens, NEW off, NEW n, Laid(phrases, tokens, off, n),
         NEW k \in 1..n, phrases[k] \in {Update, Delete}, NEW i, i = off[k - 1] + 1
  PROVE  HasSameDepthWhere(tokens, i) <=> HasCondition(k)
<1>1. n \in Nat /\ n = Len(phrases) /\ Len(tokens) \in Nat BY DEF Laid
<1>2. PICK d : d = Depths(phrases, k) OBVIOUS
<1>3. PhrasesBegin /\ IsPhrase(phrases[k]) BY PhrasesBegun, FirstOfPhrase
<1>4. phrases[k] \notin {Open, Close, Where, Delimiter} BY <1>3 DEF PhrasesBegin
<1>5. PhraseDepth(phrases, k) = d /\ d \in Nat BY <1>1, <1>2, <1>4, PhraseDepthIs
<1>6. i \in 1..Len(tokens) /\ tokens[i].depth = d BY <1>5, FirstOfPhrase
<1>7. \A j \in 1..n : Depths(phrases, j) \in Nat /\ PhraseDepth(phrases, j) \in Int BY <1>1, PhraseDepthIs
<1>8. DepthAt(k) = d /\ \A j : DepthAt(j) = Depths(phrases, j) BY <1>2, DepthAtIs
\* A later phrase is at later tokens, and the other way round.
<1>9. \A a, b \in 1..n : off[a - 1] + 1 < off[b - 1] + 1 <=> a < b
  <2>1. ASSUME NEW a \in 1..n, NEW b \in 1..n, a < b PROVE off[a - 1] + 1 < off[b - 1] + 1
    <3>1. PICK c \in 1..3 : c = Len(phrases[a]) BY DEF Laid
    <3>2. PICK e \in 1..3 : e = Len(phrases[b]) BY DEF Laid
    <3>3. 1 \in 1..c /\ 1 \in 1..e OBVIOUS
    <3>4. 1 \in 1..Len(phrases[a]) /\ 1 \in 1..Len(phrases[b]) BY <3>1, <3>2, <3>3
    <3>5. QED BY <2>1, <3>4 DEF Laid
  <2>2. \A a \in 1..n : off[a - 1] \in Nat BY DEF Laid
  <2>3. \A a, b \in 1..n : a < b \/ b < a \/ a = b OBVIOUS
  <2>4. QED BY <2>1, <2>2, <2>3
<1>10. ASSUME HasSameDepthWhere(tokens, i) PROVE HasCondition(k)
  <2>1. PICK w \in i + 1..Len(tokens) :
          /\ tokens[w].word = "WHERE" /\ tokens[w].depth = tokens[i].depth
          /\ \A t \in i + 1..w - 1 :
               tokens[t].depth >= tokens[i].depth /\ ~(tokens[t].depth = tokens[i].depth /\ tokens[t].word = ";")
    BY <1>10 DEF HasSameDepthWhere
  <2>2. w \in 1..Len(tokens) /\ i < w /\ w \in Nat BY <1>1, <1>6
  <2>3. tokens[w].word \notin Fillers BY <2>1 DEF Fillers
  <2>4. PICK j \in 1..n : /\ w = off[j - 1] + 1 /\ tokens[w].word = phrases[j][1]
                          /\ tokens[w].depth = PhraseDepth(phrases, j) /\ IsPhrase(phrases[j])
    <3>1. PICK j \in 1..n : Begins(phrases, tokens, off, w, j) BY <2>2, <2>3, TokenOfPhrase
    <3>2. QED BY <3>1 DEF Begins
  <2>5. phrases[j] = Where BY <2>1, <2>4 DEF IsPhrase
  <2>6. k < j BY <1>9, <2>2, <2>4
  <2>7. Depths(phrases, j) = d
    <3>1. Where # Open BY <1>3 DEF PhrasesBegin
    <3>2. PhraseDepth(phrases, j) = Depths(phrases, j) BY <2>5, <3>1 DEF PhraseDepth
    <3>3. QED BY <1>6, <2>1, <2>4, <3>2
  <2>8. ASSUME NEW a \in k + 1..j - 1 PROVE DepthAt(a) >= DepthAt(k) /\ phrases[a] # Delimiter
    <3>1. a \in 1..n /\ k < a /\ a < j BY <1>1
    <3>2. PICK t : t = off[a - 1] + 1 OBVIOUS
    <3>3. /\ t \in 1..Len(tokens) /\ tokens[t].word = phrases[a][1]
          /\ tokens[t].depth = PhraseDepth(phrases, a) /\ IsPhrase(phrases[a])
      BY <3>1, <3>2, FirstOfPhrase
    <3>4. i < t /\ t < w BY <1>9, <2>4, <3>1, <3>2
    <3>5. t \in i + 1..w - 1 BY <1>6, <2>2, <3>3, <3>4
    <3>6. tokens[t].depth >= d /\ ~(tokens[t].depth = d /\ tokens[t].word = ";") BY <1>6, <2>1, <3>5
    <3>7. PhraseDepth(phrases, a) <= Depths(phrases, a) BY <1>1, <3>1, PhraseDepthIs
    <3>8. Depths(phrases, a) \in Nat /\ PhraseDepth(phrases, a) \in Int BY <1>7, <3>1
    <3>9. DepthAt(a) >= DepthAt(k)
      <4>1. PhraseDepth(phrases, a) >= d BY <3>3, <3>6
      <4>2. Depths(phrases, a) >= d BY <1>5, <3>7, <3>8, <4>1
      <4>3. QED BY <1>8, <4>2
    <3>10. phrases[a] # Delimiter
      <4>1. SUFFICES ASSUME phrases[a] = Delimiter PROVE FALSE OBVIOUS
      <4>2. PhraseFits(phrases, a) BY <1>1, <3>1 DEF PhrasesFit
      <4>3. Depths(phrases, a - 1) = 0 BY <4>1, <4>2 DEF PhraseFits
      <4>4. phrases[a] \notin {Open, Close} BY <1>3, <4>1 DEF PhrasesBegin
      <4>5. PhraseDepth(phrases, a) = 0 BY <1>1, <3>1, <4>3, <4>4, PhraseDepthIs
      <4>6. tokens[t].word = ";" BY <3>3, <4>1 DEF IsPhrase
      <4>7. tokens[t].depth = 0 BY <3>3, <4>5
      <4>8. 0 >= d BY <3>6, <4>7
      <4>9. d = 0 BY <1>5, <4>8
      <4>10. QED BY <3>6, <4>6, <4>7, <4>9
    <3>11. QED BY <3>9, <3>10
  <2>9. j \in k + 1..Len(phrases) BY <1>1, <2>6
  <2>10. QED BY <1>8, <2>5, <2>7, <2>8, <2>9 DEF HasCondition
<1>11. ASSUME HasCondition(k) PROVE HasSameDepthWhere(tokens, i)
  <2>1. PICK j \in k + 1..Len(phrases) :
          /\ phrases[j] = Where /\ DepthAt(j) = DepthAt(k)
          /\ \A a \in k + 1..j - 1 : DepthAt(a) >= DepthAt(k) /\ phrases[a] # Delimiter
    BY <1>11 DEF HasCondition
  <2>2. j \in 1..n /\ k < j BY <1>1
  <2>3. PICK w : w = off[j - 1] + 1 OBVIOUS
  <2>4. /\ w \in 1..Len(tokens) /\ tokens[w].word = phrases[j][1]
        /\ tokens[w].depth = PhraseDepth(phrases, j) /\ IsPhrase(phrases[j])
    BY <2>2, <2>3, FirstOfPhrase
  <2>5. tokens[w].word = "WHERE" BY <2>1, <2>4 DEF IsPhrase
  <2>6. tokens[w].depth = d
    <3>1. Where # Open BY <1>3 DEF PhrasesBegin
    <3>2. PhraseDepth(phrases, j) = Depths(phrases, j) BY <2>1, <3>1 DEF PhraseDepth
    <3>3. QED BY <1>8, <2>1, <2>4, <3>2
  <2>7. w \in i + 1..Len(tokens)
    <3>1. i < w BY <1>9, <2>2, <2>3
    <3>2. QED BY <1>1, <1>6, <2>4, <3>1
  <2>8. ASSUME NEW t \in i + 1..w - 1
        PROVE  tokens[t].depth >= d /\ ~(tokens[t].depth = d /\ tokens[t].word = ";")
    <3>1. t \in 1..Len(tokens) /\ i < t /\ t < w BY <1>1, <1>6, <2>4
    <3>2. PICK a \in 1..n : \E m \in 1..Len(phrases[a]) : t = off[a - 1] + m BY <3>1 DEF Laid
    <3>3. PICK m \in 1..Len(phrases[a]) : t = off[a - 1] + m BY <3>2
    <3>4. tokens[t].word = phrases[a][m] /\ tokens[t].depth = PhraseDepth(phrases, a) /\ phrases[a] \in Phrases
      BY <3>3 DEF Laid
    <3>5. IsPhrase(phrases[a]) BY <3>4, PhrasesAre
    <3>6. PICK c \in 1..3 : c = Len(phrases[a]) BY <3>5 DEF IsPhrase
    <3>7. m \in 1..c BY <3>6
    <3>8. a < j
      <4>1. SUFFICES ASSUME ~(a < j) PROVE FALSE OBVIOUS
      <4>2. off[a - 1] \in Nat /\ off[j - 1] \in Nat BY <2>2 DEF Laid
      <4>3. a = j \/ j < a BY <2>2, <4>1
      <4>4. j < a => off[j - 1] + 1 < off[a - 1] + 1 BY <1>9, <2>2
      <4>5. off[j - 1] + 1 <= off[a - 1] + m
        <5>1. m \in Nat /\ m >= 1 BY <3>7
        <5>2. CASE a = j BY <4>2, <5>1, <5>2
        <5>3. CASE j < a BY <4>2, <4>4, <5>1, <5>3
        <5>4. QED BY <4>3, <5>2, <5>3
      <4>6. QED BY <2>3, <3>1, <3>3, <4>5
    <3>9. ~(a < k)
      <4>1. SUFFICES ASSUME a < k PROVE FALSE OBVIOUS
      <4>2. PICK e \in 1..3 : e = Len(phrases[k]) BY DEF Laid
      <4>3. 1 \in 1..e OBVIOUS
      <4>4. 1 \in 1..Len(phrases[k]) BY <4>2, <4>3
      <4>5. off[a - 1] + m < off[k - 1] + 1 BY <4>1, <4>4 DEF Laid
      <4>6. off[a - 1] \in Nat /\ off[k - 1] \in Nat BY DEF Laid
      <4>7. QED BY <3>1, <3>3, <3>7, <4>5, <4>6
    <3>10. PhraseDepth(phrases, a) >= d
      <4>1. CASE a = k BY <1>5, <4>1
      <4>2. CASE a # k
        <5>1. a \in k + 1..j - 1 BY <3>8, <3>9, <4>2
        <5>2. Depths(phrases, a) >= d BY <1>8, <2>1, <5>1
        <5>3. Depths(phrases, a - 1) >= d
          <6>1. CASE a = k + 1
            <7>1. a - 1 = k BY <6>1
            <7>2. QED BY <1>2, <1>5, <7>1
          <6>2. CASE a # k + 1
            <7>1. a - 1 \in k + 1..j - 1 BY <5>1, <6>2
            <7>2. QED BY <1>8, <2>1, <7>1
          <6>3. QED BY <6>1, <6>2
        <5>4. PhraseDepth(phrases, a) \in {Depths(phrases, a), Depths(phrases, a - 1)} BY <1>1, PhraseDepthIs
        <5>5. QED BY <5>2, <5>3, <5>4
      <4>3. QED BY <4>1, <4>2
    <3>11. tokens[t].word # ";"
      <4>1. SUFFICES ASSUME tokens[t].word = ";" PROVE FALSE OBVIOUS
      <4>2. tokens[t].word \notin Fillers BY <4>1 DEF Fillers
      <4>3. m = 1
        <5>1. m \notin 2..c BY <3>4, <3>5, <3>6, <4>2 DEF IsPhrase
        <5>2. QED BY <3>7, <5>1
      <4>4. phrases[a] = Delimiter BY <3>4, <3>5, <4>1, <4>3 DEF IsPhrase
      <4>5. a # k BY <1>4, <4>4
      <4>6. a \in k + 1..j - 1 BY <3>8, <3>9, <4>5
      <4>7. QED BY <2>1, <4>4, <4>6
    <3>12. QED BY <3>4, <3>10, <3>11
  <2>9. QED BY <1>6, <2>5, <2>6, <2>7, <2>8 DEF HasSameDepthWhere
<1>12. QED BY <1>10, <1>11

\* What Safe Mode asks about, at one token.
Asked(tokens, i) ==
  \/ IsHighRiskKeyword(tokens, i)
  \/ (IsUpdateKeyword(tokens, i) \/ IsDeleteKeyword(tokens, i)) /\ ~HasSameDepthWhere(tokens, i)

LEMMA CommandIsAsked ==
  ASSUME PhrasesFit(phrases), NEW tokens, NEW off, NEW n, Laid(phrases, tokens, off, n),
         NEW k \in 1..n, phrases[k] \in Commands, NEW i, i = off[k - 1] + 1
  PROVE  Asked(tokens, i) <=> Endangers(k)
<1>1. n \in Nat /\ n = Len(phrases) BY DEF Laid
<1>2. PhrasesBegin /\ IsPhrase(phrases[k]) BY PhrasesBegun, FirstOfPhrase
<1>3. PICK d : d = tokens[i].depth OBVIOUS
<1>4. tokens[i].word = phrases[k][1] /\ d = PhraseDepth(phrases, k) BY <1>3, FirstOfPhrase
<1>5. phrases[k] \notin {Open, Close} BY <1>2 DEF PhrasesBegin, Commands
<1>6. d = Depths(phrases, k - 1) /\ d \in Nat BY <1>1, <1>4, <1>5, PhraseDepthIs
<1>7. PICK previous : previous = PreviousAtDepth(tokens, i, d) OBVIOUS
<1>8. previous = NoToken \/ (previous.word \notin Clauses /\ d = 0) BY <1>3, <1>7, PreviousOfCommand
<1>9. PICK next : next = NextAtDepth(tokens, i, d) /\ next.word = phrases[k][2]
  <2>1. NextIsSecond(tokens, i, d, phrases[k]) BY <1>3, <1>6, NextOfCommand
  <2>2. QED BY <2>1 DEF NextIsSecond
<1>10. OpensStatement(tokens, i) BY <1>3, <1>7, <1>8 DEF OpensStatement
<1>11. previous.word \notin Clauses BY <1>8 DEF NoToken, Clauses
<1>12. CASE phrases[k] = Update
  <2>1. tokens[i].word = "UPDATE" BY <1>2, <1>4, <1>12 DEF IsPhrase
  <2>2. next.word # "AS" BY <1>2, <1>9, <1>12 DEF IsPhrase
  <2>3. IsUpdateKeyword(tokens, i) BY <1>3, <1>9, <1>10, <2>1, <2>2 DEF IsUpdateKeyword
  <2>4. ~IsHighRiskKeyword(tokens, i) BY <2>1 DEF IsHighRiskKeyword
  <2>5. phrases[k] # DropTable BY <1>2, <1>12 DEF PhrasesBegin
  <2>6. HasSameDepthWhere(tokens, i) <=> HasCondition(k) BY <1>12, ConditionIs
  <2>7. QED BY <1>12, <2>3, <2>4, <2>5, <2>6 DEF Asked, Endangers
<1>13. CASE phrases[k] = Delete
  <2>1. tokens[i].word = "DELETE" BY <1>2, <1>4, <1>13 DEF IsPhrase
  <2>2. next.word = "FROM" BY <1>2, <1>9, <1>13 DEF IsPhrase
  <2>3. IsDeleteKeyword(tokens, i) BY <1>3, <1>9, <1>10, <2>1, <2>2 DEF IsDeleteKeyword
  <2>4. ~IsHighRiskKeyword(tokens, i) BY <2>1 DEF IsHighRiskKeyword
  <2>5. phrases[k] # DropTable BY <1>2, <1>13 DEF PhrasesBegin
  <2>6. HasSameDepthWhere(tokens, i) <=> HasCondition(k) BY <1>13, ConditionIs
  <2>7. QED BY <1>13, <2>3, <2>4, <2>5, <2>6 DEF Asked, Endangers
<1>14. CASE phrases[k] = DropTable
  <2>1. tokens[i].word = "DROP" BY <1>2, <1>4, <1>14 DEF IsPhrase
  <2>2. next.word \notin {"none", "AS"}
    <3>1. phrases[k][2] = "x" BY <1>14 DEF DropTable
    <3>2. QED BY <1>9, <3>1
  <2>3. d = 0
    <3>1. PhraseFits(phrases, k) BY <1>1 DEF PhrasesFit
    <3>2. QED BY <1>6, <1>14, <3>1 DEF PhraseFits
  <2>4. IsHighRiskKeyword(tokens, i) BY <1>3, <1>7, <1>9, <1>11, <2>1, <2>2, <2>3 DEF IsHighRiskKeyword
  <2>5. QED BY <1>14, <2>4 DEF Asked, Endangers
<1>15. QED BY <1>12, <1>13, <1>14 DEF Commands

LEMMA WarningIsRight ==
  ASSUME PhrasesFit(phrases)
  PROVE  SafeModeWarns
<1>1. PICK tokens : tokens = TokenizeSql(FlattenSeq(phrases)) OBVIOUS
<1>2. PICK off : AreTokens(phrases, tokens, off) BY <1>1, TokensOfPhrases
<1>3. PICK n \in Nat : n = Len(phrases) BY DEF PhrasesFit
<1>4. Laid(phrases, tokens, off, n) BY <1>2, <1>3, TokensAreLaid
<1>5. DOMAIN tokens = 1..Len(tokens) BY <1>4 DEF Laid
<1>6. DOMAIN phrases = 1..n BY <1>3 DEF PhrasesFit
<1>7. InspectQuerySafety(FlattenSeq(phrases)) <=> \E i \in 1..Len(tokens) : Asked(tokens, i)
  BY <1>1, <1>5 DEF InspectQuerySafety, Asked
<1>8. ASSUME NEW i \in 1..Len(tokens), Asked(tokens, i) PROVE \E k \in 1..n : Endangers(k)
  <2>1. tokens[i].word \in {"UPDATE", "DELETE", "DROP"}
    BY <1>8 DEF Asked, IsHighRiskKeyword, IsUpdateKeyword, IsDeleteKeyword
  <2>2. tokens[i].word \notin Fillers BY <2>1 DEF Fillers
  <2>3. PICK k \in 1..n : i = off[k - 1] + 1 /\ tokens[i].word = phrases[k][1] /\ IsPhrase(phrases[k])
    <3>1. PICK k \in 1..n : Begins(phrases, tokens, off, i, k) BY <1>4, <2>2, TokenOfPhrase
    <3>2. QED BY <3>1 DEF Begins
  <2>4. phrases[k] \in Commands BY <2>1, <2>3 DEF IsPhrase, Commands
  <2>5. QED BY <1>4, <1>8, <2>3, <2>4, CommandIsAsked
<1>9. ASSUME NEW k \in 1..n, Endangers(k) PROVE \E i \in 1..Len(tokens) : Asked(tokens, i)
  <2>1. phrases[k] \in Commands BY <1>9 DEF Endangers, Commands
  <2>2. PICK i \in 1..Len(tokens) : i = off[k - 1] + 1 BY <1>4, FirstOfPhrase
  <2>3. QED BY <1>4, <1>9, <2>1, <2>2, CommandIsAsked
<1>10. QED BY <1>6, <1>7, <1>8, <1>9 DEF SafeModeWarns

-----------------------------------------------------------------------------
(* Safe Mode's report.                                                     *)

(* Safe Mode asks before a script exactly when one of its commands drops   *)
(* something, or updates or deletes without a condition of its own, in     *)
(* scripts of any length and depth.  (inspectQuerySafety.)                 *)
THEOREM SafeModeWarnsHolds == TextSpec => []SafeModeWarns
<1>1. PhrasesFit(phrases) => SafeModeWarns BY WarningIsRight
<1>2. QED BY <1>1, PhrasesAlwaysFit, PTL

=============================================================================
