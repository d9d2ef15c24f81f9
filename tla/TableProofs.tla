----------------------------- MODULE TableProofs -----------------------------
(***************************************************************************)
(* Proofs about the panels that change what a connection holds.  Imports:  *)
(* any files, texts, mappings and conflict policies.  Object forms and     *)
(* Schema Compare: any schemas, names, types and rows of a form, and any   *)
(* changes of other sessions; the statements of a migration are ordered    *)
(* for any set of changes.                                                 *)
(***************************************************************************)
EXTENDS SchemaScripts, CsvTransfer, ListsProofs

-----------------------------------------------------------------------------
(* A parser on its way through a part of a file.                           *)

FileSymbols == STRING \cup {"quote", "comma", "cr", "lf", "'", "bom"}

\* What follows place i of a part that next follows.
After(part, i, next) == IF i < Len(part) THEN part[i + 1] ELSE next

\* The states g of a parser that reads a part, and where it begins and ends.
Parses(g, p, part, next) ==
  g[0] = p /\ \A i \in 1..Len(part) : g[i] = ReadSymbol(g[i - 1], part[i], After(part, i, next))
Reads(p, part, next, q) == \E g : Parses(g, p, part, next) /\ g[Len(part)] = q

\* Two parts are read one after the other.
LEMMA RunBoth ==
  ASSUME NEW S, NEW a \in Seq(S), NEW b \in Seq(S), NEW next, NEW p, NEW q, NEW r,
         Reads(p, a, FirstOr(b, next), q), Reads(q, b, next, r)
  PROVE  Reads(p, a \o b, next, r)
<1>1. PICK l \in Nat : l = Len(a) OBVIOUS
<1>2. PICK m \in Nat : m = Len(b) OBVIOUS
<1>3. PICK ab : ab = a \o b OBVIOUS
<1>4. /\ ab \in Seq(S) /\ Len(ab) = l + m
      /\ \A i \in 1..l + m : ab[i] = IF i <= l THEN a[i] ELSE b[i - l]
  BY <1>1, <1>2, <1>3, ConcatProperties
<1>5. PICK g : g[0] = p /\ g[l] = q /\ \A i \in 1..l : g[i] = ReadSymbol(g[i - 1], a[i], After(a, i, FirstOr(b, next)))
  BY <1>1 DEF Reads, Parses
<1>6. PICK h : h[0] = q /\ h[m] = r /\ \A i \in 1..m : h[i] = ReadSymbol(h[i - 1], b[i], After(b, i, next))
  BY <1>2 DEF Reads, Parses
<1>7. PICK f : f = [i \in 0..l + m |-> IF i <= l THEN g[i] ELSE h[i - l]] OBVIOUS
<1>8. f[0] = p /\ f[l] = q /\ (\A i \in 0..l : f[i] = g[i]) /\ (\A i \in 0..m : f[l + i] = h[i])
  <2>1. \A i \in 0..l : f[i] = g[i] BY <1>7
  <2>2. ASSUME NEW i \in 0..m PROVE f[l + i] = h[i]
    <3>1. CASE i = 0 BY <1>5, <1>6, <1>7, <3>1
    <3>2. CASE i # 0
      <4>1. l + i \in 0..l + m /\ ~(l + i <= l) /\ (l + i) - l = i BY <3>2
      <4>2. QED BY <1>7, <4>1
    <3>3. QED BY <3>1, <3>2
  <2>3. 0 \in 0..l /\ l \in 0..l OBVIOUS
  <2>4. QED BY <1>5, <2>1, <2>2, <2>3
<1>9. ASSUME NEW i \in 1..l + m PROVE f[i] = ReadSymbol(f[i - 1], ab[i], After(ab, i, next))
  <2>1. CASE i <= l
    <3>1. i \in 1..l /\ i \in 0..l /\ i - 1 \in 0..l BY <2>1
    <3>2. ab[i] = a[i] BY <1>4, <2>1
    <3>3. After(ab, i, next) = After(a, i, FirstOr(b, next))
      <4>1. CASE i < l
        <5>1. i + 1 \in 1..l + m /\ i + 1 <= l /\ i < l + m BY <4>1
        <5>2. QED BY <1>1, <1>4, <4>1, <5>1 DEF After
      <4>2. CASE i = l /\ m = 0 BY <1>1, <1>2, <1>4, <4>2 DEF After, FirstOr
      <4>3. CASE i = l /\ m # 0
        <5>1. i + 1 \in 1..l + m /\ ~(i + 1 <= l) /\ i < l + m /\ (i + 1) - l = 1 BY <4>3
        <5>2. After(ab, i, next) = b[1] BY <1>4, <5>1 DEF After
        <5>3. After(a, i, FirstOr(b, next)) = b[1] BY <1>1, <1>2, <4>3 DEF After, FirstOr
        <5>4. QED BY <5>2, <5>3
      <4>4. QED BY <2>1, <4>1, <4>2, <4>3
    <3>4. QED BY <1>5, <1>8, <3>1, <3>2, <3>3
  <2>2. CASE ~(i <= l)
    <3>1. PICK j \in 1..m : i = l + j
      <4>1. i - l \in 1..m /\ i = l + (i - l) BY <2>2
      <4>2. QED BY <4>1
    <3>2. j \in 0..m /\ j - 1 \in 0..m /\ i - 1 = l + (j - 1) /\ i - l = j BY <3>1
    <3>3. f[i] = h[j] /\ f[i - 1] = h[j - 1] BY <1>8, <3>1, <3>2
    <3>4. ab[i] = b[j] BY <1>4, <2>2, <3>2
    <3>5. After(ab, i, next) = After(b, j, next)
      <4>1. CASE j < m
        <5>1. i + 1 \in 1..l + m /\ ~(i + 1 <= l) /\ i < l + m /\ (i + 1) - l = j + 1 BY <3>1, <4>1
        <5>2. QED BY <1>2, <1>4, <4>1, <5>1 DEF After
      <4>2. CASE ~(j < m)
        <5>1. ~(i < l + m) BY <3>1, <4>2
        <5>2. QED BY <1>2, <1>4, <4>2, <5>1 DEF After
      <4>3. QED BY <4>1, <4>2
    <3>6. QED BY <1>6, <3>3, <3>4, <3>5
  <2>3. QED BY <2>1, <2>2
<1>10. f[l + m] = r
  <2>1. m \in 0..m OBVIOUS
  <2>2. QED BY <1>6, <1>8, <2>1
<1>11. Parses(f, p, ab, next) BY <1>4, <1>8, <1>9 DEF Parses
<1>12. QED BY <1>3, <1>4, <1>10, <1>11 DEF Reads

\* An empty part leaves the parser where it is.
LEMMA RunNothing ==
  ASSUME NEW next, NEW p
  PROVE  Reads(p, <<>>, next, p)
<1>1. PICK g : g = [i \in 0..0 |-> p] OBVIOUS
<1>2. g[0] = p BY <1>1
<1>3. Len(<<>>) = 0 /\ 1..0 = {} OBVIOUS
<1>4. QED BY <1>2, <1>3 DEF Reads, Parses

\* A part of one symbol is one turn of the loop.
LEMMA RunOne ==
  ASSUME NEW next, NEW p, NEW c, NEW q, q = ReadSymbol(p, c, next)
  PROVE  Reads(p, <<c>>, next, q)
<1>1. PICK g : g = [i \in 0..1 |-> IF i = 0 THEN p ELSE q] OBVIOUS
<1>2. g[0] = p /\ g[1] = q BY <1>1
<1>3. PICK part : part = <<c>> OBVIOUS
<1>4. Len(part) = 1 /\ part[1] = c BY <1>3
<1>5. After(part, 1, next) = next BY <1>4 DEF After
<1>6. \A i \in 1..1 : i = 1 /\ i - 1 = 0 OBVIOUS
<1>7. Parses(g, p, part, next) BY <1>2, <1>4, <1>5, <1>6 DEF Parses
<1>8. QED BY <1>2, <1>3, <1>4, <1>7 DEF Reads

\* A parser ends in one state only.
LEMMA RunSame ==
  ASSUME NEW part, Len(part) \in Nat, NEW next, NEW p, NEW q, NEW r, Reads(p, part, next, q), Reads(p, part, next, r)
  PROVE  q = r
<1>1. PICK n \in Nat : n = Len(part) OBVIOUS
<1>2. PICK g : Parses(g, p, part, next) /\ g[n] = q BY <1>1 DEF Reads
<1>3. PICK h : Parses(h, p, part, next) /\ h[n] = r BY <1>1 DEF Reads
<1> DEFINE T == {i \in Nat : i \in 0..n /\ g[i] # h[i]}
<1>4. T = {}
  <2>1. SUFFICES ASSUME T # {} PROVE FALSE OBVIOUS
  <2>2. PICK i \in T : \A j \in T : i <= j BY <2>1, LeastMember, Zenon
  <2>3. i # 0 BY <1>2, <1>3, <2>2 DEF Parses
  <2>4. i \in 1..n /\ i - 1 \in 0..n /\ i - 1 \in Nat /\ i - 1 \notin T BY <2>2, <2>3
  <2>5. g[i - 1] = h[i - 1] BY <2>4
  <2>6. g[i] = h[i] BY <1>1, <1>2, <1>3, <2>4, <2>5 DEF Parses
  <2>7. QED BY <2>2, <2>6
<1>5. n \in 0..n OBVIOUS
<1>6. QED BY <1>2, <1>3, <1>4, <1>5

\* So are any number of parts; s[k] is the state behind the first k of them and
\* nexts[k] what follows part k.
LEMMA RunParts ==
  ASSUME NEW S, NEW parts \in Seq(Seq(S)), NEW s, NEW nexts, NEW next, Follow(parts, nexts, next),
         \A k \in 1..Len(parts) : Reads(s[k - 1], parts[k], nexts[k], s[k])
  PROVE  Reads(s[0], FlattenSeq(parts), next, s[Len(parts)])
<1>1. PICK n \in Nat : n = Len(parts) OBVIOUS
<1>2. \A k \in 1..n : parts[k] \in Seq(S) /\ Len(parts[k]) \in Nat BY <1>1
<1>3. CASE n = 0
  <2>1. parts = <<>> BY <1>1, <1>3, EmptySeq
  <2>2. FlattenSeq(parts) = <<>> BY <1>1, <1>3, <2>1 DEF FlattenSeq
  <2>3. QED BY <1>1, <1>3, <2>2, RunNothing
<1>4. CASE n > 0
  <2>1. PICK f : /\ \A i \in 1..n : f[i] = IF i = 1 THEN parts[i] ELSE f[i - 1] \o parts[i]
                 /\ FlattenSeq(parts) = f[n]
    BY <1>1, <1>4, FlatIsTable
  <2>2. \A i \in 1..n : f[i] = IF i = 1 THEN parts[i] ELSE f[i - 1] \o parts[i] BY <2>1
  <2> DEFINE Through(k) == f[k] \in Seq(S) /\ Reads(s[0], f[k], nexts[k], s[k])
             T == {k \in Nat : k \in 1..n /\ ~Through(k)}
  <2>3. T = {}
    <3>1. SUFFICES ASSUME T # {} PROVE FALSE OBVIOUS
    <3>2. PICK k \in T : \A j \in T : k <= j BY <3>1, LeastMember, Zenon
    <3>3. k \in 1..n /\ ~Through(k) BY <3>2
    <3>4. CASE k = 1
      <4>1. f[1] = parts[1] /\ 1 \in 1..n /\ 1 - 1 = 0 BY <1>4, <2>2
      <4>2. Reads(s[1 - 1], parts[1], nexts[1], s[1]) BY <1>1, <4>1
      <4>3. Through(1) BY <1>2, <4>1, <4>2
      <4>4. QED BY <3>3, <3>4, <4>3
    <3>5. CASE k > 1
      <4>1. k - 1 \in 1..n /\ k - 1 \in Nat /\ ~(k <= k - 1) /\ k - 1 \in 1..n - 1 /\ (k - 1) + 1 = k /\ k # 1
        BY <3>3, <3>5
      <4>2. Through(k - 1) BY <3>2, <4>1
      <4>3. f[k] = f[k - 1] \o parts[k] BY <2>2, <3>3, <4>1
      <4>4. nexts[k - 1] = FirstOr(parts[k], nexts[k]) BY <1>1, <4>1 DEF Follow
      <4>5. Reads(s[k - 1], parts[k], nexts[k], s[k]) /\ parts[k] \in Seq(S) BY <1>1, <1>2, <3>3
      <4>6. PICK a \in Seq(S) : a = f[k - 1] BY <4>2
      <4>7. Reads(s[0], a, FirstOr(parts[k], nexts[k]), s[k - 1]) BY <4>2, <4>4, <4>6
      <4>8. Reads(s[0], a \o parts[k], nexts[k], s[k]) BY <4>5, <4>7, RunBoth
      <4>9. a \o parts[k] \in Seq(S) BY <4>5
      <4>10. QED BY <3>3, <4>3, <4>6, <4>8, <4>9
    <3>6. QED BY <3>3, <3>4, <3>5
  <2>4. Through(n)
    <3>1. n \in 1..n BY <1>4
    <3>2. QED BY <2>3, <3>1
  <2>5. nexts[n] = next BY <1>1, <1>4 DEF Follow
  <2>6. QED BY <1>1, <2>1, <2>4, <2>5
<1>5. QED BY <1>3, <1>4

-----------------------------------------------------------------------------
(* A cell.                                                                 *)

\* A parser: before a cell, in or behind one, and between the quotes of one.
AtStart(rows, values) ==
  [rows |-> rows, values |-> values, value |-> <<>>, quoted |-> FALSE, start |-> TRUE, skip |-> FALSE]
InPlain(rows, values, value) ==
  [rows |-> rows, values |-> values, value |-> value, quoted |-> FALSE, start |-> FALSE, skip |-> FALSE]
Within(rows, values, value) ==
  [rows |-> rows, values |-> values, value |-> value, quoted |-> TRUE, start |-> FALSE, skip |-> FALSE]
\* It has seen the first of two quotes that stand for one.
HalfWay(rows, values, value) ==
  [rows |-> rows, values |-> values, value |-> value, quoted |-> TRUE, start |-> FALSE, skip |-> TRUE]

\* The symbols that make a writer put a cell in quotes.
Separators == {"quote", "comma", "cr", "lf"}

\* One turn each.
LEMMA TurnFirst ==
  ASSUME NEW rows, NEW values, NEW c, c \notin Separators, NEW next
  PROVE  ReadSymbol(AtStart(rows, values), c, next) = InPlain(rows, values, Append(<<>>, c))
BY DEF AtStart, InPlain, ReadSymbol, Add, Separators

\* One turn of the parser in each of its states.
LEMMA TurnPlain ==
  ASSUME NEW rows, NEW values, NEW value, NEW c, c \notin Separators, NEW next
  PROVE  ReadSymbol(InPlain(rows, values, value), c, next) = InPlain(rows, values, Append(value, c))
BY DEF InPlain, ReadSymbol, Add, Separators

\* Within quotes every symbol but a quote belongs to the cell.
LEMMA TurnWithin ==
  ASSUME NEW rows, NEW values, NEW value, NEW c, c # "quote", NEW next
  PROVE  ReadSymbol(Within(rows, values, value), c, next) = Within(rows, values, Append(value, c))
BY DEF Within, ReadSymbol, ReadQuoted, Add

\* A quote at the beginning of a cell opens it.
LEMMA TurnOpen ==
  ASSUME NEW rows, NEW values, NEW next
  PROVE  ReadSymbol(AtStart(rows, values), "quote", next) = Within(rows, values, <<>>)
BY DEF AtStart, Within, ReadSymbol

\* A quote that no quote follows closes the cell.
LEMMA TurnClose ==
  ASSUME NEW rows, NEW values, NEW value, NEW next, next # "quote"
  PROVE  ReadSymbol(Within(rows, values, value), "quote", next) = InPlain(rows, values, value)
BY DEF InPlain, Within, ReadSymbol, ReadQuoted

\* The first of two quotes within a cell is its quote.
LEMMA TurnDouble ==
  ASSUME NEW rows, NEW values, NEW value, NEW next
  PROVE  /\ ReadSymbol(Within(rows, values, value), "quote", "quote") = HalfWay(rows, values, Append(value, "quote"))
         /\ ReadSymbol(HalfWay(rows, values, value), "quote", next) = Within(rows, values, value)
BY DEF Within, HalfWay, ReadSymbol, ReadQuoted, Add

\* A comma ends the cell.
LEMMA TurnComma ==
  ASSUME NEW rows, NEW values, NEW value, NEW next
  PROVE  /\ ReadSymbol(AtStart(rows, values), "comma", next) = AtStart(rows, Append(values, <<>>))
         /\ ReadSymbol(InPlain(rows, values, value), "comma", next) = AtStart(rows, Append(values, value))
BY DEF AtStart, InPlain, ReadSymbol, FinishValue

\* A quote in quotes, written twice.
LEMMA TurnsTwice ==
  ASSUME NEW rows, NEW values, NEW value, NEW next
  PROVE  Reads(Within(rows, values, value), <<"quote", "quote">>, next, Within(rows, values, Append(value, "quote")))
<1>1. PICK p : p = Within(rows, values, value) OBVIOUS
<1>2. PICK q : q = HalfWay(rows, values, Append(value, "quote")) OBVIOUS
<1>3. PICK r : r = Within(rows, values, Append(value, "quote")) OBVIOUS
<1>4. ReadSymbol(p, "quote", "quote") = q
  BY <1>1, <1>2, TurnDouble
<1>5. ReadSymbol(q, "quote", next) = r BY <1>2, <1>3, TurnDouble
<1>6. PICK g : g = [i \in 0..2 |-> IF i = 0 THEN p ELSE IF i = 1 THEN q ELSE r] OBVIOUS
<1>7. g[0] = p /\ g[1] = q /\ g[2] = r BY <1>6
<1>8. PICK part : part = <<"quote", "quote">> OBVIOUS
<1>9. Len(part) = 2 /\ part[1] = "quote" /\ part[2] = "quote" BY <1>8
<1>10. After(part, 1, next) = "quote" /\ After(part, 2, next) = next BY <1>9 DEF After
<1>11. \A i \in 1..2 : (i = 1 /\ i - 1 = 0) \/ (i = 2 /\ i - 1 = 1) OBVIOUS
<1>12. \A i \in 1..2 : g[i] = ReadSymbol(g[i - 1], part[i], After(part, i, next))
  BY <1>4, <1>5, <1>7, <1>9, <1>10, <1>11
<1>13. Parses(g, p, part, next) BY <1>7, <1>9, <1>12 DEF Parses
<1>14. QED BY <1>1, <1>3, <1>7, <1>8, <1>9, <1>13 DEF Reads

\* Behind a cell without quotes.
Behind(rows, values, v) == IF Len(v) = 0 THEN AtStart(rows, values) ELSE InPlain(rows, values, v)

\* A cell without quotes, separators and line ends is read as it is.
LEMMA PlainCell ==
  ASSUME NEW S, NEW v \in Seq(S), \A i \in 1..Len(v) : v[i] \notin Separators, NEW next, NEW rows, NEW values
  PROVE  Reads(AtStart(rows, values), v, next, Behind(rows, values, v))
<1>1. PICK l \in Nat : l = Len(v) OBVIOUS
<1>2. PICK g : g = [i \in 0..l |-> IF i = 0 THEN AtStart(rows, values) ELSE InPlain(rows, values, Beginning(v, i))]
  OBVIOUS
<1>3. g[0] = AtStart(rows, values) /\ \A i \in 1..l : g[i] = InPlain(rows, values, Beginning(v, i)) BY <1>2
<1>4. g[l] = Behind(rows, values, v)
  <2>1. CASE l = 0 BY <1>1, <1>3, <2>1 DEF Behind
  <2>2. CASE l # 0
    <3>1. l \in 1..l BY <2>2
    <3>2. g[l] = InPlain(rows, values, v) BY <1>1, <1>3, <3>1, BeginningGrows
    <3>3. QED BY <1>1, <2>2, <3>2 DEF Behind
  <2>3. QED BY <2>1, <2>2
<1>5. ASSUME NEW i \in 1..l PROVE g[i] = ReadSymbol(g[i - 1], v[i], After(v, i, next))
  <2>1. PICK a : a = Beginning(v, i - 1) OBVIOUS
  <2>2. PICK b : b = Beginning(v, i) OBVIOUS
  <2>3. b = Append(a, v[i]) BY <1>1, <2>1, <2>2, BeginningGrows
  <2>4. v[i] \notin Separators BY <1>1
  <2>5. g[i] = InPlain(rows, values, b) BY <1>3, <2>2
  <2>6. CASE i = 1
    <3>1. a = <<>>
      <4>1. Beginning(v, 0) = <<>> BY BeginningGrows
      <4>2. i - 1 = 0 BY <2>6
      <4>3. QED BY <2>1, <4>1, <4>2
    <3>2. g[i - 1] = AtStart(rows, values) BY <1>3, <2>6
    <3>3. QED BY <2>3, <2>4, <2>5, <3>1, <3>2, TurnFirst
  <2>7. CASE i # 1
    <3>1. i - 1 \in 1..l BY <2>7
    <3>2. g[i - 1] = InPlain(rows, values, a) BY <1>3, <2>1, <3>1
    <3>3. PICK n : n = After(v, i, next) OBVIOUS
    <3>4. ReadSymbol(InPlain(rows, values, a), v[i], n) = InPlain(rows, values, Append(a, v[i]))
      BY <2>4, TurnPlain
    <3>5. QED BY <2>3, <2>5, <3>2, <3>3, <3>4
  <2>8. QED BY <2>6, <2>7
<1>6. Parses(g, AtStart(rows, values), v, next) BY <1>1, <1>3, <1>5 DEF Parses
<1>7. QED BY <1>1, <1>4, <1>6 DEF Reads

\* The parts of what stands in quotes.
TwiceQuoted(v) == [i \in DOMAIN v |-> IF v[i] = "quote" THEN <<"quote", "quote">> ELSE <<v[i]>>]

\* In quotes, every quote of a cell is there twice.
LEMMA TwiceQuotedIsText ==
  ASSUME NEW S, NEW v \in Seq(S), "quote" \in S
  PROVE  /\ TwiceQuoted(v) \in Seq(Seq(S)) /\ Len(TwiceQuoted(v)) = Len(v)
         /\ InQuotes(v) = <<"quote">> \o FlattenSeq(TwiceQuoted(v)) \o <<"quote">>
         /\ FlattenSeq(TwiceQuoted(v)) \in Seq(S)
         /\ InQuotes(v) \in Seq(S) /\ Len(InQuotes(v)) > 0 /\ InQuotes(v)[1] = "quote"
<1>1. PICK l \in Nat : l = Len(v) /\ DOMAIN v = 1..l OBVIOUS
<1>2. PICK parts : parts = TwiceQuoted(v) OBVIOUS
<1>3. ASSUME NEW i \in 1..l PROVE (IF v[i] = "quote" THEN <<"quote", "quote">> ELSE <<v[i]>>) \in Seq(S)
  <2>1. v[i] \in S BY <1>1
  <2>2. QED BY <2>1
<1>4. parts \in [1..l -> Seq(S)] BY <1>1, <1>2, <1>3 DEF TwiceQuoted
<1>5. parts \in Seq(Seq(S)) /\ Len(parts) = l BY <1>4
<1>6. PICK inside : inside = FlattenSeq(parts) OBVIOUS
<1>7. inside \in Seq(S) BY <1>5, <1>6, FlattenParts
<1>8. InQuotes(v) = <<"quote">> \o inside \o <<"quote">> BY <1>2, <1>6 DEF InQuotes, TwiceQuoted
<1>9. PICK q \in S : q = "quote" OBVIOUS
<1>10. PICK a : a = <<q>> \o inside OBVIOUS
<1>11. <<q>> \in Seq(S) /\ Len(<<q>>) = 1 /\ <<q>>[1] = q BY <1>9
<1>12. a \in Seq(S) /\ Len(a) > 0 /\ a[1] = q
  <2>1. PICK m \in Nat : m = Len(inside) BY <1>7
  <2>2. 1 \in 1..1 + m /\ 1 <= 1 OBVIOUS
  <2>3. QED BY <1>7, <1>10, <1>11, <2>1, <2>2, ConcatProperties
<1>13. PICK b : b = a \o <<q>> OBVIOUS
<1>14. b \in Seq(S) /\ Len(b) > 0 /\ b[1] = q
  <2>1. PICK m \in Nat : m = Len(a) BY <1>12
  <2>2. m > 0 /\ 1 \in 1..m + 1 /\ 1 <= m BY <1>12, <2>1
  <2>3. QED BY <1>11, <1>12, <1>13, <2>1, <2>2, ConcatProperties
<1>15. QED BY <1>1, <1>2, <1>5, <1>6, <1>7, <1>8, <1>9, <1>10, <1>13, <1>14

\* A cell in quotes is read as what is between them, whatever that is.
LEMMA QuotedCell ==
  ASSUME NEW S, NEW v \in Seq(S), "quote" \in S, NEW next, next # "quote", NEW rows, NEW values
  PROVE  Reads(AtStart(rows, values), InQuotes(v), next, InPlain(rows, values, v))
<1>1. PICK l \in Nat : l = Len(v) OBVIOUS
<1>2. PICK parts : parts = TwiceQuoted(v) OBVIOUS
<1>3. /\ parts \in Seq(Seq(S)) /\ Len(parts) = l /\ InQuotes(v) = <<"quote">> \o FlattenSeq(parts) \o <<"quote">>
      /\ FlattenSeq(parts) \in Seq(S)
  BY <1>1, <1>2, TwiceQuotedIsText
<1>4. PICK s : s = [k \in 0..l |-> Within(rows, values, Beginning(v, k))] OBVIOUS
<1>5. \A k \in 0..l : s[k] = Within(rows, values, Beginning(v, k)) BY <1>4
<1>6. PICK nexts : nexts = [k \in 1..l |-> IF k = l THEN "quote" ELSE parts[k + 1][1]] OBVIOUS
<1>7. \A k \in 1..l : parts[k] = IF v[k] = "quote" THEN <<"quote", "quote">> ELSE <<v[k]>>
  BY <1>1, <1>2 DEF TwiceQuoted
<1>8. Follow(parts, nexts, "quote")
  <2>1. l > 0 => nexts[l] = "quote" BY <1>6
  <2>2. ASSUME NEW k \in 1..l - 1 PROVE nexts[k] = FirstOr(parts[k + 1], nexts[k + 1])
    <3>1. k \in 1..l /\ k # l /\ k + 1 \in 1..l OBVIOUS
    <3>2. nexts[k] = parts[k + 1][1] BY <1>6, <3>1
    <3>3. Len(parts[k + 1]) # 0
      <4>1. parts[k + 1] = <<"quote", "quote">> \/ parts[k + 1] = <<v[k + 1]>> BY <1>7, <3>1
      <4>2. CASE parts[k + 1] = <<"quote", "quote">> BY <4>2
      <4>3. CASE parts[k + 1] = <<v[k + 1]>> BY <4>3
      <4>4. QED BY <4>1, <4>2, <4>3
    <3>4. QED BY <3>2, <3>3 DEF FirstOr
  <2>3. QED BY <1>3, <2>1, <2>2 DEF Follow
<1>9. ASSUME NEW k \in 1..l PROVE Reads(s[k - 1], parts[k], nexts[k], s[k])
  <2>1. k - 1 \in 0..l /\ k \in 0..l OBVIOUS
  <2>2. PICK a : a = Beginning(v, k - 1) OBVIOUS
  <2>3. s[k - 1] = Within(rows, values, a) BY <1>5, <2>1, <2>2
  <2>4. s[k] = Within(rows, values, Append(a, v[k]))
    <3>1. Append(a, v[k]) = Beginning(v, k) BY <1>1, <2>2, BeginningGrows
    <3>2. QED BY <1>5, <2>1, <3>1
  <2>5. CASE v[k] = "quote"
    <3>1. parts[k] = <<"quote", "quote">> BY <1>7, <2>5
    <3>2. QED BY <2>3, <2>4, <2>5, <3>1, TurnsTwice
  <2>6. CASE v[k] # "quote"
    <3>1. parts[k] = <<v[k]>> BY <1>7, <2>6
    <3>2. s[k] = ReadSymbol(s[k - 1], v[k], nexts[k]) BY <2>3, <2>4, <2>6, TurnWithin
    <3>3. QED BY <3>1, <3>2, RunOne
  <2>7. QED BY <2>5, <2>6
<1>10. PICK inside : inside = FlattenSeq(parts) OBVIOUS
<1>11. inside \in Seq(S) BY <1>3, <1>10
<1>12. Reads(s[0], inside, "quote", s[l]) BY <1>3, <1>8, <1>9, <1>10, RunParts
<1>13. s[0] = Within(rows, values, <<>>)
  <2>1. 0 \in 0..l OBVIOUS
  <2>2. QED BY <1>5, <2>1, BeginningGrows
<1>14. s[l] = Within(rows, values, v)
  <2>1. l \in 0..l OBVIOUS
  <2>2. QED BY <1>1, <1>5, <2>1, BeginningGrows
<1>15. PICK q \in S : q = "quote" OBVIOUS
<1>16. <<q>> \in Seq(S) OBVIOUS
<1>17. ASSUME NEW after PROVE Reads(AtStart(rows, values), <<q>>, after, s[0])
  <2>1. s[0] = ReadSymbol(AtStart(rows, values), q, after) BY <1>13, <1>15, TurnOpen
  <2>2. QED BY <2>1, RunOne
<1>18. Reads(s[l], <<q>>, next, InPlain(rows, values, v))
  <2>1. InPlain(rows, values, v) = ReadSymbol(s[l], q, next) BY <1>14, <1>15, TurnClose
  <2>2. QED BY <2>1, RunOne
<1>19. PICK open : open = <<q>> \o inside OBVIOUS
<1>20. Reads(AtStart(rows, values), open, "quote", s[l]) /\ open \in Seq(S)
  <2>1. Reads(AtStart(rows, values), <<q>>, FirstOr(inside, "quote"), s[0]) BY <1>17
  <2>2. Reads(AtStart(rows, values), <<q>> \o inside, "quote", s[l])
    BY <1>11, <1>12, <1>16, <2>1, RunBoth
  <2>3. QED BY <1>11, <1>16, <1>19, <2>2
<1>21. FirstOr(<<q>>, next) = "quote" BY <1>15 DEF FirstOr
<1>22. Reads(AtStart(rows, values), open \o <<q>>, next, InPlain(rows, values, v))
  BY <1>16, <1>18, <1>20, <1>21, RunBoth
<1>23. QED BY <1>3, <1>10, <1>15, <1>19, <1>22

\* A cell as it is written, what it says then, and whether it is in quotes.
InFile(v, writer) == IF writer.kind = "export" THEN EncodeCell(v) ELSE InQuotes(v)
Meant(v, writer) == IF writer.kind = "export" THEN ProtectFormula(v) ELSE v
HasSeparator(v) == \E i \in 1..Len(v) : v[i] \in Separators
Shows(v, writer) == Len(Meant(v, writer)) # 0 \/ writer.kind # "export"

\* Behind a cell, however it is written.
BehindCell(rows, values, v, writer) ==
  IF Shows(v, writer) THEN InPlain(rows, values, Meant(v, writer)) ELSE AtStart(rows, values)

\* A protected text is a text, and one that is no formula is left alone.
LEMMA ProtectFormulaIsText ==
  ASSUME NEW S, NEW v \in Seq(S), "'" \in S
  PROVE  /\ ProtectFormula(v) \in Seq(S)
         /\ ~FormulaPrefix(v) => ProtectFormula(v) = v
         /\ FormulaPrefix(v) => /\ Len(ProtectFormula(v)) = Len(v) + 1 /\ ProtectFormula(v)[1] = "'"
                                /\ \A i \in 1..Len(v) : ProtectFormula(v)[i + 1] = v[i]
                                /\ Len(v) # 0
<1>1. CASE ~FormulaPrefix(v) BY <1>1 DEF ProtectFormula
<1>2. CASE FormulaPrefix(v)
  <2>1. PICK q \in S : q = "'" OBVIOUS
  <2>2. PICK p : p = <<q>> \o v OBVIOUS
  <2>3. p \in Seq(S) /\ Len(p) = Len(v) + 1 /\ p[1] = q /\ \A i \in 1..Len(v) : p[i + 1] = v[i]
    BY <2>2, Prepended
  <2>4. v # <<>> BY <1>2 DEF FormulaPrefix
  <2>5. Len(v) # 0 BY <2>4, EmptySeq
  <2>6. ProtectFormula(v) = p BY <1>2, <2>1, <2>2 DEF ProtectFormula
  <2>7. QED BY <1>2, <2>1, <2>3, <2>5, <2>6
<1>3. QED BY <1>1, <1>2

\* A cell is put in quotes exactly if it has a separator.
LEMMA EncodeCellIs ==
  ASSUME NEW S, NEW v \in Seq(S), "'" \in S, NEW m, m = ProtectFormula(v)
  PROVE  EncodeCell(v) = IF HasSeparator(m) THEN InQuotes(m) ELSE m
<1>1. m \in Seq(S) BY ProtectFormulaIsText
<1>2. DOMAIN m = 1..Len(m) BY <1>1
<1>3. PICK seps : seps = Separators OBVIOUS
<1>4. seps \cap ToSet(m) # {} <=> HasSeparator(m) BY <1>2, <1>3 DEF ToSet, HasSeparator
<1>5. EncodeCell(v) = IF seps \cap ToSet(m) # {} THEN InQuotes(m) ELSE m BY <1>3, Zenon DEF EncodeCell, Separators
<1>6. QED BY <1>4, <1>5

\* However a cell is written, the parser reads what it means.
LEMMA CellReads ==
  ASSUME NEW v \in Seq(FileSymbols), NEW writer, NEW next, next # "quote", NEW rows, NEW values
  PROVE  Reads(AtStart(rows, values), InFile(v, writer), next, BehindCell(rows, values, v, writer))
<1>1. "quote" \in FileSymbols /\ "'" \in FileSymbols BY DEF FileSymbols
<1>2. PICK m : m = Meant(v, writer) OBVIOUS
<1>3. m \in Seq(FileSymbols) BY <1>1, <1>2, ProtectFormulaIsText DEF Meant
<1>4. PICK l \in Nat : l = Len(m) BY <1>3
<1>5. CASE writer.kind = "export" /\ ~HasSeparator(m)
  <2>1. m = ProtectFormula(v) BY <1>2, <1>5 DEF Meant
  <2>2. InFile(v, writer) = m BY <1>1, <1>5, <2>1, EncodeCellIs DEF InFile
  <2>3. \A i \in 1..Len(m) : m[i] \notin Separators BY <1>5 DEF HasSeparator
  <2>4. Reads(AtStart(rows, values), m, next, Behind(rows, values, m)) BY <1>3, <2>3, PlainCell
  <2>5. BehindCell(rows, values, v, writer) = Behind(rows, values, m)
    BY <1>2, <1>5 DEF Behind, BehindCell, Shows
  <2>6. QED BY <2>2, <2>4, <2>5
<1>6. CASE writer.kind # "export" \/ HasSeparator(m)
  <2>1. InFile(v, writer) = InQuotes(m)
    <3>1. CASE writer.kind = "export"
      <4>1. m = ProtectFormula(v) BY <1>2, <3>1 DEF Meant
      <4>2. QED BY <1>1, <1>6, <3>1, <4>1, EncodeCellIs DEF InFile
    <3>2. CASE writer.kind # "export" BY <1>2, <3>2 DEF InFile, Meant
    <3>3. QED BY <3>1, <3>2
  <2>2. Shows(v, writer)
    <3>1. HasSeparator(m) => l # 0 BY <1>4 DEF HasSeparator
    <3>2. QED BY <1>2, <1>4, <1>6, <3>1 DEF Shows
  <2>3. BehindCell(rows, values, v, writer) = InPlain(rows, values, m) BY <1>2, <2>2 DEF BehindCell
  <2>4. Reads(AtStart(rows, values), InQuotes(m), next, InPlain(rows, values, m)) BY <1>1, <1>3, QuotedCell
  <2>5. QED BY <2>1, <2>3, <2>4
<1>7. QED BY <1>5, <1>6

\* How a written cell begins.
LEMMA WrittenBegins ==
  ASSUME NEW v \in Seq(FileSymbols), NEW writer
  PROVE  /\ InFile(v, writer) \in Seq(FileSymbols) /\ Meant(v, writer) \in Seq(FileSymbols)
         /\ Len(InFile(v, writer)) = 0 <=> ~Shows(v, writer)
         /\ Shows(v, writer) =>
              /\ InFile(v, writer)[1] # "lf"
              /\ \/ InFile(v, writer)[1] = "quote"
                 \/ Len(v) # 0 /\ InFile(v, writer)[1] \in {"'", v[1]}
<1>1. "quote" \in FileSymbols /\ "'" \in FileSymbols BY DEF FileSymbols
<1>2. PICK m : m = Meant(v, writer) OBVIOUS
<1>3. m \in Seq(FileSymbols) BY <1>1, <1>2, ProtectFormulaIsText DEF Meant
<1>4. PICK l \in Nat : l = Len(m) BY <1>3
<1>5. PICK w : w = InFile(v, writer) OBVIOUS
<1>6. CASE writer.kind = "export" /\ ~HasSeparator(m)
  <2>1. m = ProtectFormula(v) BY <1>2, <1>6 DEF Meant
  <2>2. w = m BY <1>1, <1>5, <1>6, <2>1, EncodeCellIs DEF InFile
  <2>3. Shows(v, writer) <=> l # 0 BY <1>2, <1>4, <1>6 DEF Shows
  <2>4. ASSUME l # 0 PROVE m[1] # "lf" /\ Len(v) # 0 /\ m[1] \in {"'", v[1]}
    <3>1. 1 \in 1..Len(m) BY <1>4, <2>4
    <3>2. m[1] \notin Separators BY <1>6, <3>1 DEF HasSeparator
    <3>3. Len(v) # 0 /\ m[1] \in {"'", v[1]} BY <1>1, <1>4, <2>1, <2>4, ProtectFormulaIsText
    <3>4. QED BY <3>2, <3>3 DEF Separators
  <2>5. QED BY <1>2, <1>3, <1>4, <1>5, <2>2, <2>3, <2>4
<1>7. CASE writer.kind # "export" \/ HasSeparator(m)
  <2>1. w = InQuotes(m)
    <3>1. CASE writer.kind = "export"
      <4>1. m = ProtectFormula(v) BY <1>2, <3>1 DEF Meant
      <4>2. QED BY <1>1, <1>5, <1>7, <3>1, <4>1, EncodeCellIs DEF InFile
    <3>2. CASE writer.kind # "export" BY <1>2, <1>5, <3>2 DEF InFile, Meant
    <3>3. QED BY <3>1, <3>2
  <2>2. Shows(v, writer)
    <3>1. HasSeparator(m) => l # 0 BY <1>4 DEF HasSeparator
    <3>2. QED BY <1>2, <1>4, <1>7, <3>1 DEF Shows
  <2>3. w \in Seq(FileSymbols) /\ Len(w) > 0 /\ w[1] = "quote" BY <1>1, <1>3, <2>1, TwiceQuotedIsText
  <2>4. Len(w) # 0 BY <2>3
  <2>5. QED BY <1>2, <1>3, <1>5, <2>2, <2>3, <2>4
<1>8. QED BY <1>6, <1>7

\* Behind a comma, and behind a record.
LEMMA CommaReads ==
  ASSUME NEW rows, NEW values, NEW v \in Seq(FileSymbols), NEW writer, NEW next
  PROVE  Reads(BehindCell(rows, values, v, writer), <<"comma">>, next, AtStart(rows, Append(values, Meant(v, writer))))
<1>1. PICK m : m = Meant(v, writer) OBVIOUS
<1>2. m \in Seq(FileSymbols) BY <1>1, WrittenBegins
<1>3. PICK p : p = BehindCell(rows, values, v, writer) OBVIOUS
<1>4. AtStart(rows, Append(values, m)) = ReadSymbol(p, "comma", next)
  <2>1. CASE Shows(v, writer)
    <3>1. p = InPlain(rows, values, m) BY <1>1, <1>3, <2>1 DEF BehindCell
    <3>2. QED BY <3>1, TurnComma
  <2>2. CASE ~Shows(v, writer)
    <3>1. p = AtStart(rows, values) BY <1>3, <2>2 DEF BehindCell
    <3>2. Len(m) = 0 BY <1>1, <2>2 DEF Shows
    <3>3. m = <<>> BY <1>2, <3>2, EmptySeq
    <3>4. QED BY <3>1, <3>3, TurnComma
  <2>3. QED BY <2>1, <2>2
<1>5. QED BY <1>1, <1>3, <1>4, RunOne

Meanings(cells, writer) == [c \in DOMAIN cells |-> Meant(cells[c], writer)]
BehindRecord(rows, cells, writer) ==
  BehindCell(rows, Beginning(Meanings(cells, writer), Len(cells) - 1), cells[Len(cells)], writer)
RecordParts(cells, writer) ==
  [c \in DOMAIN cells |-> (IF c > 1 THEN <<"comma">> ELSE <<>>) \o InFile(cells[c], writer)]

\* A line is the cells with their commas, one after the other.
LEMMA RecordIsParts ==
  ASSUME NEW cells \in Seq(Seq(FileSymbols)), NEW writer
  PROVE  /\ Record(cells, writer) = FlattenSeq(RecordParts(cells, writer))
         /\ RecordParts(cells, writer) \in Seq(Seq(FileSymbols)) /\ Len(RecordParts(cells, writer)) = Len(cells)
         /\ Len(cells) > 0 => RecordParts(cells, writer)[1] = InFile(cells[1], writer)
         /\ \A c \in 2..Len(cells) : RecordParts(cells, writer)[c] = <<"comma">> \o InFile(cells[c], writer)
<1>1. PICK n \in Nat : n = Len(cells) /\ DOMAIN cells = 1..n OBVIOUS
<1>2. PICK parts : parts = RecordParts(cells, writer) OBVIOUS
<1>3. Record(cells, writer) = FlattenSeq(parts)
  <2>1. parts = [c \in DOMAIN cells |-> (IF c > 1 THEN <<"comma">> ELSE <<>>) \o
                   IF writer.kind = "export" THEN EncodeCell(cells[c]) ELSE InQuotes(cells[c])]
    BY <1>2, Zenon DEF RecordParts, InFile
  <2>2. QED BY <2>1, Zenon DEF Record
<1>4. ASSUME NEW c \in 1..n
      PROVE  /\ (IF c > 1 THEN <<"comma">> ELSE <<>>) \o InFile(cells[c], writer) \in Seq(FileSymbols)
             /\ c = 1 => (IF c > 1 THEN <<"comma">> ELSE <<>>) \o InFile(cells[c], writer) = InFile(cells[c], writer)
  <2>1. cells[c] \in Seq(FileSymbols) BY <1>1
  <2>2. PICK w \in Seq(FileSymbols) : w = InFile(cells[c], writer) BY <2>1, WrittenBegins
  <2>3. "comma" \in FileSymbols BY DEF FileSymbols
  <2>4. PICK comma : comma = <<"comma">> OBVIOUS
  <2>5. comma \in Seq(FileSymbols) BY <2>3, <2>4
  <2>6. comma \o w \in Seq(FileSymbols) BY <2>2, <2>5
  <2>7. <<>> \in Seq(FileSymbols) /\ <<>> \o w = w BY <2>2
  <2>8. QED BY <2>2, <2>4, <2>6, <2>7
<1>5. parts \in [1..n -> Seq(FileSymbols)] BY <1>1, <1>2, <1>4 DEF RecordParts
<1>6. parts \in Seq(Seq(FileSymbols)) /\ Len(parts) = n BY <1>5
<1>7. n > 0 => parts[1] = InFile(cells[1], writer)
  <2>1. SUFFICES ASSUME n > 0 PROVE parts[1] = InFile(cells[1], writer) OBVIOUS
  <2>2. 1 \in 1..n BY <2>1
  <2>3. QED BY <1>1, <1>2, <1>4, <2>2 DEF RecordParts
<1>8. \A c \in 2..n : parts[c] = <<"comma">> \o InFile(cells[c], writer)
  <2> SUFFICES ASSUME NEW c \in 2..n PROVE parts[c] = <<"comma">> \o InFile(cells[c], writer) OBVIOUS
  <2>1. c \in 1..n /\ c > 1 OBVIOUS
  <2>2. QED BY <1>1, <1>2, <2>1 DEF RecordParts
<1>9. QED BY <1>1, <1>2, <1>3, <1>6, <1>7, <1>8

\* So it does with the cells of a record.
LEMMA RecordReads ==
  ASSUME NEW cells \in Seq(Seq(FileSymbols)), Len(cells) > 0, NEW writer, NEW next, next # "quote", NEW rows
  PROVE  /\ Reads(AtStart(rows, <<>>), Record(cells, writer), next, BehindRecord(rows, cells, writer))
         /\ Record(cells, writer) \in Seq(FileSymbols)
         /\ FirstOr(Record(cells, writer), next)
              = FirstOr(InFile(cells[1], writer), IF Len(cells) = 1 THEN next ELSE "comma")
<1>1. PICK n \in Nat : n = Len(cells) /\ DOMAIN cells = 1..n /\ n > 0 OBVIOUS
<1>2. PICK parts : parts = RecordParts(cells, writer) OBVIOUS
<1>3. /\ Record(cells, writer) = FlattenSeq(parts) /\ parts \in Seq(Seq(FileSymbols)) /\ Len(parts) = n
      /\ parts[1] = InFile(cells[1], writer) /\ \A c \in 2..n : parts[c] = <<"comma">> \o InFile(cells[c], writer)
  BY <1>1, <1>2, RecordIsParts
<1>4. PICK nexts : nexts = [k \in 1..n |-> IF k = n THEN next ELSE "comma"] OBVIOUS
<1>5. \A c \in 1..n : cells[c] \in Seq(FileSymbols) BY <1>1
<1>6. PICK comma : comma = <<"comma">> OBVIOUS
<1>7. comma \in Seq(FileSymbols) /\ Len(comma) = 1 /\ comma[1] = "comma"
  <2>1. "comma" \in FileSymbols BY DEF FileSymbols
  <2>2. QED BY <1>6, <2>1
<1>8. Follow(parts, nexts, next)
  <2>1. nexts[n] = next BY <1>1, <1>4
  <2>2. ASSUME NEW k \in 1..n - 1 PROVE nexts[k] = FirstOr(parts[k + 1], nexts[k + 1])
    <3>1. k \in 1..n /\ k # n /\ k + 1 \in 2..n /\ k + 1 \in 1..n OBVIOUS
    <3>2. PICK w \in Seq(FileSymbols) : w = InFile(cells[k + 1], writer) BY <1>5, <3>1, WrittenBegins
    <3>3. parts[k + 1] = comma \o w BY <1>3, <1>6, <3>1, <3>2
    <3>4. FirstOr(comma \o w, nexts[k + 1]) = FirstOr(comma, FirstOr(w, nexts[k + 1])) BY <1>7, <3>2, FirstOfBoth
    <3>5. FirstOr(comma, FirstOr(w, nexts[k + 1])) = "comma" BY <1>7 DEF FirstOr
    <3>6. QED BY <1>4, <3>1, <3>3, <3>4, <3>5
  <2>3. QED BY <1>3, <2>1, <2>2 DEF Follow
<1>9. PICK ms : ms = Meanings(cells, writer) OBVIOUS
<1>10. ms \in Seq(Seq(FileSymbols)) /\ Len(ms) = n /\ \A c \in 1..n : ms[c] = Meant(cells[c], writer)
  <2>1. \A c \in 1..n : Meant(cells[c], writer) \in Seq(FileSymbols) BY <1>5, WrittenBegins
  <2>2. ms \in [1..n -> Seq(FileSymbols)] BY <1>1, <1>9, <2>1 DEF Meanings
  <2>3. QED BY <1>1, <1>9, <2>2 DEF Meanings
<1>11. PICK s : s = [k \in 0..n |-> IF k = 0 THEN AtStart(rows, <<>>)
                                    ELSE BehindCell(rows, Beginning(ms, k - 1), cells[k], writer)]
  OBVIOUS
<1>12. s[0] = AtStart(rows, <<>>) /\ \A k \in 1..n : s[k] = BehindCell(rows, Beginning(ms, k - 1), cells[k], writer)
  BY <1>11
<1>13. ASSUME NEW k \in 1..n PROVE Reads(s[k - 1], parts[k], nexts[k], s[k])
  <2>1. PICK w \in Seq(FileSymbols) : w = InFile(cells[k], writer) BY <1>5, WrittenBegins
  <2>2. PICK a : a = Beginning(ms, k - 1) OBVIOUS
  <2>3. nexts[k] # "quote"
    <3>1. nexts[k] = next \/ nexts[k] = "comma" BY <1>4
    <3>2. QED BY <3>1
  <2>4. Reads(AtStart(rows, a), w, nexts[k], BehindCell(rows, a, cells[k], writer))
    BY <1>5, <2>1, <2>3, CellReads
  <2>5. s[k] = BehindCell(rows, a, cells[k], writer) BY <1>12, <2>2
  <2>6. CASE k = 1
    <3>1. a = <<>>
      <4>1. Beginning(ms, 0) = <<>> BY <1>10, BeginningGrows
      <4>2. k - 1 = 0 BY <2>6
      <4>3. QED BY <2>2, <4>1, <4>2
    <3>2. s[k - 1] = AtStart(rows, a) BY <1>12, <2>6, <3>1
    <3>3. parts[k] = w BY <1>3, <2>1, <2>6
    <3>4. QED BY <2>4, <2>5, <3>2, <3>3
  <2>7. CASE k # 1
    <3>1. k \in 2..n /\ k - 1 \in 1..n /\ k - 1 - 1 = k - 2 BY <2>7
    <3>2. PICK b : b = Beginning(ms, k - 2) OBVIOUS
    <3>3. s[k - 1] = BehindCell(rows, b, cells[k - 1], writer) BY <1>12, <3>1, <3>2
    <3>4. a = Append(b, Meant(cells[k - 1], writer))
      <4>1. Append(Beginning(ms, k - 1 - 1), ms[k - 1]) = Beginning(ms, k - 1) BY <1>10, <3>1, BeginningGrows
      <4>2. QED BY <1>10, <2>2, <3>1, <3>2, <4>1
    <3>5. parts[k] = comma \o w BY <1>3, <1>6, <2>1, <3>1
    <3>6. Reads(s[k - 1], comma, FirstOr(w, nexts[k]), AtStart(rows, a))
      <4>1. cells[k - 1] \in Seq(FileSymbols) BY <1>5, <3>1
      <4>2. QED BY <1>6, <3>3, <3>4, <4>1, CommaReads
    <3>7. QED BY <1>7, <2>1, <2>4, <2>5, <3>5, <3>6, RunBoth
  <2>8. QED BY <2>6, <2>7
<1>14. Reads(s[0], FlattenSeq(parts), next, s[n]) BY <1>3, <1>8, <1>13, RunParts
<1>15. s[n] = BehindRecord(rows, cells, writer) BY <1>1, <1>9, <1>12 DEF BehindRecord
<1>16. FlattenSeq(parts) \in Seq(FileSymbols) BY <1>3, FlattenParts
<1>17. FirstOr(FlattenSeq(parts), next) = FirstOr(parts[1], nexts[1]) BY <1>1, <1>3, <1>8, FirstOfParts
<1>18. nexts[1] = IF n = 1 THEN next ELSE "comma"
  <2>1. 1 \in 1..n BY <1>1
  <2>2. QED BY <1>4, <2>1
<1>19. QED BY <1>1, <1>3, <1>12, <1>14, <1>15, <1>16, <1>17, <1>18

-----------------------------------------------------------------------------
(* A line, and a file.                                                     *)

Endings == {<<"lf">>, <<"cr">>, <<"cr", "lf">>}

\* The rows when the record has ended: an empty line is none.
EndedRows(rows, cells, writer) ==
  IF Len(cells) = 1 /\ ~Shows(cells[1], writer) THEN rows ELSE Append(rows, Meanings(cells, writer))

\* Between the two symbols of a line end.
BeforeLf(rows) ==
  [rows |-> rows, values |-> <<>>, value |-> <<>>, quoted |-> FALSE, start |-> TRUE, skip |-> TRUE]

\* What the cells of a line are read as, cell by cell.
LEMMA MeaningsAre ==
  ASSUME NEW cells \in Seq(Seq(FileSymbols)), NEW writer
  PROVE  /\ Meanings(cells, writer) \in Seq(Seq(FileSymbols)) /\ Len(Meanings(cells, writer)) = Len(cells)
         /\ \A c \in 1..Len(cells) : Meanings(cells, writer)[c] = Meant(cells[c], writer)
<1>1. PICK n \in Nat : n = Len(cells) /\ DOMAIN cells = 1..n OBVIOUS
<1>2. PICK ms : ms = Meanings(cells, writer) OBVIOUS
<1>3. \A c \in 1..n : cells[c] \in Seq(FileSymbols) BY <1>1
<1>4. \A c \in 1..n : Meant(cells[c], writer) \in Seq(FileSymbols) BY <1>3, WrittenBegins
<1>5. ms \in [1..n -> Seq(FileSymbols)] BY <1>1, <1>2, <1>4 DEF Meanings
<1>6. \A c \in 1..n : ms[c] = Meant(cells[c], writer) BY <1>1, <1>2 DEF Meanings
<1>7. ms \in Seq(Seq(FileSymbols)) /\ Len(ms) = n BY <1>5
<1>8. QED BY <1>1, <1>2, <1>6, <1>7

\* A row that ends here makes these rows, at the end of the text or of a line.
Ends(p, rows) ==
  /\ FinishRow(p) = AtStart(rows, <<>>)
  /\ \A next : ReadSymbol(p, "lf", next) = AtStart(rows, <<>>)
  /\ \A next : next # "lf" => ReadSymbol(p, "cr", next) = AtStart(rows, <<>>)
  /\ ReadSymbol(p, "cr", "lf") = BeforeLf(rows)

\* A line without a character ends without a row.
LEMMA EndsEmpty ==
  ASSUME NEW rows
  PROVE  Ends(AtStart(rows, <<>>), rows)
<1>1. FinishRow(AtStart(rows, <<>>)) = AtStart(rows, <<>>)
  BY DEF FinishRow, FinishValue, AtStart
<1>2. \A next : ReadSymbol(AtStart(rows, <<>>), "lf", next) = AtStart(rows, <<>>)
  BY DEF ReadSymbol, FinishRow, FinishValue, AtStart
<1>3. \A next : next # "lf" => ReadSymbol(AtStart(rows, <<>>), "cr", next) = AtStart(rows, <<>>)
  BY DEF ReadSymbol, FinishRow, FinishValue, AtStart
<1>4. ReadSymbol(AtStart(rows, <<>>), "cr", "lf") = BeforeLf(rows)
  BY DEF ReadSymbol, FinishRow, FinishValue, BeforeLf, AtStart
<1>5. QED BY <1>1, <1>2, <1>3, <1>4 DEF Ends

\* A line that ends behind a comma has an empty last cell.
LEMMA EndsAtStart ==
  ASSUME NEW rows, NEW values, values # <<>>
  PROVE  Ends(AtStart(rows, values), Append(rows, Append(values, <<>>)))
<1>1. FinishRow(AtStart(rows, values)) = AtStart(Append(rows, Append(values, <<>>)), <<>>)
  BY DEF FinishRow, FinishValue, AtStart
<1>2. \A next : ReadSymbol(AtStart(rows, values), "lf", next) = AtStart(Append(rows, Append(values, <<>>)), <<>>)
  BY DEF ReadSymbol, FinishRow, FinishValue, AtStart
<1>3. \A next : next # "lf" => ReadSymbol(AtStart(rows, values), "cr", next)
                                 = AtStart(Append(rows, Append(values, <<>>)), <<>>)
  BY DEF ReadSymbol, FinishRow, FinishValue, AtStart
<1>4. ReadSymbol(AtStart(rows, values), "cr", "lf") = BeforeLf(Append(rows, Append(values, <<>>)))
  BY DEF ReadSymbol, FinishRow, FinishValue, BeforeLf, AtStart
<1>5. QED BY <1>1, <1>2, <1>3, <1>4 DEF Ends

\* A line that ends behind a cell has that cell.
LEMMA EndsInPlain ==
  ASSUME NEW rows, NEW values, NEW value
  PROVE  Ends(InPlain(rows, values, value), Append(rows, Append(values, value)))
<1>1. FinishRow(InPlain(rows, values, value)) = AtStart(Append(rows, Append(values, value)), <<>>)
  BY DEF FinishRow, FinishValue, AtStart, InPlain
<1>2. \A next : ReadSymbol(InPlain(rows, values, value), "lf", next)
                  = AtStart(Append(rows, Append(values, value)), <<>>)
  BY DEF ReadSymbol, FinishRow, FinishValue, AtStart, InPlain
<1>3. \A next : next # "lf" => ReadSymbol(InPlain(rows, values, value), "cr", next)
                                 = AtStart(Append(rows, Append(values, value)), <<>>)
  BY DEF ReadSymbol, FinishRow, FinishValue, AtStart, InPlain
<1>4. ReadSymbol(InPlain(rows, values, value), "cr", "lf") = BeforeLf(Append(rows, Append(values, value)))
  BY DEF ReadSymbol, FinishRow, FinishValue, BeforeLf, AtStart, InPlain
<1>5. QED BY <1>1, <1>2, <1>3, <1>4 DEF Ends

\* A record that has ended is a row, unless it is an empty line.
LEMMA RecordEnds ==
  ASSUME NEW cells \in Seq(Seq(FileSymbols)), Len(cells) > 0, NEW writer, NEW rows
  PROVE  Ends(BehindRecord(rows, cells, writer), EndedRows(rows, cells, writer))
<1>1. PICK n \in Nat : n = Len(cells) /\ n > 0 OBVIOUS
<1>2. PICK ms : ms = Meanings(cells, writer) OBVIOUS
<1>3. ms \in Seq(Seq(FileSymbols)) /\ Len(ms) = n /\ \A c \in 1..n : ms[c] = Meant(cells[c], writer)
  BY <1>1, <1>2, MeaningsAre
<1>4. PICK values : values = Beginning(ms, n - 1) OBVIOUS
<1>5. PICK m : m = Meant(cells[n], writer) OBVIOUS
<1>6. n \in 1..n /\ n - 1 \in 0..n BY <1>1
<1>7. Append(values, m) = ms
  <2>1. ms[n] = m BY <1>3, <1>5, <1>6
  <2>2. Append(Beginning(ms, n - 1), ms[n]) = Beginning(ms, n) /\ Beginning(ms, n) = ms
    BY <1>3, <1>6, BeginningGrows
  <2>3. QED BY <1>4, <2>1, <2>2
<1>8. values \in Seq(Seq(FileSymbols)) /\ Len(values) = n - 1 BY <1>3, <1>4, <1>6, BeginningGrows
<1>9. PICK p : p = BehindRecord(rows, cells, writer) OBVIOUS
<1>10. p = BehindCell(rows, values, cells[n], writer) BY <1>1, <1>2, <1>4, <1>9 DEF BehindRecord
<1>11. CASE Shows(cells[n], writer)
  <2>1. p = InPlain(rows, values, m) BY <1>5, <1>10, <1>11 DEF BehindCell
  <2>2. Ends(p, Append(rows, ms)) BY <1>7, <2>1, EndsInPlain
  <2>3. EndedRows(rows, cells, writer) = Append(rows, ms) BY <1>1, <1>2, <1>11 DEF EndedRows
  <2>4. QED BY <1>9, <2>2, <2>3
<1>12. CASE ~Shows(cells[n], writer)
  <2>1. p = AtStart(rows, values) BY <1>10, <1>12 DEF BehindCell
  <2>2. m = <<>>
    <3>1. Len(m) = 0 BY <1>5, <1>12 DEF Shows
    <3>2. m \in Seq(FileSymbols)
      <4>1. ms[n] \in Seq(FileSymbols) BY <1>3, <1>6
      <4>2. QED BY <1>3, <1>5, <1>6, <4>1
    <3>3. QED BY <3>1, <3>2, EmptySeq
  <2>3. CASE n = 1
    <3>1. values = <<>> BY <1>8, <2>3, EmptySeq
    <3>2. Ends(p, rows) BY <2>1, <3>1, EndsEmpty
    <3>3. EndedRows(rows, cells, writer) = rows BY <1>1, <1>12, <2>3 DEF EndedRows
    <3>4. QED BY <1>9, <3>2, <3>3
  <2>4. CASE n # 1
    <3>1. values # <<>>
      <4>1. Len(values) # 0 BY <1>8, <2>4, <1>1
      <4>2. QED BY <4>1
    <3>2. Ends(p, Append(rows, ms)) BY <1>7, <2>1, <2>2, <3>1, EndsAtStart
    <3>3. EndedRows(rows, cells, writer) = Append(rows, ms) BY <1>1, <1>2, <2>4 DEF EndedRows
    <3>4. QED BY <1>9, <3>2, <3>3
  <2>5. QED BY <2>3, <2>4
<1>13. QED BY <1>11, <1>12

\* Any of the three line ends ends a record.
LEMMA LineEndReads ==
  ASSUME NEW p, NEW rest, Ends(p, rest), NEW ending \in Endings, NEW next, ending = <<"cr">> => next # "lf"
  PROVE  Reads(p, ending, next, AtStart(rest, <<>>))
<1>1. ReadSymbol(p, "lf", next) = AtStart(rest, <<>>) BY DEF Ends
<1>2. next # "lf" => ReadSymbol(p, "cr", next) = AtStart(rest, <<>>) BY DEF Ends
<1>3. ReadSymbol(p, "cr", "lf") = BeforeLf(rest) BY DEF Ends
<1>4. CASE ending = <<"lf">> BY <1>1, <1>4, RunOne
<1>5. CASE ending = <<"cr">> BY <1>2, <1>5, RunOne
<1>6. CASE ending = <<"cr", "lf">>
  <2>1. PICK a : a = <<"cr">> OBVIOUS
  <2>2. PICK b : b = <<"lf">> OBVIOUS
  <2>3. a \in Seq(FileSymbols) /\ b \in Seq(FileSymbols)
    <3>1. "cr" \in FileSymbols /\ "lf" \in FileSymbols BY DEF FileSymbols
    <3>2. QED BY <2>1, <2>2, <3>1
  <2>4. a \o b = ending
    <3>1. PICK ab : ab = a \o b OBVIOUS
    <3>2. Len(a) = 1 /\ a[1] = "cr" /\ Len(b) = 1 /\ b[1] = "lf" BY <2>1, <2>2
    <3>3. ab \in Seq(FileSymbols) /\ Len(ab) = 2 /\ \A i \in 1..2 : ab[i] = IF i <= 1 THEN a[i] ELSE b[i - 1]
      BY <2>3, <3>1, <3>2, ConcatProperties
    <3>4. ab[1] = "cr" /\ ab[2] = "lf"
      <4>1. 1 \in 1..2 /\ 2 \in 1..2 /\ 1 <= 1 /\ ~(2 <= 1) /\ 2 - 1 = 1 OBVIOUS
      <4>2. QED BY <3>2, <3>3, <4>1
    <3>5. ending \in Seq(FileSymbols) /\ Len(ending) = 2 /\ ending[1] = "cr" /\ ending[2] = "lf"
      <4>1. "cr" \in FileSymbols /\ "lf" \in FileSymbols BY DEF FileSymbols
      <4>2. QED BY <1>6, <4>1
    <3>6. \A i \in 1..2 : ab[i] = ending[i]
      <4>1. \A i \in 1..2 : i = 1 \/ i = 2 OBVIOUS
      <4>2. QED BY <3>4, <3>5, <4>1
    <3>7. ab = ending BY <3>3, <3>5, <3>6
    <3>8. QED BY <3>1, <3>7
  <2>5. FirstOr(b, next) = "lf" BY <2>2 DEF FirstOr
  <2>6. Reads(p, a, "lf", BeforeLf(rest)) BY <1>3, <2>1, RunOne
  <2>7. ReadSymbol(BeforeLf(rest), "lf", next) = AtStart(rest, <<>>) BY DEF BeforeLf, AtStart, ReadSymbol
  <2>8. Reads(BeforeLf(rest), b, next, AtStart(rest, <<>>)) BY <2>2, <2>7, RunOne
  <2>9. Reads(p, a \o b, next, AtStart(rest, <<>>)) BY <2>3, <2>5, <2>6, <2>8, RunBoth
  <2>10. QED BY <2>4, <2>9
<1>7. QED BY <1>4, <1>5, <1>6 DEF Endings

\* A parser behind a record is in no quotes.
LEMMA BehindRecordIs ==
  ASSUME NEW rows, NEW cells, NEW writer
  PROVE  ~BehindRecord(rows, cells, writer).quoted
BY DEF BehindRecord, BehindCell, InPlain, AtStart

\* A line end begins with a carriage return or is a line feed.
LEMMA EndingIs ==
  ASSUME NEW ending \in Endings, NEW next
  PROVE  /\ ending \in Seq(FileSymbols) /\ FirstOr(ending, next) \in {"lf", "cr"}
         /\ ending # <<"lf">> => FirstOr(ending, next) = "cr"
<1>1. "cr" \in FileSymbols /\ "lf" \in FileSymbols BY DEF FileSymbols
<1>2. CASE ending = <<"lf">> BY <1>1, <1>2 DEF FirstOr
<1>3. CASE ending = <<"cr">> BY <1>1, <1>3 DEF FirstOr
<1>4. CASE ending = <<"cr", "lf">> BY <1>1, <1>4 DEF FirstOr
<1>5. QED BY <1>2, <1>3, <1>4 DEF Endings

\* No line of cells begins with a line feed.
LEMMA FirstOfRecord ==
  ASSUME NEW cells \in Seq(Seq(FileSymbols)), Len(cells) > 0, NEW writer, NEW next, next # "quote", next # "lf"
  PROVE  FirstOr(Record(cells, writer), next) # "lf"
<1>1. cells[1] \in Seq(FileSymbols) OBVIOUS
<1>2. PICK w \in Seq(FileSymbols) : w = InFile(cells[1], writer) BY <1>1, WrittenBegins
<1>3. Len(w) # 0 => w[1] # "lf" BY <1>1, <1>2, WrittenBegins
<1>4. \A x : x # "lf" => FirstOr(w, x) # "lf" BY <1>3 DEF FirstOr
<1>5. FirstOr(Record(cells, writer), next) = FirstOr(w, IF Len(cells) = 1 THEN next ELSE "comma")
  BY <1>2, RecordReads
<1>6. QED BY <1>4, <1>5

\* A line is read as a row.
LEMMA LineReads ==
  ASSUME NEW cells \in Seq(Seq(FileSymbols)), Len(cells) > 0, NEW writer, NEW ending \in Endings, NEW rows,
         NEW next, ending = <<"cr">> => next # "lf"
  PROVE  /\ Reads(AtStart(rows, <<>>), Record(cells, writer) \o ending, next,
                  AtStart(EndedRows(rows, cells, writer), <<>>))
         /\ Record(cells, writer) \o ending \in Seq(FileSymbols)
<1>1. ending \in Seq(FileSymbols) /\ FirstOr(ending, next) \in {"lf", "cr"} BY EndingIs
<1>2. PICK after : after = FirstOr(ending, next) OBVIOUS
<1>3. after # "quote" BY <1>1, <1>2
<1>4. PICK record : record = Record(cells, writer) OBVIOUS
<1>5. PICK p : p = BehindRecord(rows, cells, writer) OBVIOUS
<1>6. Reads(AtStart(rows, <<>>), record, after, p) /\ record \in Seq(FileSymbols)
  BY <1>3, <1>4, <1>5, RecordReads
<1>7. PICK rest : rest = EndedRows(rows, cells, writer) OBVIOUS
<1>8. Ends(p, rest) BY <1>5, <1>7, RecordEnds
<1>9. Reads(p, ending, next, AtStart(rest, <<>>)) BY <1>8, LineEndReads
<1>10. Reads(AtStart(rows, <<>>), record \o ending, next, AtStart(rest, <<>>))
  BY <1>1, <1>2, <1>6, <1>9, RunBoth
<1>11. record \o ending \in Seq(FileSymbols) BY <1>1, <1>6
<1>12. QED BY <1>4, <1>7, <1>10, <1>11

\* The records of a file, what they say, and which of them are rows.
FileLines(records, writer) ==
  [r \in DOMAIN records |-> Record(records[r], writer)
                            \o IF r < Len(records) \/ writer.last THEN writer.ending ELSE <<>>]
AllMeanings(records, writer) == [r \in DOMAIN records |-> Meanings(records[r], writer)]
EmptyLine(meanings, writer) == Len(meanings) = 1 /\ Len(meanings[1]) = 0 /\ writer.kind = "export"
RowMeanings(list, writer) == {meanings \in Entries(list) : ~EmptyLine(meanings, writer)}

\* Only the empty line is no row.
LEMMA EndedRowsAre ==
  ASSUME NEW cells \in Seq(Seq(FileSymbols)), Len(cells) > 0, NEW writer, NEW rows
  PROVE  EndedRows(rows, cells, writer) =
           IF EmptyLine(Meanings(cells, writer), writer) THEN rows ELSE Append(rows, Meanings(cells, writer))
<1>1. PICK ms : ms = Meanings(cells, writer) OBVIOUS
<1>2. Len(ms) = Len(cells) /\ ms[1] = Meant(cells[1], writer)
  <2>1. PICK n \in Nat : n = Len(cells) /\ n > 0 OBVIOUS
  <2>2. 1 \in 1..n BY <2>1
  <2>3. QED BY <1>1, <2>1, <2>2, MeaningsAre
<1>3. (Len(cells) = 1 /\ ~Shows(cells[1], writer)) <=> EmptyLine(ms, writer) BY <1>2 DEF Shows, EmptyLine
<1>4. QED BY <1>1, <1>3 DEF EndedRows

\* Every record of the file, and what it says.
LEMMA RecordsAre ==
  ASSUME NEW records \in Seq(Seq(Seq(FileSymbols))), NEW writer
  PROVE  /\ AllMeanings(records, writer) \in Seq(Seq(Seq(FileSymbols)))
         /\ Len(AllMeanings(records, writer)) = Len(records)
         /\ \A r \in 1..Len(records) : AllMeanings(records, writer)[r] = Meanings(records[r], writer)
<1>1. PICK n \in Nat : n = Len(records) /\ DOMAIN records = 1..n OBVIOUS
<1>2. PICK list : list = AllMeanings(records, writer) OBVIOUS
<1>3. \A r \in 1..n : Meanings(records[r], writer) \in Seq(Seq(FileSymbols))
  <2> SUFFICES ASSUME NEW r \in 1..n PROVE Meanings(records[r], writer) \in Seq(Seq(FileSymbols)) OBVIOUS
  <2>1. records[r] \in Seq(Seq(FileSymbols)) BY <1>1
  <2>2. QED BY <2>1, MeaningsAre
<1>4. list \in [1..n -> Seq(Seq(FileSymbols))] BY <1>1, <1>2, <1>3 DEF AllMeanings
<1>5. list \in Seq(Seq(Seq(FileSymbols))) /\ Len(list) = n BY <1>4
<1>6. \A r \in 1..n : list[r] = Meanings(records[r], writer) BY <1>1, <1>2 DEF AllMeanings
<1>7. QED BY <1>1, <1>2, <1>5, <1>6

\* The lines of a file are read as its rows, and no quote is left open.
LEMMA FileReads ==
  ASSUME NEW records \in Seq(Seq(Seq(FileSymbols))), Len(records) > 0, \A r \in DOMAIN records : Len(records[r]) > 0,
         NEW writer, writer.ending \in Endings
  PROVE  \E p : /\ Reads(Blank, FlattenSeq(FileLines(records, writer)), "end", p)
                /\ FlattenSeq(FileLines(records, writer)) \in Seq(FileSymbols)
                /\ FinishRow(p).rows = Only(AllMeanings(records, writer),
                                            RowMeanings(AllMeanings(records, writer), writer))
                /\ ~p.quoted
                /\ Shows(records[1][1], writer) =>
                     FirstOr(FlattenSeq(FileLines(records, writer)), "end") = InFile(records[1][1], writer)[1]
<1>1. PICK n \in Nat : n = Len(records) /\ DOMAIN records = 1..n /\ n > 0 OBVIOUS
<1>2. \A r \in 1..n : records[r] \in Seq(Seq(FileSymbols)) /\ Len(records[r]) > 0 BY <1>1
<1>3. PICK ending \in Endings : ending = writer.ending OBVIOUS
<1>4. PICK lines : lines = FileLines(records, writer) OBVIOUS
<1>5. PICK list : list = AllMeanings(records, writer) OBVIOUS
<1>6. list \in Seq(Seq(Seq(FileSymbols))) /\ Len(list) = n /\ \A r \in 1..n : list[r] = Meanings(records[r], writer)
  BY <1>1, <1>5, RecordsAre
<1>7. PICK K : K = RowMeanings(list, writer) OBVIOUS
<1>8. PICK f : IsOnlyTable(f, list, K, n) BY <1>6, OnlyTable
<1>9. /\ f[0] = <<>> /\ Only(list, K) = f[n]
      /\ \A r \in 1..n : f[r] = IF list[r] \in K THEN Append(f[r - 1], list[r]) ELSE f[r - 1]
  BY <1>8 DEF IsOnlyTable
<1>10. ASSUME NEW r \in 1..n PROVE f[r] = EndedRows(f[r - 1], records[r], writer)
  <2>1. DOMAIN list = 1..n BY <1>6
  <2>2. list[r] \in K <=> ~EmptyLine(list[r], writer) BY <1>7, <2>1 DEF RowMeanings, Entries
  <2>3. EndedRows(f[r - 1], records[r], writer) =
          IF EmptyLine(list[r], writer) THEN f[r - 1] ELSE Append(f[r - 1], list[r])
    BY <1>2, <1>6, EndedRowsAre
  <2>4. QED BY <1>9, <2>2, <2>3
<1>11. \A r \in 1..n : /\ r < n \/ writer.last => lines[r] = Record(records[r], writer) \o ending
                       /\ ~(r < n \/ writer.last) => lines[r] = Record(records[r], writer)
  <2> SUFFICES ASSUME NEW r \in 1..n
               PROVE  /\ r < n \/ writer.last => lines[r] = Record(records[r], writer) \o ending
                      /\ ~(r < n \/ writer.last) => lines[r] = Record(records[r], writer)
    OBVIOUS
  <2>1. lines[r] = Record(records[r], writer) \o IF r < n \/ writer.last THEN ending ELSE <<>>
    BY <1>1, <1>3, <1>4 DEF FileLines
  <2>2. PICK record \in Seq(FileSymbols) : record = Record(records[r], writer)
    <3>1. "end" # "quote" OBVIOUS
    <3>2. QED BY <1>2, <3>1, RecordReads
  <2>3. record \o <<>> = record BY <2>2
  <2>4. QED BY <2>1, <2>2, <2>3
<1>12. ASSUME NEW r \in 1..n PROVE lines[r] \in Seq(FileSymbols)
  <2>1. PICK record \in Seq(FileSymbols) : record = Record(records[r], writer)
    <3>1. "end" # "quote" OBVIOUS
    <3>2. QED BY <1>2, <3>1, RecordReads
  <2>2. ending \in Seq(FileSymbols) BY EndingIs
  <2>3. record \o ending \in Seq(FileSymbols) BY <2>1, <2>2
  <2>4. QED BY <1>11, <2>1, <2>3
<1>13. lines \in Seq(Seq(FileSymbols)) /\ Len(lines) = n
  <2>1. lines = [r \in 1..n |-> lines[r]] BY <1>1, <1>4 DEF FileLines
  <2>2. lines \in [1..n -> Seq(FileSymbols)] BY <1>12, <2>1
  <2>3. QED BY <2>2
<1>14. PICK nexts : Follow(lines, nexts, "end") BY <1>13, FollowExists
<1>15. nexts[n] = "end" /\ \A r \in 1..n - 1 : nexts[r] = FirstOr(lines[r + 1], nexts[r + 1])
  BY <1>1, <1>13, <1>14 DEF Follow
<1>16. ASSUME NEW r \in 1..n, ending = <<"cr">> PROVE nexts[r] # "lf"
  <2>1. CASE r = n BY <1>15, <2>1
  <2>2. CASE r # n
    <3>1. r \in 1..n - 1 /\ r + 1 \in 1..n BY <2>2
    <3>2. nexts[r] = FirstOr(lines[r + 1], nexts[r + 1]) BY <1>15, <3>1
    <3>3. PICK record \in Seq(FileSymbols) : record = Record(records[r + 1], writer)
      <4>1. "end" # "quote" OBVIOUS
      <4>2. QED BY <1>2, <3>1, <4>1, RecordReads
    <3>4. \A x : x # "quote" /\ x # "lf" => FirstOr(record, x) # "lf" BY <1>2, <3>1, <3>3, FirstOfRecord
    <3>5. CASE r + 1 < n \/ writer.last
      <4>1. lines[r + 1] = record \o ending BY <1>11, <3>1, <3>3, <3>5
      <4>2. ending \in Seq(FileSymbols) BY EndingIs
      <4>3. FirstOr(record \o ending, nexts[r + 1]) = FirstOr(record, FirstOr(ending, nexts[r + 1]))
        BY <4>2, FirstOfBoth
      <4>4. FirstOr(ending, nexts[r + 1]) = "cr" BY <1>16 DEF FirstOr
      <4>5. QED BY <3>2, <3>4, <4>1, <4>3, <4>4
    <3>6. CASE ~(r + 1 < n \/ writer.last)
      <4>1. lines[r + 1] = record BY <1>11, <3>1, <3>3, <3>6
      <4>2. r + 1 = n BY <3>1, <3>6
      <4>3. nexts[r + 1] = "end" BY <1>15, <4>2
      <4>4. QED BY <3>2, <3>4, <4>1, <4>3
    <3>7. QED BY <3>5, <3>6
  <2>3. QED BY <2>1, <2>2
<1>17. PICK s : s = [r \in 0..n |-> IF r < n \/ writer.last THEN AtStart(f[r], <<>>)
                                    ELSE BehindRecord(f[n - 1], records[n], writer)]
  OBVIOUS
<1>18. /\ \A r \in 0..n : r < n \/ writer.last => s[r] = AtStart(f[r], <<>>)
       /\ ~writer.last => s[n] = BehindRecord(f[n - 1], records[n], writer)
  <2>1. \A r \in 0..n : r < n \/ writer.last => s[r] = AtStart(f[r], <<>>) BY <1>17
  <2>2. n \in 0..n /\ ~(n < n) OBVIOUS
  <2>3. QED BY <1>17, <2>1, <2>2
<1>19. ASSUME NEW r \in 1..n PROVE Reads(s[r - 1], lines[r], nexts[r], s[r])
  <2>1. r - 1 \in 0..n /\ r - 1 < n /\ r \in 0..n OBVIOUS
  <2>2. s[r - 1] = AtStart(f[r - 1], <<>>) BY <1>18, <2>1
  <2>3. CASE r < n \/ writer.last
    <3>1. s[r] = AtStart(f[r], <<>>) BY <1>18, <2>1, <2>3
    <3>2. lines[r] = Record(records[r], writer) \o ending BY <1>11, <2>3
    <3>3. Reads(AtStart(f[r - 1], <<>>), Record(records[r], writer) \o ending, nexts[r],
                AtStart(EndedRows(f[r - 1], records[r], writer), <<>>))
      BY <1>2, <1>16, LineReads
    <3>4. QED BY <1>10, <2>2, <3>1, <3>2, <3>3
  <2>4. CASE ~(r < n \/ writer.last)
    <3>1. r = n /\ ~writer.last BY <2>4
    <3>2. s[r] = BehindRecord(f[r - 1], records[r], writer) BY <1>18, <3>1
    <3>3. lines[r] = Record(records[r], writer) BY <1>11, <2>4
    <3>4. nexts[r] # "quote" BY <1>15, <3>1
    <3>5. Reads(AtStart(f[r - 1], <<>>), Record(records[r], writer), nexts[r],
                BehindRecord(f[r - 1], records[r], writer))
      BY <1>2, <3>4, RecordReads
    <3>6. QED BY <2>2, <3>2, <3>3, <3>5
  <2>5. QED BY <2>3, <2>4
<1>20. Reads(s[0], FlattenSeq(lines), "end", s[n]) BY <1>13, <1>14, <1>19, RunParts
<1>21. s[0] = Blank
  <2>1. 0 \in 0..n /\ 0 < n BY <1>1
  <2>2. s[0] = AtStart(<<>>, <<>>) BY <1>9, <1>18, <2>1
  <2>3. QED BY <2>2 DEF AtStart, Blank
<1>22. FlattenSeq(lines) \in Seq(FileSymbols) BY <1>13, FlattenParts
<1>23. FinishRow(s[n]).rows = f[n] /\ ~s[n].quoted
  <2>1. n \in 1..n /\ n \in 0..n BY <1>1
  <2>2. AtStart(f[n], <<>>).rows = f[n] BY DEF AtStart
  <2>3. CASE writer.last
    <3>1. s[n] = AtStart(f[n], <<>>) BY <1>18, <2>1, <2>3
    <3>2. FinishRow(AtStart(f[n], <<>>)) = AtStart(f[n], <<>>) BY EndsEmpty DEF Ends
    <3>3. ~AtStart(f[n], <<>>).quoted BY DEF AtStart
    <3>4. QED BY <2>2, <3>1, <3>2, <3>3
  <2>4. CASE ~writer.last
    <3>1. s[n] = BehindRecord(f[n - 1], records[n], writer) BY <1>18, <2>4
    <3>2. ~s[n].quoted BY <3>1, BehindRecordIs
    <3>3. Ends(s[n], f[n])
      <4>1. Ends(BehindRecord(f[n - 1], records[n], writer), EndedRows(f[n - 1], records[n], writer))
        BY <1>2, <2>1, RecordEnds
      <4>2. QED BY <1>10, <2>1, <3>1, <4>1
    <3>4. FinishRow(s[n]) = AtStart(f[n], <<>>) BY <3>3 DEF Ends
    <3>5. QED BY <2>2, <3>2, <3>4
  <2>5. QED BY <2>3, <2>4
<1>24. Shows(records[1][1], writer) => FirstOr(FlattenSeq(lines), "end") = InFile(records[1][1], writer)[1]
  <2>1. SUFFICES ASSUME Shows(records[1][1], writer)
                 PROVE  FirstOr(FlattenSeq(lines), "end") = InFile(records[1][1], writer)[1]
    OBVIOUS
  <2>2. 1 \in 1..n BY <1>1
  <2>3. FirstOr(FlattenSeq(lines), "end") = FirstOr(lines[1], nexts[1]) BY <1>1, <1>13, <1>14, FirstOfParts
  <2>4. PICK cells \in Seq(Seq(FileSymbols)) : cells = records[1] /\ Len(cells) > 0 BY <1>2, <2>2
  <2>5. cells[1] \in Seq(FileSymbols)
    <3>1. PICK m \in Nat : m = Len(cells) /\ m > 0 BY <2>4
    <3>2. 1 \in 1..m BY <3>1
    <3>3. QED BY <2>4, <3>1, <3>2
  <2>6. PICK w \in Seq(FileSymbols) : w = InFile(cells[1], writer) /\ Len(w) # 0
    BY <2>1, <2>4, <2>5, WrittenBegins
  <2>7. \A x : FirstOr(w, x) = w[1] BY <2>6 DEF FirstOr
  <2>8. PICK record \in Seq(FileSymbols) : record = Record(cells, writer)
    <3>1. "end" # "quote" OBVIOUS
    <3>2. QED BY <2>4, <3>1, RecordReads
  <2>9. \A x : x # "quote" => FirstOr(record, x) = w[1] BY <2>4, <2>6, <2>7, <2>8, RecordReads
  <2>10. CASE 1 < n \/ writer.last
    <3>1. lines[1] = record \o ending BY <1>11, <2>2, <2>4, <2>8, <2>10
    <3>2. ending \in Seq(FileSymbols) /\ FirstOr(ending, nexts[1]) \in {"lf", "cr"} BY EndingIs
    <3>3. FirstOr(record \o ending, nexts[1]) = FirstOr(record, FirstOr(ending, nexts[1])) BY <3>2, FirstOfBoth
    <3>4. FirstOr(ending, nexts[1]) # "quote" BY <3>2
    <3>5. QED BY <2>3, <2>4, <2>6, <2>9, <3>1, <3>3, <3>4
  <2>11. CASE ~(1 < n \/ writer.last)
    <3>1. lines[1] = record BY <1>11, <2>2, <2>4, <2>8, <2>11
    <3>2. n = 1 BY <1>1, <2>11
    <3>3. nexts[1] # "quote" BY <1>15, <3>2
    <3>4. QED BY <2>3, <2>4, <2>6, <2>9, <3>1, <3>3
  <2>12. QED BY <2>10, <2>11
<1>25. QED BY <1>4, <1>5, <1>7, <1>9, <1>20, <1>21, <1>22, <1>23, <1>24

-----------------------------------------------------------------------------
(* Reading a whole text.                                                   *)

IsReading(f, text, n) ==
  f = [m \in 0..n |-> IF m = 0 THEN Blank ELSE ReadSymbol(f[m - 1], text[m], After(text, m, "end"))]

\* A recursive function over the symbols of a text has its values.
LEMMA ReadingExists ==
  ASSUME NEW text, NEW n \in Nat
  PROVE  \E f : IsReading(f, text, n)
<1> DEFINE T == {m \in Nat : ~ \E f : IsReading(f, text, m)}
<1>1. SUFFICES ASSUME T # {} PROVE FALSE OBVIOUS
<1>2. PICK m \in T : \A k \in T : m <= k BY <1>1, LeastMember
<1>3. CASE m = 0
  <2>1. IsReading([k \in 0..0 |-> Blank], text, 0) BY DEF IsReading
  <2>2. QED BY <2>1, <1>3
<1>4. CASE m > 0
  <2>1. m - 1 \in Nat /\ m - 1 \notin T BY <1>4, <1>2
  <2>2. PICK g : IsReading(g, text, m - 1) BY <2>1
  <2>3. PICK last : last = ReadSymbol(g[m - 1], text[m], After(text, m, "end")) OBVIOUS
  <2> DEFINE f == [k \in 0..m |-> IF k < m THEN g[k] ELSE last]
  <2>4. \A k \in 0..m : f[k] = IF k = 0 THEN Blank ELSE ReadSymbol(f[k - 1], text[k], After(text, k, "end"))
    <3> SUFFICES ASSUME NEW k \in 0..m
                 PROVE  f[k] = IF k = 0 THEN Blank ELSE ReadSymbol(f[k - 1], text[k], After(text, k, "end"))
      OBVIOUS
    <3>1. CASE k = m BY <3>1, <1>4, <2>3
    <3>2. CASE k < m
      <4>1. k \in 0..m - 1 /\ (k # 0 => k - 1 \in 0..m - 1) BY <3>2
      <4>2. g[k] = IF k = 0 THEN Blank ELSE ReadSymbol(g[k - 1], text[k], After(text, k, "end"))
        BY <2>2, <4>1 DEF IsReading
      <4>3. QED BY <4>1, <4>2, <3>2
    <3>3. QED BY <3>1, <3>2
  <2>5. f = [k \in 0..m |-> f[k]] OBVIOUS
  <2> HIDE DEF f
  <2>6. IsReading(f, text, m) BY <2>4, <2>5 DEF IsReading
  <2>7. QED BY <2>6
<1>5. QED BY <1>3, <1>4

\* The loop of parseCsv reads a text turn by turn.
LEMMA ReadTextReads ==
  ASSUME NEW text, Len(text) \in Nat
  PROVE  Reads(Blank, text, "end", ReadText(text))
<1>1. PICK n \in Nat : n = Len(text) OBVIOUS
<1> DEFINE State == CHOOSE f : f = [m \in 0..Len(text) |->
                                     IF m = 0 THEN Blank
                                     ELSE ReadSymbol(f[m - 1], text[m], IF m < Len(text) THEN text[m + 1] ELSE "end")]
<1>2. \E f : IsReading(f, text, Len(text)) BY ReadingExists
<1>3. IsReading(State, text, Len(text)) BY <1>2, Zenon DEF IsReading, After
<1>4. ReadText(text) = State[Len(text)] BY DEF ReadText
<1> HIDE DEF State
<1>5. \A m \in 0..n : State[m] = IF m = 0 THEN Blank ELSE ReadSymbol(State[m - 1], text[m], After(text, m, "end"))
  BY <1>1, <1>3 DEF IsReading
<1>6. State[0] = Blank
  <2>1. 0 \in 0..n OBVIOUS
  <2>2. QED BY <1>5, <2>1
<1>7. \A m \in 1..n : State[m] = ReadSymbol(State[m - 1], text[m], After(text, m, "end"))
  <2>1. \A m \in 1..n : m \in 0..n /\ m # 0 OBVIOUS
  <2>2. QED BY <1>5, <2>1
<1>8. Parses(State, Blank, text, "end") BY <1>1, <1>6, <1>7 DEF Parses
<1>9. QED BY <1>4, <1>8 DEF Reads

-----------------------------------------------------------------------------
(* Names without white space at their ends, and the rows behind the names. *)

\* A text with a character that is no white space is not trimmed away.
LEMMA TrimKeeps ==
  ASSUME NEW S, NEW text \in Seq(S), NEW i \in DOMAIN text, text[i] \notin Whitespace
  PROVE  Trim(text) # <<>>
<1>1. PICK n \in Nat : n = Len(text) /\ DOMAIN text = 1..n OBVIOUS
<1>2. PICK T : T = {j \in DOMAIN text : text[j] \notin Whitespace} OBVIOUS
<1>3. T \subseteq 1..n /\ T # {} BY <1>1, <1>2
<1>4. PICK a : a = Min(T) OBVIOUS
<1>5. PICK b : b = Max(T) OBVIOUS
<1>6. a \in 1..n /\ b \in 1..n /\ a <= b BY <1>3, <1>4, <1>5, MinAndMax
<1>7. Trim(text) = SubSeq(text, a, b) BY <1>2, <1>3, <1>4, <1>5 DEF Trim
<1>8. Len(SubSeq(text, a, b)) = b - a + 1 /\ b - a + 1 # 0 BY <1>1, <1>6
<1>9. SubSeq(text, a, b) # <<>> BY <1>8
<1>10. QED BY <1>7, <1>9

-----------------------------------------------------------------------------
(* A file, from its writer to the dialog.                                  *)

ReadFile(f) == IF f.writer.kind = "json" THEN ParseJsonRows(f) ELSE ParseCsv(SerializeRowsToCsv(f))
CellMeanings == Seq(FileSymbols) \cup {SqlNull}
IntendedList == [r \in DOMAIN file.rows |-> [c \in DOMAIN file.rows[r] |-> Intended(file.rows[r][c])]]

\* What the files are, by the assumption.
LEMMA FileFacts ==
  ASSUME NEW f \in Files
  PROVE  /\ f.columns \in Seq(Seq(FileSymbols)) /\ Len(f.columns) > 0
         /\ f.rows \in Seq(Seq(Seq(FileSymbols)))
         /\ \A r \in 1..Len(f.rows) : Len(f.rows[r]) = Len(f.columns)
         /\ \A c \in 1..Len(f.columns) :
              /\ f.columns[c] \in Seq(FileSymbols) /\ f.columns[c][1] # "bom"
              /\ \E i \in DOMAIN f.columns[c] : f.columns[c][i] \notin Whitespace
         /\ f.writer.kind = "json" => Distinct(f.columns)
         /\ f.writer.kind # "json" => f.writer.ending \in Endings
<1>1. STRING \subseteq FileSymbols BY DEF FileSymbols
<1>2. Texts \subseteq Seq(FileSymbols)
  <2> SUFFICES ASSUME NEW s \in Texts PROVE s \in Seq(FileSymbols) OBVIOUS
  <2>1. s \in Seq(STRING) BY DEF Texts
  <2>2. QED BY <1>1, <2>1, SeqOfMore
<1>3. Seq(Texts) \subseteq Seq(Seq(FileSymbols))
  <2> SUFFICES ASSUME NEW s \in Seq(Texts) PROVE s \in Seq(Seq(FileSymbols)) OBVIOUS
  <2>1. QED BY <1>2, SeqOfMore
<1>4. Seq(Seq(Texts)) \subseteq Seq(Seq(Seq(FileSymbols)))
  <2> SUFFICES ASSUME NEW s \in Seq(Seq(Texts)) PROVE s \in Seq(Seq(Seq(FileSymbols))) OBVIOUS
  <2>1. QED BY <1>3, SeqOfMore
<1>5. f.columns \in Seq(Texts) /\ f.columns # <<>> /\ f.rows \in Seq(Seq(Texts)) BY CsvTransferAssumption
<1>6. f.columns \in Seq(Seq(FileSymbols)) /\ f.rows \in Seq(Seq(Seq(FileSymbols))) BY <1>3, <1>4, <1>5
<1>7. Len(f.columns) > 0 /\ DOMAIN f.columns = 1..Len(f.columns)
  <2>1. Len(f.columns) # 0 BY <1>5, <1>6, EmptySeq
  <2>2. QED BY <1>6, <2>1
<1>8. DOMAIN f.rows = 1..Len(f.rows) BY <1>6
<1>9. \A r \in 1..Len(f.rows) : Len(f.rows[r]) = Len(f.columns) BY <1>8, CsvTransferAssumption
<1>10. ASSUME NEW c \in 1..Len(f.columns)
       PROVE  /\ f.columns[c] \in Seq(FileSymbols) /\ f.columns[c][1] # "bom"
              /\ \E i \in DOMAIN f.columns[c] : f.columns[c][i] \notin Whitespace
  <2>1. \E i \in DOMAIN f.columns[c] : f.columns[c][i] \notin Whitespace /\ f.columns[c][1] # "bom"
    BY <1>7, CsvTransferAssumption
  <2>2. f.columns[c] \in Seq(FileSymbols) BY <1>6
  <2>3. QED BY <2>1, <2>2
<1>11. f.writer.kind = "json" => Distinct(f.columns) BY CsvTransferAssumption
<1>12. f.writer.kind # "json" => f.writer.ending \in Endings BY CsvTransferAssumption DEF Endings
<1>13. QED BY <1>6, <1>7, <1>9, <1>10, <1>11, <1>12

\* A cell with normalised line ends is a cell.
LEMMA NormalizedCell ==
  ASSUME NEW cell \in Seq(FileSymbols)
  PROVE  NormalizeCell(cell) \in Seq(FileSymbols)
BY DEF NormalizeCell

\* A cell of a CSV file says what is intended.
LEMMA CellMeans ==
  ASSUME NEW cell \in Seq(FileSymbols), NEW m, m = Meant(NormalizeCell(cell), file.writer)
  PROVE  /\ m \in Seq(FileSymbols) /\ Intended(cell) \in CellMeanings
         /\ ImportValueSql(m) = Intended(cell)
         /\ Len(m) = 0 <=> Intended(cell) = SqlNull
<1>1. "'" \in FileSymbols BY DEF FileSymbols
<1>2. \A v \in Seq(FileSymbols) : Meant(v, file.writer) = Protected(v) BY DEF Meant, Protected
<1>3. <<>> \in Seq(FileSymbols) /\ Len(<<>>) = 0 OBVIOUS
<1>4. CASE cell = <<>> \/ cell = SqlNull
  <2>1. NormalizeCell(cell) = <<>> BY <1>4 DEF NormalizeCell
  <2>2. ~FormulaPrefix(<<>>) BY DEF FormulaPrefix
  <2>3. m = <<>> BY <2>1, <2>2 DEF Meant, ProtectFormula
  <2>4. Intended(cell) = SqlNull BY <1>4 DEF Intended
  <2>5. QED BY <1>3, <2>3, <2>4 DEF ImportValueSql, CellMeanings
<1>5. CASE cell # <<>> /\ cell # SqlNull
  <2>1. NormalizeCell(cell) = cell BY <1>5 DEF NormalizeCell
  <2>2. m = Protected(cell) BY <1>2, <2>1
  <2>3. Intended(cell) = m BY <1>5, <2>2 DEF Intended
  <2>4. m = cell \/ (m = ProtectFormula(cell) /\ FormulaPrefix(cell))
    BY <1>1, <2>2, ProtectFormulaIsText DEF Protected
  <2>5. m \in Seq(FileSymbols) /\ Len(m) # 0 /\ m # SqlNull
    <3>1. CASE m = cell
      <4>1. Len(cell) # 0 BY <1>5, EmptySeq
      <4>2. QED BY <1>5, <3>1, <4>1
    <3>2. CASE m = ProtectFormula(cell) /\ FormulaPrefix(cell)
      <4>1. PICK l \in Nat : l = Len(cell) OBVIOUS
      <4>2. m \in Seq(FileSymbols) /\ Len(m) = l + 1 /\ l # 0 BY <1>1, <3>2, <4>1, ProtectFormulaIsText
      <4>3. Len(SqlNull) = 1 BY DEF SqlNull
      <4>4. QED BY <4>2, <4>3
    <3>3. QED BY <2>4, <3>1, <3>2
  <2>6. m # <<>> BY <2>5
  <2>7. QED BY <2>3, <2>5, <2>6 DEF ImportValueSql, CellMeanings
<1>6. QED BY <1>4, <1>5

\* The records of a file: its names and its rows.
LEMMA RecordsOf ==
  ASSUME NEW f \in Files
  PROVE  /\ Records(f) \in Seq(Seq(Seq(FileSymbols))) /\ Len(Records(f)) = Len(f.rows) + 1
         /\ Records(f)[1] = f.columns
         /\ \A r \in 1..Len(f.rows) :
              /\ Len(Records(f)[r + 1]) = Len(f.columns)
              /\ \A c \in 1..Len(f.columns) : Records(f)[r + 1][c] = NormalizeCell(f.rows[r][c])
         /\ \A r \in DOMAIN Records(f) : Len(Records(f)[r]) > 0
<1>1. PICK n \in Nat : n = Len(f.columns) /\ n > 0
  BY FileFacts
<1>2. PICK m \in Nat : m = Len(f.rows) BY FileFacts
<1>3. PICK given : given = [r \in DOMAIN f.rows |-> [c \in DOMAIN f.rows[r] |-> NormalizeCell(f.rows[r][c])]]
  OBVIOUS
<1>4. DOMAIN f.rows = 1..m /\ \A r \in 1..m : f.rows[r] \in Seq(Seq(FileSymbols)) /\ Len(f.rows[r]) = n
  <2>1. PICK rows : rows = f.rows OBVIOUS
  <2>2. rows \in Seq(Seq(Seq(FileSymbols))) BY <2>1, FileFacts
  <2>3. Len(rows) = m /\ \A r \in 1..m : Len(rows[r]) = n BY <1>1, <1>2, <2>1, FileFacts
  <2>4. DOMAIN rows = 1..m /\ \A r \in 1..m : rows[r] \in Seq(Seq(FileSymbols)) BY <2>2, <2>3
  <2>5. QED BY <2>1, <2>3, <2>4
<1>5. ASSUME NEW r \in 1..m
      PROVE  /\ given[r] \in Seq(Seq(FileSymbols)) /\ Len(given[r]) = n
             /\ \A c \in 1..n : given[r][c] = NormalizeCell(f.rows[r][c])
  <2>1. PICK row \in Seq(Seq(FileSymbols)) : row = f.rows[r] /\ Len(row) = n BY <1>4
  <2>2. DOMAIN row = 1..n BY <2>1
  <2>3. given[r] = [c \in 1..n |-> NormalizeCell(row[c])] BY <1>3, <1>4, <2>1, <2>2
  <2>4. \A c \in 1..n : row[c] \in Seq(FileSymbols) BY <2>1
  <2>5. \A c \in 1..n : NormalizeCell(row[c]) \in Seq(FileSymbols) BY <2>4, NormalizedCell
  <2>6. given[r] \in [1..n -> Seq(FileSymbols)] BY <2>3, <2>5
  <2>7. given[r] \in Seq(Seq(FileSymbols)) /\ Len(given[r]) = n
    <3>1. PICK x : x = given[r] OBVIOUS
    <3>2. x \in [1..n -> Seq(FileSymbols)] BY <2>6, <3>1
    <3>3. x \in Seq(Seq(FileSymbols)) /\ Len(x) = n BY <3>2
    <3>4. QED BY <3>1, <3>3
  <2>8. QED BY <2>1, <2>3, <2>7
<1>6. given \in Seq(Seq(Seq(FileSymbols))) /\ Len(given) = m
  <2>1. given = [r \in 1..m |-> given[r]] BY <1>3, <1>4
  <2>2. given \in [1..m -> Seq(Seq(FileSymbols))] BY <1>5, <2>1
  <2>3. QED BY <2>2
<1>7. PICK X : X = Seq(Seq(FileSymbols)) OBVIOUS
<1>8. PICK first \in X : first = f.columns BY <1>7, FileFacts
<1>9. PICK records : records = <<first>> \o given OBVIOUS
<1>10. /\ records \in Seq(X) /\ Len(records) = m + 1 /\ records[1] = first
       /\ \A r \in 1..m : records[r + 1] = given[r]
  BY <1>6, <1>7, <1>9, Prepended
<1>11. Records(f) = records BY <1>3, <1>8, <1>9 DEF Records
<1>12. records[1] = f.columns BY <1>8, <1>10
<1>13. \A r \in 1..m : records[r + 1] = given[r] BY <1>10
<1>14. \A r \in DOMAIN records : Len(records[r]) > 0
  <2> SUFFICES ASSUME NEW r \in DOMAIN records PROVE Len(records[r]) > 0 OBVIOUS
  <2>1. r \in 1..m + 1 BY <1>10
  <2>2. CASE r = 1 BY <1>1, <1>12, <2>2
  <2>3. CASE r # 1
    <3>1. r - 1 \in 1..m /\ (r - 1) + 1 = r BY <2>1, <2>3
    <3>2. Len(records[r]) = n BY <1>5, <1>13, <3>1, ZenonT(60)
    <3>3. QED BY <1>1, <3>2
  <2>4. QED BY <2>2, <2>3
<1>15. records \in Seq(Seq(Seq(FileSymbols))) /\ Len(records) = m + 1 BY <1>7, <1>10
<1>16. \A r \in 1..m : /\ Len(records[r + 1]) = n
                       /\ \A c \in 1..n : records[r + 1][c] = NormalizeCell(f.rows[r][c])
  BY <1>5, <1>13
<1>17. QED BY <1>1, <1>2, <1>11, <1>12, <1>14, <1>15, <1>16

\* A text with or without the mark at its beginning.
Body(text) == IF text # <<>> /\ Head(text) = "bom" THEN Tail(text) ELSE text

\* The mark at the beginning of a text is not part of it.
LEMMA BodyBehindMark ==
  ASSUME NEW body \in Seq(FileSymbols)
  PROVE  /\ Body(<<"bom">> \o body) = body
         /\ FirstOr(body, "end") # "bom" => Body(<<>> \o body) = body
<1>1. PICK text : text = <<"bom">> \o body OBVIOUS
<1>2. "bom" \in FileSymbols BY DEF FileSymbols
<1>3. text # <<>> /\ Head(text) = "bom" /\ Tail(text) = body BY <1>1, <1>2, Prepended
<1>4. Body(text) = body BY <1>3 DEF Body
<1>5. PICK n \in Nat : n = Len(body) OBVIOUS
<1>6. FirstOr(body, "end") # "bom" => body = <<>> \/ Head(body) # "bom"
  <2>1. CASE n = 0 BY <1>5, <2>1, EmptySeq
  <2>2. CASE n # 0
    <3>1. FirstOr(body, "end") = body[1] BY <1>5, <2>2 DEF FirstOr
    <3>2. Head(body) = body[1] BY <1>5, <2>2
    <3>3. QED BY <3>1, <3>2
  <2>3. QED BY <2>1, <2>2
<1>7. <<>> \o body = body OBVIOUS
<1>8. FirstOr(body, "end") # "bom" => Body(<<>> \o body) = body BY <1>6, <1>7 DEF Body
<1>9. QED BY <1>1, <1>4, <1>8

\* A name of a column shows, and what it says has a symbol that is no white space.
LEMMA NameShows ==
  ASSUME NEW f \in Files, NEW c \in 1..Len(f.columns), NEW m, m = Meant(f.columns[c], f.writer)
  PROVE  /\ Shows(f.columns[c], f.writer) /\ Len(m) # 0 /\ Trim(m) # <<>>
         /\ InFile(f.columns[c], f.writer)[1] # "bom"
<1>1. PICK name \in Seq(FileSymbols) : name = f.columns[c] BY FileFacts
<1>2. name[1] # "bom" /\ \E i \in DOMAIN name : name[i] \notin Whitespace BY <1>1, FileFacts
<1>3. PICK l \in Nat : l = Len(name) /\ DOMAIN name = 1..l OBVIOUS
<1>4. PICK i \in 1..l : name[i] \notin Whitespace BY <1>2, <1>3
<1>5. "'" \in FileSymbols BY DEF FileSymbols
<1>6. m \in Seq(FileSymbols) BY <1>1, WrittenBegins
<1>7. PICK j \in DOMAIN m : m[j] \notin Whitespace
  <2>1. CASE m = name BY <1>3, <1>4, <2>1
  <2>2. CASE m = ProtectFormula(name) /\ FormulaPrefix(name)
    <3>1. Len(m) = l + 1 /\ m[i + 1] = name[i] BY <1>3, <1>5, <2>2, ProtectFormulaIsText
    <3>2. i + 1 \in 1..l + 1 OBVIOUS
    <3>3. i + 1 \in DOMAIN m BY <1>6, <3>1, <3>2
    <3>4. QED BY <1>4, <3>1, <3>3
  <2>3. m = name \/ (m = ProtectFormula(name) /\ FormulaPrefix(name)) BY <1>1, <1>5, ProtectFormulaIsText DEF Meant
  <2>4. QED BY <2>1, <2>2, <2>3
<1>8. Trim(m) # <<>> BY <1>6, <1>7, TrimKeeps
<1>9. Len(m) # 0 BY <1>6, <1>7
<1>10. Shows(name, f.writer) BY <1>1, <1>9 DEF Shows
<1>11. PICK w : w = InFile(name, f.writer)[1] OBVIOUS
<1>12. w = "quote" \/ w \in {"'", name[1]} BY <1>10, <1>11, WrittenBegins
<1>13. w # "bom" BY <1>2, <1>12
<1>14. QED BY <1>1, <1>8, <1>9, <1>10, <1>11, <1>13

\* What is read of a CSV file.
LEMMA CsvIsRead ==
  ASSUME NEW f \in Files, f.writer.kind # "json", NEW list, list = AllMeanings(Records(f), f.writer)
  PROVE  \E p : /\ p = ReadText(Body(SerializeRowsToCsv(f))) /\ ~p.quoted
                /\ FinishRow(p).rows = Only(list, RowMeanings(list, f.writer))
<1>1. PICK records \in Seq(Seq(Seq(FileSymbols))) : records = Records(f) BY RecordsOf
<1>2. PICK writer : writer = f.writer OBVIOUS
<1>3. Len(records) > 0 /\ \A r \in DOMAIN records : Len(records[r]) > 0
  <2>1. PICK m \in Nat : m = Len(f.rows) BY FileFacts
  <2>2. Len(records) = m + 1 BY <1>1, <2>1, RecordsOf
  <2>3. QED BY <1>1, <2>2, RecordsOf
<1>4. writer.ending \in Endings BY <1>2, FileFacts
<1>5. PICK body : body = FlattenSeq(FileLines(records, writer)) OBVIOUS
<1>6. PICK p : /\ Reads(Blank, body, "end", p) /\ body \in Seq(FileSymbols) /\ ~p.quoted
               /\ FinishRow(p).rows = Only(list, RowMeanings(list, writer))
               /\ Shows(records[1][1], writer) => FirstOr(body, "end") = InFile(records[1][1], writer)[1]
  BY <1>1, <1>2, <1>3, <1>4, <1>5, FileReads
<1>7. FirstOr(body, "end") # "bom"
  <2>1. 1 \in 1..Len(f.columns) BY FileFacts
  <2>2. records[1] = f.columns BY <1>1, RecordsOf
  <2>3. Shows(f.columns[1], writer) /\ InFile(f.columns[1], writer)[1] # "bom" BY <1>2, <2>1, NameShows
  <2>4. QED BY <1>6, <2>2, <2>3
<1>8. PICK text : text = SerializeRowsToCsv(f) OBVIOUS
<1>9. text = (IF f.writer.bom THEN <<"bom">> ELSE <<>>) \o body
  <2>1. body = FlattenSeq([r \in DOMAIN records |->
                             Record(records[r], f.writer)
                             \o IF r < Len(records) \/ f.writer.last THEN f.writer.ending ELSE <<>>])
    BY <1>2, <1>5, Zenon DEF FileLines
  <2>2. QED BY <1>1, <1>8, <2>1, Zenon DEF SerializeRowsToCsv
<1>10. Body(text) = body
  <2>1. CASE f.writer.bom BY <1>6, <1>9, <2>1, BodyBehindMark
  <2>2. CASE ~f.writer.bom BY <1>6, <1>7, <1>9, <2>2, BodyBehindMark
  <2>3. QED BY <2>1, <2>2
<1>11. Len(body) \in Nat BY <1>6
<1>12. Reads(Blank, body, "end", ReadText(body)) BY <1>11, ReadTextReads
<1>13. ReadText(body) = p BY <1>6, <1>11, <1>12, RunSame
<1>14. QED BY <1>2, <1>6, <1>8, <1>10, <1>13

\* What the rows of a file are meant to be, cell by cell.
LEMMA IntendedListIs ==
  ASSUME file \in Files
  PROVE  /\ IntendedList \in Seq(Seq(CellMeanings)) /\ Len(IntendedList) = Len(file.rows)
         /\ \A r \in 1..Len(file.rows) :
              /\ Len(IntendedList[r]) = Len(file.columns)
              /\ \A c \in 1..Len(file.columns) : IntendedList[r][c] = Intended(file.rows[r][c])
<1>1. PICK f \in Files : f = file OBVIOUS
<1>2. PICK n \in Nat : n = Len(f.columns) BY FileFacts
<1>3. PICK m \in Nat : m = Len(f.rows) BY FileFacts
<1>4. PICK rows : rows = f.rows OBVIOUS
<1>5. rows \in Seq(Seq(Seq(FileSymbols))) BY <1>4, FileFacts
<1>6. Len(rows) = m /\ \A r \in 1..m : Len(rows[r]) = n BY <1>2, <1>3, <1>4, FileFacts
<1>7. DOMAIN rows = 1..m /\ \A r \in 1..m : rows[r] \in Seq(Seq(FileSymbols)) BY <1>5, <1>6
<1>8. PICK list : list = IntendedList OBVIOUS
<1>9. list = [r \in DOMAIN rows |-> [c \in DOMAIN rows[r] |-> Intended(rows[r][c])]]
  BY <1>1, <1>4, <1>8 DEF IntendedList
<1>10. ASSUME NEW r \in 1..m
       PROVE  /\ list[r] \in Seq(CellMeanings) /\ Len(list[r]) = n
              /\ \A c \in 1..n : list[r][c] = Intended(rows[r][c])
  <2>1. PICK row \in Seq(Seq(FileSymbols)) : row = rows[r] /\ Len(row) = n BY <1>6, <1>7
  <2>2. DOMAIN row = 1..n BY <2>1
  <2>3. list[r] = [c \in 1..n |-> Intended(row[c])] BY <1>7, <1>9, <2>1, <2>2
  <2>4. \A c \in 1..n : row[c] \in Seq(FileSymbols) BY <2>1
  <2>5. \A c \in 1..n : Intended(row[c]) \in CellMeanings BY <2>4, CellMeans
  <2>6. PICK x : x = list[r] OBVIOUS
  <2>7. x \in [1..n -> CellMeanings] BY <2>3, <2>5, <2>6
  <2>8. x \in Seq(CellMeanings) /\ Len(x) = n BY <2>7
  <2>9. QED BY <2>1, <2>3, <2>6, <2>8
<1>11. list = [r \in 1..m |-> list[r]] BY <1>7, <1>9
<1>12. list \in [1..m -> Seq(CellMeanings)] BY <1>10, <1>11
<1>13. list \in Seq(Seq(CellMeanings)) /\ Len(list) = m BY <1>12
<1>14. QED BY <1>1, <1>2, <1>3, <1>4, <1>8, <1>10, <1>13

\* What is read of a file: it is accepted only if its names are different, and
\* then it is what was written.
ReadBack(read) ==
  /\ read.ok => Distinct(Names)
  /\ file.rows # <<>> /\ Distinct(Names) => read.ok
  /\ read.ok =>
       /\ read.headers = Names
       /\ read.rows \in Seq(Seq(Seq(FileSymbols))) /\ FileRows \in Seq(Seq(CellMeanings))
       /\ Len(read.rows) = Len(FileRows)
       /\ \A r \in 1..Len(FileRows) :
            /\ Len(read.rows[r]) = Len(Names) /\ Len(FileRows[r]) = Len(Names)
            /\ \A h \in 1..Len(Names) : FileRows[r][h] = ImportValueSql(read.rows[r][h])

\* The names of a file are its columns', trimmed in CSV.
LEMMA NamesAre ==
  ASSUME file \in Files
  PROVE  /\ DOMAIN Names = 1..Len(file.columns) /\ Len(Names) = Len(file.columns)
         /\ file.writer.kind = "json" => Names = file.columns
         /\ file.writer.kind # "json" =>
              \A c \in 1..Len(file.columns) : Names[c] = Trim(Meant(file.columns[c], file.writer))
<1>1. PICK columns \in Seq(Seq(FileSymbols)) : columns = file.columns BY FileFacts
<1>2. PICK n \in Nat : n = Len(columns) /\ DOMAIN columns = 1..n OBVIOUS
<1>3. PICK kind : kind = file.writer.kind OBVIOUS
<1>4. Names = [c \in 1..n |-> IF kind = "json" THEN columns[c] ELSE Trim(Protected(columns[c]))]
  BY <1>1, <1>2, <1>3 DEF Names
<1>5. PICK names : names = Names OBVIOUS
<1>6. DOMAIN names = 1..n /\ Len(names) = n BY <1>4, <1>5
<1>7. kind = "json" => names = columns
  <2>1. columns = [c \in 1..n |-> columns[c]] BY <1>2
  <2>2. QED BY <1>4, <1>5, <2>1
<1>8. kind # "json" => \A c \in 1..n : names[c] = Trim(Protected(columns[c])) BY <1>4, <1>5
<1>9. \A v : Protected(v) = Meant(v, file.writer) BY DEF Protected, Meant
<1>10. QED BY <1>1, <1>2, <1>3, <1>5, <1>6, <1>7, <1>8, <1>9

\* A line of the file is a row exactly if the row is kept.
LEMMA KeptTogether ==
  ASSUME file \in Files, NEW r \in 1..Len(file.rows), NEW list, list = AllMeanings(Records(file), file.writer)
  PROVE  /\ Len(list[r + 1]) = Len(file.columns)
         /\ \A c \in 1..Len(file.columns) : IntendedList[r][c] = ImportValueSql(list[r + 1][c])
         /\ list[r + 1] \in RowMeanings(list, file.writer)
              <=> IntendedList[r] \in {row \in Entries(IntendedList) : KeptRow(row)}
<1>1. PICK n \in Nat : n = Len(file.columns) /\ n > 0 BY FileFacts
<1>2. PICK m \in Nat : m = Len(file.rows) BY FileFacts
<1>3. PICK writer : writer = file.writer OBVIOUS
<1>4. PICK records \in Seq(Seq(Seq(FileSymbols))) : records = Records(file) BY RecordsOf
<1>5. Len(records) = m + 1 /\ r + 1 \in 1..m + 1 /\ r \in 1..m BY <1>2, <1>4, RecordsOf
<1>6. PICK cells \in Seq(Seq(FileSymbols)) : cells = records[r + 1] BY <1>5
<1>7. Len(cells) = n /\ \A c \in 1..n : cells[c] = NormalizeCell(file.rows[r][c])
  BY <1>1, <1>4, <1>6, RecordsOf
<1>8. PICK meanings : meanings = list[r + 1] OBVIOUS
<1>9. meanings = Meanings(cells, writer) BY <1>3, <1>4, <1>5, <1>6, <1>8, RecordsAre
<1>10. Len(meanings) = n /\ \A c \in 1..n : meanings[c] = Meant(cells[c], writer)
  BY <1>7, <1>9, MeaningsAre
<1>11. PICK row : row = IntendedList[r] OBVIOUS
<1>12. Len(row) = n /\ \A c \in 1..n : row[c] = Intended(file.rows[r][c]) BY <1>1, <1>11, IntendedListIs
<1>13. \A c \in 1..n : file.rows[r][c] \in Seq(FileSymbols)
  <2>1. PICK rows : rows = file.rows OBVIOUS
  <2>2. rows \in Seq(Seq(Seq(FileSymbols))) BY <2>1, FileFacts
  <2>3. Len(rows) = m /\ Len(rows[r]) = n BY <1>1, <1>2, <2>1, FileFacts
  <2>4. rows[r] \in Seq(Seq(FileSymbols)) BY <1>5, <2>2, <2>3
  <2>5. \A c \in 1..n : rows[r][c] \in Seq(FileSymbols) BY <2>3, <2>4
  <2>6. QED BY <2>1, <2>5
<1>14. ASSUME NEW c \in 1..n
       PROVE  row[c] = ImportValueSql(meanings[c]) /\ (Len(meanings[c]) = 0 <=> row[c] = SqlNull)
  <2>1. PICK cell \in Seq(FileSymbols) : cell = file.rows[r][c] BY <1>13
  <2>2. PICK x : x = meanings[c] OBVIOUS
  <2>3. x = Meant(NormalizeCell(cell), file.writer) BY <1>3, <1>7, <1>10, <2>1, <2>2
  <2>4. ImportValueSql(x) = Intended(cell) /\ (Len(x) = 0 <=> Intended(cell) = SqlNull) BY <2>3, CellMeans
  <2>5. row[c] = Intended(cell) BY <1>12, <2>1
  <2>6. QED BY <2>2, <2>4, <2>5
<1>15. EmptyLine(meanings, writer) <=> ~KeptRow(row)
  <2>1. 1 \in 1..n BY <1>1
  <2>2. Len(meanings[1]) = 0 <=> row[1] = SqlNull BY <1>14, <2>1
  <2>3. QED BY <1>3, <1>10, <1>12, <2>2 DEF EmptyLine, KeptRow
<1>16. meanings \in Entries(list)
  <2>1. Len(list) = m + 1 /\ list \in Seq(Seq(Seq(FileSymbols))) BY <1>3, <1>4, <1>5, RecordsAre
  <2>2. r + 1 \in DOMAIN list BY <1>5, <2>1
  <2>3. QED BY <1>8, <2>2 DEF Entries
<1>17. row \in Entries(IntendedList)
  <2>1. PICK intended : intended = IntendedList OBVIOUS
  <2>2. intended \in Seq(Seq(CellMeanings)) /\ Len(intended) = m BY <1>2, <2>1, IntendedListIs
  <2>3. r \in DOMAIN intended BY <1>5, <2>2
  <2>4. QED BY <1>11, <2>1, <2>3 DEF Entries
<1>18. meanings \in RowMeanings(list, writer) <=> ~EmptyLine(meanings, writer) BY <1>16 DEF RowMeanings
<1>19. QED BY <1>1, <1>3, <1>8, <1>10, <1>11, <1>14, <1>15, <1>17, <1>18

\* The rows of the file are the kept ones of its list.
LEMMA FileRowsAre ==
  FileRows = Only(IntendedList, {row \in Entries(IntendedList) : KeptRow(row)})
BY Zenon DEF FileRows, IntendedList

\* A CSV file is read as it was written.
LEMMA CsvReadsBack ==
  ASSUME file \in Files, file.writer.kind # "json"
  PROVE  ReadBack(ReadFile(file))
<1>1. PICK n \in Nat : n = Len(file.columns) /\ n > 0 BY FileFacts
<1>2. PICK m \in Nat : m = Len(file.rows) BY FileFacts
<1>3. PICK writer : writer = file.writer OBVIOUS
<1>4. PICK records \in Seq(Seq(Seq(FileSymbols))) : records = Records(file) BY RecordsOf
<1>5. Len(records) = m + 1 /\ records[1] = file.columns BY <1>2, <1>4, RecordsOf
<1>6. PICK S : S = Seq(Seq(FileSymbols)) OBVIOUS
<1>7. PICK list : list = AllMeanings(records, writer) OBVIOUS
<1>8. list \in Seq(S) /\ Len(list) = m + 1 /\ list[1] = Meanings(file.columns, writer)
  <2>1. 1 \in 1..m + 1 OBVIOUS
  <2>2. list \in Seq(Seq(Seq(FileSymbols))) /\ Len(list) = Len(records)
        /\ \A r \in 1..Len(records) : list[r] = Meanings(records[r], writer)
    BY <1>4, <1>7, RecordsAre
  <2>3. list[1] = Meanings(records[1], writer) BY <1>5, <2>1, <2>2
  <2>4. list[1] = Meanings(file.columns, writer) BY <1>5, <2>3
  <2>5. list \in Seq(S) BY <1>6, <2>2
  <2>6. QED BY <1>5, <2>2, <2>4, <2>5
<1>9. Len(list[1]) = n /\ \A c \in 1..n : list[1][c] = Meant(file.columns[c], writer)
  <2>1. file.columns \in Seq(Seq(FileSymbols)) BY FileFacts
  <2>2. QED BY <1>1, <1>8, <2>1, MeaningsAre
<1>10. PICK A : A = RowMeanings(list, writer) OBVIOUS
<1>11. PICK B : B = {row \in Entries(IntendedList) : KeptRow(row)} OBVIOUS
<1>12. list[1] \in A
  <2>1. 1 \in DOMAIN list BY <1>8
  <2>2. list[1] \in Entries(list) BY <2>1 DEF Entries
  <2>3. 1 \in 1..n BY <1>1
  <2>4. Len(list[1][1]) # 0 BY <1>1, <1>3, <1>9, <2>3, NameShows
  <2>5. ~EmptyLine(list[1], writer) BY <2>4 DEF EmptyLine
  <2>6. QED BY <1>10, <2>2, <2>5 DEF RowMeanings
<1>13. PICK other : other = IntendedList OBVIOUS
<1>14. /\ other \in Seq(Seq(CellMeanings)) /\ Len(other) = m
       /\ \A r \in 1..m : Len(other[r]) = n
  BY <1>1, <1>2, <1>13, IntendedListIs
<1>15. ASSUME NEW r \in 1..m
       PROVE  /\ list[r + 1] \in A <=> other[r] \in B
              /\ Len(list[r + 1]) = n /\ \A c \in 1..n : other[r][c] = ImportValueSql(list[r + 1][c])
  BY <1>1, <1>2, <1>3, <1>4, <1>7, <1>10, <1>11, <1>13, KeptTogether
<1>16. PICK rows : rows = Only(list, A) OBVIOUS
<1>17. PICK kept : kept = Only(other, B) OBVIOUS
<1>18. /\ rows \in Seq(S) /\ kept \in Seq(Seq(CellMeanings))
       /\ Len(rows) = Len(kept) + 1 /\ rows[1] = list[1]
       /\ \A k \in 1..Len(kept) : \E i \in 1..m : kept[k] = other[i] /\ rows[k + 1] = list[i + 1]
  <2>1. PICK T : T = Seq(CellMeanings) OBVIOUS
  <2>2. other \in Seq(T) /\ Len(other) = m BY <1>14, <2>1
  <2>3. list \in Seq(S) /\ Len(list) = m + 1 BY <1>8
  <2>4. \A i \in 1..m : list[i + 1] \in A <=> other[i] \in B BY <1>15
  <2>5. HeadAndKept(rows, kept, list, other, S, T, m)
    BY <1>2, <1>12, <1>16, <1>17, <2>2, <2>3, <2>4, OnlyBehindHead
  <2>6. QED BY <2>1, <2>5 DEF HeadAndKept
<1>19. PICK l \in Nat : l = Len(kept) BY <1>18
<1>20. \A k \in 1..l : /\ Len(rows[k + 1]) = n /\ Len(kept[k]) = n
                       /\ \A c \in 1..n : kept[k][c] = ImportValueSql(rows[k + 1][c])
  <2> SUFFICES ASSUME NEW k \in 1..l
               PROVE  /\ Len(rows[k + 1]) = n /\ Len(kept[k]) = n
                      /\ \A c \in 1..n : kept[k][c] = ImportValueSql(rows[k + 1][c])
    OBVIOUS
  <2>1. PICK i \in 1..m : kept[k] = other[i] /\ rows[k + 1] = list[i + 1] BY <1>18, <1>19
  <2>2. Len(list[i + 1]) = n /\ \A c \in 1..n : other[i][c] = ImportValueSql(list[i + 1][c]) BY <1>15
  <2>3. Len(other[i]) = n BY <1>14
  <2>4. QED BY <2>1, <2>2, <2>3
<1>21. FileRows = kept BY <1>11, <1>13, <1>17, FileRowsAre
<1>22. PICK p : p = ReadText(Body(SerializeRowsToCsv(file))) /\ ~p.quoted /\ FinishRow(p).rows = rows
  BY <1>3, <1>4, <1>7, <1>10, <1>16, CsvIsRead
<1>23. PICK headers : headers = [h \in DOMAIN rows[1] |-> Trim(rows[1][h])] OBVIOUS
<1>24. headers = Names /\ DOMAIN headers = 1..n /\ Len(headers) = n
  <2>1. rows[1] \in S
    <3>1. 1 \in 1..l + 1 OBVIOUS
    <3>2. QED BY <1>18, <1>19, <3>1
  <2>2. PICK top \in Seq(Seq(FileSymbols)) : top = rows[1] BY <1>6, <2>1
  <2>3. Len(top) = n /\ DOMAIN top = 1..n BY <1>9, <1>18, <2>2
  <2>4. headers = [h \in 1..n |-> Trim(top[h])] BY <1>23, <2>2, <2>3
  <2>5. \A h \in 1..n : top[h] = Meant(file.columns[h], file.writer) BY <1>3, <1>9, <1>18, <2>2
  <2>6. \A h \in 1..n : headers[h] = Trim(Meant(file.columns[h], file.writer)) BY <2>4, <2>5
  <2>7. PICK names : names = Names OBVIOUS
  <2>8. DOMAIN names = 1..n /\ \A h \in 1..n : names[h] = Trim(Meant(file.columns[h], file.writer))
    BY <1>1, <2>7, NamesAre
  <2>9. names = [h \in 1..n |-> names[h]] BY <2>7, <2>8 DEF Names
  <2>10. headers = names BY <2>4, <2>6, <2>8, <2>9
  <2>11. QED BY <2>4, <2>7, <2>10
<1>25. <<>> \notin Entries(headers)
  <2>1. SUFFICES ASSUME NEW h \in 1..n PROVE headers[h] # <<>> BY <1>24 DEF Entries
  <2>2. headers[h] = Trim(Meant(file.columns[h], file.writer)) BY <1>1, <1>24, NamesAre
  <2>3. QED BY <1>1, <2>2, NameShows
<1>26. PICK read : read = ReadFile(file) OBVIOUS
<1>27. rows # <<>>
  <2>1. Len(rows) # 0 BY <1>18, <1>19, SMTT(30)
  <2>2. QED BY <2>1
<1>28. read = [headers |-> headers, rows |-> Tail(rows),
               ok |-> /\ ~p.quoted /\ <<>> \notin Entries(headers) /\ Distinct(headers)
                      /\ \A r \in 2..Len(rows) : Len(rows[r]) = Len(headers)]
  <2>1. read = ParseCsv(SerializeRowsToCsv(file)) BY <1>26 DEF ReadFile
  <2>2. PICK text : text = SerializeRowsToCsv(file) OBVIOUS
  <2>3. p = ReadText(IF text # <<>> /\ Head(text) = "bom" THEN Tail(text) ELSE text) BY <1>22, <2>2 DEF Body
  <2>4. QED BY <1>22, <1>23, <1>27, <2>1, <2>2, <2>3 DEF ParseCsv
<1>29. \A r \in 2..Len(rows) : Len(rows[r]) = Len(headers)
  <2> SUFFICES ASSUME NEW r \in 2..Len(rows) PROVE Len(rows[r]) = Len(headers) OBVIOUS
  <2>1. r - 1 \in 1..l /\ (r - 1) + 1 = r BY <1>18, <1>19
  <2>2. QED BY <1>20, <1>24, <2>1
<1>30. read.headers = Names /\ read.rows = Tail(rows) /\ (read.ok <=> Distinct(Names))
  BY <1>22, <1>24, <1>25, <1>28, <1>29
<1>31. PICK tail : tail = Tail(rows) OBVIOUS
<1>32. tail \in Seq(S) /\ Len(tail) = l /\ \A k \in 1..l : tail[k] = rows[k + 1]
  BY <1>18, <1>19, <1>27, <1>31
<1>33. \A r \in 1..l : /\ Len(tail[r]) = n /\ Len(kept[r]) = n
                       /\ \A h \in 1..n : kept[r][h] = ImportValueSql(tail[r][h])
  <2> SUFFICES ASSUME NEW r \in 1..l
               PROVE  /\ Len(tail[r]) = n /\ Len(kept[r]) = n
                      /\ \A h \in 1..n : kept[r][h] = ImportValueSql(tail[r][h])
    OBVIOUS
  <2>1. tail[r] = rows[r + 1] BY <1>32
  <2>2. QED BY <1>20, <2>1
<1>34. Len(Names) = n BY <1>24
<1>35. read.rows \in Seq(Seq(Seq(FileSymbols))) BY <1>6, <1>30, <1>31, <1>32
<1>36. QED BY <1>18, <1>19, <1>21, <1>26, <1>30, <1>31, <1>32, <1>33, <1>34, <1>35 DEF ReadBack

\* So is a JSON file.
LEMMA JsonReadsBack ==
  ASSUME file \in Files, file.writer.kind = "json"
  PROVE  ReadBack(ReadFile(file))
<1>1. PICK n \in Nat : n = Len(file.columns) /\ n > 0 BY FileFacts
<1>1a. file.rows \in Seq(Seq(Seq(FileSymbols))) BY FileFacts
<1>1b. Len(file.rows) \in Nat BY <1>1a
<1>2. PICK m \in Nat : m = Len(file.rows) BY <1>1b
<1>3. Names = file.columns /\ Len(Names) = n /\ Distinct(file.columns) BY <1>1, NamesAre, FileFacts
<1>4. PICK read : read = ReadFile(file) OBVIOUS
<1>5. read = ParseJsonRows(file) BY <1>4 DEF ReadFile
<1>6. PICK rows : rows = file.rows OBVIOUS
<1>7. rows \in Seq(Seq(Seq(FileSymbols))) BY <1>6, FileFacts
<1>8. Len(rows) = m /\ \A r \in 1..m : Len(rows[r]) = n BY <1>1, <1>2, <1>6, FileFacts
<1>9. CASE rows = <<>>
  <2>1. read = NothingRead BY <1>5, <1>6, <1>9 DEF ParseJsonRows
  <2>2. ~read.ok BY <2>1 DEF NothingRead
  <2>3. QED BY <1>4, <1>6, <1>9, <2>2 DEF ReadBack
<1>10. CASE rows # <<>>
  <2>1. PICK given : given = [r \in DOMAIN rows |-> [c \in DOMAIN file.columns |-> NormalizeCell(rows[r][c])]] OBVIOUS
  <2>2. read = [headers |-> file.columns, rows |-> given, ok |-> TRUE]
    BY <1>5, <1>6, <1>10, <2>1 DEF ParseJsonRows
  <2>3. DOMAIN rows = 1..m /\ DOMAIN file.columns = 1..n
    <3>1. file.columns \in Seq(Seq(FileSymbols)) BY FileFacts
    <3>2. QED BY <1>1, <1>7, <1>8, <3>1
  <2>4. ASSUME NEW r \in 1..m
        PROVE  /\ given[r] \in Seq(Seq(FileSymbols)) /\ Len(given[r]) = n
               /\ \A c \in 1..n : given[r][c] = NormalizeCell(rows[r][c])
               /\ \A c \in 1..n : rows[r][c] \in Seq(FileSymbols)
    <3>1. PICK row \in Seq(Seq(FileSymbols)) : row = rows[r] /\ Len(row) = n BY <1>7, <1>8, <2>3
    <3>2. \A c \in 1..n : row[c] \in Seq(FileSymbols) BY <3>1
    <3>3. PICK x : x = given[r] OBVIOUS
    <3>4. x = [c \in 1..n |-> NormalizeCell(row[c])] BY <2>1, <2>3, <3>1, <3>3
    <3>5. \A c \in 1..n : NormalizeCell(row[c]) \in Seq(FileSymbols) BY <3>2, NormalizedCell
    <3>6. x \in [1..n -> Seq(FileSymbols)] BY <3>4, <3>5
    <3>7. x \in Seq(Seq(FileSymbols)) /\ Len(x) = n BY <3>6
    <3>8. QED BY <3>1, <3>2, <3>3, <3>4, <3>7
  <2>5. given = [r \in 1..m |-> given[r]] BY <2>1, <2>3
  <2>6. given \in [1..m -> Seq(Seq(FileSymbols))] BY <2>4, <2>5
  <2>7. given \in Seq(Seq(Seq(FileSymbols))) /\ Len(given) = m BY <2>6
  <2>8. PICK other : other = IntendedList OBVIOUS
  <2>9. /\ other \in Seq(Seq(CellMeanings)) /\ Len(other) = m
        /\ \A r \in 1..m : Len(other[r]) = n /\ \A c \in 1..n : other[r][c] = Intended(rows[r][c])
    BY <1>1, <1>2, <1>6, <2>8, IntendedListIs
  <2>10. PICK B : B = {row \in Entries(other) : KeptRow(row)} OBVIOUS
  <2>11. \A i \in 1..Len(other) : other[i] \in B
    <3> SUFFICES ASSUME NEW i \in 1..Len(other) PROVE other[i] \in B OBVIOUS
    <3>1. i \in DOMAIN other BY <2>9
    <3>2. other[i] \in Entries(other) BY <3>1 DEF Entries
    <3>3. KeptRow(other[i]) BY DEF KeptRow
    <3>4. QED BY <2>10, <3>2, <3>3
  <2>12. PICK kept : kept = Only(other, B) OBVIOUS
  <2>13. Right(other, B, kept, Len(other)) BY <2>9, <2>12, OnlyIsRight
  <2>14. /\ kept \in Seq(Entries(other) \cap B) /\ Len(kept) = m
         /\ \A i \in 1..m : kept[i] = other[i]
    BY <2>9, <2>11, <2>13 DEF Right
  <2>15. kept \in Seq(Seq(CellMeanings))
    <3>1. Entries(other) \cap B \subseteq Seq(CellMeanings)
      <4>1. DOMAIN other = 1..m BY <2>9
      <4>2. QED BY <2>9, <4>1 DEF Entries
    <3>2. QED BY <2>14, <3>1, SeqOfMore
  <2>16. FileRows = kept BY <2>8, <2>10, <2>12, FileRowsAre
  <2>17. \A v \in Seq(FileSymbols) : ImportValueSql(NormalizeCell(v)) = Intended(v)
    BY DEF ImportValueSql, NormalizeCell, Intended, Protected
  <2>18. \A r \in 1..m : /\ Len(given[r]) = n /\ Len(kept[r]) = n
                         /\ \A h \in 1..n : kept[r][h] = ImportValueSql(given[r][h])
    <3> SUFFICES ASSUME NEW r \in 1..m
                 PROVE  /\ Len(given[r]) = n /\ Len(kept[r]) = n
                        /\ \A h \in 1..n : kept[r][h] = ImportValueSql(given[r][h])
      OBVIOUS
    <3>1. kept[r] = other[r] BY <2>14
    <3>2. Len(given[r]) = n BY <2>4
    <3>3. Len(kept[r]) = n BY <2>9, <3>1
    <3>4. ASSUME NEW h \in 1..n PROVE kept[r][h] = ImportValueSql(given[r][h])
      <4>1. PICK v : v = rows[r][h] OBVIOUS
      <4>2. v \in Seq(FileSymbols) /\ given[r][h] = NormalizeCell(v) BY <2>4, <4>1
      <4>3. other[r][h] = Intended(v) BY <2>9, <4>1
      <4>4. QED BY <2>17, <3>1, <4>2, <4>3
    <3>5. QED BY <3>2, <3>3, <3>4
  <2>19. read.ok /\ read.headers = file.columns /\ read.rows = given BY <2>2
  <2>20. QED BY <1>3, <1>4, <2>7, <2>14, <2>15, <2>16, <2>18, <2>19 DEF ReadBack
<1>11. QED BY <1>9, <1>10

\* Every file is read back.
LEMMA FileIsReadBack ==
  ASSUME file \in Files
  PROVE  ReadBack(ReadFile(file))
BY CsvReadsBack, JsonReadsBack

-----------------------------------------------------------------------------
(* The plan.                                                               *)

\* A mapping for every header, by its name.
MappingsFit(maps, headers) ==
  /\ maps = [h \in DOMAIN headers |-> maps[h]]
  /\ \A h \in DOMAIN headers : "name" \in DOMAIN maps[h] /\ maps[h].name = headers[h]

AreMaps(maps, n) == maps = [h \in 1..n |-> maps[h]]
\* A list of l mappings, those that are included.
IsIncluded(included, l, maps, n) ==
  /\ l \in Nat /\ l = Len(included) /\ DOMAIN included = 1..l
  /\ \A k \in 1..l : \E h \in 1..n : included[k] = maps[h] /\ maps[h].include
  /\ \A h \in 1..n : maps[h].include => \E k \in 1..l : included[k] = maps[h]

\* The included mappings, by their headers.
LEMMA IncludedIs ==
  ASSUME NEW n \in Nat, NEW maps, AreMaps(maps, n)
  PROVE  IsIncluded(Included(maps), Len(Included(maps)), maps, n)
<1>1. PICK included : included = Included(maps) OBVIOUS
<1>2. PICK S : S = Entries(maps) OBVIOUS
<1>3. DOMAIN maps = 1..n BY DEF AreMaps
<1>4. \A h \in 1..n : maps[h] \in S BY <1>2, <1>3 DEF Entries
<1>5. maps \in [1..n -> S] BY <1>4 DEF AreMaps
<1>6. maps \in Seq(S) /\ Len(maps) = n BY <1>5
<1>7. PICK K : K = {m \in S : m.include} OBVIOUS
<1>8. included = Only(maps, K) BY <1>1, <1>2, <1>7 DEF Included
<1>9. Right(maps, K, included, n) BY <1>6, <1>8, OnlyIsRight
<1>10. /\ included \in Seq(S \cap K)
       /\ \A i \in 1..n : maps[i] \in K => \E k \in 1..Len(included) : included[k] = maps[i]
       /\ \A k \in 1..Len(included) : \E i \in 1..n : included[k] = maps[i]
  BY <1>2, <1>9 DEF Right
<1>11. PICK X : X = S \cap K BY Zenon
<1>12. PICK l \in Nat : l = Len(included) /\ DOMAIN included = 1..l /\ \A k \in 1..l : included[k] \in X
  <2>1. included \in Seq(X) BY <1>10, <1>11
  <2>2. Len(included) \in Nat /\ DOMAIN included = 1..Len(included)
        /\ \A k \in 1..Len(included) : included[k] \in X
    BY <2>1
  <2>3. QED BY <2>2, Zenon
<1>13. ASSUME NEW k \in 1..l PROVE \E h \in 1..n : included[k] = maps[h] /\ maps[h].include
  <2>1. PICK h \in 1..n : included[k] = maps[h] BY <1>10, <1>12
  <2>2. maps[h] \in K BY <1>11, <1>12, <2>1
  <2>3. maps[h].include BY <1>7, <2>2
  <2>4. QED BY <2>1, <2>3
<1>14. ASSUME NEW h \in 1..n, maps[h].include PROVE \E k \in 1..l : included[k] = maps[h]
  <2>1. maps[h] \in K BY <1>4, <1>7, <1>14
  <2>2. QED BY <1>10, <1>12, <2>1
<1>15. IsIncluded(included, l, maps, n) BY <1>12, <1>13, <1>14 DEF IsIncluded
<1>16. QED BY <1>1, <1>12, <1>15

\* As many targets as mappings: no two have the same one.
LEMMA TargetsDiffer ==
  ASSUME NEW n \in Nat, NEW maps, AreMaps(maps, n), NEW included, included = Included(maps),
         Cardinality(Targets(maps)) = Len(included)
  PROVE  \A j, k \in 1..Len(included) : included[j].target = included[k].target => j = k
<1>1. IsIncluded(included, Len(included), maps, n) BY IncludedIs
<1>2. PICK l \in Nat : l = Len(included) /\ DOMAIN included = 1..l BY <1>1 DEF IsIncluded
<1>3. PICK f : f = [k \in 1..l |-> included[k].target] BY Zenon
<1>4. PICK T : T = Targets(maps) OBVIOUS
<1>5. T = {included[k].target : k \in 1..l} BY <1>2, <1>4, Zenon DEF Targets, Entries
<1>6. f \in Surjection(1..l, T)
  <2>1. f \in [1..l -> T] BY <1>3, <1>5
  <2>2. \A t \in T : \E k \in 1..l : f[k] = t BY <1>3, <1>5
  <2>3. QED BY <2>1, <2>2 DEF Surjection
<1>7. IsFiniteSet(1..l) /\ Cardinality(1..l) = l
  <2>1. 1 \in Int /\ l \in Int OBVIOUS
  <2>2. IsFiniteSet(1..l) /\ Cardinality(1..l) = IF 1 > l THEN 0 ELSE l - 1 + 1 BY <2>1, FS_Interval
  <2>3. QED BY <2>2
<1>8. f \in Injection(1..l, T) BY <1>2, <1>4, <1>6, <1>7, FS_Surjection
<1>9. \A j, k \in 1..l : f[j] = f[k] => j = k BY <1>8 DEF Injection, IsInjective
<1>10. QED BY <1>2, <1>3, <1>9

SentTo(included, t) == CHOOSE m \in Entries(included) : m.target = t
PlaceOf(headers, name) == CHOOSE h \in DOMAIN headers : headers[h] = name
HeaderFor(maps, t) == CHOOSE h \in DOMAIN maps : maps[h].include /\ maps[h].target = t

\* The mapping that is sent to a target is the one of the header that is meant.
LEMMA SourceIs ==
  ASSUME NEW n \in Nat, NEW headers, DOMAIN headers = 1..n, Distinct(headers),
         NEW maps, MappingsFit(maps, headers), Cardinality(Targets(maps)) = Len(Included(maps)),
         NEW t \in Targets(maps)
  PROVE  /\ HeaderFor(maps, t) \in 1..n
         /\ PlaceOf(headers, SentTo(Included(maps), t).name) = HeaderFor(maps, t)
<1>1. PICK m : m = SentTo(Included(maps), t) OBVIOUS
<1>2. PICK h : h = HeaderFor(maps, t) OBVIOUS
<1>3. maps = [x \in 1..n |-> maps[x]] /\ \A x \in 1..n : maps[x].name = headers[x] BY DEF MappingsFit
<1>4. DOMAIN maps = 1..n BY <1>3
<1>5. PICK included : included = Included(maps) OBVIOUS
<1>6. AreMaps(maps, n) BY <1>3 DEF AreMaps
<1>7. IsIncluded(included, Len(included), maps, n) BY <1>5, <1>6, IncludedIs
<1>8. PICK l \in Nat : l = Len(included) /\ DOMAIN included = 1..l BY <1>7, Zenon DEF IsIncluded
<1>9. m \in Entries(included) /\ m.target = t
  <2>1. \E x \in Entries(included) : x.target = t BY <1>5 DEF Targets
  <2>2. QED BY <1>5, <1>1, <2>1 DEF SentTo
<1>10. PICK k \in 1..l : m = included[k] BY <1>8, <1>9 DEF Entries
<1>11. PICK a \in 1..n : m = maps[a] /\ maps[a].include BY <1>8, <1>10, <1>7 DEF IsIncluded
<1>12. h \in 1..n /\ maps[h].include /\ maps[h].target = t
  <2>1. \E x \in 1..n : maps[x].include /\ maps[x].target = t BY <1>9, <1>11
  <2>2. QED BY <1>4, <1>2, <2>1 DEF HeaderFor
<1>13. PICK j \in 1..l : included[j] = maps[h] BY <1>8, <1>12, <1>7 DEF IsIncluded
<1>14. j = k
  <2>1. Cardinality(Targets(maps)) = Len(included) BY <1>5
  <2>2. \A x, y \in 1..Len(included) : included[x].target = included[y].target => x = y
    BY <1>5, <1>6, <2>1, TargetsDiffer
  <2>3. included[j].target = included[k].target BY <1>9, <1>10, <1>12, <1>13
  <2>4. QED BY <1>8, <2>2, <2>3
<1>15. a = h
  <2>1. headers[a] = maps[a].name /\ headers[h] = maps[h].name BY <1>3, <1>12
  <2>2. maps[a] = maps[h] BY <1>10, <1>11, <1>13, <1>14
  <2>3. headers[a] = headers[h] BY <2>1, <2>2
  <2>4. QED BY <1>12, <2>3 DEF Distinct
<1>16. m.name = headers[h] BY <1>3, <1>11, <1>15
<1>17. \A x \in 1..n : headers[x] = m.name <=> x = h BY <1>12, <1>16 DEF Distinct
<1>18. PlaceOf(headers, m.name) = h BY <1>12, <1>17 DEF PlaceOf
<1>19. QED BY <1>12, <1>18, <1>1, <1>2

\* What makes a plan: the file is accepted, every included header has a column
\* of its own, and an upsert knows its conflict columns.
LEMMA PlanIsMade ==
  ASSUME NEW read, NEW maps, NEW vendor, NEW given, NEW conflicts,
         BuildCsvImportPlan(read, maps, vendor, given, conflicts) # <<>>
  PROVE  /\ read.ok /\ Cardinality(Targets(maps)) = Len(Included(maps))
         /\ given = "upsert" => conflicts \subseteq Targets(maps)
         /\ BuildCsvImportPlan(read, maps, vendor, given, conflicts) =
              [r \in DOMAIN read.rows |->
                [t \in Targets(maps) |->
                   ImportValueSql(read.rows[r][PlaceOf(read.headers, SentTo(Included(maps), t).name)])]]
BY Zenon DEF BuildCsvImportPlan, PlaceOf, SentTo

\* A plan sends the rows of the file where the mappings say.
LEMMA PlanIsIntended ==
  ASSUME ReadBack(parsed), MappingsFit(mappings, parsed.headers), DOMAIN Names = 1..Len(Names), Len(Names) \in Nat,
         NEW plan, plan = BuildCsvImportPlan(parsed, mappings, engine, policy, conflictColumns), plan # <<>>
  PROVE  /\ plan = IntendedRows
         /\ policy = "upsert" => conflictColumns \subseteq Targets(mappings)
         /\ Len(FileRows) \in Nat /\ DOMAIN plan = 1..Len(FileRows)
         /\ \A r \in 1..Len(FileRows) : DOMAIN plan[r] = Targets(mappings)
<1>1. PICK n \in Nat : n = Len(Names) OBVIOUS
<1>2. PICK headers : headers = parsed.headers OBVIOUS
<1>3. PICK maps : maps = mappings OBVIOUS
<1>4. PICK T : T = Targets(maps) OBVIOUS
<1>5. PICK included : included = Included(maps) OBVIOUS
<1>6. PICK lines : lines = parsed.rows OBVIOUS
<1>7. PICK kept : kept = FileRows OBVIOUS
<1>8. /\ parsed.ok /\ Cardinality(Targets(maps)) = Len(Included(maps))
      /\ policy = "upsert" => conflictColumns \subseteq T
  BY <1>3, <1>4, PlanIsMade
<1> DEFINE Place(t) == PlaceOf(headers, SentTo(included, t).name)
<1>9. plan = [r \in DOMAIN lines |-> [t \in T |-> ImportValueSql(lines[r][Place(t)])]]
  BY <1>2, <1>3, <1>4, <1>5, <1>6, PlanIsMade
<1>10. IntendedRows = [r \in DOMAIN kept |-> [t \in T |-> kept[r][HeaderFor(maps, t)]]]
  BY <1>3, <1>4, <1>7 DEF IntendedRows, HeaderFor
<1>11. /\ headers = Names /\ Distinct(headers)
       /\ lines \in Seq(Seq(Seq(FileSymbols))) /\ kept \in Seq(Seq(CellMeanings)) /\ Len(lines) = Len(kept)
       /\ \A r \in 1..Len(kept) : \A h \in 1..n : kept[r][h] = ImportValueSql(lines[r][h])
  BY <1>1, <1>2, <1>6, <1>7, <1>8 DEF ReadBack
<1>12. PICK l \in Nat : l = Len(kept) /\ DOMAIN kept = 1..l /\ DOMAIN lines = 1..l BY <1>11
<1>13. DOMAIN headers = 1..n BY <1>1, <1>11
<1>14. ASSUME NEW t \in T PROVE Place(t) = HeaderFor(maps, t) /\ HeaderFor(maps, t) \in 1..n
  <2>1. MappingsFit(maps, headers) BY <1>2, <1>3
  <2>2. QED BY <1>4, <1>5, <1>8, <1>11, <1>13, <2>1, SourceIs
<1> HIDE DEF Place
<1>15. plan = [r \in 1..l |-> [t \in T |-> ImportValueSql(lines[r][Place(t)])]] BY <1>9, <1>12
<1>16. \A r \in 1..l : [t \in T |-> ImportValueSql(lines[r][Place(t)])] = [t \in T |-> kept[r][HeaderFor(maps, t)]]
  <2> SUFFICES ASSUME NEW r \in 1..l
               PROVE  [t \in T |-> ImportValueSql(lines[r][Place(t)])] = [t \in T |-> kept[r][HeaderFor(maps, t)]]
    OBVIOUS
  <2>1. \A t \in T : ImportValueSql(lines[r][Place(t)]) = kept[r][HeaderFor(maps, t)] BY <1>11, <1>12, <1>14
  <2>2. QED BY <2>1
<1>17. plan = [r \in 1..l |-> [t \in T |-> kept[r][HeaderFor(maps, t)]]] BY <1>15, <1>16
<1>18. IntendedRows = [r \in 1..l |-> [t \in T |-> kept[r][HeaderFor(maps, t)]]] BY <1>10, <1>12
<1>19. plan = IntendedRows BY <1>17, <1>18
<1>20. DOMAIN plan = 1..l /\ \A r \in 1..l : DOMAIN plan[r] = T BY <1>17
<1>21. QED BY <1>3, <1>4, <1>7, <1>8, <1>12, <1>19, <1>20, SMTT(30)

-----------------------------------------------------------------------------
(* The database's answer.                                                  *)

\* The table after every INSERT of a batch.
Started(rows) == [rows |-> rows, affected |-> 0, ok |-> TRUE]
InsertedAt(f, rows, new, vendor, given, i) ==
  IF i = 0 THEN Started(rows) ELSE Insert(f[i - 1], new[i], vendor, given)
IsInserted(f, rows, new, vendor, given, n) == f = [i \in 0..n |-> InsertedAt(f, rows, new, vendor, given, i)]

\* The recursion of a batch is defined.
LEMMA InsertedExists ==
  ASSUME NEW rows, NEW new, NEW vendor, NEW given, NEW n \in Nat
  PROVE  \E f : IsInserted(f, rows, new, vendor, given, n)
<1> DEFINE Value(f, i) == InsertedAt(f, rows, new, vendor, given, i)
           T == {m \in Nat : ~ \E f : IsInserted(f, rows, new, vendor, given, m)}
<1>1. SUFFICES ASSUME T # {} PROVE FALSE OBVIOUS
<1>2. PICK m \in T : \A k \in T : m <= k BY <1>1, LeastMember, Zenon
<1>3. CASE m = 0
  <2> DEFINE f == [k \in 0..0 |-> Started(rows)]
  <2>1. IsInserted(f, rows, new, vendor, given, 0) BY DEF IsInserted, InsertedAt
  <2>2. QED BY <2>1, <1>3
<1>4. CASE m > 0
  <2>1. m - 1 \in Nat /\ m - 1 \notin T BY <1>4, <1>2
  <2>2. PICK g : IsInserted(g, rows, new, vendor, given, m - 1) BY <2>1
  <2> DEFINE f == [k \in 0..m |-> IF k < m THEN g[k] ELSE Value(g, m)]
  <2>3. \A k \in 0..m : f[k] = Value(f, k)
    <3> SUFFICES ASSUME NEW k \in 0..m PROVE f[k] = Value(f, k) OBVIOUS
    <3>1. CASE k = m BY <3>1, <1>4 DEF InsertedAt
    <3>2. CASE k < m
      <4>1. k \in 0..m - 1 /\ (k # 0 => k - 1 \in 0..m - 1) BY <3>2
      <4>2. g[k] = Value(g, k) BY <2>2, <4>1 DEF IsInserted
      <4>3. QED BY <4>1, <4>2, <3>2 DEF InsertedAt
    <3>3. QED BY <3>1, <3>2
  <2>4. IsInserted(f, rows, new, vendor, given, m) BY <2>3 DEF IsInserted
  <2>5. QED BY <2>4
<1>5. QED BY <1>3, <1>4

AreInserts(f, rows, new, vendor, given, n) ==
  /\ f[0] = Started(rows)
  /\ \A i \in 1..n : f[i] = Insert(f[i - 1], new[i], vendor, given)

\* The table of a batch.
LEMMA BatchInserts ==
  ASSUME NEW rows, NEW new, NEW vendor, NEW given, Len(new) \in Nat
  PROVE  \E f : /\ AreInserts(f, rows, new, vendor, given, Len(new))
                /\ ExecuteBatch(rows, new, vendor, given).rows = f[Len(new)].rows
                /\ ExecuteBatch(rows, new, vendor, given).ok => f[Len(new)].affected = Len(new)
<1> DEFINE F(f) == f = [n \in 0..Len(new) |->
                          IF n = 0 THEN [rows |-> rows, affected |-> 0, ok |-> TRUE]
                          ELSE Insert(f[n - 1], new[n], vendor, given)]
           table == CHOOSE f : F(f)
<1>1. \E f : F(f)
  <2>1. PICK f : IsInserted(f, rows, new, vendor, given, Len(new)) BY InsertedExists
  <2>2. F(f) BY <2>1 DEF IsInserted, InsertedAt, Started
  <2>3. QED BY <2>2
<1>2. F(table) BY <1>1
<1>3. ExecuteBatch(rows, new, vendor, given)
        = [ok |-> table[Len(new)].ok /\ table[Len(new)].affected = Len(new), rows |-> table[Len(new)].rows]
  BY DEF ExecuteBatch
<1> HIDE DEF table
<1>4. table[0] = Started(rows) BY <1>2 DEF Started
<1>5. \A n \in 1..Len(new) : table[n] = Insert(table[n - 1], new[n], vendor, given)
  <2> SUFFICES ASSUME NEW n \in 1..Len(new) PROVE table[n] = Insert(table[n - 1], new[n], vendor, given) OBVIOUS
  <2>1. n \in 0..Len(new) /\ n # 0 OBVIOUS
  <2>2. QED BY <1>2, <2>1
<1>6. AreInserts(table, rows, new, vendor, given, Len(new)) BY <1>4, <1>5 DEF AreInserts
<1>7. ExecuteBatch(rows, new, vendor, given).rows = table[Len(new)].rows BY <1>3
<1>8. ASSUME table[Len(new)].affected # Len(new) PROVE ~ExecuteBatch(rows, new, vendor, given).ok
  <2>1. (table[Len(new)].ok /\ table[Len(new)].affected = Len(new)) = FALSE BY <1>8
  <2>2. ExecuteBatch(rows, new, vendor, given) = [ok |-> FALSE, rows |-> table[Len(new)].rows] BY Zenon, <1>3, <2>1
  <2>3. QED BY <2>2
<1>9. QED BY <1>6, <1>7, <1>8

\* What one INSERT does.
LEMMA InsertDoes ==
  ASSUME NEW db, "rows" \in DOMAIN db, "affected" \in DOMAIN db, NEW row, NEW vendor,
         NEW given, given = "ignore" => KeyIsValid(row), given \in {"error", "ignore"},
         NEW after, after = Insert(db, row, vendor, given)
  PROVE  /\ "rows" \in DOMAIN after /\ "affected" \in DOMAIN after
         /\ \/ after.rows = db.rows /\ after.affected = db.affected
            \/ /\ KeyOf(row) \notin DOMAIN db.rows /\ after.affected = db.affected + 1
               /\ after.rows = PutNote(db.rows, KeyOf(row), Cell(row, NoteColumn))
<1> DEFINE lenient == vendor = "mysql" /\ given = "ignore"
           key == IF lenient /\ ~KeyIsValid(row) THEN <<"0">> ELSE KeyOf(row)
           accepted == KeyIsValid(row) \/ lenient
<1>1. key = KeyOf(row) OBVIOUS
<1>2. CASE accepted /\ key \notin DOMAIN db.rows
  <2>1. after = [rows |-> PutNote(db.rows, key, Cell(row, NoteColumn)), affected |-> db.affected + 1, ok |-> db.ok]
    BY <1>2 DEF Insert
  <2>2. QED BY <1>1, <1>2, <2>1
<1>3. CASE ~(accepted /\ key \notin DOMAIN db.rows)
  <2>1. after = [db EXCEPT !.ok = @ /\ accepted /\ given = "ignore"] BY <1>3 DEF Insert
  <2>2. DOMAIN after = DOMAIN db /\ after.rows = db.rows /\ after.affected = db.affected BY Zenon, <2>1
  <2>3. QED BY <2>2
<1>4. QED BY <1>2, <1>3

\* Rows with new and different keys were put into a table.
Filled(table, rows, new, n) ==
  /\ table = [k \in DOMAIN table |-> table[k]]
  /\ DOMAIN table = DOMAIN rows \cup {KeyOf(new[i]) : i \in 1..n}
  /\ \A i \in 1..n : KeyOf(new[i]) \notin DOMAIN rows /\ table[KeyOf(new[i])] = Cell(new[i], NoteColumn)
  /\ \A i, j \in 1..n : KeyOf(new[i]) = KeyOf(new[j]) => i = j
  /\ \A k \in DOMAIN rows : table[k] = rows[k]
  /\ IsFiniteSet(DOMAIN table) /\ Cardinality(DOMAIN table) = Cardinality(DOMAIN rows) + n

\* One more row with a key that is new.
LEMMA FilledNext ==
  ASSUME NEW n \in Nat, NEW table, NEW rows, NEW new, IsFiniteSet(DOMAIN rows), Filled(table, rows, new, n),
         KeyOf(new[n + 1]) \notin DOMAIN table
  PROVE  Filled(PutNote(table, KeyOf(new[n + 1]), Cell(new[n + 1], NoteColumn)), rows, new, n + 1)
<1>1. PICK key : key = KeyOf(new[n + 1]) OBVIOUS
<1>2. PICK note : note = Cell(new[n + 1], NoteColumn) OBVIOUS
<1>3. PICK D : D = DOMAIN table OBVIOUS
<1>4. PICK next : next = PutNote(table, key, note) OBVIOUS
<1>5. next = [k \in D \cup {key} |-> IF k = key THEN note ELSE table[k]] BY <1>3, <1>4 DEF PutNote
<1>6. DOMAIN next = D \cup {key} /\ next[key] = note /\ \A k \in D : k # key => next[k] = table[k] BY <1>5
<1>7. next = [k \in DOMAIN next |-> next[k]] BY <1>5
<1>8. /\ D = DOMAIN rows \cup {KeyOf(new[i]) : i \in 1..n}
      /\ \A i \in 1..n : KeyOf(new[i]) \notin DOMAIN rows /\ table[KeyOf(new[i])] = Cell(new[i], NoteColumn)
      /\ \A i, j \in 1..n : KeyOf(new[i]) = KeyOf(new[j]) => i = j
      /\ \A k \in DOMAIN rows : table[k] = rows[k]
      /\ IsFiniteSet(D) /\ Cardinality(D) = Cardinality(DOMAIN rows) + n
  BY <1>3 DEF Filled
<1>9. key \notin D BY <1>1, <1>3
<1>10. 1..n + 1 = 1..n \cup {n + 1} /\ n + 1 \notin 1..n OBVIOUS
<1>11. {KeyOf(new[i]) : i \in 1..n + 1} = {KeyOf(new[i]) : i \in 1..n} \cup {key} BY <1>1, <1>10
<1>12. DOMAIN next = DOMAIN rows \cup {KeyOf(new[i]) : i \in 1..n + 1} BY <1>6, <1>8, <1>11
<1>13. \A i \in 1..n : KeyOf(new[i]) \in D /\ KeyOf(new[i]) # key BY <1>8, <1>9
<1>14. \A i \in 1..n + 1 : KeyOf(new[i]) \notin DOMAIN rows /\ next[KeyOf(new[i])] = Cell(new[i], NoteColumn)
  BY <1>1, <1>2, <1>6, <1>8, <1>9, <1>10, <1>13
<1>15. \A i, j \in 1..n + 1 : KeyOf(new[i]) = KeyOf(new[j]) => i = j BY <1>1, <1>8, <1>10, <1>13
<1>16. \A k \in DOMAIN rows : next[k] = rows[k] BY <1>6, <1>8, <1>9
<1>17. IsFiniteSet(DOMAIN next) /\ Cardinality(DOMAIN next) = Cardinality(DOMAIN rows) + (n + 1)
  <2>1. IsFiniteSet(D \cup {key}) /\ Cardinality(D \cup {key}) = Cardinality(D) + 1 BY <1>8, <1>9, FS_AddElement
  <2>2. Cardinality(DOMAIN rows) \in Nat BY FS_CardinalityType
  <2>3. Cardinality(D) + 1 = Cardinality(DOMAIN rows) + (n + 1) BY <1>8, <2>2
  <2>4. QED BY <1>6, <2>1, <2>3
<1>18. Filled(next, rows, new, n + 1) BY <1>7, <1>12, <1>14, <1>15, <1>16, <1>17 DEF Filled
<1>19. QED BY <1>1, <1>2, <1>4, <1>18

\* A batch that is done has put in every row.
LEMMA BatchFills ==
  ASSUME NEW rows, IsFiniteSet(DOMAIN rows), rows = [k \in DOMAIN rows |-> rows[k]],
         NEW n \in Nat, NEW new, n = Len(new), NEW vendor, NEW given, given \in {"error", "ignore"},
         given = "ignore" => \A i \in 1..n : KeyIsValid(new[i]),
         ExecuteBatch(rows, new, vendor, given).ok
  PROVE  Filled(ExecuteBatch(rows, new, vendor, given).rows, rows, new, n)
<1>1. PICK f : /\ AreInserts(f, rows, new, vendor, given, n)
               /\ ExecuteBatch(rows, new, vendor, given).rows = f[n].rows /\ f[n].affected = n
  BY BatchInserts
<1> DEFINE Along(i) == /\ "rows" \in DOMAIN f[i] /\ "affected" \in DOMAIN f[i]
                       /\ f[i].affected \in Nat /\ f[i].affected <= i
                       /\ f[i].affected = i => Filled(f[i].rows, rows, new, i)
           N == {i \in Nat : i <= n /\ ~Along(i)}
<1>2. Along(0)
  <2>1. PICK db : db = f[0] OBVIOUS
  <2>2. db = [rows |-> rows, affected |-> 0, ok |-> TRUE] BY <1>1, <2>1 DEF AreInserts, Started
  <2>3. "rows" \in DOMAIN db /\ "affected" \in DOMAIN db /\ db.rows = rows /\ db.affected = 0 BY <2>2
  <2>4. Filled(rows, rows, new, 0)
    <3>1. 1..0 = {} OBVIOUS
    <3>2. {KeyOf(new[i]) : i \in 1..0} = {} BY <3>1
    <3>3. DOMAIN rows = DOMAIN rows \cup {KeyOf(new[i]) : i \in 1..0} BY <3>2
    <3>4. Cardinality(DOMAIN rows) = Cardinality(DOMAIN rows) + 0 BY FS_CardinalityType
    <3>5. QED BY <3>1, <3>3, <3>4 DEF Filled
  <2>5. QED BY <2>1, <2>3, <2>4
<1>3. ASSUME NEW i \in Nat, i < n, Along(i) PROVE Along(i + 1)
  <2>1. PICK db : db = f[i] OBVIOUS
  <2>2. PICK row : row = new[i + 1] OBVIOUS
  <2>3. PICK after : after = f[i + 1] OBVIOUS
  <2>4. i + 1 \in 1..n /\ (i + 1) - 1 = i BY <1>3
  <2>5. after = Insert(db, row, vendor, given) BY <1>1, <2>1, <2>2, <2>3, <2>4 DEF AreInserts
  <2>6. given = "ignore" => KeyIsValid(row) BY <2>2, <2>4
  <2>7. /\ "rows" \in DOMAIN db /\ "affected" \in DOMAIN db /\ db.affected \in Nat /\ db.affected <= i
        /\ db.affected = i => Filled(db.rows, rows, new, i)
    BY <1>3, <2>1
  <2>8. /\ "rows" \in DOMAIN after /\ "affected" \in DOMAIN after
        /\ \/ after.rows = db.rows /\ after.affected = db.affected
           \/ /\ KeyOf(row) \notin DOMAIN db.rows /\ after.affected = db.affected + 1
              /\ after.rows = PutNote(db.rows, KeyOf(row), Cell(row, NoteColumn))
    BY <2>5, <2>6, <2>7, InsertDoes
  <2>9. after.affected \in Nat /\ after.affected <= i + 1 BY <2>7, <2>8
  <2>10. ASSUME after.affected = i + 1 PROVE Filled(after.rows, rows, new, i + 1)
    <3>1. db.affected = i BY <2>7, <2>8, <2>10
    <3>2. /\ KeyOf(row) \notin DOMAIN db.rows
          /\ after.rows = PutNote(db.rows, KeyOf(row), Cell(row, NoteColumn))
      BY <2>8, <2>10, <3>1
    <3>3. Filled(db.rows, rows, new, i) BY <2>7, <3>1
    <3>4. QED BY <2>2, <3>2, <3>3, FilledNext
  <2>11. QED BY <2>3, <2>8, <2>9, <2>10
<1>4. N = {}
  <2>1. SUFFICES ASSUME N # {} PROVE FALSE OBVIOUS
  <2>2. PICK r \in N : \A j \in N : r <= j BY <2>1, LeastMember, Zenon
  <2>3. r \in Nat /\ r <= n /\ ~Along(r) BY <2>2
  <2>4. r # 0 BY <1>2, <2>3
  <2>5. r - 1 \in Nat /\ r - 1 < n /\ r - 1 <= n /\ ~(r <= r - 1) /\ (r - 1) + 1 = r BY <2>3, <2>4
  <2>6. Along(r - 1) BY <2>2, <2>5
  <2>7. Along((r - 1) + 1) BY <1>3, <2>5, <2>6
  <2>8. QED BY <2>3, <2>5, <2>7
<1> HIDE DEF Along
<1>5. Along(n)
  <2>1. n \in Nat /\ n <= n OBVIOUS
  <2>2. QED BY <1>4, <2>1
<1> USE DEF Along
<1>6. QED BY <1>1, <1>5

\* The table after every row of an upsert, which writes the columns W.
UpsertedAt(f, rows, new, W, i) ==
  IF i = 0 THEN rows ELSE Upsert(f[i - 1], new[i], NoteColumn \in W)
IsUpserted(f, rows, new, W, n) == f = [i \in 0..n |-> UpsertedAt(f, rows, new, W, i)]

\* The recursion of an upsert is defined.
LEMMA UpsertedExists ==
  ASSUME NEW rows, NEW new, NEW W, NEW n \in Nat
  PROVE  \E f : IsUpserted(f, rows, new, W, n)
<1> DEFINE Value(f, i) == UpsertedAt(f, rows, new, W, i)
           T == {m \in Nat : ~ \E f : IsUpserted(f, rows, new, W, m)}
<1>1. SUFFICES ASSUME T # {} PROVE FALSE OBVIOUS
<1>2. PICK m \in T : \A k \in T : m <= k BY <1>1, LeastMember, Zenon
<1>3. CASE m = 0
  <2> DEFINE f == [k \in 0..0 |-> rows]
  <2>1. IsUpserted(f, rows, new, W, 0) BY DEF IsUpserted, UpsertedAt
  <2>2. QED BY <2>1, <1>3
<1>4. CASE m > 0
  <2>1. m - 1 \in Nat /\ m - 1 \notin T BY <1>4, <1>2
  <2>2. PICK g : IsUpserted(g, rows, new, W, m - 1) BY <2>1
  <2> DEFINE f == [k \in 0..m |-> IF k < m THEN g[k] ELSE Value(g, m)]
  <2>3. \A k \in 0..m : f[k] = Value(f, k)
    <3> SUFFICES ASSUME NEW k \in 0..m PROVE f[k] = Value(f, k) OBVIOUS
    <3>1. CASE k = m BY <3>1, <1>4 DEF UpsertedAt
    <3>2. CASE k < m
      <4>1. k \in 0..m - 1 /\ (k # 0 => k - 1 \in 0..m - 1) BY <3>2
      <4>2. g[k] = Value(g, k) BY <2>2, <4>1 DEF IsUpserted
      <4>3. QED BY <4>1, <4>2, <3>2 DEF UpsertedAt
    <3>3. QED BY <3>1, <3>2
  <2>4. IsUpserted(f, rows, new, W, m) BY <2>3 DEF IsUpserted
  <2>5. QED BY <2>4
<1>5. QED BY <1>3, <1>4

AreUpserts(f, rows, new, W, n) ==
  /\ f[0] = rows
  /\ \A i \in 1..n : f[i] = IF KeyOf(new[i]) \in DOMAIN f[i - 1] /\ NoteColumn \notin W THEN f[i - 1]
                            ELSE PutNote(f[i - 1], KeyOf(new[i]), Cell(new[i], NoteColumn))

HasUpserts(rows, new, vendor, conflicts) ==
  \E f : /\ AreUpserts(f, rows, new, DOMAIN new[1] \ conflicts, Len(new))
         /\ ExecuteUpsert(rows, new, vendor, conflicts).rows = f[Len(new)]

\* The table of an upsert.
LEMMA UpsertIs ==
  ASSUME NEW rows, NEW new, NEW vendor, NEW conflicts, Len(new) \in Nat
  PROVE  HasUpserts(rows, new, vendor, conflicts)
<1>1. PICK W : W = DOMAIN new[1] \ conflicts OBVIOUS
<1> DEFINE F(f) == f = [n \in 0..Len(new) |->
                          IF n = 0 THEN rows
                          ELSE Upsert(f[n - 1], new[n], NoteColumn \in DOMAIN new[1] \ conflicts)]
           table == CHOOSE f : F(f)
<1>2. \E f : F(f)
  <2>1. PICK f : IsUpserted(f, rows, new, W, Len(new)) BY UpsertedExists
  <2>2. F(f) BY <1>1, <2>1 DEF IsUpserted, UpsertedAt
  <2>3. QED BY <2>2
<1>3. F(table) BY <1>2
<1>4. ExecuteUpsert(rows, new, vendor, conflicts).rows = table[Len(new)] BY DEF ExecuteUpsert
<1> HIDE DEF table
<1>5. table[0] = rows BY <1>3
<1>6. \A n \in 1..Len(new) : table[n] = Upsert(table[n - 1], new[n], NoteColumn \in W)
  <2> SUFFICES ASSUME NEW n \in 1..Len(new) PROVE table[n] = Upsert(table[n - 1], new[n], NoteColumn \in W) OBVIOUS
  <2>1. n \in 0..Len(new) /\ n # 0 OBVIOUS
  <2>2. QED BY <1>1, <1>3, <2>1
<1>7. AreUpserts(table, rows, new, W, Len(new)) BY <1>5, <1>6 DEF AreUpserts, Upsert
<1>8. QED BY <1>1, <1>4, <1>7 DEF HasUpserts

\* Rows were put into a table, and where their keys were there they have been
\* updated if the statement writes the text column.
Merged(table, rows, new, W, n) ==
  /\ table = [k \in DOMAIN table |-> table[k]]
  /\ DOMAIN table = DOMAIN rows \cup {KeyOf(new[i]) : i \in 1..n}
  /\ \A k \in DOMAIN rows : NoteColumn \notin W \/ k \notin {KeyOf(new[i]) : i \in 1..n} => table[k] = rows[k]
  /\ \A i \in 1..n :
       /\ NoteColumn \notin W /\ KeyOf(new[i]) \notin DOMAIN rows => table[KeyOf(new[i])] = SqlNull
       /\ NoteColumn \in W /\ (\A j \in 1..n : KeyOf(new[j]) = KeyOf(new[i]) => j <= i) =>
            table[KeyOf(new[i])] = Cell(new[i], NoteColumn)

\* One more row, whether its key was there or not.
LEMMA MergedNext ==
  ASSUME NEW n \in Nat, NEW table, NEW rows, NEW new, NEW W, Merged(table, rows, new, W, n),
         NoteColumn \notin W => Cell(new[n + 1], NoteColumn) = SqlNull,
         NEW next, next = IF KeyOf(new[n + 1]) \in DOMAIN table /\ NoteColumn \notin W THEN table
                          ELSE PutNote(table, KeyOf(new[n + 1]), Cell(new[n + 1], NoteColumn))
  PROVE  Merged(next, rows, new, W, n + 1)
<1>1. PICK key : key = KeyOf(new[n + 1]) OBVIOUS
<1>2. PICK note : note = Cell(new[n + 1], NoteColumn) OBVIOUS
<1>3. PICK D : D = DOMAIN table OBVIOUS
<1>4. PICK K : K = {KeyOf(new[i]) : i \in 1..n} OBVIOUS
<1>5. PICK L : L = {KeyOf(new[i]) : i \in 1..n + 1} OBVIOUS
<1>6. 1..n + 1 = 1..n \cup {n + 1} /\ n + 1 \notin 1..n /\ n + 1 \in 1..n + 1 OBVIOUS
<1>7. L = K \cup {key} BY <1>1, <1>4, <1>5, <1>6
<1>8. /\ table = [k \in D |-> table[k]] /\ D = DOMAIN rows \cup K
      /\ \A k \in DOMAIN rows : NoteColumn \notin W \/ k \notin K => table[k] = rows[k]
      /\ \A i \in 1..n :
           /\ NoteColumn \notin W /\ KeyOf(new[i]) \notin DOMAIN rows => table[KeyOf(new[i])] = SqlNull
           /\ NoteColumn \in W /\ (\A j \in 1..n : KeyOf(new[j]) = KeyOf(new[i]) => j <= i) =>
                table[KeyOf(new[i])] = Cell(new[i], NoteColumn)
  BY <1>3, <1>4 DEF Merged
<1>9. CASE key \in D /\ NoteColumn \notin W
  <2>1. next = table BY <1>1, <1>3, <1>9
  <2>2. DOMAIN next = DOMAIN rows \cup L BY <1>3, <1>7, <1>8, <1>9, <2>1
  <2>3. \A k \in DOMAIN rows : next[k] = rows[k] BY <1>8, <1>9, <2>1
  <2>4. ASSUME NEW i \in 1..n + 1, KeyOf(new[i]) \notin DOMAIN rows PROVE next[KeyOf(new[i])] = SqlNull
    <3>1. CASE i \in 1..n BY <1>8, <1>9, <2>1, <2>4, <3>1
    <3>2. CASE i = n + 1
      <4>1. key \in K BY <1>1, <1>8, <1>9, <2>4, <3>2
      <4>2. PICK j \in 1..n : key = KeyOf(new[j]) BY <1>4, <4>1
      <4>3. table[key] = SqlNull BY <1>1, <1>8, <1>9, <2>4, <3>2, <4>2
      <4>4. QED BY <1>1, <2>1, <3>2, <4>3
    <3>3. QED BY <1>6, <3>1, <3>2
  <2>5. next = [k \in DOMAIN next |-> next[k]] BY <1>3, <1>8, <2>1
  <2>6. QED BY <1>5, <1>9, <2>2, <2>3, <2>4, <2>5 DEF Merged
<1>10. CASE ~(key \in D /\ NoteColumn \notin W)
  <2>1. next = PutNote(table, key, note) BY <1>1, <1>2, <1>3, <1>10
  <2>2. next = [k \in D \cup {key} |-> IF k = key THEN note ELSE table[k]] BY <1>3, <2>1 DEF PutNote
  <2>3. DOMAIN next = D \cup {key} /\ next[key] = note /\ \A k \in D : k # key => next[k] = table[k] BY <2>2
  <2>4. DOMAIN next = DOMAIN rows \cup L BY <1>7, <1>8, <2>3
  <2>5. ASSUME NEW k \in DOMAIN rows, NoteColumn \notin W \/ k \notin L PROVE next[k] = rows[k]
    <3>1. k # key BY <1>7, <1>8, <1>10, <2>5
    <3>2. QED BY <1>7, <1>8, <2>3, <2>5, <3>1
  <2>6. ASSUME NEW i \in 1..n + 1, NoteColumn \notin W, KeyOf(new[i]) \notin DOMAIN rows
        PROVE  next[KeyOf(new[i])] = SqlNull
    <3>1. CASE KeyOf(new[i]) = key BY <1>2, <2>3, <2>6, <3>1
    <3>2. CASE KeyOf(new[i]) # key
      <4>1. i \in 1..n BY <1>1, <1>6, <3>2
      <4>2. KeyOf(new[i]) \in D BY <1>4, <1>8, <4>1
      <4>3. QED BY <1>8, <2>3, <2>6, <3>2, <4>1, <4>2
    <3>3. QED BY <3>1, <3>2
  <2>7. ASSUME NEW i \in 1..n + 1, NoteColumn \in W, \A j \in 1..n + 1 : KeyOf(new[j]) = KeyOf(new[i]) => j <= i
        PROVE  next[KeyOf(new[i])] = Cell(new[i], NoteColumn)
    <3>1. CASE i = n + 1 BY <1>1, <1>2, <2>3, <3>1
    <3>2. CASE i \in 1..n
      <4>1. KeyOf(new[i]) # key
        <5>1. ~(n + 1 <= i) BY <3>2
        <5>2. QED BY <1>1, <1>6, <2>7, <5>1
      <4>2. \A j \in 1..n : KeyOf(new[j]) = KeyOf(new[i]) => j <= i BY <1>6, <2>7
      <4>3. KeyOf(new[i]) \in D BY <1>4, <1>8, <3>2
      <4>4. QED BY <1>8, <2>3, <2>7, <3>2, <4>1, <4>2, <4>3
    <3>3. QED BY <1>6, <3>1, <3>2
  <2>8. next = [k \in DOMAIN next |-> next[k]] BY <2>2
  <2>9. QED BY <1>5, <2>4, <2>5, <2>6, <2>7, <2>8 DEF Merged
<1>11. QED BY <1>9, <1>10

\* An upsert has merged every row.
LEMMA UpsertMerges ==
  ASSUME NEW rows, rows = [k \in DOMAIN rows |-> rows[k]],
         NEW n \in Nat, NEW new, n = Len(new), NEW vendor, NEW conflicts, NEW W, W = DOMAIN new[1] \ conflicts,
         NoteColumn \notin W => \A i \in 1..n : Cell(new[i], NoteColumn) = SqlNull
  PROVE  Merged(ExecuteUpsert(rows, new, vendor, conflicts).rows, rows, new, W, n)
<1>1. PICK f : AreUpserts(f, rows, new, W, n) /\ ExecuteUpsert(rows, new, vendor, conflicts).rows = f[n]
  <2>1. HasUpserts(rows, new, vendor, conflicts) BY UpsertIs
  <2>2. QED BY <2>1 DEF HasUpserts
<1> DEFINE Along(i) == Merged(f[i], rows, new, W, i)
           N == {i \in Nat : i <= n /\ ~Along(i)}
<1>2. Along(0)
  <2>1. f[0] = rows BY <1>1 DEF AreUpserts
  <2>2. 1..0 = {} OBVIOUS
  <2>3. {KeyOf(new[i]) : i \in 1..0} = {} BY <2>2
  <2>4. DOMAIN rows = DOMAIN rows \cup {KeyOf(new[i]) : i \in 1..0} BY <2>3
  <2>5. Merged(rows, rows, new, W, 0) BY <2>2, <2>4 DEF Merged
  <2>6. QED BY <2>1, <2>5
<1>3. ASSUME NEW i \in Nat, i < n, Along(i) PROVE Along(i + 1)
  <2>1. PICK table : table = f[i] OBVIOUS
  <2>2. PICK next : next = f[i + 1] OBVIOUS
  <2>3. i + 1 \in 1..n /\ (i + 1) - 1 = i BY <1>3
  <2>4. next = IF KeyOf(new[i + 1]) \in DOMAIN table /\ NoteColumn \notin W THEN table
               ELSE PutNote(table, KeyOf(new[i + 1]), Cell(new[i + 1], NoteColumn))
    BY <1>1, <2>1, <2>2, <2>3 DEF AreUpserts
  <2>5. Merged(table, rows, new, W, i) BY <1>3, <2>1
  <2>6. NoteColumn \notin W => Cell(new[i + 1], NoteColumn) = SqlNull BY <2>3
  <2>7. Merged(next, rows, new, W, i + 1) BY <2>4, <2>5, <2>6, MergedNext
  <2>8. QED BY <2>2, <2>7
<1>4. N = {}
  <2>1. SUFFICES ASSUME N # {} PROVE FALSE OBVIOUS
  <2>2. PICK r \in N : \A j \in N : r <= j BY <2>1, LeastMember, Zenon
  <2>3. r \in Nat /\ r <= n /\ ~Along(r) BY <2>2
  <2>4. r # 0 BY <1>2, <2>3
  <2>5. r - 1 \in Nat /\ r - 1 < n /\ r - 1 <= n /\ ~(r <= r - 1) /\ (r - 1) + 1 = r BY <2>3, <2>4
  <2>6. Along(r - 1) BY <2>2, <2>5
  <2>7. Along((r - 1) + 1) BY <1>3, <2>5, <2>6
  <2>8. QED BY <2>3, <2>5, <2>7
<1> HIDE DEF Along
<1>5. Along(n)
  <2>1. n \in Nat /\ n <= n OBVIOUS
  <2>2. QED BY <1>4, <2>1
<1> USE DEF Along
<1>6. QED BY <1>1, <1>5

\* The row that counts for a key.
Counts(row, key, plan, n) ==
  \E i \in 1..n : /\ row = plan[i] /\ KeyOf(plan[i]) = key
                  /\ policy = "upsert" => \A j \in 1..n : KeyOf(plan[j]) = key => j <= i

\* The first or the last of the rows with a key.
LEMMA RowForCounts ==
  ASSUME NEW n \in Nat, NEW plan, plan = IntendedRows, DOMAIN plan = 1..n, NEW key \in IntendedKeys
  PROVE  Counts(RowFor(key), key, plan, n)
<1>1. PICK places : places = {r \in 1..n : KeyOf(plan[r]) = key} OBVIOUS
<1>2. RowFor(key) = plan[IF policy = "upsert" THEN Max(places) ELSE Min(places)] BY <1>1 DEF RowFor
<1>3. \E r \in 1..n : KeyOf(plan[r]) = key BY DEF IntendedKeys, Entries
<1>4. places \subseteq 1..n /\ places # {} BY <1>1, <1>3
<1>5. /\ Min(places) \in places
      /\ Max(places) \in places /\ \A t \in places : t <= Max(places)
  BY <1>4, MinAndMax
<1>6. CASE policy = "upsert"
  <2>1. PICK i : i = Max(places) OBVIOUS
  <2>2. i \in 1..n /\ KeyOf(plan[i]) = key /\ \A j \in 1..n : KeyOf(plan[j]) = key => j <= i BY <1>1, <1>5, <2>1
  <2>3. QED BY <1>2, <1>6, <2>1, <2>2 DEF Counts
<1>7. CASE policy # "upsert"
  <2>1. PICK i : i = Min(places) OBVIOUS
  <2>2. i \in 1..n /\ KeyOf(plan[i]) = key BY <1>1, <1>5, <2>1
  <2>3. QED BY <1>2, <1>7, <2>1, <2>2 DEF Counts
<1>8. QED BY <1>6, <1>7

\* A batch that is done has put the rows of the file into the table.
LEMMA FilledIsIntended ==
  ASSUME NEW n \in Nat, NEW plan, plan = IntendedRows, DOMAIN plan = 1..n,
         NEW before, NEW table, Filled(table, before, plan, n)
  PROVE  table = IntendedTable(before)
<1>1. PICK K : K = IntendedKeys OBVIOUS
<1>2. K = {KeyOf(plan[i]) : i \in 1..n} BY <1>1 DEF IntendedKeys, Entries
<1>3. PICK D : D = DOMAIN before OBVIOUS
<1>4. PICK T : T = Targets(mappings) OBVIOUS
<1>5. IntendedTable(before) =
        [key \in D \cup K |-> IF key \in D /\ (key \notin K \/ policy = "ignore" \/ NoteColumn \notin T)
                              THEN before[key] ELSE Cell(RowFor(key), NoteColumn)]
  BY <1>1, <1>3, <1>4 DEF IntendedTable
<1>6. /\ table = [k \in D \cup K |-> table[k]]
      /\ \A i \in 1..n : KeyOf(plan[i]) \notin D /\ table[KeyOf(plan[i])] = Cell(plan[i], NoteColumn)
      /\ \A i, j \in 1..n : KeyOf(plan[i]) = KeyOf(plan[j]) => i = j
      /\ \A k \in D : table[k] = before[k]
  BY <1>2, <1>3 DEF Filled
<1>7. ASSUME NEW key \in D \cup K
      PROVE  table[key] = IF key \in D /\ (key \notin K \/ policy = "ignore" \/ NoteColumn \notin T)
                          THEN before[key] ELSE Cell(RowFor(key), NoteColumn)
  <2>1. key \in D => key \notin K BY <1>2, <1>6
  <2>2. CASE key \in D BY <1>6, <2>1, <2>2
  <2>3. CASE key \in K
    <3>1. Counts(RowFor(key), key, plan, n) BY <1>1, <2>3, RowForCounts
    <3>2. PICK i \in 1..n : RowFor(key) = plan[i] /\ KeyOf(plan[i]) = key BY <3>1 DEF Counts
    <3>3. QED BY <1>6, <2>1, <2>3, <3>2
  <2>4. QED BY <2>2, <2>3
<1>8. QED BY <1>5, <1>6, <1>7

\* So has an upsert.
LEMMA MergedIsIntended ==
  ASSUME NEW n \in Nat, NEW plan, plan = IntendedRows, DOMAIN plan = 1..n, policy = "upsert",
         NEW before, NEW table, Merged(table, before, plan, Targets(mappings) \ {KeyColumn}, n),
         NoteColumn \notin Targets(mappings) => \A i \in 1..n : Cell(plan[i], NoteColumn) = SqlNull
  PROVE  table = IntendedTable(before)
<1>1. PICK K : K = IntendedKeys OBVIOUS
<1>2. K = {KeyOf(plan[i]) : i \in 1..n} BY <1>1 DEF IntendedKeys, Entries
<1>3. PICK D : D = DOMAIN before OBVIOUS
<1>4. PICK T : T = Targets(mappings) OBVIOUS
<1>5. IntendedTable(before) =
        [key \in D \cup K |-> IF key \in D /\ (key \notin K \/ policy = "ignore" \/ NoteColumn \notin T)
                              THEN before[key] ELSE Cell(RowFor(key), NoteColumn)]
  BY <1>1, <1>3, <1>4 DEF IntendedTable
<1>6. NoteColumn \in T <=> NoteColumn \in T \ {KeyColumn} BY DEF NoteColumn, KeyColumn
<1>7. /\ table = [k \in D \cup K |-> table[k]]
      /\ \A k \in D : NoteColumn \notin T \/ k \notin K => table[k] = before[k]
      /\ \A i \in 1..n :
           /\ NoteColumn \notin T /\ KeyOf(plan[i]) \notin D => table[KeyOf(plan[i])] = SqlNull
           /\ NoteColumn \in T /\ (\A j \in 1..n : KeyOf(plan[j]) = KeyOf(plan[i]) => j <= i) =>
                table[KeyOf(plan[i])] = Cell(plan[i], NoteColumn)
  BY <1>2, <1>3, <1>4, <1>6 DEF Merged
<1>8. ASSUME NEW key \in D \cup K
      PROVE  table[key] = IF key \in D /\ (key \notin K \/ policy = "ignore" \/ NoteColumn \notin T)
                          THEN before[key] ELSE Cell(RowFor(key), NoteColumn)
  <2>1. CASE key \in D /\ (key \notin K \/ NoteColumn \notin T) BY <1>7, <2>1
  <2>2. CASE ~(key \in D /\ (key \notin K \/ NoteColumn \notin T))
    <3>1. key \in K BY <2>2
    <3>2. Counts(RowFor(key), key, plan, n) BY <1>1, <3>1, RowForCounts
    <3>3. PICK i \in 1..n : /\ RowFor(key) = plan[i] /\ KeyOf(plan[i]) = key
                            /\ \A j \in 1..n : KeyOf(plan[j]) = key => j <= i
      BY <3>2 DEF Counts
    <3>4. table[key] = Cell(plan[i], NoteColumn)
      <4>1. CASE NoteColumn \in T BY <1>7, <3>3, <4>1
      <4>2. CASE NoteColumn \notin T
        <5>1. key \notin D BY <2>2, <3>1, <4>2
        <5>2. table[key] = SqlNull BY <1>7, <3>3, <4>2, <5>1
        <5>3. Cell(plan[i], NoteColumn) = SqlNull BY <1>4, <4>2
        <5>4. QED BY <5>2, <5>3
      <4>3. QED BY <4>1, <4>2
    <3>5. ~(key \in D /\ (key \notin K \/ policy = "ignore" \/ NoteColumn \notin T)) BY <2>2
    <3>6. QED BY <3>3, <3>4, <3>5
  <2>3. QED BY <2>1, <2>2
<1>9. QED BY <1>5, <1>7, <1>8

\* What the database answers to a plan.
ImportAnswer(plan) == IF policy = "upsert" THEN ExecuteUpsert(stored, plan, engine, conflictColumns)
                ELSE ExecuteBatch(stored, plan, engine, policy)

\* A plan that the database has carried out has made the table that is meant.
LEMMA AnswerIsIntended ==
  ASSUME stored \in Contents, policy \in {"error", "ignore", "upsert"},
         NEW n \in Nat, NEW plan, plan = IntendedRows, DOMAIN plan = 1..n, plan # <<>>,
         \A r \in 1..n : DOMAIN plan[r] = Targets(mappings), Len(plan) = n,
         ImportAnswer(plan).ok, ~Warned,
         policy = "ignore" => \A key \in IntendedKeys : key # SqlNull /\ IsInteger(key)
  PROVE  /\ ImportAnswer(plan).rows = IntendedTable(stored)
         /\ policy = "error" =>
              Cardinality(DOMAIN ImportAnswer(plan).rows) = Cardinality(DOMAIN stored) + Len(IntendedRows)
<1>1. PICK rows : rows = stored OBVIOUS
<1>2. IsFiniteSet(DOMAIN rows) /\ rows = [k \in DOMAIN rows |-> rows[k]] BY <1>1, CsvTransferAssumption
<1>3. CASE policy = "upsert"
  <2>1. conflictColumns = {KeyColumn} BY <1>3 DEF Warned
  <2>2. PICK table : table = ExecuteUpsert(rows, plan, engine, {KeyColumn}).rows OBVIOUS
  <2>3. ImportAnswer(plan).rows = table BY <1>1, <1>3, <2>1, <2>2 DEF ImportAnswer
  <2>4. PICK T : T = Targets(mappings) OBVIOUS
  <2>5. 1 \in 1..n
    <3>1. n # 0
      <4>1. SUFFICES ASSUME n = 0 PROVE FALSE OBVIOUS
      <4>2. 1..0 = {} OBVIOUS
      <4>3. DOMAIN plan = {} BY <4>1, <4>2
      <4>4. plan = [r \in 1..Len(FileRows) |-> plan[r]] \/ plan = [r \in DOMAIN FileRows |-> plan[r]]
        BY DEF IntendedRows
      <4>5. plan = <<>> BY <4>3, <4>4
      <4>6. QED BY <4>5
    <3>2. QED BY <3>1
  <2>6. DOMAIN plan[1] \ {KeyColumn} = T \ {KeyColumn} BY <2>4, <2>5
  <2>7. NoteColumn \notin T => \A i \in 1..n : Cell(plan[i], NoteColumn) = SqlNull BY <2>4 DEF Cell
  <2>8. NoteColumn \notin T \ {KeyColumn} => NoteColumn \notin T BY DEF NoteColumn, KeyColumn
  <2>9. PICK W : W = T \ {KeyColumn} OBVIOUS
  <2>10. Merged(table, rows, plan, W, n) BY <1>2, <2>2, <2>6, <2>7, <2>8, <2>9, UpsertMerges
  <2>11. table = IntendedTable(rows) BY <1>3, <2>4, <2>7, <2>9, <2>10, MergedIsIntended
  <2>12. QED BY <1>1, <1>3, <2>3, <2>11
<1>4. CASE policy \in {"error", "ignore"}
  <2>1. PICK given : given = policy OBVIOUS
  <2>2. PICK table : table = ExecuteBatch(rows, plan, engine, given).rows OBVIOUS
  <2>3. ImportAnswer(plan).rows = table /\ ExecuteBatch(rows, plan, engine, given).ok
    BY <1>1, <1>4, <2>1, <2>2 DEF ImportAnswer
  <2>4. given = "ignore" => \A i \in 1..n : KeyIsValid(plan[i])
    <3>1. \A i \in 1..n : KeyOf(plan[i]) \in IntendedKeys BY DEF IntendedKeys, Entries
    <3>2. QED BY <2>1, <3>1 DEF KeyIsValid
  <2>5. Filled(table, rows, plan, n) BY <1>2, <1>4, <2>1, <2>2, <2>3, <2>4, BatchFills
  <2>6. table = IntendedTable(rows) BY <2>5, FilledIsIntended
  <2>7. Cardinality(DOMAIN table) = Cardinality(DOMAIN rows) + n BY <2>5 DEF Filled
  <2>8. QED BY <1>1, <2>3, <2>6, <2>7
<1>5. QED BY <1>3, <1>4

-----------------------------------------------------------------------------
(* The dialog.                                                             *)

\* What is known of the dialog: what was read is what the chosen file reads as,
\* and there is a mapping for every header.
DialogInv ==
  /\ policy \in {"error", "ignore", "upsert"}
  /\ imported = NoImport => stored \in Contents
  /\ \/ file = NoFile /\ parsed = NothingRead
     \/ file \in Files /\ parsed = ReadFile(file)
  /\ MappingsFit(mappings, parsed.headers)

\* A file that was chosen is there, and has names.
LEMMA FileIsChosen ==
  ASSUME file \in Files
  PROVE  file # NoFile /\ Len(Names) \in Nat /\ DOMAIN Names = 1..Len(Names)
<1>1. PICK n \in Nat : n = Len(file.columns) /\ n > 0
  <2>1. file.columns \in Seq(Seq(FileSymbols)) /\ Len(file.columns) > 0 BY FileFacts, Zenon
  <2>2. Len(file.columns) \in Nat BY <2>1
  <2>3. QED BY <2>1, <2>2
<1>2. DOMAIN Names = 1..n /\ Len(Names) = n BY <1>1, NamesAre
<1>3. file # NoFile
  <2>1. SUFFICES ASSUME file = NoFile PROVE FALSE OBVIOUS
  <2>2. file.columns = <<>> BY <2>1 DEF NoFile
  <2>3. QED BY <1>1, <2>2
<1>4. QED BY <1>1, <1>2, <1>3

\* What is read of a file is what the property says.
LEMMA ReadBackIsEnough ==
  ASSUME file \in Files, parsed = ReadFile(file)
  PROVE  FileReadsBack
<1>1. PICK read : read = parsed OBVIOUS
<1>2. ReadBack(read) BY <1>1, FileIsReadBack
<1>3. SUFFICES ASSUME file.rows # <<>>, Distinct(Names)
               PROVE  /\ read.ok /\ read.headers = Names
                      /\ [r \in DOMAIN read.rows |-> [h \in DOMAIN read.headers |-> ImportValueSql(read.rows[r][h])]]
                         = FileRows
  BY <1>1 DEF FileReadsBack
<1>4. read.ok /\ read.headers = Names BY <1>2, <1>3 DEF ReadBack
<1>5. PICK n \in Nat : n = Len(Names) /\ DOMAIN Names = 1..n BY FileIsChosen, Zenon
<1>6. PICK lines : lines = read.rows OBVIOUS
<1>7. PICK kept : kept = FileRows OBVIOUS
<1>8. /\ lines \in Seq(Seq(Seq(FileSymbols))) /\ kept \in Seq(Seq(CellMeanings)) /\ Len(lines) = Len(kept)
      /\ \A r \in 1..Len(kept) : Len(kept[r]) = n /\ \A h \in 1..n : kept[r][h] = ImportValueSql(lines[r][h])
  BY <1>2, <1>4, <1>5, <1>6, <1>7 DEF ReadBack
<1>9. PICK X : X = Seq(CellMeanings) OBVIOUS
<1>10. PICK l \in Nat : l = Len(kept) /\ DOMAIN kept = 1..l /\ DOMAIN lines = 1..l BY <1>8
<1>11. kept = [r \in 1..l |-> kept[r]]
  <2>1. kept \in Seq(X) /\ Len(kept) = l BY <1>8, <1>9, <1>10
  <2>2. QED BY <2>1
<1>12. \A r \in 1..l : [h \in 1..n |-> ImportValueSql(lines[r][h])] = kept[r]
  <2> SUFFICES ASSUME NEW r \in 1..l PROVE [h \in 1..n |-> ImportValueSql(lines[r][h])] = kept[r] OBVIOUS
  <2>1. PICK row \in Seq(CellMeanings) : row = kept[r] BY <1>8, <1>10
  <2>2. row = [h \in 1..n |-> row[h]] BY <1>8, <1>10, <2>1
  <2>3. \A h \in 1..n : row[h] = ImportValueSql(lines[r][h]) BY <1>8, <1>10, <2>1
  <2>4. QED BY <2>1, <2>2, <2>3
<1>13. [r \in DOMAIN lines |-> [h \in 1..n |-> ImportValueSql(lines[r][h])]] = kept BY <1>10, <1>11, <1>12
<1>14. QED BY <1>4, <1>5, <1>6, <1>7, <1>13

\* Before a file is chosen there is nothing to be read back.
LEMMA NothingIsReadBack ==
  ASSUME file = NoFile
  PROVE  FileReadsBack
BY DEF FileReadsBack, NoFile

\* The dialog shows the file as it was written.
LEMMA DialogReadsBack ==
  ASSUME DialogInv
  PROVE  FileReadsBack
BY ReadBackIsEnough, NothingIsReadBack DEF DialogInv

\* Without a file nothing is included, and there is no plan.
LEMMA PlanNeedsFile ==
  ASSUME DialogInv, BuildCsvImportPlan(parsed, mappings, engine, policy, conflictColumns) # <<>>
  PROVE  file \in Files /\ parsed = ReadFile(file)
<1>1. parsed.ok BY PlanIsMade
<1>2. parsed # NothingRead BY <1>1 DEF NothingRead
<1>3. QED BY <1>2 DEF DialogInv

\* An import that is done has done what the dialog says.
LEMMA ImportIsIntended ==
  ASSUME DialogInv, imported = NoImport, NEW plan,
         plan = BuildCsvImportPlan(parsed, mappings, engine, policy, conflictColumns), plan # <<>>,
         ImportAnswer(plan).ok, ~Warned, policy = "ignore" => \A key \in IntendedKeys : key # SqlNull /\ IsInteger(key)
  PROVE  /\ ImportAnswer(plan).rows = IntendedTable(stored)
         /\ policy = "error" =>
              Cardinality(DOMAIN ImportAnswer(plan).rows) = Cardinality(DOMAIN stored) + Len(IntendedRows)
<1>1. file \in Files /\ parsed = ReadFile(file) BY PlanNeedsFile
<1>2. ReadBack(parsed) BY <1>1, FileIsReadBack
<1>3. Len(Names) \in Nat /\ DOMAIN Names = 1..Len(Names) BY <1>1, FileIsChosen
<1>4. MappingsFit(mappings, parsed.headers) BY DEF DialogInv
<1>5. /\ plan = IntendedRows
      /\ Len(FileRows) \in Nat /\ DOMAIN plan = 1..Len(FileRows)
      /\ \A r \in 1..Len(FileRows) : DOMAIN plan[r] = Targets(mappings)
  BY <1>2, <1>3, <1>4, PlanIsIntended
<1>6. PICK n \in Nat : n = Len(FileRows) BY <1>5
<1>7. Len(plan) = n BY <1>5, <1>6
<1>8. stored \in Contents /\ policy \in {"error", "ignore", "upsert"} BY DEF DialogInv
<1>9. QED BY <1>5, <1>6, <1>7, <1>8, AnswerIsIntended

\* The mappings a file begins with.
LEMMA DefaultsFit ==
  ASSUME NEW headers
  PROVE  MappingsFit(DefaultCsvImportMappings(headers), headers)
<1>1. PICK maps : maps = DefaultCsvImportMappings(headers) OBVIOUS
<1>2. DOMAIN maps = DOMAIN headers /\ maps = [h \in DOMAIN headers |-> maps[h]]
  BY <1>1 DEF DefaultCsvImportMappings
<1>3. \A h \in DOMAIN headers : "name" \in DOMAIN maps[h] /\ maps[h].name = headers[h]
  BY <1>1 DEF DefaultCsvImportMappings
<1>4. QED BY <1>1, <1>2, <1>3 DEF MappingsFit

\* A mapping that is edited keeps its name.
LEMMA EditFits ==
  ASSUME NEW maps, NEW headers, MappingsFit(maps, headers), NEW h \in DOMAIN maps,
         NEW m, "name" \in DOMAIN m, m.name = maps[h].name
  PROVE  MappingsFit([maps EXCEPT ![h] = m], headers)
<1>1. PICK next : next = [maps EXCEPT ![h] = m] OBVIOUS
<1>2. PICK D : D = DOMAIN headers OBVIOUS
<1>3. maps = [x \in D |-> maps[x]] /\ \A x \in D : "name" \in DOMAIN maps[x] /\ maps[x].name = headers[x]
  BY <1>2 DEF MappingsFit
<1>4. DOMAIN maps = D BY <1>3
<1>5. next = [x \in D |-> next[x]] /\ next[h] = m /\ \A x \in D : x # h => next[x] = maps[x] BY <1>1, <1>4
<1>6. \A x \in D : "name" \in DOMAIN next[x] /\ next[x].name = headers[x] BY <1>3, <1>4, <1>5
<1>7. QED BY <1>1, <1>2, <1>5, <1>6 DEF MappingsFit

\* So does every edit of a mapping.
LEMMA EditMappingFits ==
  ASSUME MappingsFit(mappings, parsed.headers), EditMapping
  PROVE  MappingsFit(mappings', parsed.headers)
<1>1. PICK h \in DOMAIN mappings :
        LET m == mappings[h]
        IN  \/ UpdateMapping(h, [m EXCEPT !.include = ~@])
            \/ m.include /\ \E type \in {"text", "integer"} : UpdateMapping(h, [m EXCEPT !.type = type])
            \/ m.include /\ UpdateMapping(h, [m EXCEPT !.target = NoTarget, !.include = FALSE])
            \/ /\ m.include
               /\ \E column \in TableColumns :
                    UpdateMapping(h, [m EXCEPT !.target = column, !.type = InferImportType(column)])
  BY DEF EditMapping
<1>2. PICK m : m = mappings[h] OBVIOUS
<1>3. "name" \in DOMAIN m
  <2>1. DOMAIN mappings = DOMAIN parsed.headers BY DEF MappingsFit
  <2>2. QED BY <1>2, <2>1 DEF MappingsFit
<1>4. ASSUME NEW next, "name" \in DOMAIN next, next.name = m.name, UpdateMapping(h, next)
      PROVE  MappingsFit(mappings', parsed.headers)
  BY <1>2, <1>4, EditFits DEF UpdateMapping
<1>5. CASE UpdateMapping(h, [m EXCEPT !.include = ~@])
  <2>1. PICK next : next = [m EXCEPT !.include = ~@] OBVIOUS
  <2>2. "name" \in DOMAIN next /\ next.name = m.name BY Zenon, <1>3, <2>1
  <2>3. QED BY <1>4, <1>5, <2>1, <2>2
<1>6. ASSUME NEW type, UpdateMapping(h, [m EXCEPT !.type = type]) PROVE MappingsFit(mappings', parsed.headers)
  <2>1. PICK next : next = [m EXCEPT !.type = type] OBVIOUS
  <2>2. "name" \in DOMAIN next /\ next.name = m.name BY <1>3, <2>1
  <2>3. QED BY <1>4, <1>6, <2>1, <2>2
<1>7. CASE UpdateMapping(h, [m EXCEPT !.target = NoTarget, !.include = FALSE])
  <2>1. PICK next : next = [m EXCEPT !.target = NoTarget, !.include = FALSE] OBVIOUS
  <2>2. "name" \in DOMAIN next /\ next.name = m.name BY <1>3, <2>1
  <2>3. QED BY <1>4, <1>7, <2>1, <2>2
<1>8. ASSUME NEW column, UpdateMapping(h, [m EXCEPT !.target = column, !.type = InferImportType(column)])
      PROVE  MappingsFit(mappings', parsed.headers)
  <2>1. PICK next : next = [m EXCEPT !.target = column, !.type = InferImportType(column)] OBVIOUS
  <2>2. "name" \in DOMAIN next /\ next.name = m.name BY <1>3, <2>1
  <2>3. QED BY <1>4, <1>8, <2>1, <2>2
<1>9. QED BY Zenon, <1>1, <1>2, <1>5, <1>6, <1>7, <1>8

\* The dialog when it is opened.
LEMMA DialogInit ==
  ASSUME CsvInit
  PROVE  DialogInv /\ PolicyIsKept
<1>1. MappingsFit(mappings, parsed.headers)
  <2>1. parsed.headers = <<>> /\ mappings = <<>> BY DEF CsvInit, NothingRead
  <2>2. QED BY <2>1 DEF MappingsFit
<1>2. policy = "error" /\ stored \in Contents /\ file = NoFile /\ parsed = NothingRead /\ imported = NoImport
  BY DEF CsvInit
<1>3. DialogInv
  <2>1. policy \in {"error", "ignore", "upsert"} BY <1>2
  <2>2. imported = NoImport => stored \in Contents BY <1>2
  <2>3. \/ file = NoFile /\ parsed = NothingRead
        \/ file \in Files /\ parsed = ReadFile(file)
    BY Zenon, <1>2
  <2>4. QED BY Zenon, <1>1, <2>1, <2>2, <2>3 DEF DialogInv
<1>4. PolicyIsKept BY <1>2 DEF PolicyIsKept
<1>5. QED BY <1>3, <1>4

\* Every step of the dialog keeps what is known of it, and what it says.
LEMMA DialogNext ==
  ASSUME DialogInv, PolicyIsKept, [CsvNext]_csvVars
  PROVE  DialogInv' /\ PolicyIsKept'
<1>1. CASE HandleFile
  <2>1. PICK f \in Files : /\ file' = f /\ parsed' = ReadFile(f)
                           /\ mappings' = DefaultCsvImportMappings(parsed'.headers)
    BY <1>1 DEF HandleFile, ReadFile
  <2>2. MappingsFit(mappings', parsed'.headers) BY <2>1, DefaultsFit
  <2>3. stored' = stored /\ imported' = imported /\ imported = NoImport /\ policy' = policy
    BY <1>1 DEF HandleFile, Choice, settled
  <2>4. DialogInv' BY <2>1, <2>2, <2>3 DEF DialogInv
  <2>5. PolicyIsKept' BY <2>3 DEF PolicyIsKept
  <2>6. QED BY <2>4, <2>5
<1>2. CASE SelectPolicy
  <2>1. /\ stored' = stored /\ imported' = imported /\ imported = NoImport /\ file' = file /\ parsed' = parsed
        /\ mappings' = mappings /\ policy' \in {"error", "ignore", "upsert"}
    BY <1>2 DEF SelectPolicy, Choice, settled
  <2>2. DialogInv' BY <2>1 DEF DialogInv
  <2>3. PolicyIsKept' BY <2>1 DEF PolicyIsKept
  <2>4. QED BY <2>2, <2>3
<1>3. CASE ToggleConflictColumn
  <2>1. /\ stored' = stored /\ imported' = imported /\ imported = NoImport /\ file' = file /\ parsed' = parsed
        /\ mappings' = mappings /\ policy' = policy
    BY <1>3 DEF ToggleConflictColumn, Choice, settled
  <2>2. DialogInv' BY <2>1 DEF DialogInv
  <2>3. PolicyIsKept' BY <2>1 DEF PolicyIsKept
  <2>4. QED BY <2>2, <2>3
<1>4. CASE EditMapping
  <2>1. /\ stored' = stored /\ imported' = imported /\ imported = NoImport /\ file' = file /\ parsed' = parsed
        /\ policy' = policy
    BY <1>4 DEF EditMapping, UpdateMapping, Choice, settled
  <2>2. MappingsFit(mappings', parsed'.headers) BY <1>4, <2>1, EditMappingFits DEF DialogInv
  <2>3. DialogInv' BY <2>1, <2>2 DEF DialogInv
  <2>4. PolicyIsKept' BY <2>1 DEF PolicyIsKept
  <2>5. QED BY <2>3, <2>4
<1>5. CASE ImportCsv
  <2>1. PICK plan : plan = BuildCsvImportPlan(parsed, mappings, engine, policy, conflictColumns) OBVIOUS
  <2>2. PICK answer : answer = ImportAnswer(plan) OBVIOUS
  <2>3. /\ imported = NoImport /\ ~blocked /\ plan # <<>>
        /\ imported' = [before |-> stored, ok |-> answer.ok]
        /\ stored' = IF answer.ok THEN answer.rows ELSE stored
        /\ engine' = engine /\ blocked' = blocked /\ file' = file /\ parsed' = parsed /\ mappings' = mappings
        /\ policy' = policy /\ conflictColumns' = conflictColumns
    BY <1>5, <2>1, <2>2 DEF ImportCsv, ImportAnswer
  <2>4. imported'.before = stored /\ (imported'.ok <=> answer.ok) /\ imported' # NoImport
    BY <2>3 DEF NoImport
  <2>5. DialogInv' BY <2>3, <2>4 DEF DialogInv
  <2>6. PICK before : before = stored BY Zenon
  <2>7. (Warned <=> Warned') /\ IntendedKeys' = IntendedKeys /\ IntendedRows' = IntendedRows
        /\ IntendedTable(before)' = IntendedTable(before)
    BY <2>3 DEF Warned, IntendedKeys, IntendedRows, IntendedTable, RowFor, FileRows, Intended, Protected, KeptRow
  <2>8. ASSUME answer.ok, ~Warned, policy = "ignore" => \A key \in IntendedKeys : key # SqlNull /\ IsInteger(key)
        PROVE  /\ stored' = IntendedTable(stored)
               /\ policy = "error" => Cardinality(DOMAIN stored') = Cardinality(DOMAIN stored) + Len(IntendedRows)
    BY <2>1, <2>2, <2>3, <2>8, ImportIsIntended
  <2>9. PolicyIsKept' BY <2>3, <2>4, <2>6, <2>7, <2>8 DEF PolicyIsKept
  <2>10. QED BY <2>5, <2>9
<1>6. CASE UNCHANGED csvVars
  <2>1. /\ stored' = stored /\ imported' = imported /\ file' = file /\ parsed' = parsed /\ blocked' = blocked
        /\ mappings' = mappings /\ policy' = policy /\ conflictColumns' = conflictColumns
    BY <1>6 DEF csvVars
  <2>2. DialogInv' BY <2>1 DEF DialogInv
  <2>3. PICK before : before = imported.before BY Zenon
  <2>4. (Warned <=> Warned') /\ IntendedKeys' = IntendedKeys /\ IntendedRows' = IntendedRows
        /\ IntendedTable(before)' = IntendedTable(before)
    BY <2>1 DEF Warned, IntendedKeys, IntendedRows, IntendedTable, RowFor, FileRows, Intended, Protected, KeptRow
  <2>5. PolicyIsKept' BY <2>1, <2>3, <2>4 DEF PolicyIsKept
  <2>6. QED BY <2>2, <2>5
<1>7. QED BY <1>1, <1>2, <1>3, <1>4, <1>5, <1>6 DEF CsvNext

\* A file comes into the table as it was written and as the dialog says: every
\* file of the export or of another program, whatever is in its cells, any
\* mappings and policies and any rows of the table (csvExport.ts, csvImport.ts,
\* the import dialog of App.tsx and the drivers' batches).
THEOREM ImportDoesWhatItSaysHolds == CsvSpec => []ImportDoesWhatItSays
<1>1. CsvInit => DialogInv /\ PolicyIsKept BY DialogInit
<1>2. (DialogInv /\ PolicyIsKept) /\ [CsvNext]_csvVars => (DialogInv /\ PolicyIsKept)' BY DialogNext
<1>3. DialogInv /\ PolicyIsKept => ImportDoesWhatItSays BY DialogReadsBack DEF ImportDoesWhatItSays
<1>4. QED BY <1>1, <1>2, <1>3, PTL DEF CsvSpec

-----------------------------------------------------------------------------
(* Schemas, and what a statement makes of them.                            *)

\* A statement that is about named things.
IsStatement(s) ==
  /\ s.on \in Nat /\ s.name \in Nat
  /\ s.do = "createTable" => AreColumns(s.def.columns)
  /\ s.do \in {"renameColumn", "renameIndex"} => s.def.to \in Nat

\* A part put among others.
LEMMA WithIs ==
  ASSUME NEW f, NEW x, NEW v
  PROVE  /\ DOMAIN With(f, x, v) = DOMAIN f \cup {x}
         /\ With(f, x, v)[x] = v
         /\ \A y \in DOMAIN f : y # x => With(f, x, v)[y] = f[y]
BY DEF With

\* A part taken from others.
LEMMA WithoutIs ==
  ASSUME NEW f, NEW x
  PROVE  /\ DOMAIN Without(f, x) = DOMAIN f \ {x}
         /\ \A y \in DOMAIN f : y # x => Without(f, x)[y] = f[y]
BY DEF Without

\* Parts with one more are parts.
LEMMA PartsWith ==
  ASSUME NEW f, IsParts(f), NEW x \in Nat, NEW v
  PROVE  IsParts(With(f, x, v))
<1>1. IsFiniteSet(DOMAIN f \cup {x}) BY FS_AddElement DEF IsParts
<1>2. QED BY <1>1 DEF IsParts, With

\* Parts with one less are parts.
LEMMA PartsWithout ==
  ASSUME NEW f, IsParts(f), NEW x
  PROVE  IsParts(Without(f, x))
<1>1. IsFiniteSet(DOMAIN f \ {x}) BY FS_Subset DEF IsParts
<1>2. QED BY <1>1 DEF IsParts, Without

\* What has names of its own, finitely many, is parts.
LEMMA PartsOver ==
  ASSUME NEW f, NEW S \in SUBSET Nat, IsFiniteSet(S), f = [x \in S |-> f[x]]
  PROVE  IsParts(f)
BY DEF IsParts

\* No parts are parts.
LEMMA NothingIsParts == IsParts(NoParts) /\ DOMAIN NoParts = {}
BY FS_EmptySet DEF IsParts, NoParts

\* Columns with one more, or one redefined, are columns.
LEMMA ColumnsWith ==
  ASSUME NEW columns, AreColumns(columns), NEW c \in Nat, NEW type, NEW nullable, NEW key \in BOOLEAN
  PROVE  AreColumns(With(columns, c, Column(type, nullable, key)))
<1>1. PICK new : new = With(columns, c, Column(type, nullable, key)) OBVIOUS
<1>2. IsParts(new) BY <1>1, PartsWith DEF AreColumns
<1>3. DOMAIN new = DOMAIN columns \cup {c} /\ new[c] = Column(type, nullable, key)
      /\ \A d \in DOMAIN columns : d # c => new[d] = columns[d]
  BY <1>1 DEF With
<1>4. ASSUME NEW d \in DOMAIN new
      PROVE  new[d] = Column(new[d].type, new[d].nullable, new[d].key) /\ new[d].key \in BOOLEAN
  <2>1. CASE d = c BY <1>3, <2>1 DEF Column
  <2>2. CASE d # c BY <1>3, <2>2 DEF AreColumns
  <2>3. QED BY <2>1, <2>2
<1>5. QED BY <1>1, <1>2, <1>4 DEF AreColumns

\* Columns some of which are the columns of another table.
LEMMA ColumnsFrom ==
  ASSUME NEW columns, AreColumns(columns), NEW new, IsParts(new),
         \A d \in DOMAIN new : \E c \in DOMAIN columns : new[d] = columns[c]
  PROVE  AreColumns(new)
BY DEF AreColumns

\* A table is made of columns, indexes and keys.
LEMMA TableFields ==
  ASSUME NEW columns, AreColumns(columns), NEW indexes, IsParts(indexes), NEW keys, IsParts(keys)
  PROVE  IsTableOf([columns |-> columns, indexes |-> indexes, keys |-> keys])
BY DEF IsTableOf

\* A schema with one more table, or one replaced, is a schema.
LEMMA SchemaWithTable ==
  ASSUME NEW db, IsSchema(db), NEW t \in Nat, NEW table, IsTableOf(table)
  PROVE  IsSchema([db EXCEPT !.tables = With(@, t, table)])
<1>1. PICK new : new = With(db.tables, t, table) OBVIOUS
<1>2. IsParts(new) BY <1>1, PartsWith DEF IsSchema
<1>3. ASSUME NEW r \in DOMAIN new PROVE IsTableOf(new[r])
  <2>1. r \in DOMAIN db.tables \cup {t} /\ new[r] = IF r = t THEN table ELSE db.tables[r] BY <1>1 DEF With
  <2>2. QED BY <2>1 DEF IsSchema
<1>4. [db EXCEPT !.tables = With(@, t, table)] = [tables |-> new, views |-> db.views] BY <1>1 DEF IsSchema
<1>5. QED BY <1>2, <1>3, <1>4 DEF IsSchema

\* A schema without one of its tables is a schema.
LEMMA SchemaWithoutTable ==
  ASSUME NEW db, IsSchema(db), NEW t
  PROVE  IsSchema([db EXCEPT !.tables = Without(@, t)])
<1>1. PICK new : new = Without(db.tables, t) OBVIOUS
<1>2. IsParts(new) BY <1>1, PartsWithout DEF IsSchema
<1>3. ASSUME NEW r \in DOMAIN new PROVE IsTableOf(new[r])
  <2>1. r \in DOMAIN db.tables /\ new[r] = db.tables[r] BY <1>1 DEF Without
  <2>2. QED BY <2>1 DEF IsSchema
<1>4. [db EXCEPT !.tables = Without(@, t)] = [tables |-> new, views |-> db.views] BY <1>1 DEF IsSchema
<1>5. QED BY <1>2, <1>3, <1>4 DEF IsSchema

\* A schema with other views is a schema.
LEMMA SchemaWithViews ==
  ASSUME NEW db, IsSchema(db), NEW views, IsParts(views)
  PROVE  IsSchema([db EXCEPT !.views = views])
<1>1. [db EXCEPT !.views = views] = [tables |-> db.tables, views |-> views] BY DEF IsSchema
<1>2. QED BY <1>1 DEF IsSchema

\* The table a statement is about; an empty one where there is none.
TableAt(db, t) ==
  IF IsTable(db, t) THEN db.tables[t] ELSE [columns |-> NoParts, indexes |-> NoParts, keys |-> NoParts]

\* What stands under a table's name, or an empty table, is a table.
LEMMA TableAtIs ==
  ASSUME NEW db, IsSchema(db), NEW t
  PROVE  IsTableOf(TableAt(db, t))
<1>1. CASE IsTable(db, t) BY <1>1 DEF TableAt, IsTable, IsSchema
<1>2. CASE ~IsTable(db, t)
  <2>1. AreColumns(NoParts) BY NothingIsParts DEF AreColumns
  <2>2. QED BY <1>2, <2>1, NothingIsParts, TableFields DEF TableAt
<1>3. QED BY <1>1, <1>2

\* A table with one of its parts put in place of another.
LEMMA TableExcept ==
  ASSUME NEW table, IsTableOf(table), NEW new
  PROVE  /\ [table EXCEPT !.columns = new] = [columns |-> new, indexes |-> table.indexes, keys |-> table.keys]
         /\ [table EXCEPT !.indexes = new] = [columns |-> table.columns, indexes |-> new, keys |-> table.keys]
         /\ [table EXCEPT !.keys = new] = [columns |-> table.columns, indexes |-> table.indexes, keys |-> new]
BY DEF IsTableOf

\* A table with other columns, indexes or keys is a table.
LEMMA TableReplaced ==
  ASSUME NEW table, IsTableOf(table), NEW new
  PROVE  /\ AreColumns(new) => IsTableOf([table EXCEPT !.columns = new])
         /\ IsParts(new) => IsTableOf([table EXCEPT !.indexes = new])
         /\ IsParts(new) => IsTableOf([table EXCEPT !.keys = new])
<1>1. AreColumns(table.columns) /\ IsParts(table.indexes) /\ IsParts(table.keys) BY DEF IsTableOf
<1>2. AreColumns(new) => IsTableOf([columns |-> new, indexes |-> table.indexes, keys |-> table.keys])
  BY <1>1, TableFields
<1>3. IsParts(new) => IsTableOf([columns |-> table.columns, indexes |-> new, keys |-> table.keys])
  BY <1>1, TableFields
<1>4. IsParts(new) => IsTableOf([columns |-> table.columns, indexes |-> table.indexes, keys |-> new])
  BY <1>1, TableFields
<1>5. QED BY <1>2, <1>3, <1>4, TableExcept

\* The effect of each statement on its table.
PutTable(db, t, table) == [db EXCEPT !.tables = With(@, t, table)]
ColumnStatements == {"addColumn", "setColumn"}
IndexStatements == {"createIndex", "rebuildIndex"}
ViewStatements == {"createView", "replaceView"}

TableEffect(db, s, t) ==
  /\ s.do = "createTable" =>
       Effect(db, s) = PutTable(db, s.on, [t EXCEPT !.columns = s.def.columns])
  /\ s.do \in ColumnStatements =>
       Effect(db, s) = PutTable(db, s.on,
         [t EXCEPT !.columns = With(@, s.name, Column(s.def.type, s.def.nullable,
            s.name \in DOMAIN t.columns /\ t.columns[s.name].key))])
  /\ s.do = "setType" =>
       Effect(db, s) = PutTable(db, s.on, [t EXCEPT !.columns[s.name].type = s.def.type])
  /\ s.do = "setNullable" =>
       Effect(db, s) = PutTable(db, s.on, [t EXCEPT !.columns[s.name].nullable = s.def.nullable])
  /\ s.do = "dropColumn" =>
       Effect(db, s) = PutTable(db, s.on, [t EXCEPT !.columns = Without(@, s.name)])

\* What a statement about the columns of a table does.
LEMMA EffectOnTable ==
  ASSUME NEW db, NEW s
  PROVE  TableEffect(db, s, TableAt(db, s.on))
BY ZenonT(60) DEF Effect, TableAt, PutTable, ColumnStatements, TableEffect

PartsEffect(db, s, t) ==
  /\ s.do \in IndexStatements =>
       Effect(db, s) = PutTable(db, s.on, [t EXCEPT !.indexes = With(@, s.name, s.def)])
  /\ s.do = "dropIndex" =>
       Effect(db, s) = PutTable(db, s.on, [t EXCEPT !.indexes = Without(@, s.name)])
  /\ s.do = "renameIndex" =>
       Effect(db, s) = PutTable(db, s.on,
         [t EXCEPT !.indexes = With(Without(@, s.name), s.def.to, t.indexes[s.name])])
  /\ s.do = "addForeignKey" =>
       Effect(db, s) = PutTable(db, s.on, [t EXCEPT !.keys = With(@, s.name, s.def)])
  /\ s.do = "dropForeignKey" =>
       Effect(db, s) = PutTable(db, s.on, [t EXCEPT !.keys = Without(@, s.name)])

\* What a statement about indexes and keys of a table does.
LEMMA EffectOnParts ==
  ASSUME NEW db, NEW s
  PROVE  PartsEffect(db, s, TableAt(db, s.on))
BY ZenonT(60) DEF Effect, TableAt, PutTable, IndexStatements, PartsEffect

\* What a statement about whole tables and views does.
LEMMA EffectOnOthers ==
  ASSUME NEW db, NEW s
  PROVE  /\ s.do = "dropTable" => Effect(db, s) = [db EXCEPT !.tables = Without(@, s.on)]
         /\ s.do \in ViewStatements => Effect(db, s) = [db EXCEPT !.views = With(@, s.on, s.def)]
         /\ s.do = "dropView" => Effect(db, s) = [db EXCEPT !.views = Without(@, s.on)]
         /\ s.do \notin {"createTable", "dropTable", "addColumn", "setColumn", "setType", "setNullable",
                         "dropColumn", "renameColumn", "createIndex", "rebuildIndex", "dropIndex", "renameIndex",
                         "addForeignKey", "dropForeignKey", "createView", "replaceView", "dropView"} =>
              Effect(db, s) = db
BY ZenonT(60) DEF Effect, ViewStatements

\* A table whose columns were renamed by s.
Renamed(s, c) == IF c = s.name THEN s.def.to ELSE c
RenamedColumns(columns, s) ==
  [c \in {Renamed(s, x) : x \in DOMAIN columns} |-> columns[CHOOSE x \in DOMAIN columns : Renamed(s, x) = c]]
IsRenamed(e, db, s) ==
  /\ e = [tables |-> e.tables, views |-> e.views]
  /\ e.tables = [r \in DOMAIN db.tables |-> e.tables[r]] /\ e.views = [v \in DOMAIN db.views |-> e.views[v]]
  /\ \A r \in DOMAIN db.tables :
       /\ e.tables[r] = [columns |-> e.tables[r].columns, indexes |-> e.tables[r].indexes, keys |-> e.tables[r].keys]
       /\ e.tables[r].columns =
            IF r # s.on THEN db.tables[r].columns ELSE RenamedColumns(TableAt(db, s.on).columns, s)
       /\ e.tables[r].indexes = [i \in DOMAIN db.tables[r].indexes |-> e.tables[r].indexes[i]]
       /\ e.tables[r].keys = [k \in DOMAIN db.tables[r].keys |-> e.tables[r].keys[k]]

\* What the renaming of a column does.
LEMMA EffectOfRenaming ==
  ASSUME NEW db, NEW s, s.do = "renameColumn"
  PROVE  IsRenamed(Effect(db, s), db, s)
<1> DEFINE To(c) == IF c = s.name THEN s.def.to ELSE c
           There(r, c) == IF r = s.on THEN To(c) ELSE c
           t == TableAt(db, s.on)
           Index(r, i) == [db.tables[r].indexes[i] EXCEPT !.columns = [n \in DOMAIN @ |-> There(r, @[n])]]
           Key(r, k) == [db.tables[r].keys[k] EXCEPT !.column = There(r, @),
                                                     !.target = There(db.tables[r].keys[k].table, @)]
           View(v) == [db.views[v] EXCEPT !.uses = {<<u[1], There(u[1], u[2])>> : u \in @}]
           indexes(r) == [i \in DOMAIN db.tables[r].indexes |-> Index(r, i)]
           keys(r) == [k \in DOMAIN db.tables[r].keys |-> Key(r, k)]
           columns(r) == IF r # s.on THEN db.tables[r].columns
                         ELSE [c \in {To(x) : x \in DOMAIN t.columns} |->
                                 t.columns[CHOOSE x \in DOMAIN t.columns : To(x) = c]]
           views == [v \in DOMAIN db.views |-> View(v)]
<1>1. Effect(db, s) = [tables |-> [r \in DOMAIN db.tables |->
                         [columns |-> columns(r), indexes |-> indexes(r), keys |-> keys(r)]], views |-> views]
  BY DEF Effect, TableAt
<1>2. columns(s.on) = RenamedColumns(t.columns, s) BY DEF RenamedColumns, Renamed
<1>3. \A r : r # s.on => columns(r) = db.tables[r].columns OBVIOUS
<1> HIDE DEF Index, Key, View, columns
<1>4. \A r : indexes(r) = [i \in DOMAIN db.tables[r].indexes |-> indexes(r)[i]] OBVIOUS
<1>5. \A r : keys(r) = [k \in DOMAIN db.tables[r].keys |-> keys(r)[k]] OBVIOUS
<1>6. views = [v \in DOMAIN db.views |-> views[v]] OBVIOUS
<1> HIDE DEF indexes, keys, views
<1>7. PICK e : e = Effect(db, s) OBVIOUS
<1>8. PICK T : T = [r \in DOMAIN db.tables |-> [columns |-> columns(r), indexes |-> indexes(r), keys |-> keys(r)]]
  OBVIOUS
<1>9. e = [tables |-> T, views |-> views] BY <1>1, <1>7, <1>8
<1>10. e.tables = T /\ e.views = views /\ T = [r \in DOMAIN db.tables |-> T[r]] BY <1>8, <1>9
<1>11. ASSUME NEW r \in DOMAIN db.tables
       PROVE  /\ T[r] = [columns |-> T[r].columns, indexes |-> T[r].indexes, keys |-> T[r].keys]
              /\ T[r].columns = columns(r) /\ T[r].indexes = indexes(r) /\ T[r].keys = keys(r)
  <2>1. T[r] = [columns |-> columns(r), indexes |-> indexes(r), keys |-> keys(r)] BY <1>8
  <2>2. QED BY <2>1
<1>12. ASSUME NEW r \in DOMAIN db.tables
       PROVE  /\ T[r].columns = IF r # s.on THEN db.tables[r].columns ELSE RenamedColumns(TableAt(db, s.on).columns, s)
              /\ T[r].indexes = [i \in DOMAIN db.tables[r].indexes |-> T[r].indexes[i]]
              /\ T[r].keys = [k \in DOMAIN db.tables[r].keys |-> T[r].keys[k]]
  <2>1. T[r].columns = columns(r) /\ T[r].indexes = indexes(r) /\ T[r].keys = keys(r) BY <1>11
  <2>2. T[r].columns = IF r # s.on THEN db.tables[r].columns ELSE RenamedColumns(TableAt(db, s.on).columns, s)
    BY <1>2, <1>3, <2>1
  <2>3. QED BY <1>4, <1>5, <2>1, <2>2
<1>13. views = [v \in DOMAIN db.views |-> views[v]] BY <1>6
<1>14. IsRenamed(e, db, s) BY <1>9, <1>10, <1>11, <1>12, <1>13 DEF IsRenamed
<1>15. QED BY <1>7, <1>14

\* Renaming to a name that is not there takes a column along, and no other.
LEMMA RenamedColumnsAre ==
  ASSUME NEW columns, NEW s, s.name \in DOMAIN columns
  PROVE  /\ DOMAIN RenamedColumns(columns, s) = (DOMAIN columns \ {s.name}) \cup {s.def.to}
         /\ s.def.to \notin DOMAIN columns => RenamedColumns(columns, s)[s.def.to] = columns[s.name]
         /\ s.def.to \notin DOMAIN columns =>
              \A c \in DOMAIN columns \ {s.name} : RenamedColumns(columns, s)[c] = columns[c]
<1>1. DOMAIN RenamedColumns(columns, s) = {Renamed(s, x) : x \in DOMAIN columns} BY DEF RenamedColumns
<1>2. {Renamed(s, x) : x \in DOMAIN columns} = (DOMAIN columns \ {s.name}) \cup {s.def.to} BY DEF Renamed
<1>3. ASSUME s.def.to \notin DOMAIN columns, NEW x \in DOMAIN columns
      PROVE  RenamedColumns(columns, s)[Renamed(s, x)] = columns[x]
  <2>1. \A y \in DOMAIN columns : Renamed(s, y) = Renamed(s, x) => y = x BY <1>3 DEF Renamed
  <2>2. (CHOOSE y \in DOMAIN columns : Renamed(s, y) = Renamed(s, x)) = x BY <2>1
  <2>3. Renamed(s, x) \in {Renamed(s, y) : y \in DOMAIN columns} OBVIOUS
  <2>4. QED BY <2>2, <2>3 DEF RenamedColumns
<1>4. Renamed(s, s.name) = s.def.to /\ \A c \in DOMAIN columns \ {s.name} : Renamed(s, c) = c BY DEF Renamed
<1>5. QED BY <1>1, <1>2, <1>3, <1>4

\* Columns are columns after one was renamed.
LEMMA RenamingKeepsColumns ==
  ASSUME NEW columns, AreColumns(columns), NEW s, s.def.to \in Nat
  PROVE  AreColumns(RenamedColumns(columns, s))
<1>1. PICK names : names = {Renamed(s, x) : x \in DOMAIN columns} OBVIOUS
<1>2. names \subseteq Nat BY <1>1 DEF Renamed, AreColumns, IsParts
<1>3. IsFiniteSet(names)
  <2> DEFINE f == [x \in DOMAIN columns |-> Renamed(s, x)]
  <2>1. f \in Surjection(DOMAIN columns, names) BY <1>1 DEF Surjection
  <2>2. QED BY <2>1, FS_Surjection DEF AreColumns, IsParts
<1>4. PICK new : new = RenamedColumns(columns, s) OBVIOUS
<1>5. new = [c \in names |-> columns[CHOOSE x \in DOMAIN columns : Renamed(s, x) = c]]
  BY <1>1, <1>4 DEF RenamedColumns
<1>6. new = [c \in names |-> new[c]] BY <1>5
<1>7. IsParts(new) BY <1>2, <1>3, <1>6, PartsOver
<1>8. ASSUME NEW d \in DOMAIN new PROVE \E c \in DOMAIN columns : new[d] = columns[c]
  <2>1. d \in names BY <1>6
  <2>2. \E x \in DOMAIN columns : Renamed(s, x) = d BY <1>1, <2>1
  <2>3. PICK x : x = CHOOSE y \in DOMAIN columns : Renamed(s, y) = d OBVIOUS
  <2>4. x \in DOMAIN columns BY <2>2, <2>3
  <2>5. new[d] = columns[x] BY <1>5, <2>1, <2>3
  <2>6. QED BY <2>4, <2>5
<1>9. QED BY <1>4, <1>7, <1>8, ColumnsFrom

\* A schema is one after a column was renamed.
LEMMA RenamingKeepsSchema ==
  ASSUME NEW db, IsSchema(db), NEW s, s.do = "renameColumn", s.def.to \in Nat
  PROVE  IsSchema(Effect(db, s))
<1>1. PICK e : e = Effect(db, s) /\ IsRenamed(e, db, s) BY EffectOfRenaming
<1>2. IsParts(e.tables) BY <1>1, PartsOver DEF IsRenamed, IsSchema, IsParts
<1>3. IsParts(e.views) BY <1>1, PartsOver DEF IsRenamed, IsSchema, IsParts
<1>4. ASSUME NEW r \in DOMAIN e.tables PROVE IsTableOf(e.tables[r])
  <2>1. r \in DOMAIN db.tables BY <1>1 DEF IsRenamed
  <2>2. IsTableOf(db.tables[r]) BY <2>1, SMTT(30) DEF IsSchema
  <2>3. IsParts(e.tables[r].indexes) BY <1>1, <2>1, <2>2, PartsOver DEF IsRenamed, IsTableOf, IsParts
  <2>4. IsParts(e.tables[r].keys) BY <1>1, <2>1, <2>2, PartsOver DEF IsRenamed, IsTableOf, IsParts
  <2>5. AreColumns(e.tables[r].columns)
    <3>1. AreColumns(RenamedColumns(TableAt(db, s.on).columns, s))
      BY TableAtIs, RenamingKeepsColumns DEF IsTableOf
    <3>2. QED BY <1>1, <2>1, <2>2, <3>1 DEF IsRenamed, IsTableOf
  <2>6. QED BY <1>1, <2>1, <2>3, <2>4, <2>5 DEF IsRenamed, IsTableOf
<1>5. QED BY <1>1, <1>2, <1>3, <1>4 DEF IsSchema, IsRenamed

\* What a column becomes that gets another type or nullability.
LEMMA RetypedColumn ==
  ASSUME NEW columns, AreColumns(columns), NEW c \in DOMAIN columns, NEW v
  PROVE  /\ AreColumns([columns EXCEPT ![c].type = v]) /\ AreColumns([columns EXCEPT ![c].nullable = v])
         /\ DOMAIN [columns EXCEPT ![c].type = v] = DOMAIN columns
         /\ DOMAIN [columns EXCEPT ![c].nullable = v] = DOMAIN columns
         /\ \A d \in DOMAIN columns \ {c} : /\ [columns EXCEPT ![c].type = v][d] = columns[d]
                                            /\ [columns EXCEPT ![c].nullable = v][d] = columns[d]
         /\ [columns EXCEPT ![c].type = v][c] = Column(v, columns[c].nullable, columns[c].key)
         /\ [columns EXCEPT ![c].nullable = v][c] = Column(columns[c].type, v, columns[c].key)
<1>1. PICK a : a = columns[c] OBVIOUS
<1>2. a = [type |-> a.type, nullable |-> a.nullable, key |-> a.key] /\ a.key \in BOOLEAN
  BY <1>1 DEF AreColumns, Column
<1>3. [a EXCEPT !.type = v] = Column(v, a.nullable, a.key) /\ [a EXCEPT !.nullable = v] = Column(a.type, v, a.key)
  BY <1>2 DEF Column
<1>4. ASSUME NEW b, b \in {Column(v, a.nullable, a.key), Column(a.type, v, a.key)},
             NEW new, new = [d \in DOMAIN columns |-> IF d = c THEN b ELSE columns[d]]
      PROVE  AreColumns(new)
  <2>1. IsParts(new) BY <1>4, PartsOver DEF AreColumns, IsParts
  <2>2. b = Column(b.type, b.nullable, b.key) /\ b.key \in BOOLEAN BY <1>2, <1>4 DEF Column
  <2>3. ASSUME NEW d \in DOMAIN new
        PROVE  new[d] = Column(new[d].type, new[d].nullable, new[d].key) /\ new[d].key \in BOOLEAN
    <3>1. CASE d = c BY <1>4, <2>2, <3>1
    <3>2. CASE d # c BY <1>4, <3>2 DEF AreColumns
    <3>3. QED BY <3>1, <3>2
  <2>4. QED BY <2>1, <2>3 DEF AreColumns
<1>5. columns = [d \in DOMAIN columns |-> columns[d]] BY DEF AreColumns, IsParts
<1>6. PICK p : p = [d \in DOMAIN columns |-> IF d = c THEN Column(v, a.nullable, a.key) ELSE columns[d]] OBVIOUS
<1>7. PICK q : q = [d \in DOMAIN columns |-> IF d = c THEN Column(a.type, v, a.key) ELSE columns[d]] OBVIOUS
<1>8. [columns EXCEPT ![c].type = v] = p BY <1>1, <1>3, <1>5, <1>6
<1>9. [columns EXCEPT ![c].nullable = v] = q BY <1>1, <1>3, <1>5, <1>7
<1>10. AreColumns(p) /\ AreColumns(q) BY <1>4, <1>6, <1>7
<1>11. QED BY <1>1, <1>6, <1>7, <1>8, <1>9, <1>10

\* A schema is one after a table was put.
LEMMA PutKeepsSchema ==
  ASSUME NEW db, IsSchema(db), NEW t \in Nat, NEW table, IsTableOf(table)
  PROVE  IsSchema(PutTable(db, t, table))
BY SchemaWithTable DEF PutTable

\* A change within a column is a change of the columns.
LEMMA NestedExcept ==
  ASSUME NEW t, IsTableOf(t), NEW c, NEW v
  PROVE  /\ [t EXCEPT !.columns[c].type = v] = [t EXCEPT !.columns = [t.columns EXCEPT ![c].type = v]]
         /\ [t EXCEPT !.columns[c].nullable = v] = [t EXCEPT !.columns = [t.columns EXCEPT ![c].nullable = v]]
BY DEF IsTableOf

\* A schema is one after any statement it accepts.
LEMMA EffectKeepsSchema ==
  ASSUME NEW db, IsSchema(db), NEW s, IsStatement(s), NEW driver1, Accepts(db, driver1, s)
  PROVE  IsSchema(Effect(db, s))
<1>1. PICK t : t = TableAt(db, s.on) OBVIOUS
<1>2. IsTableOf(t) /\ AreColumns(t.columns) /\ IsParts(t.indexes) /\ IsParts(t.keys)
  BY <1>1, TableAtIs DEF IsTableOf
<1>3. \A columns : AreColumns(columns) => IsSchema(PutTable(db, s.on, [t EXCEPT !.columns = columns]))
  BY <1>2, TableReplaced, PutKeepsSchema DEF IsStatement
<1>4. \A parts : IsParts(parts) => /\ IsSchema(PutTable(db, s.on, [t EXCEPT !.indexes = parts]))
                                   /\ IsSchema(PutTable(db, s.on, [t EXCEPT !.keys = parts]))
  BY <1>2, TableReplaced, PutKeepsSchema DEF IsStatement
<1>5. s.on \in Nat /\ s.name \in Nat BY DEF IsStatement
<1>5a. TableEffect(db, s, t) /\ PartsEffect(db, s, t) BY <1>1, EffectOnTable, EffectOnParts
<1>6. CASE s.do = "createTable" BY <1>1, <1>3, <1>6, <1>5a DEF TableEffect, IsStatement
<1>7. CASE s.do \in ColumnStatements
  <2>1. PICK key : key = (s.name \in DOMAIN t.columns /\ t.columns[s.name].key) OBVIOUS
  <2>2. key \in BOOLEAN BY <1>2, <2>1 DEF AreColumns
  <2>3. AreColumns(With(t.columns, s.name, Column(s.def.type, s.def.nullable, key)))
    BY <1>2, <1>5, <2>2, ColumnsWith
  <2>4. Effect(db, s) = PutTable(db, s.on,
                          [t EXCEPT !.columns = With(@, s.name, Column(s.def.type, s.def.nullable, key))])
    BY <1>1, <1>7, <2>1, <1>5a DEF TableEffect
  <2>5. QED BY <1>3, <2>3, <2>4
<1>8. CASE s.do \in {"setType", "setNullable"}
  <2>1. IsColumn(db, s.on, s.name) BY <1>8 DEF Accepts
  <2>2. s.name \in DOMAIN t.columns BY <1>1, <2>1 DEF IsColumn, TableAt
  <2>3. AreColumns([t.columns EXCEPT ![s.name].type = s.def.type]) BY <1>2, <2>2, RetypedColumn
  <2>4. AreColumns([t.columns EXCEPT ![s.name].nullable = s.def.nullable]) BY <1>2, <2>2, RetypedColumn
  <2>5. CASE s.do = "setType"
    <3>1. Effect(db, s) = PutTable(db, s.on, [t EXCEPT !.columns[s.name].type = s.def.type])
      BY <1>1, <2>5, <1>5a DEF TableEffect
    <3>2. QED BY <1>2, <1>3, <2>3, <3>1, NestedExcept
  <2>6. CASE s.do = "setNullable"
    <3>1. Effect(db, s) = PutTable(db, s.on, [t EXCEPT !.columns[s.name].nullable = s.def.nullable])
      BY <1>1, <2>6, <1>5a DEF TableEffect
    <3>2. QED BY <1>2, <1>3, <2>4, <3>1, NestedExcept
  <2>7. QED BY <1>8, <2>5, <2>6
<1>9. CASE s.do = "dropColumn"
  <2>1. PICK new : new = Without(t.columns, s.name) OBVIOUS
  <2>2. IsParts(new) BY <1>2, <2>1, PartsWithout DEF AreColumns
  <2>3. \A d \in DOMAIN new : d \in DOMAIN t.columns /\ new[d] = t.columns[d] BY <2>1 DEF Without
  <2>4. AreColumns(new) BY <1>2, <2>2, <2>3, ColumnsFrom
  <2>5. QED BY <1>1, <1>3, <1>9, <2>1, <2>4, <1>5a DEF TableEffect
<1>10. CASE s.do = "renameColumn" BY <1>10, RenamingKeepsSchema DEF IsStatement
<1>11. CASE s.do \in IndexStatements
  <2>1. IsParts(With(t.indexes, s.name, s.def)) BY <1>2, <1>5, PartsWith
  <2>2. QED BY <1>1, <1>4, <1>11, <2>1, <1>5a DEF PartsEffect
<1>12. CASE s.do = "dropIndex"
  <2>1. IsParts(Without(t.indexes, s.name)) BY <1>2, PartsWithout
  <2>2. QED BY <1>1, <1>4, <1>12, <2>1, <1>5a DEF PartsEffect
<1>13. CASE s.do = "renameIndex"
  <2>1. IsParts(Without(t.indexes, s.name)) BY <1>2, PartsWithout
  <2>2. s.def.to \in Nat BY <1>13 DEF IsStatement
  <2>3. IsParts(With(Without(t.indexes, s.name), s.def.to, t.indexes[s.name])) BY <2>1, <2>2, PartsWith
  <2>4. QED BY <1>1, <1>4, <1>13, <2>3, <1>5a DEF PartsEffect
<1>14. CASE s.do = "addForeignKey"
  <2>1. IsParts(With(t.keys, s.name, s.def)) BY <1>2, <1>5, PartsWith
  <2>2. QED BY <1>1, <1>4, <1>14, <2>1, <1>5a DEF PartsEffect
<1>15. CASE s.do = "dropForeignKey"
  <2>1. IsParts(Without(t.keys, s.name)) BY <1>2, PartsWithout
  <2>2. QED BY <1>1, <1>4, <1>15, <2>1, <1>5a DEF PartsEffect
<1>16. CASE s.do = "dropTable" BY <1>16, EffectOnOthers, SchemaWithoutTable
<1>17. CASE s.do \in ViewStatements
  <2>1. IsParts(With(db.views, s.on, s.def)) BY <1>5, PartsWith DEF IsSchema
  <2>2. QED BY <1>17, <2>1, EffectOnOthers, SchemaWithViews
<1>18. CASE s.do = "dropView"
  <2>1. IsParts(Without(db.views, s.on)) BY PartsWithout DEF IsSchema
  <2>2. QED BY <1>18, <2>1, EffectOnOthers, SchemaWithViews
<1>19. CASE s.do \notin {"createTable", "dropTable", "addColumn", "setColumn", "setType", "setNullable",
                         "dropColumn", "renameColumn", "createIndex", "rebuildIndex", "dropIndex", "renameIndex",
                         "addForeignKey", "dropForeignKey", "createView", "replaceView", "dropView"}
  BY <1>19, EffectOnOthers
<1>20. QED
  BY <1>6, <1>7, <1>8, <1>9, <1>10, <1>11, <1>12, <1>13, <1>14, <1>15, <1>16, <1>17, <1>18, <1>19
  DEF ColumnStatements, IndexStatements, ViewStatements

-----------------------------------------------------------------------------
(* Scripts, and what a run of one makes of a schema.                       *)

IsScript(statements) == \E S : statements \in Seq(S) /\ \A s \in S : IsStatement(s)

\* Every entry of a script is a statement.
LEMMA ScriptEntries ==
  ASSUME NEW statements, IsScript(statements)
  PROVE  Len(statements) \in Nat /\ \A n \in 1..Len(statements) : IsStatement(statements[n])
<1>1. PICK S : statements \in Seq(S) /\ \A s \in S : IsStatement(s) BY DEF IsScript
<1>2. QED BY <1>1

\* A list of statements is a script.
LEMMA ScriptOver ==
  ASSUME NEW S, \A s \in S : IsStatement(s), NEW statements \in Seq(S)
  PROVE  IsScript(statements)
BY DEF IsScript

\* Scripts of no, one and two statements.
LEMMA ShortScripts ==
  /\ IsScript(<<>>)
  /\ \A s : IsStatement(s) => IsScript(<<s>>)
  /\ \A s, u : IsStatement(s) /\ IsStatement(u) => IsScript(<<s, u>>)
<1>1. IsScript(<<>>)
  <2>1. PICK S : S = {} OBVIOUS
  <2>2. <<>> \in Seq(S) OBVIOUS
  <2>3. QED BY <2>1, <2>2, ScriptOver
<1>2. ASSUME NEW s, IsStatement(s) PROVE IsScript(<<s>>)
  <2>1. PICK S : S = {s} OBVIOUS
  <2>2. <<s>> \in Seq(S) BY <2>1
  <2>3. QED BY <1>2, <2>1, <2>2, ScriptOver
<1>3. ASSUME NEW s, NEW u, IsStatement(s), IsStatement(u) PROVE IsScript(<<s, u>>)
  <2>1. PICK S : S = {s, u} OBVIOUS
  <2>2. <<s, u>> \in Seq(S) BY <2>1
  <2>3. QED BY <1>3, <2>1, <2>2, ScriptOver
<1>4. QED BY <1>1, <1>2, <1>3

\* Two scripts, one behind the other, are a script.
LEMMA ScriptsJoined ==
  ASSUME NEW a, IsScript(a), NEW b, IsScript(b)
  PROVE  IsScript(a \o b)
<1>1. PICK S : a \in Seq(S) /\ \A s \in S : IsStatement(s) BY DEF IsScript
<1>2. PICK T : b \in Seq(T) /\ \A s \in T : IsStatement(s) BY DEF IsScript
<1>3. a \in Seq(S \cup T) /\ b \in Seq(S \cup T) BY <1>1, <1>2, SeqOfMore
<1>4. a \o b \in Seq(S \cup T) BY <1>3
<1>5. QED BY <1>1, <1>2, <1>4 DEF IsScript

\* Scripts put one after the other, and the statements of each among them.
ScriptParts(parts, n) == parts = [k \in 1..n |-> parts[k]] /\ \A k \in 1..n : IsScript(parts[k])
FlatAt(all, parts, n, off) ==
  /\ IsOffsets(off, parts) /\ off[n] = Len(all)
  /\ \A k \in 1..n : \A i \in 1..Len(parts[k]) : all[off[k - 1] + i] = parts[k][i]

\* So are any number of scripts, and each has its place there.
LEMMA ScriptsFlattened ==
  ASSUME NEW n \in Nat, NEW parts, ScriptParts(parts, n)
  PROVE  IsScript(FlattenSeq(parts)) /\ \E off : FlatAt(FlattenSeq(parts), parts, n, off)
<1>0. parts = [k \in 1..n |-> parts[k]] /\ \A k \in 1..n : IsScript(parts[k]) BY DEF ScriptParts
<1>1. PICK S : S = UNION {{parts[k][i] : i \in 1..Len(parts[k])} : k \in 1..n} OBVIOUS
<1>2. \A s \in S : IsStatement(s) BY <1>0, <1>1, ScriptEntries
<1>3. ASSUME NEW k \in 1..n PROVE parts[k] \in Seq(S)
  <2>1. PICK T : parts[k] \in Seq(T) BY <1>0 DEF IsScript
  <2>2. \A i \in 1..Len(parts[k]) : parts[k][i] \in S BY <1>1
  <2>3. PICK p \in Seq(T) : p = parts[k] BY <2>1
  <2>4. p \in Seq(S) BY <2>2, <2>3
  <2>5. QED BY <2>3, <2>4
<1>4. parts \in Seq(Seq(S)) /\ Len(parts) = n BY <1>0, <1>3
<1>5. FlattenSeq(parts) \in Seq(S) BY <1>4, FlattenParts
<1>6. \E off : /\ IsOffsets(off, parts) /\ off[Len(parts)] = Len(FlattenSeq(parts))
                /\ \A k \in 1..Len(parts) : \A i \in 1..Len(parts[k]) :
                     FlattenSeq(parts)[off[k - 1] + i] = parts[k][i]
  BY <1>4, FlattenParts
<1>7. IsScript(FlattenSeq(parts)) BY <1>2, <1>5 DEF IsScript
<1>8. \E off : FlatAt(FlattenSeq(parts), parts, n, off) BY <1>4, <1>6 DEF FlatAt
<1>9. QED BY <1>7, <1>8

\* The table of a run's recursion.
RunAt(f, db, driver1, statements, n) ==
  IF n = 0 THEN [db |-> db, ok |-> TRUE]
  ELSE IF f[n - 1].ok /\ Accepts(f[n - 1].db, driver1, statements[n])
       THEN [db |-> Effect(f[n - 1].db, statements[n]), ok |-> TRUE]
       ELSE [db |-> f[n - 1].db, ok |-> FALSE]
IsRun(f, db, driver1, statements, n) == f = [m \in 0..n |-> RunAt(f, db, driver1, statements, m)]

\* A recursive function over the statements of a script has its values.
LEMMA RunExists ==
  ASSUME NEW db, NEW driver1, NEW statements, NEW n \in Nat
  PROVE  \E f : IsRun(f, db, driver1, statements, n)
<1> DEFINE T == {m \in Nat : ~ \E f : IsRun(f, db, driver1, statements, m)}
<1>1. SUFFICES ASSUME T # {} PROVE FALSE OBVIOUS
<1>2. PICK m \in T : \A k \in T : m <= k BY <1>1, LeastMember
<1>3. CASE m = 0
  <2> DEFINE f == [k \in 0..0 |-> [db |-> db, ok |-> TRUE]]
  <2>1. IsRun(f, db, driver1, statements, 0) BY DEF IsRun, RunAt
  <2>2. QED BY <2>1, <1>3
<1>4. CASE m > 0
  <2>1. m - 1 \in Nat /\ m - 1 \notin T BY <1>4, <1>2
  <2>2. PICK g : IsRun(g, db, driver1, statements, m - 1) BY <2>1
  <2>3. PICK last : last = RunAt(g, db, driver1, statements, m) OBVIOUS
  <2>4. PICK f : f = [k \in 0..m |-> IF k < m THEN g[k] ELSE last] OBVIOUS
  <2>5. ASSUME NEW k \in 0..m PROVE f[k] = RunAt(f, db, driver1, statements, k)
    <3>1. k # 0 => f[k - 1] = g[k - 1] BY <2>4
    <3>2. RunAt(f, db, driver1, statements, k) = RunAt(g, db, driver1, statements, k) BY <3>1 DEF RunAt
    <3>3. CASE k = m BY <2>3, <2>4, <3>2, <3>3
    <3>4. CASE k < m
      <4>1. k \in 0..m - 1 BY <3>4
      <4>2. g[k] = RunAt(g, db, driver1, statements, k) BY <2>2, <4>1 DEF IsRun
      <4>3. QED BY <2>4, <3>2, <3>4, <4>2
    <3>5. QED BY <3>3, <3>4
  <2>6. f = [k \in 0..m |-> f[k]] BY <2>4
  <2>7. IsRun(f, db, driver1, statements, m) BY <2>5, <2>6 DEF IsRun
  <2>8. QED BY <2>7
<1>5. QED BY <1>3, <1>4

\* A run, step by step, and what it leaves.
IsRunOf(f, db, driver1, statements) ==
  /\ f[0] = [db |-> db, ok |-> TRUE]
  /\ \A n \in 1..Len(statements) :
       f[n] = IF f[n - 1].ok /\ Accepts(f[n - 1].db, driver1, statements[n])
              THEN [db |-> Effect(f[n - 1].db, statements[n]), ok |-> TRUE]
              ELSE [db |-> f[n - 1].db, ok |-> FALSE]
  /\ RunScript(db, driver1, statements) =
       IF f[Len(statements)].ok \/ ~Transactional(driver1) THEN f[Len(statements)] ELSE [db |-> db, ok |-> FALSE]

\* RunScript is the last of them.
LEMMA RunIs ==
  ASSUME NEW db, NEW driver1, NEW statements, Len(statements) \in Nat
  PROVE  \E f : IsRunOf(f, db, driver1, statements)
<1>1. PICK n \in Nat : n = Len(statements) OBVIOUS
<1> DEFINE F == CHOOSE f : f = [m \in 0..n |->
                  IF m = 0 THEN [db |-> db, ok |-> TRUE]
                  ELSE IF f[m - 1].ok /\ Accepts(f[m - 1].db, driver1, statements[m])
                       THEN [db |-> Effect(f[m - 1].db, statements[m]), ok |-> TRUE]
                       ELSE [db |-> f[m - 1].db, ok |-> FALSE]]
<1>2. \E f : f = [m \in 0..n |->
                  IF m = 0 THEN [db |-> db, ok |-> TRUE]
                  ELSE IF f[m - 1].ok /\ Accepts(f[m - 1].db, driver1, statements[m])
                       THEN [db |-> Effect(f[m - 1].db, statements[m]), ok |-> TRUE]
                       ELSE [db |-> f[m - 1].db, ok |-> FALSE]]
  <2>1. \E f : IsRun(f, db, driver1, statements, n) BY RunExists
  <2>2. QED BY <2>1, Zenon DEF IsRun, RunAt
<1>3. IsRun(F, db, driver1, statements, n) BY <1>2, Zenon DEF IsRun, RunAt
<1>4. RunScript(db, driver1, statements) =
       IF F[n].ok \/ ~Transactional(driver1) THEN F[n] ELSE [db |-> db, ok |-> FALSE]
  BY <1>1 DEF RunScript
<1> HIDE DEF F
<1>5. \A m \in 0..n : F[m] = RunAt(F, db, driver1, statements, m) BY <1>3 DEF IsRun
<1>6. F[0] = [db |-> db, ok |-> TRUE]
  <2>1. 0 \in 0..n OBVIOUS
  <2>2. QED BY <1>5, <2>1 DEF RunAt
<1>7. \A m \in 1..n :
       F[m] = IF F[m - 1].ok /\ Accepts(F[m - 1].db, driver1, statements[m])
              THEN [db |-> Effect(F[m - 1].db, statements[m]), ok |-> TRUE]
              ELSE [db |-> F[m - 1].db, ok |-> FALSE]
  <2> SUFFICES ASSUME NEW m \in 1..n
               PROVE  F[m] = IF F[m - 1].ok /\ Accepts(F[m - 1].db, driver1, statements[m])
                             THEN [db |-> Effect(F[m - 1].db, statements[m]), ok |-> TRUE]
                             ELSE [db |-> F[m - 1].db, ok |-> FALSE]
    OBVIOUS
  <2>1. m \in 0..n /\ m # 0 OBVIOUS
  <2>2. QED BY <1>5, <2>1 DEF RunAt
<1>8. IsRunOf(F, db, driver1, statements) BY <1>1, <1>4, <1>6, <1>7 DEF IsRunOf
<1>9. QED BY <1>8

\* Running a script on a schema leaves a schema.
LEMMA RunKeepsSchema ==
  ASSUME NEW db, IsSchema(db), NEW driver1, NEW statements, IsScript(statements)
  PROVE  IsSchema(RunScript(db, driver1, statements).db)
<1>1. PICK n \in Nat : n = Len(statements) BY ScriptEntries
<1>2. PICK f : IsRunOf(f, db, driver1, statements) BY <1>1, RunIs
<1>3. \A m \in 1..n :
       f[m] = IF f[m - 1].ok /\ Accepts(f[m - 1].db, driver1, statements[m])
              THEN [db |-> Effect(f[m - 1].db, statements[m]), ok |-> TRUE]
              ELSE [db |-> f[m - 1].db, ok |-> FALSE]
  BY <1>1, <1>2 DEF IsRunOf
<1> DEFINE T == {m \in Nat : m \in 0..n /\ ~IsSchema(f[m].db)}
<1>4. T = {}
  <2>1. SUFFICES ASSUME T # {} PROVE FALSE OBVIOUS
  <2>2. PICK m \in T : \A k \in T : m <= k BY <2>1, LeastMember, Zenon
  <2>3. m \in 0..n /\ ~IsSchema(f[m].db) BY <2>2
  <2>4. m # 0
    <3>1. f[0].db = db BY <1>2 DEF IsRunOf
    <3>2. QED BY <2>3, <3>1
  <2>5. m \in 1..n /\ m - 1 \in Nat /\ m - 1 \in 0..n /\ ~(m <= m - 1) BY <2>3, <2>4
  <2>6. IsSchema(f[m - 1].db) BY <2>2, <2>5
  <2>7. IsStatement(statements[m]) BY <1>1, <2>5, ScriptEntries
  <2>8. CASE f[m - 1].ok /\ Accepts(f[m - 1].db, driver1, statements[m])
    <3>1. IsSchema(Effect(f[m - 1].db, statements[m])) BY <2>6, <2>7, <2>8, EffectKeepsSchema
    <3>2. f[m] = [db |-> Effect(f[m - 1].db, statements[m]), ok |-> TRUE] BY <1>3, <2>5, <2>8
    <3>3. QED BY <2>3, <3>1, <3>2
  <2>9. CASE ~(f[m - 1].ok /\ Accepts(f[m - 1].db, driver1, statements[m]))
    <3>1. f[m] = [db |-> f[m - 1].db, ok |-> FALSE] BY <1>3, <2>5, <2>9
    <3>2. QED BY <2>3, <2>6, <3>1
  <2>10. QED BY <2>8, <2>9
<1>5. IsSchema(f[n].db)
  <2>1. n \in 0..n OBVIOUS
  <2>2. QED BY <1>4, <2>1
<1>6. RunScript(db, driver1, statements) = f[n] \/ RunScript(db, driver1, statements) = [db |-> db, ok |-> FALSE]
  BY <1>1, <1>2 DEF IsRunOf
<1>7. QED BY <1>5, <1>6

\* A run that succeeds: every statement was accepted, and the effects follow
\* one after the other.
IsSteps(f, db, driver1, statements, end) ==
  /\ f[0] = db /\ f[Len(statements)] = end
  /\ \A n \in 1..Len(statements) :
       Accepts(f[n - 1], driver1, statements[n]) /\ f[n] = Effect(f[n - 1], statements[n])

\* A script that ran through accepted and made every one of its steps.
LEMMA RunSucceeds ==
  ASSUME NEW db, NEW driver1, NEW statements, Len(statements) \in Nat, RunScript(db, driver1, statements).ok
  PROVE  \E g : IsSteps(g, db, driver1, statements, RunScript(db, driver1, statements).db)
<1>1. PICK n \in Nat : n = Len(statements) OBVIOUS
<1>2. PICK f : IsRunOf(f, db, driver1, statements) BY RunIs
<1>3. \A m \in 1..n :
       f[m] = IF f[m - 1].ok /\ Accepts(f[m - 1].db, driver1, statements[m])
              THEN [db |-> Effect(f[m - 1].db, statements[m]), ok |-> TRUE]
              ELSE [db |-> f[m - 1].db, ok |-> FALSE]
  BY <1>1, <1>2 DEF IsRunOf
<1>4. RunScript(db, driver1, statements) = f[n] /\ f[n].ok
  <2>1. RunScript(db, driver1, statements) =
          IF f[n].ok \/ ~Transactional(driver1) THEN f[n] ELSE [db |-> db, ok |-> FALSE]
    BY <1>1, <1>2 DEF IsRunOf
  <2>2. CASE f[n].ok \/ ~Transactional(driver1) BY <2>1, <2>2
  <2>3. CASE ~(f[n].ok \/ ~Transactional(driver1)) BY <2>1, <2>3
  <2>4. QED BY <2>2, <2>3
<1> DEFINE T == {d \in Nat : d <= n /\ ~f[n - d].ok}
<1>5. T = {}
  <2>1. SUFFICES ASSUME T # {} PROVE FALSE OBVIOUS
  <2>2. PICK d \in T : \A k \in T : d <= k BY <2>1, LeastMember, Zenon
  <2>3. d \in 0..n /\ ~f[n - d].ok BY <2>2
  <2>4. d # 0 BY <1>4, <2>3
  <2>5. d - 1 \in Nat /\ d - 1 <= n /\ ~(d <= d - 1) BY <2>3, <2>4
  <2>6. f[n - (d - 1)].ok BY <2>2, <2>5
  <2>7. PICK m \in 1..n : m = n - (d - 1) BY <2>3, <2>4
  <2>8. n - d = m - 1 BY <2>3, <2>7
  <2>9. ~f[m].ok
    <3>1. ~f[m - 1].ok BY <2>3, <2>8
    <3>2. f[m] = [db |-> f[m - 1].db, ok |-> FALSE] BY <1>3, <3>1
    <3>3. QED BY <3>2
  <2>10. QED BY <2>6, <2>7, <2>9
<1>6. \A m \in 0..n : f[m].ok
  <2> SUFFICES ASSUME NEW m \in 0..n PROVE f[m].ok OBVIOUS
  <2>1. n - m \in Nat /\ n - m <= n /\ n - (n - m) = m OBVIOUS
  <2>2. n - m \notin T BY <1>5
  <2>3. f[n - (n - m)].ok BY <2>1, <2>2
  <2>4. QED BY <2>1, <2>3
<1>7. PICK g : g = [m \in 0..n |-> f[m].db] OBVIOUS
<1>8. ASSUME NEW m \in 1..n
      PROVE  Accepts(g[m - 1], driver1, statements[m]) /\ g[m] = Effect(g[m - 1], statements[m])
  <2>1. m \in 0..n /\ m - 1 \in 0..n OBVIOUS
  <2>2. g[m - 1] = f[m - 1].db /\ g[m] = f[m].db BY <1>7, <2>1
  <2>3. f[m].ok /\ f[m - 1].ok BY <1>6, <2>1
  <2>4. CASE Accepts(f[m - 1].db, driver1, statements[m])
    <3>1. f[m] = [db |-> Effect(f[m - 1].db, statements[m]), ok |-> TRUE] BY <1>3, <2>3, <2>4
    <3>2. QED BY <2>2, <2>4, <3>1
  <2>5. CASE ~Accepts(f[m - 1].db, driver1, statements[m])
    <3>1. f[m] = [db |-> f[m - 1].db, ok |-> FALSE] BY <1>3, <2>5
    <3>2. QED BY <2>3, <3>1
  <2>6. QED BY <2>4, <2>5
<1>9. g[0] = db /\ g[n] = RunScript(db, driver1, statements).db
  <2>1. 0 \in 0..n /\ n \in 0..n OBVIOUS
  <2>2. f[0].db = db BY <1>2 DEF IsRunOf
  <2>3. QED BY <1>4, <1>7, <2>1, <2>2
<1>10. IsSteps(g, db, driver1, statements, RunScript(db, driver1, statements).db)
  BY <1>1, <1>8, <1>9 DEF IsSteps
<1>11. QED BY <1>10

-----------------------------------------------------------------------------
(* The order of the changes.                                               *)

\* A change between schemas, and finitely many of them.
IsChange(c) == c.kind \in DOMAIN changeOrder /\ c.object \in Nat /\ c.part \in Nat /\ IsScript(c.sql)
AreChanges(changes) == IsFiniteSet(changes) /\ \A c \in changes : IsChange(c)

\* Every kind of change has a number in the order.
LEMMA OrderOfKinds == \A kind \in DOMAIN changeOrder : changeOrder[kind] \in Nat
BY DEF changeOrder

\* Of some changes one may be made first.
LEMMA FirstExists ==
  ASSUME NEW S, S # {}, \A c \in S : IsChange(c)
  PROVE  \E c \in S : \A d \in S : ~CompareChangePriority(d, c)
<1> DEFINE Order(c) == changeOrder[c.kind]
<1>1. \A c \in S : Order(c) \in Nat BY OrderOfKinds DEF IsChange
<1> HIDE DEF Order
<1>2. PICK K : K = {Order(c) : c \in S} OBVIOUS
<1>3. PICK k \in K : \A m \in K : k <= m BY <1>1, <1>2, LeastMember
<1>4. PICK A : A = {c \in S : Order(c) = k} OBVIOUS
<1>5. A # {} /\ \A c \in A : c.object \in Nat BY <1>2, <1>3, <1>4 DEF IsChange
<1>6. PICK O : O = {c.object : c \in A} OBVIOUS
<1>7. PICK o \in O : \A m \in O : o <= m BY <1>5, <1>6, LeastMember
<1>8. PICK B : B = {c \in A : c.object = o} OBVIOUS
<1>9. B # {} /\ \A c \in B : c.part \in Nat BY <1>4, <1>6, <1>7, <1>8 DEF IsChange
<1>10. PICK P : P = {c.part : c \in B} OBVIOUS
<1>11. PICK p \in P : \A m \in P : p <= m BY <1>9, <1>10, LeastMember
<1>12. PICK c \in B : c.part = p BY <1>10, <1>11
<1>13. c \in S /\ Order(c) = k /\ c.object = o /\ k \in Nat /\ o \in Nat /\ p \in Nat
  BY <1>1, <1>2, <1>3, <1>4, <1>5, <1>6, <1>7, <1>8, <1>9, <1>12
<1>14. ASSUME NEW d \in S, CompareChangePriority(d, c) PROVE FALSE
  <2>1. k <= Order(d) /\ Order(d) \in Nat BY <1>1, <1>2, <1>3, <1>14
  <2>2. ~(Order(d) < Order(c)) BY <1>13, <2>1
  <2>3. d.kind = c.kind /\ (d.object < c.object \/ (d.object = c.object /\ d.part < c.part))
    BY <1>14, <2>2 DEF CompareChangePriority, Order
  <2>4. d \in A BY <1>4, <1>13, <1>14, <2>3 DEF Order
  <2>5. o <= d.object /\ d.object \in Nat BY <1>5, <1>6, <1>7, <2>4
  <2>6. d.object = o /\ d.part < p BY <1>12, <1>13, <2>3, <2>5
  <2>7. d \in B BY <1>8, <2>4, <2>6
  <2>8. p <= d.part /\ d.part \in Nat BY <1>9, <1>10, <1>11, <2>7
  <2>9. QED BY <1>13, <2>6, <2>8
<1>15. QED BY <1>13, <1>14

\* One step of the ordering, over a table f of what is ordered so far.
ReadyAmong(changes, left) == {c \in left : \A e \in Edges(changes) : e[2] = c => e[1] \notin left}
OrderAt(f, changes, n) ==
  IF n = 0 THEN [order |-> <<>>, left |-> changes, cycle |-> FALSE]
  ELSE LET cycle == f[n - 1].cycle \/ ReadyAmong(changes, f[n - 1].left) = {}
           candidates == IF cycle THEN f[n - 1].left ELSE ReadyAmong(changes, f[n - 1].left)
           first == CHOOSE c \in candidates : \A d \in candidates : ~CompareChangePriority(d, c)
       IN  [order |-> Append(f[n - 1].order, first), left |-> f[n - 1].left \ {first}, cycle |-> cycle]
IsOrdering(f, changes, n) == f = [m \in 0..n |-> OrderAt(f, changes, m)]

\* A recursive function over the number of ordered changes has its values.
LEMMA OrderingExists ==
  ASSUME NEW changes, NEW n \in Nat
  PROVE  \E f : IsOrdering(f, changes, n)
<1> DEFINE T == {m \in Nat : ~ \E f : IsOrdering(f, changes, m)}
<1>1. SUFFICES ASSUME T # {} PROVE FALSE OBVIOUS
<1>2. PICK m \in T : \A k \in T : m <= k BY <1>1, LeastMember
<1>3. CASE m = 0
  <2>1. PICK start : start = [order |-> <<>>, left |-> changes, cycle |-> FALSE] OBVIOUS
  <2>2. PICK f : f = [k \in 0..0 |-> start] OBVIOUS
  <2>3. \A k \in 0..0 : OrderAt(f, changes, k) = start BY <2>1 DEF OrderAt
  <2>4. IsOrdering(f, changes, 0) BY <2>2, <2>3 DEF IsOrdering
  <2>5. QED BY <2>4, <1>3
<1>4. CASE m > 0
  <2>1. m - 1 \in Nat /\ m - 1 \notin T BY <1>4, <1>2
  <2>2. PICK g : IsOrdering(g, changes, m - 1) BY <2>1
  <2>3. PICK last : last = OrderAt(g, changes, m) OBVIOUS
  <2>4. PICK f : f = [k \in 0..m |-> IF k < m THEN g[k] ELSE last] OBVIOUS
  <2>5. ASSUME NEW k \in 0..m PROVE f[k] = OrderAt(f, changes, k)
    <3>1. k # 0 => f[k - 1] = g[k - 1] BY <2>4
    <3>2. OrderAt(f, changes, k) = OrderAt(g, changes, k) BY <3>1 DEF OrderAt
    <3>3. CASE k = m BY <2>3, <2>4, <3>2, <3>3
    <3>4. CASE k < m
      <4>1. k \in 0..m - 1 BY <3>4
      <4>2. g[k] = OrderAt(g, changes, k) BY <2>2, <4>1 DEF IsOrdering
      <4>3. QED BY <2>4, <3>2, <3>4, <4>2
    <3>5. QED BY <3>3, <3>4
  <2>6. f = [k \in 0..m |-> f[k]] BY <2>4
  <2>7. IsOrdering(f, changes, m) BY <2>5, <2>6 DEF IsOrdering
  <2>8. QED BY <2>7
<1>5. QED BY <1>3, <1>4

\* OrderSchemaChanges is the last of them.
LEMMA OrderingIs ==
  ASSUME NEW changes, IsFiniteSet(changes)
  PROVE  \E f : IsOrdering(f, changes, Cardinality(changes))
                /\ OrderSchemaChanges(changes) = f[Cardinality(changes)].order
<1>1. PICK n \in Nat : n = Cardinality(changes) BY FS_CardinalityType
<1> DEFINE Ready(left) == {c \in left : \A e \in Edges(changes) : e[2] = c => e[1] \notin left}
           F == CHOOSE f : f = [m \in 0..n |->
                  IF m = 0 THEN [order |-> <<>>, left |-> changes, cycle |-> FALSE]
                  ELSE LET before == f[m - 1]
                           cycle == before.cycle \/ Ready(before.left) = {}
                           candidates == IF cycle THEN before.left ELSE Ready(before.left)
                           first == CHOOSE c \in candidates : \A d \in candidates : ~CompareChangePriority(d, c)
                       IN  [order |-> Append(before.order, first), left |-> before.left \ {first}, cycle |-> cycle]]
<1>2. PICK g : IsOrdering(g, changes, n) BY OrderingExists
<1>3. IsOrdering(F, changes, n)
  BY <1>2, Zenon DEF IsOrdering, OrderAt, ReadyAmong
<1>4. OrderSchemaChanges(changes) = F[n].order BY <1>1, Zenon DEF OrderSchemaChanges
<1>5. QED BY <1>1, <1>3, <1>4, Zenon

\* What must come before a change does so.
Followed(order, changes) ==
  \A e \in Edges(changes), j \in DOMAIN order : order[j] = e[2] => \E i \in 1..j - 1 : order[i] = e[1]
\* Some changes all wait for one another.
Blocked(changes) == \E left \in SUBSET changes : left # {} /\ ReadyAmong(changes, left) = {}

\* What is ordered of the changes after n steps, and what is left.
OrderedSoFar(acc, changes, n) ==
  /\ IF acc.cycle THEN Blocked(changes) ELSE Followed(acc.order, changes)
  /\ acc.order \in Seq(changes) /\ Len(acc.order) = n
  /\ acc.left \subseteq changes /\ Cardinality(acc.left) = Cardinality(changes) - n
  /\ acc.left = changes \ Entries(acc.order) /\ Distinct(acc.order)

\* One more change is ordered, and all that was said stays true.
LEMMA OrderedNext ==
  ASSUME NEW changes, AreChanges(changes), NEW f, NEW n \in Nat, n > 0, n <= Cardinality(changes),
         f[n] = OrderAt(f, changes, n), OrderedSoFar(f[n - 1], changes, n - 1)
  PROVE  OrderedSoFar(f[n], changes, n)
<1> DEFINE cycle == f[n - 1].cycle \/ ReadyAmong(changes, f[n - 1].left) = {}
           candidates == IF cycle THEN f[n - 1].left ELSE ReadyAmong(changes, f[n - 1].left)
           first == CHOOSE c \in candidates : \A d \in candidates : ~CompareChangePriority(d, c)
<1>1. f[n] = [order |-> Append(f[n - 1].order, first), left |-> f[n - 1].left \ {first}, cycle |-> cycle]
  <2>1. n # 0 OBVIOUS
  <2>2. QED BY <2>1, Zenon DEF OrderAt
<1>2. PICK left : left = f[n - 1].left OBVIOUS
<1>3. PICK order : order = f[n - 1].order OBVIOUS
<1>4. cycle \in BOOLEAN /\ (~cycle => ReadyAmong(changes, left) # {}) BY <1>2
<1>5. candidates = IF cycle THEN left ELSE ReadyAmong(changes, left) BY <1>2
<1>6. first = CHOOSE c \in candidates : \A d \in candidates : ~CompareChangePriority(d, c) OBVIOUS
<1>6a. IF f[n - 1].cycle THEN Blocked(changes) ELSE Followed(order, changes) BY <1>3 DEF OrderedSoFar
<1>6b. cycle = (f[n - 1].cycle \/ ReadyAmong(changes, left) = {}) BY <1>2
<1> HIDE DEF cycle, candidates, first
<1>7. /\ order \in Seq(changes) /\ Len(order) = n - 1 /\ left \subseteq changes
      /\ Cardinality(left) = Cardinality(changes) - (n - 1)
      /\ left = changes \ Entries(order) /\ Distinct(order)
  BY <1>2, <1>3 DEF OrderedSoFar
<1>8. IsFiniteSet(left) /\ Cardinality(changes) \in Nat BY <1>7, FS_Subset, FS_CardinalityType DEF AreChanges
<1>9. left # {}
  <2>1. Cardinality(left) # 0 BY <1>7, <1>8
  <2>2. QED BY <2>1, FS_EmptySet
<1>10. candidates \subseteq left /\ candidates # {}
  <2>1. ReadyAmong(changes, left) \subseteq left BY DEF ReadyAmong
  <2>2. CASE cycle BY <1>5, <1>9, <2>2
  <2>3. CASE ~cycle BY <1>4, <1>5, <2>1, <2>3
  <2>4. QED BY <2>2, <2>3
<1>11. first \in candidates
  <2>1. \A c \in candidates : IsChange(c) BY <1>7, <1>10 DEF AreChanges
  <2>2. \E c \in candidates : \A d \in candidates : ~CompareChangePriority(d, c) BY <1>10, <2>1, FirstExists
  <2>3. QED BY <1>6, <2>2
<1>12. first \in left /\ first \in changes BY <1>7, <1>10, <1>11
<1>13. Cardinality(left \ {first}) = Cardinality(changes) - n
  <2>1. Cardinality(left \ {first}) = Cardinality(left) - 1 BY <1>8, <1>12, FS_RemoveElement
  <2>2. QED BY <1>7, <1>8, <2>1
<1>14. PICK new : new = Append(order, first) OBVIOUS
<1>15. /\ new \in Seq(changes) /\ Len(new) = n /\ new[n] = first
       /\ \A i \in 1..n - 1 : new[i] = order[i]
  BY <1>7, <1>12, <1>14
<1>16. DOMAIN new = 1..n /\ DOMAIN order = 1..n - 1 BY <1>7, <1>15
<1>17. Entries(new) = Entries(order) \cup {first}
  <2>1. ASSUME NEW i \in 1..n PROVE new[i] \in Entries(order) \cup {first}
    <3>1. CASE i = n BY <1>15, <3>1
    <3>2. CASE i # n BY <1>15, <1>16, <3>2 DEF Entries
    <3>3. QED BY <3>1, <3>2
  <2>2. n \in 1..n /\ \A i \in 1..n - 1 : i \in 1..n OBVIOUS
  <2>3. Entries(order) \cup {first} \subseteq Entries(new) BY <1>15, <1>16, <2>2 DEF Entries
  <2>4. QED BY <1>16, <2>1, <2>3 DEF Entries
<1>18. first \notin Entries(order) BY <1>7, <1>12
<1>19. Distinct(new)
  <2> SUFFICES ASSUME NEW i \in 1..n, NEW j \in 1..n, new[i] = new[j] PROVE i = j BY <1>16 DEF Distinct
  <2>1. \A k \in 1..n - 1 : new[k] \in Entries(order) BY <1>15, <1>16 DEF Entries
  <2>2. CASE i = n \/ j = n
    <3>1. i \in 1..n - 1 => j = n /\ new[i] = first BY <1>15, <2>2
    <3>2. j \in 1..n - 1 => i = n /\ new[j] = first BY <1>15, <2>2
    <3>3. i \notin 1..n - 1 /\ j \notin 1..n - 1 BY <1>18, <2>1, <3>1, <3>2
    <3>4. QED BY <3>3
  <2>3. CASE i # n /\ j # n
    <3>1. i \in 1..n - 1 /\ j \in 1..n - 1 BY <2>3
    <3>2. order[i] = order[j] BY <1>15, <3>1
    <3>3. QED BY <1>7, <1>16, <3>1, <3>2 DEF Distinct
  <2>4. QED BY <2>2, <2>3
<1>20. left \ {first} = changes \ Entries(new) BY <1>7, <1>17
<1>21. f[n].order = new /\ f[n].left = left \ {first} BY <1>1, <1>2, <1>3, <1>14
<1>22. f[n].cycle = cycle BY <1>1
<1>23. cycle => Blocked(changes)
  <2>1. CASE f[n - 1].cycle BY <1>6a, <2>1
  <2>2. CASE ReadyAmong(changes, left) = {} BY <1>7, <1>9, <2>2 DEF Blocked
  <2>3. QED BY <1>6b, <2>1, <2>2
<1>24. ASSUME ~cycle, NEW e \in Edges(changes), NEW j \in 1..n, new[j] = e[2]
       PROVE  \E i \in 1..j - 1 : new[i] = e[1]
  <2>1. CASE j = n
    <3>1. first \in ReadyAmong(changes, left) BY <1>5, <1>11, <1>24
    <3>2. e[1] \notin left BY <1>15, <1>24, <2>1, <3>1 DEF ReadyAmong
    <3>3. e[1] \in changes BY DEF Edges
    <3>4. e[1] \in Entries(order) BY <1>7, <3>2, <3>3
    <3>5. PICK i \in 1..n - 1 : order[i] = e[1] BY <1>16, <3>4 DEF Entries
    <3>6. QED BY <1>15, <2>1, <3>5
  <2>2. CASE j # n
    <3>1. j \in 1..n - 1 BY <2>2
    <3>2. Followed(order, changes) BY <1>6a, <1>6b, <1>24
    <3>3. PICK i \in 1..j - 1 : order[i] = e[1] BY <1>15, <1>16, <1>24, <3>1, <3>2 DEF Followed
    <3>4. i \in 1..n - 1 BY <3>1
    <3>5. QED BY <1>15, <3>3, <3>4
  <2>3. QED BY <2>1, <2>2
<1>25. ~cycle => Followed(new, changes) BY <1>16, <1>24 DEF Followed
<1>26. IF f[n].cycle THEN Blocked(changes) ELSE Followed(f[n].order, changes) BY <1>21, <1>22, <1>23, <1>25
<1>27. QED BY <1>7, <1>13, <1>15, <1>19, <1>20, <1>21, <1>26 DEF OrderedSoFar

(* The difference of two schemas is ordered whole: whatever the changes    *)
(* depend on, and however they block each other, each of them is in the    *)
(* order once, and each comes after everything it depends on, unless some  *)
(* changes all wait for one another.  (schemaDiff.ts, orderSchemaChanges.) *)
THEOREM EveryChangeIsOrdered ==
  ASSUME NEW changes, AreChanges(changes)
  PROVE  /\ OrderSchemaChanges(changes) \in Seq(changes)
         /\ Entries(OrderSchemaChanges(changes)) = changes /\ Distinct(OrderSchemaChanges(changes))
         /\ Followed(OrderSchemaChanges(changes), changes) \/ Blocked(changes)
<1>1. PICK n \in Nat : n = Cardinality(changes) BY FS_CardinalityType DEF AreChanges
<1>2. PICK f : IsOrdering(f, changes, n) /\ OrderSchemaChanges(changes) = f[n].order
  BY <1>1, OrderingIs DEF AreChanges
<1>3. \A m \in 0..n : f[m] = OrderAt(f, changes, m) BY <1>2 DEF IsOrdering
<1> DEFINE T == {m \in Nat : m \in 0..n /\ ~OrderedSoFar(f[m], changes, m)}
<1>4. T = {}
  <2>1. SUFFICES ASSUME T # {} PROVE FALSE OBVIOUS
  <2>2. PICK m \in T : \A k \in T : m <= k BY <2>1, LeastMember, Zenon
  <2>3. m \in 0..n /\ ~OrderedSoFar(f[m], changes, m) BY <2>2
  <2>4. CASE m = 0
    <3>1. f[0] = [order |-> <<>>, left |-> changes, cycle |-> FALSE] BY <1>3, <2>3, <2>4 DEF OrderAt
    <3>2. <<>> \in Seq(changes) /\ Len(<<>>) = 0 /\ DOMAIN <<>> = {} OBVIOUS
    <3>3. Entries(<<>>) = {} /\ Distinct(<<>>) BY <3>2 DEF Entries, Distinct
    <3>4. Cardinality(changes) - 0 = Cardinality(changes) BY <1>1
    <3>5. f[0].order = <<>> /\ f[0].left = changes /\ ~f[0].cycle /\ Followed(<<>>, changes)
      BY <3>1, <3>2 DEF Followed
    <3>6. OrderedSoFar(f[0], changes, 0) BY <3>2, <3>3, <3>4, <3>5 DEF OrderedSoFar
    <3>7. QED BY <2>3, <2>4, <3>6
  <2>5. CASE m # 0
    <3>1. m - 1 \in Nat /\ m - 1 \in 0..n /\ ~(m <= m - 1) /\ m > 0 /\ m <= n BY <2>3, <2>5
    <3>2. OrderedSoFar(f[m - 1], changes, m - 1) BY <2>2, <3>1
    <3>3. f[m] = OrderAt(f, changes, m) BY <1>3, <2>3
    <3>4. QED BY <1>1, <2>3, <3>1, <3>2, <3>3, OrderedNext
  <2>6. QED BY <2>4, <2>5
<1>5. OrderedSoFar(f[n], changes, n)
  <2>1. n \in 0..n OBVIOUS
  <2>2. QED BY <1>4, <2>1
<1>6. f[n].left = {}
  <2>1. Cardinality(f[n].left) = 0 /\ f[n].left \subseteq changes BY <1>1, <1>5 DEF OrderedSoFar
  <2>2. IsFiniteSet(f[n].left) BY <2>1, FS_Subset DEF AreChanges
  <2>3. QED BY <2>1, <2>2, FS_EmptySet
<1>7. /\ f[n].order \in Seq(changes) /\ changes \ Entries(f[n].order) = {} /\ Distinct(f[n].order)
      /\ Followed(f[n].order, changes) \/ Blocked(changes)
  BY <1>5, <1>6 DEF OrderedSoFar
<1>8. Entries(f[n].order) \subseteq changes BY <1>7 DEF Entries
<1>9. QED BY <1>2, <1>7, <1>8

-----------------------------------------------------------------------------
(* The changes between two schemas.                                        *)

\* The image of a finite set is finite.
LEMMA FiniteImage ==
  ASSUME NEW S, IsFiniteSet(S), NEW f, NEW T, T = {f[x] : x \in S}
  PROVE  IsFiniteSet(T)
<1>1. [x \in S |-> f[x]] \in Surjection(S, T) BY DEF Surjection
<1>2. QED BY <1>1, FS_Surjection

\* Two sets of changes are a set of changes.
LEMMA ChangesJoined ==
  ASSUME NEW A, AreChanges(A), NEW B, AreChanges(B)
  PROVE  AreChanges(A \cup B)
BY FS_Union DEF AreChanges

\* One change for each part is a set of changes.
LEMMA ChangesOver ==
  ASSUME NEW S, IsFiniteSet(S), NEW f, \A x \in S : IsChange(f[x])
  PROVE  AreChanges({f[x] : x \in S})
BY FiniteImage DEF AreChanges

\* A set of changes for each part is a set of changes.
LEMMA ChangesUnited ==
  ASSUME NEW S, IsFiniteSet(S), NEW f, \A x \in S : AreChanges(f[x])
  PROVE  AreChanges(UNION {f[x] : x \in S})
<1>1. IsFiniteSet({f[x] : x \in S}) BY FiniteImage
<1>2. IsFiniteSet(UNION {f[x] : x \in S}) BY <1>1, FS_UNION DEF AreChanges
<1>3. QED BY <1>2 DEF AreChanges

\* A change and the same one with what it depends on.
LEMMA ChangeIs ==
  ASSUME NEW kind \in DOMAIN changeOrder, NEW object \in Nat, NEW part \in Nat,
         NEW sql, IsScript(sql), NEW undo, NEW set
  PROVE  /\ IsChange(Change(kind, object, part, sql, undo))
         /\ IsChange([Change(kind, object, part, sql, undo) EXCEPT !.after = set])
         /\ IsChange([Change(kind, object, part, sql, undo) EXCEPT !.before = set])
BY DEF IsChange, Change

\* The kinds compareSchemaSnapshots writes are those the order knows.
LEMMA KindsOfChanges ==
  {"tableAdded", "columnAdded", "indexAdded", "foreignKeyAdded", "viewAdded", "columnChanged", "foreignKeyRemoved",
   "indexRemoved", "columnRemoved", "viewChanged", "viewRemoved", "tableRemoved"} \subseteq DOMAIN changeOrder
BY DEF changeOrder

\* The SQL of a change.
PlainStatement(do) == do \notin {"createTable", "renameColumn", "renameIndex"}

\* A statement about objects with names is one.
LEMMA StatementIs ==
  ASSUME NEW do, NEW on \in Nat, NEW name \in Nat, NEW def
  PROVE  /\ PlainStatement(do) => IsStatement(Statement(do, on, name, def))
         /\ do = "createTable" /\ AreColumns(def.columns) => IsStatement(Statement(do, on, name, def))
         /\ do \in {"renameColumn", "renameIndex"} /\ def.to \in Nat => IsStatement(Statement(do, on, name, def))
BY DEF IsStatement, Statement, PlainStatement

\* The SQL of a change, and that of its rollback, is a script.
LEMMA SqlOfChanges ==
  ASSUME NEW driver1, NEW t \in Nat, NEW x \in Nat, NEW def
  PROVE  /\ AreColumns(def.columns) => IsScript(CreateTableSql(t, def))
         /\ IsScript(DropTableSql(t)) /\ IsScript(IndexSql(t, x, def)) /\ IsScript(DropIndexSql(t, x))
         /\ IsScript(ForeignKeySql(driver1, t, x, def)) /\ IsScript(DropForeignKeySql(driver1, t, x))
         /\ IsScript(ViewCreateSql(t, def)) /\ IsScript(ViewReplaceSql(driver1, t, def)) /\ IsScript(ViewDropSql(t))
         /\ IsScript(AddColumnSql(t, x, def)) /\ IsScript(DropColumnSql(driver1, t, x))
         /\ IsScript(AlterColumnSql(driver1, t, x, def))
<1>1. None \in Nat BY DEF None
<1>2. \A do \in {"dropTable", "createIndex", "dropIndex", "addForeignKey", "dropForeignKey", "createView",
                 "replaceView", "dropView", "addColumn", "dropColumn", "setType", "setNullable", "setColumn"} :
        PlainStatement(do)
  BY DEF PlainStatement
<1>3. \A do, d : PlainStatement(do) => /\ IsStatement(Statement(do, t, x, d))
                                       /\ IsStatement(Statement(do, t, None, d))
  BY <1>1, StatementIs
<1>4. AreColumns(def.columns) => IsScript(CreateTableSql(t, def))
  <2>1. AreColumns(def.columns) => IsStatement(Statement("createTable", t, None, [columns |-> def.columns]))
    BY <1>1, StatementIs
  <2>2. QED BY <2>1, ShortScripts DEF CreateTableSql
<1>5. IsScript(DropTableSql(t)) /\ IsScript(IndexSql(t, x, def)) /\ IsScript(DropIndexSql(t, x))
  BY <1>2, <1>3, ShortScripts DEF DropTableSql, IndexSql, DropIndexSql
<1>6. IsScript(ForeignKeySql(driver1, t, x, def)) /\ IsScript(DropForeignKeySql(driver1, t, x))
  BY <1>2, <1>3, ShortScripts DEF ForeignKeySql, DropForeignKeySql, Manual
<1>7. IsScript(ViewCreateSql(t, def)) /\ IsScript(ViewReplaceSql(driver1, t, def)) /\ IsScript(ViewDropSql(t))
  BY <1>2, <1>3, ShortScripts DEF ViewCreateSql, ViewReplaceSql, ViewDropSql, Manual
<1>8. IsScript(AddColumnSql(t, x, def)) /\ IsScript(DropColumnSql(driver1, t, x))
  BY <1>2, <1>3, ShortScripts DEF AddColumnSql, DropColumnSql, Manual
<1>9. IsScript(AlterColumnSql(driver1, t, x, def))
  <2>1. IsStatement(Statement("setType", t, x, [type |-> def.type])) BY <1>2, <1>3
  <2>2. IsStatement(Statement("setNullable", t, x, [nullable |-> def.nullable])) BY <1>2, <1>3
  <2>3. IsStatement(Statement("setColumn", t, x, def)) BY <1>2, <1>3
  <2>4. QED BY <2>1, <2>2, <2>3, ShortScripts DEF AlterColumnSql, Manual
<1>10. QED BY <1>4, <1>5, <1>6, <1>7, <1>8, <1>9

\* An added table is a set of changes.
LEMMA TableAddedIs ==
  ASSUME NEW driver1, NEW t \in Nat, NEW table, IsTableOf(table)
  PROVE  AreChanges(TableAdded(driver1, t, table))
<1>0. None \in Nat BY DEF None
<1>1. IsChange(Change("tableAdded", t, None, CreateTableSql(t, table), DropTableSql(t)))
  BY <1>0, SqlOfChanges, ChangeIs, KindsOfChanges DEF IsTableOf
<1>2. AreChanges({Change("tableAdded", t, None, CreateTableSql(t, table), DropTableSql(t))})
  BY <1>1, FS_Singleton DEF AreChanges
<1> DEFINE f == [i \in DOMAIN table.indexes |->
                   Change("indexAdded", t, i, IndexSql(t, i, table.indexes[i]), DropIndexSql(t, i))]
<1>3. IsFiniteSet(DOMAIN table.indexes) /\ DOMAIN table.indexes \subseteq Nat BY DEF IsTableOf, IsParts
<1>4. \A i \in DOMAIN table.indexes : IsChange(f[i]) BY <1>3, SqlOfChanges, ChangeIs, KindsOfChanges
<1>5. AreChanges({f[i] : i \in DOMAIN table.indexes}) BY <1>3, <1>4, ChangesOver
<1>6. QED BY <1>2, <1>5, ChangesJoined DEF TableAdded

\* So are added and removed foreign keys.
LEMMA ForeignKeyChangesAre ==
  ASSUME NEW driver1, NEW t \in Nat, NEW keys, IsParts(keys), NEW S \in SUBSET DOMAIN keys
  PROVE  AreChanges(ForeignKeysAdded(driver1, t, keys, S)) /\ AreChanges(ForeignKeysRemoved(driver1, t, keys, S))
<1>1. IsFiniteSet(S) /\ S \subseteq Nat BY FS_Subset DEF IsParts
<1> DEFINE added == [k \in S |-> [Change("foreignKeyAdded", t, k, ForeignKeySql(driver1, t, k, keys[k]),
                                         DropForeignKeySql(driver1, t, k)) EXCEPT !.after = {keys[k].table}]]
           removed == [k \in S |-> [Change("foreignKeyRemoved", t, k, DropForeignKeySql(driver1, t, k),
                                           ForeignKeySql(driver1, t, k, keys[k])) EXCEPT !.before = {keys[k].table}]]
<1>2. \A k \in S : IsChange(added[k]) /\ IsChange(removed[k])
  BY <1>1, SqlOfChanges, ChangeIs, KindsOfChanges
<1> HIDE DEF added, removed
<1>3. AreChanges({added[k] : k \in S}) /\ AreChanges({removed[k] : k \in S}) BY <1>1, <1>2, ChangesOver
<1>4. QED BY <1>3 DEF ForeignKeysAdded, ForeignKeysRemoved, added, removed

\* So is a removed table.
LEMMA TableRemovedIs ==
  ASSUME NEW driver1, NEW t \in Nat, NEW table, IsTableOf(table)
  PROVE  AreChanges(TableRemoved(driver1, t, table))
<1>0. None \in Nat BY DEF None
<1>1. PICK change : change = [Change("tableRemoved", t, None, DropTableSql(t), CreateTableSql(t, table)) EXCEPT
                                !.before = {table.keys[k].table : k \in DOMAIN table.keys}]
  OBVIOUS
<1>2. IsChange(change) BY <1>0, <1>1, SqlOfChanges, ChangeIs, KindsOfChanges
<1>3. AreChanges({change}) BY <1>2, FS_Singleton DEF AreChanges
<1>4. QED BY <1>1, <1>3 DEF TableRemoved

\* So are the changes of a table's columns.
LEMMA ColumnChangesAre ==
  ASSUME NEW driver1, NEW t \in Nat, NEW old, IsParts(old), NEW new, IsParts(new)
  PROVE  AreChanges(ColumnChanges(driver1, t, old, new))
<1>1. PICK A : A = DOMAIN new \ DOMAIN old OBVIOUS
<1>2. PICK C : C = NotIn(new, old) \cap DOMAIN old OBVIOUS
<1>3. PICK R : R = DOMAIN old \ DOMAIN new OBVIOUS
<1>4. /\ IsFiniteSet(A) /\ IsFiniteSet(C) /\ IsFiniteSet(R)
      /\ A \subseteq Nat /\ C \subseteq Nat /\ R \subseteq Nat
  BY <1>1, <1>2, <1>3, FS_Subset DEF IsParts
<1> DEFINE added == [c \in A |-> Change("columnAdded", t, c, AddColumnSql(t, c, new[c]), DropColumnSql(driver1, t, c))]
           changed == [c \in C |-> Change("columnChanged", t, c, AlterColumnSql(driver1, t, c, new[c]),
                                          AlterColumnSql(driver1, t, c, old[c]))]
           removed == [c \in R |->
                          Change("columnRemoved", t, c, DropColumnSql(driver1, t, c), AddColumnSql(t, c, old[c]))]
<1>5. \A c \in A : IsChange(added[c]) BY <1>4, SqlOfChanges, ChangeIs, KindsOfChanges
<1>6. \A c \in C : IsChange(changed[c]) BY <1>4, SqlOfChanges, ChangeIs, KindsOfChanges
<1>7. \A c \in R : IsChange(removed[c]) BY <1>4, SqlOfChanges, ChangeIs, KindsOfChanges
<1>8. AreChanges({added[c] : c \in A}) /\ AreChanges({changed[c] : c \in C}) /\ AreChanges({removed[c] : c \in R})
  BY <1>4, <1>5, <1>6, <1>7, ChangesOver
<1>9. AreChanges({added[c] : c \in A} \cup {changed[c] : c \in C} \cup {removed[c] : c \in R}) BY <1>8, ChangesJoined
<1>10. QED BY <1>1, <1>2, <1>3, <1>9 DEF ColumnChanges

\* So are those of its indexes.
LEMMA IndexChangesAre ==
  ASSUME NEW t \in Nat, NEW old, IsParts(old), NEW new, IsParts(new)
  PROVE  AreChanges(IndexChanges(t, old, new))
<1>1. PICK A : A = NotIn(new, old) OBVIOUS
<1>2. PICK R : R = NotIn(old, new) OBVIOUS
<1>3. IsFiniteSet(A) /\ IsFiniteSet(R) /\ A \subseteq Nat /\ R \subseteq Nat
  <2>1. A \subseteq DOMAIN new /\ R \subseteq DOMAIN old BY <1>1, <1>2 DEF NotIn
  <2>2. QED BY <2>1, FS_Subset DEF IsParts
<1> DEFINE added == [i \in A |-> Change("indexAdded", t, i, IndexSql(t, i, new[i]), DropIndexSql(t, i))]
           removed == [i \in R |-> Change("indexRemoved", t, i, DropIndexSql(t, i), IndexSql(t, i, old[i]))]
<1>4. \A i \in A : IsChange(added[i]) BY <1>3, SqlOfChanges, ChangeIs, KindsOfChanges
<1>5. \A i \in R : IsChange(removed[i]) BY <1>3, SqlOfChanges, ChangeIs, KindsOfChanges
<1>6. AreChanges({added[i] : i \in A}) /\ AreChanges({removed[i] : i \in R}) BY <1>3, <1>4, <1>5, ChangesOver
<1>7. AreChanges({added[i] : i \in A} \cup {removed[i] : i \in R}) BY <1>6, ChangesJoined
<1>8. QED BY <1>1, <1>2, <1>7 DEF IndexChanges

\* So are those of the views.
LEMMA ViewChangesAre ==
  ASSUME NEW driver1, NEW old, IsParts(old), NEW new, IsParts(new)
  PROVE  AreChanges(ViewChanges(driver1, old, new))
<1>0. None \in Nat BY DEF None
<1>1. PICK A : A = DOMAIN new \ DOMAIN old OBVIOUS
<1>2. PICK C : C = NotIn(new, old) \cap DOMAIN old OBVIOUS
<1>3. PICK R : R = DOMAIN old \ DOMAIN new OBVIOUS
<1>4. /\ IsFiniteSet(A) /\ IsFiniteSet(C) /\ IsFiniteSet(R)
      /\ A \subseteq Nat /\ C \subseteq Nat /\ R \subseteq Nat
  BY <1>1, <1>2, <1>3, FS_Subset DEF IsParts
<1> DEFINE added == [v \in A |-> [Change("viewAdded", v, None, ViewCreateSql(v, new[v]), ViewDropSql(v)) EXCEPT
                                    !.after = new[v].reads]]
           changed == [v \in C |-> [Change("viewChanged", v, None, ViewReplaceSql(driver1, v, new[v]),
                                           ViewReplaceSql(driver1, v, old[v])) EXCEPT !.after = new[v].reads]]
           removed == [v \in R |-> [Change("viewRemoved", v, None, ViewDropSql(v), ViewCreateSql(v, old[v])) EXCEPT
                                      !.before = old[v].reads]]
<1>5. \A v \in A : IsChange(added[v]) BY <1>0, <1>4, SqlOfChanges, ChangeIs, KindsOfChanges
<1>6. \A v \in C : IsChange(changed[v]) BY <1>0, <1>4, SqlOfChanges, ChangeIs, KindsOfChanges
<1>7. \A v \in R : IsChange(removed[v]) BY <1>0, <1>4, SqlOfChanges, ChangeIs, KindsOfChanges
<1> HIDE DEF added, changed, removed
<1>8. AreChanges({added[v] : v \in A}) /\ AreChanges({changed[v] : v \in C}) /\ AreChanges({removed[v] : v \in R})
  BY <1>4, <1>5, <1>6, <1>7, ChangesOver
<1>9. AreChanges({added[v] : v \in A} \cup {changed[v] : v \in C} \cup {removed[v] : v \in R}) BY <1>8, ChangesJoined
<1>10. QED BY <1>1, <1>2, <1>3, <1>9 DEF ViewChanges, added, changed, removed

\* Two schemas differ by a finite set of changes.
LEMMA ChangesAre ==
  ASSUME NEW a, IsSchema(a), NEW b, IsSchema(b), NEW driver1
  PROVE  AreChanges(Changes(a, b, driver1))
<1> DEFINE old == a.tables
           new == b.tables
           A == DOMAIN new \ DOMAIN old
           B == DOMAIN new \cap DOMAIN old
           R == DOMAIN old \ DOMAIN new
<1>3. /\ IsParts(old) /\ IsParts(new)
      /\ \A t \in DOMAIN old : IsTableOf(old[t])
      /\ \A t \in DOMAIN new : IsTableOf(new[t])
  BY DEF IsSchema
<1>4. A \subseteq DOMAIN new /\ B \subseteq DOMAIN new /\ B \subseteq DOMAIN old /\ R \subseteq DOMAIN old OBVIOUS
<1> HIDE DEF old, new, A, B, R
<1>7. /\ IsFiniteSet(A) /\ IsFiniteSet(B) /\ IsFiniteSet(R)
      /\ A \subseteq Nat /\ B \subseteq Nat /\ R \subseteq Nat
  BY <1>3, <1>4, FS_Subset DEF IsParts
<1> DEFINE added == [t \in A |-> TableAdded(driver1, t, new[t])
                                 \cup ForeignKeysAdded(driver1, t, new[t].keys, DOMAIN new[t].keys)]
           kept == [t \in B |-> ColumnChanges(driver1, t, old[t].columns, new[t].columns)
                  \cup IndexChanges(t, old[t].indexes, new[t].indexes)
                  \cup ForeignKeysAdded(driver1, t, new[t].keys, NotIn(new[t].keys, old[t].keys))
                  \cup ForeignKeysRemoved(driver1, t, old[t].keys, NotIn(old[t].keys, new[t].keys))]
           removed == [t \in R |-> TableRemoved(driver1, t, old[t])
                                   \cup ForeignKeysRemoved(driver1, t, old[t].keys, DOMAIN old[t].keys)]
<1>8. ASSUME NEW t \in A PROVE AreChanges(added[t])
  <2>1. t \in Nat /\ IsTableOf(new[t]) /\ IsParts(new[t].keys) BY <1>3, <1>4, <1>7 DEF IsTableOf
  <2>2. AreChanges(TableAdded(driver1, t, new[t])) BY <2>1, TableAddedIs
  <2>3. AreChanges(ForeignKeysAdded(driver1, t, new[t].keys, DOMAIN new[t].keys)) BY <2>1, ForeignKeyChangesAre
  <2>4. QED BY <2>2, <2>3, ChangesJoined
<1>9. ASSUME NEW t \in B PROVE AreChanges(kept[t])
  <2>1. t \in Nat /\ IsTableOf(new[t]) /\ IsTableOf(old[t]) BY <1>3, <1>4, <1>7
  <2>2. /\ IsParts(new[t].columns) /\ IsParts(new[t].indexes) /\ IsParts(new[t].keys)
        /\ IsParts(old[t].columns) /\ IsParts(old[t].indexes) /\ IsParts(old[t].keys)
    BY <2>1 DEF IsTableOf, AreColumns
  <2>3. AreChanges(ColumnChanges(driver1, t, old[t].columns, new[t].columns)) BY <2>1, <2>2, ColumnChangesAre
  <2>4. AreChanges(IndexChanges(t, old[t].indexes, new[t].indexes)) BY <2>1, <2>2, IndexChangesAre
  <2>5. NotIn(new[t].keys, old[t].keys) \subseteq DOMAIN new[t].keys
        /\ NotIn(old[t].keys, new[t].keys) \subseteq DOMAIN old[t].keys
    BY DEF NotIn
  <2>6. AreChanges(ForeignKeysAdded(driver1, t, new[t].keys, NotIn(new[t].keys, old[t].keys)))
    BY <2>1, <2>2, <2>5, ForeignKeyChangesAre
  <2>7. AreChanges(ForeignKeysRemoved(driver1, t, old[t].keys, NotIn(old[t].keys, new[t].keys)))
    BY <2>1, <2>2, <2>5, ForeignKeyChangesAre
  <2>8. QED BY <2>3, <2>4, <2>6, <2>7, ChangesJoined
<1>10. ASSUME NEW t \in R PROVE AreChanges(removed[t])
  <2>1. t \in Nat /\ IsTableOf(old[t]) /\ IsParts(old[t].keys) BY <1>3, <1>4, <1>7 DEF IsTableOf
  <2>2. AreChanges(TableRemoved(driver1, t, old[t])) BY <2>1, TableRemovedIs
  <2>3. AreChanges(ForeignKeysRemoved(driver1, t, old[t].keys, DOMAIN old[t].keys)) BY <2>1, ForeignKeyChangesAre
  <2>4. QED BY <2>2, <2>3, ChangesJoined
<1> HIDE DEF added, kept, removed
<1>11. PICK U : U = UNION {added[t] : t \in A} OBVIOUS
<1>12. PICK V : V = UNION {kept[t] : t \in B} OBVIOUS
<1>13. PICK W : W = UNION {removed[t] : t \in R} OBVIOUS
<1>14. PICK X : X = ViewChanges(driver1, a.views, b.views) OBVIOUS
<1>15. AreChanges(U) BY <1>7, <1>8, <1>11, ChangesUnited, Zenon
<1>16. AreChanges(V) BY <1>7, <1>9, <1>12, ChangesUnited, Zenon
<1>17. AreChanges(W) BY <1>7, <1>10, <1>13, ChangesUnited, Zenon
<1>18. AreChanges(X) BY <1>14, ViewChangesAre DEF IsSchema
<1>19. AreChanges(U \cup V \cup W \cup X) BY <1>15, <1>16, <1>17, <1>18, ChangesJoined
<1>20. Changes(a, b, driver1) = U \cup V \cup W \cup X
  <2>1. UNION {added[t] : t \in A} = UNION {TableAdded(driver1, t, new[t])
          \cup ForeignKeysAdded(driver1, t, new[t].keys, DOMAIN new[t].keys) : t \in A}
    BY DEF added
  <2>2. UNION {kept[t] : t \in B} = UNION {ColumnChanges(driver1, t, old[t].columns, new[t].columns)
                  \cup IndexChanges(t, old[t].indexes, new[t].indexes)
                  \cup ForeignKeysAdded(driver1, t, new[t].keys, NotIn(new[t].keys, old[t].keys))
                  \cup ForeignKeysRemoved(driver1, t, old[t].keys, NotIn(old[t].keys, new[t].keys)) : t \in B}
    BY DEF kept
  <2>3. UNION {removed[t] : t \in R} = UNION {TableRemoved(driver1, t, old[t])
          \cup ForeignKeysRemoved(driver1, t, old[t].keys, DOMAIN old[t].keys) : t \in R}
    BY DEF removed
  <2>4. QED BY <1>11, <1>12, <1>13, <1>14, <2>1, <2>2, <2>3, Zenon DEF Changes, old, new, A, B, R
<1>21. QED BY <1>19, <1>20

\* The migration of a difference is a script.
LEMMA MigrationIsScript ==
  ASSUME NEW a, IsSchema(a), NEW b, IsSchema(b), NEW driver1
  PROVE  IsScript(BuildSchemaMigrationStatements(CompareSchemaSnapshots(a, b, driver1)))
<1>1. PICK changes : changes = Changes(a, b, driver1) OBVIOUS
<1>2. AreChanges(changes) BY <1>1, ChangesAre
<1>3. PICK diff \in Seq(changes) : diff = CompareSchemaSnapshots(a, b, driver1)
  BY <1>1, <1>2, EveryChangeIsOrdered DEF CompareSchemaSnapshots
<1>4. PICK n \in Nat : n = Len(diff) OBVIOUS
<1>5. PICK parts : parts = [i \in DOMAIN diff |-> diff[i].sql] OBVIOUS
<1>6. DOMAIN diff = 1..n BY <1>4
<1>7. \A i \in 1..n : IsScript(parts[i]) BY <1>2, <1>4, <1>5, <1>6 DEF AreChanges, IsChange
<1>8. parts = [i \in 1..n |-> parts[i]] BY <1>5, <1>6
<1>9. IsScript(FlattenSeq(parts)) BY <1>7, <1>8, ScriptsFlattened DEF ScriptParts
<1>10. QED BY <1>3, <1>5, <1>9 DEF BuildSchemaMigrationStatements

-----------------------------------------------------------------------------
(* Every form's plan is a script.                                          *)

\* A plan has a script.
LEMMA PlanIs ==
  ASSUME NEW statements, NEW errors, NEW manual, ~errors /\ ~manual => IsScript(statements)
  PROVE  IsScript(Plan(statements, errors, manual).statements)
<1>1. CASE errors \/ manual
  <2>1. Plan(statements, errors, manual).statements = <<>> BY <1>1 DEF Plan
  <2>2. QED BY <2>1, ShortScripts
<1>2. CASE ~errors /\ ~manual
  <2>1. Plan(statements, errors, manual).statements = statements BY <1>2 DEF Plan
  <2>2. QED BY <1>2, <2>1
<1>3. QED BY <1>1, <1>2

\* A plan for manual review has one, which is empty.
LEMMA ReviewIs ==
  ASSUME NEW errors
  PROVE  IsScript(NeedsReview(errors).statements)
BY PlanIs, ShortScripts DEF NeedsReview

\* A plan of one statement.
LEMMA OneStatement ==
  ASSUME NEW s, NEW errors, NEW manual, ~errors /\ ~manual => IsStatement(s)
  PROVE  IsScript(Plan(<<s>>, errors, manual).statements)
BY PlanIs, ShortScripts

\* A name in a form is a name or none.
LEMMA EnteredNames ==
  /\ AnyName(TableNames) \subseteq Nat /\ AnyName(ViewNames) \subseteq Nat
  /\ AnyName(ColumnNames) \subseteq Nat /\ AnyName(PartNames) \subseteq Nat
BY SchemaScriptsAssumption DEF AnyName, None

\* Statements that define no columns and rename nothing.
LEMMA PlainStatements ==
  \A do \in {"dropTable", "createIndex", "dropIndex", "rebuildIndex", "addForeignKey", "dropForeignKey", "createView",
             "replaceView", "dropView", "addColumn", "dropColumn", "setType", "setNullable", "setColumn", "addCheck",
             "define"} :
    PlainStatement(do)
BY DEF PlainStatement

\* Create Table writes a script.
LEMMA CreateTablePlanIs ==
  ASSUME NEW form \in CreateTableForms, NEW driver1
  PROVE  IsScript(BuildCreateTablePlan(form, driver1).statements)
<1> DEFINE names == [n \in DOMAIN form.columns |-> form.columns[n].name]
           errors == \/ IdentifierError(form.on) \/ form.columns = <<>> \/ Duplicates(names)
                     \/ \E n \in DOMAIN form.columns :
                          IdentifierError(names[n]) \/ TypeError(form.columns[n].type)
           Entered(c) == form.columns[CHOOSE n \in DOMAIN names : names[n] = c]
           columns == [c \in ToSet(names) |-> Column(Entered(c).type, Entered(c).nullable, Entered(c).key)]
           s == Statement("createTable", form.on, None, [columns |-> columns])
<1>1. BuildCreateTablePlan(form, driver1) = Plan(<<s>>, errors, FALSE) BY DEF BuildCreateTablePlan
<1>2. form.on \in Nat BY EnteredNames DEF CreateTableForms
<1>3. PICK S : S = [name : AnyName(ColumnNames), type : AnyName(Types), nullable : BOOLEAN, key : BOOLEAN] OBVIOUS
<1>3a. form.columns \in Seq(S) BY <1>3, SchemaScriptsAssumption DEF CreateTableForms
<1>4. PICK list \in Seq(S) : list = form.columns BY <1>3a
<1>5. PICK n \in Nat : n = Len(list) /\ DOMAIN list = 1..n OBVIOUS
<1>6. \A i \in 1..n : list[i].name \in Nat /\ list[i].key \in BOOLEAN
  <2> SUFFICES ASSUME NEW i \in 1..n PROVE list[i].name \in Nat /\ list[i].key \in BOOLEAN OBVIOUS
  <2>1. PICK e : e = list[i] OBVIOUS
  <2>2. e \in S BY <1>4, <1>5, <2>1
  <2>3. e.name \in AnyName(ColumnNames) /\ e.key \in BOOLEAN BY <1>3, <2>2
  <2>4. QED BY <2>1, <2>3, EnteredNames
<1>7. names = [i \in 1..n |-> list[i].name] BY <1>4, <1>5
<1>8. PICK f : f = names /\ f = [i \in 1..n |-> list[i].name] BY <1>7
<1> HIDE DEF names
<1>8a. ToSet(names) = {f[i] : i \in 1..n} BY <1>8 DEF ToSet
<1>9. IsFiniteSet(ToSet(names))
  <2>1. IsFiniteSet(1..n) BY FS_Interval
  <2>2. QED BY <1>8a, <2>1, FiniteImage
<1>10. ToSet(names) \subseteq Nat BY <1>6, <1>8, <1>8a
<1>11. columns = [c \in ToSet(names) |-> columns[c]] OBVIOUS
<1>12. ASSUME NEW c \in ToSet(names)
       PROVE  columns[c] = Column(columns[c].type, columns[c].nullable, columns[c].key) /\ columns[c].key \in BOOLEAN
  <2>1. \E i \in DOMAIN names : names[i] = c BY <1>8, <1>8a
  <2>2. PICK i : i = CHOOSE k \in DOMAIN names : names[k] = c OBVIOUS
  <2>3. i \in 1..n BY <1>8, <2>1, <2>2
  <2>4. Entered(c) = list[i] BY <1>4, <2>2
  <2>5. columns[c] = Column(list[i].type, list[i].nullable, list[i].key) BY <2>4
  <2>6. list[i].key \in BOOLEAN BY <1>6, <2>3
  <2>7. QED BY <2>5, <2>6 DEF Column
<1> HIDE DEF columns
<1>13. AreColumns(columns)
  <2>1. DOMAIN columns = ToSet(names) BY <1>11
  <2>2. IsParts(columns) BY <1>9, <1>10, <1>11, PartsOver
  <2>3. QED BY <1>12, <2>1, <2>2 DEF AreColumns
<1>14. IsStatement(s)
  <2>1. None \in Nat BY DEF None
  <2>2. QED BY <1>2, <1>13, <2>1, StatementIs
<1> HIDE DEF s, errors
<1>15. QED BY <1>1, <1>14, OneStatement

\* What the edit form may show for the columns it was opened on.
RowIs(row, column) ==
  /\ row = [name |-> row.name, type |-> row.type, nullable |-> row.nullable, key |-> row.key, remove |-> row.remove]
  /\ row.name \in Nat /\ row.key = column.key /\ row.remove \in BOOLEAN
RowsAre(rows, columns) ==
  DOMAIN rows = DOMAIN columns /\ \A c \in DOMAIN columns : RowIs(rows[c], columns[c])

\* A record with the fields of a row is a row.
LEMMA RecordIsRow ==
  ASSUME NEW name \in Nat, NEW type, NEW nullable, NEW column, NEW remove \in BOOLEAN
  PROVE  RowIs([name |-> name, type |-> type, nullable |-> nullable, key |-> column.key, remove |-> remove], column)
BY DEF RowIs

\* What the column editor can show are rows for the columns it was opened on.
LEMMA EditFormIs ==
  ASSUME NEW columns, AreColumns(columns), NEW rows \in EditTableColumnsForms(columns)
  PROVE  RowsAre(rows, columns)
<1>1. \A c \in DOMAIN columns : c \in Nat /\ columns[c].key \in BOOLEAN BY DEF AreColumns, IsParts
<1>2. ColumnNames \subseteq Nat BY SchemaScriptsAssumption
<1>3. PICK shown : /\ shown = Shown(columns) /\ DOMAIN shown = DOMAIN columns
                   /\ shown = [c \in DOMAIN columns |->
                                 [name |-> c, type |-> columns[c].type, nullable |-> columns[c].nullable,
                                  key |-> columns[c].key, remove |-> FALSE]]
  BY DEF Shown
<1>4. CASE rows \in {Renaming(shown, names, y) : names \in [DOMAIN columns -> ColumnNames], y \in Types}
  <2>1. PICK names \in [DOMAIN columns -> ColumnNames], y \in Types : rows = Renaming(shown, names, y) BY <1>4
  <2>2. ASSUME NEW c \in DOMAIN columns PROVE RowIs(rows[c], columns[c])
    <3>1. rows[c] = [name |-> names[c], type |-> y, nullable |-> columns[c].nullable,
                     key |-> columns[c].key, remove |-> FALSE]
      <4>1. PICK r : r = shown[c] OBVIOUS
      <4>2. r = [name |-> c, type |-> columns[c].type, nullable |-> columns[c].nullable,
                 key |-> columns[c].key, remove |-> FALSE]
        BY <1>3, <4>1
      <4>3. rows[c] = [r EXCEPT !.name = names[c], !.type = y] BY <1>3, <2>1, <4>1 DEF Renaming
      <4>4. QED BY <4>2, <4>3
    <3>2. names[c] \in Nat BY <1>2
    <3>3. QED BY <3>1, <3>2, RecordIsRow
  <2>3. QED BY <1>3, <2>1, <2>2 DEF RowsAre, Renaming
<1>5. CASE rows \in {Editing(shown, c, y, z, x) :
                       c \in DOMAIN columns, y \in AnyName(Types), z \in BOOLEAN, x \in BOOLEAN}
  <2>1. PICK c \in DOMAIN columns, y \in AnyName(Types), z \in BOOLEAN, x \in BOOLEAN :
          rows = Editing(shown, c, y, z, x)
    BY <1>5
  <2>2. PICK removed \in BOOLEAN : removed = (x /\ ~shown[c].key) OBVIOUS
  <2>3. rows = [shown EXCEPT ![c].type = y, ![c].nullable = z, ![c].remove = removed] BY <2>1, <2>2 DEF Editing
  <2>4. DOMAIN rows = DOMAIN columns BY <1>3, <2>3
  <2>5. rows[c] = [name |-> c, type |-> y, nullable |-> z, key |-> columns[c].key, remove |-> removed]
    <3>1. PICK r : r = shown[c] OBVIOUS
    <3>2. r = [name |-> c, type |-> columns[c].type, nullable |-> columns[c].nullable,
               key |-> columns[c].key, remove |-> FALSE]
      BY <1>3, <3>1
    <3>3. rows[c] = [r EXCEPT !.type = y, !.nullable = z, !.remove = removed] BY <1>3, <2>3, <3>1
    <3>4. QED BY <3>2, <3>3
  <2>6. \A d \in DOMAIN columns \ {c} : rows[d] = shown[d] BY <1>3, <2>3
  <2>7. ASSUME NEW d \in DOMAIN columns PROVE RowIs(rows[d], columns[d])
    <3>1. CASE d = c BY <1>1, <2>5, <3>1, RecordIsRow
    <3>2. CASE d # c
      <4>1. rows[d] = [name |-> d, type |-> columns[d].type, nullable |-> columns[d].nullable,
                       key |-> columns[d].key, remove |-> FALSE]
        BY <1>3, <2>6, <3>2
      <4>2. QED BY <1>1, <4>1, RecordIsRow
    <3>3. QED BY <3>1, <3>2
  <2>8. QED BY <2>4, <2>7 DEF RowsAre
<1>6. QED BY <1>3, <1>4, <1>5 DEF EditTableColumnsForms

\* A row of the column editor writes a script.
LEMMA EditStatementsAre ==
  ASSUME NEW t \in Nat, NEW driver1, NEW c \in Nat, NEW column, NEW row, row.name \in Nat
  PROVE  IsScript(EditStatements(t, driver1, c, column, row))
<1> DEFINE renamed == row.name # c
           retyped == row.type # column.type
           loosened == row.nullable # column.nullable
           whole == Statement("setColumn", t, row.name, [type |-> row.type, nullable |-> row.nullable])
           dropped == Statement("dropColumn", t, c, NoDef)
           moved == Statement("renameColumn", t, c, [to |-> row.name])
           typed == Statement("setType", t, row.name, [type |-> row.type])
           nulled == Statement("setNullable", t, row.name, [nullable |-> row.nullable])
           If(condition, s) == IF condition THEN <<s>> ELSE <<>>
<1>1. /\ IsStatement(whole) /\ IsStatement(dropped) /\ IsStatement(moved)
      /\ IsStatement(typed) /\ IsStatement(nulled)
  <2>1. IsStatement(whole) /\ IsStatement(dropped) /\ IsStatement(typed) /\ IsStatement(nulled)
    BY PlainStatements, StatementIs
  <2>2. IsStatement(moved) BY StatementIs
  <2>3. QED BY <2>1, <2>2
<1>2. EditStatements(t, driver1, c, column, row) =
        IF row.remove THEN <<dropped>>
        ELSE If(renamed, moved)
             \o (CASE driver1 = "postgres" -> If(retyped, typed) \o If(loosened, nulled)
                   [] driver1 = "mysql" -> If(renamed \/ retyped \/ loosened, whole)
                   [] OTHER -> If(retyped \/ loosened, whole))
  BY DEF EditStatements
<1> HIDE DEF renamed, retyped, loosened, whole, dropped, moved, typed, nulled
<1>3. \A condition, s : IsStatement(s) => IsScript(If(condition, s)) BY ShortScripts
<1>4. IsScript(If(retyped, typed) \o If(loosened, nulled)) BY <1>1, <1>3, ScriptsJoined
<1>5. PICK rest : rest = CASE driver1 = "postgres" -> If(retyped, typed) \o If(loosened, nulled)
                           [] driver1 = "mysql" -> If(renamed \/ retyped \/ loosened, whole)
                           [] OTHER -> If(retyped \/ loosened, whole)
  OBVIOUS
<1>6. IsScript(rest) BY <1>1, <1>3, <1>4, <1>5
<1>7. IsScript(If(renamed, moved) \o rest) BY <1>1, <1>3, <1>6, ScriptsJoined
<1>8. QED BY <1>1, <1>2, <1>5, <1>7, ShortScripts

\* The parts the edit form's script is made of, one for each row in order.
EditParts(t, table, rows, driver1) ==
  LET order == Ascending(DOMAIN rows)
      known == DOMAIN rows \cap DOMAIN table.columns
      keyed == {c \in known : rows[c].key # table.columns[c].key}
  IN  [n \in DOMAIN order |-> IF order[n] \in known \ keyed
                              THEN EditStatements(t, driver1, order[n], table.columns[order[n]], rows[order[n]])
                              ELSE <<>>]

\* The column editor writes a script.
LEMMA EditPlanIs ==
  ASSUME NEW t \in Nat, NEW table, NEW columns, AreColumns(columns), NEW rows, RowsAre(rows, columns), NEW driver1
  PROVE  IsScript(BuildEditTableColumnsPlan(t, table, rows, driver1).statements)
<1>1. DOMAIN rows \subseteq Nat /\ IsFiniteSet(DOMAIN rows) BY DEF RowsAre, AreColumns, IsParts
<1>2. PICK n \in Nat : n = Cardinality(DOMAIN rows) BY <1>1, FS_CardinalityType
<1>3. PICK order : order = Ascending(DOMAIN rows) OBVIOUS
<1>4. order \in [1..n -> DOMAIN rows] BY <1>1, <1>2, <1>3, AscendingIsInjective
<1>5. PICK parts : parts = EditParts(t, table, rows, driver1) OBVIOUS
<1>6. parts = [i \in 1..n |-> parts[i]] BY <1>3, <1>4, <1>5 DEF EditParts
<1>7. ASSUME NEW i \in 1..n PROVE IsScript(parts[i])
  <2>1. order[i] \in DOMAIN rows BY <1>4
  <2>2. order[i] \in Nat /\ rows[order[i]].name \in Nat BY <1>1, <2>1 DEF RowsAre, RowIs
  <2>3. IsScript(EditStatements(t, driver1, order[i], table.columns[order[i]], rows[order[i]]))
    BY <2>2, EditStatementsAre
  <2>4. \/ parts[i] = EditStatements(t, driver1, order[i], table.columns[order[i]], rows[order[i]])
        \/ parts[i] = <<>>
    BY <1>3, <1>4, <1>5 DEF EditParts
  <2>5. QED BY <2>3, <2>4, ShortScripts
<1>8. IsScript(FlattenSeq(parts)) BY <1>6, <1>7, ScriptsFlattened DEF ScriptParts
<1>9. \E errors, manual : BuildEditTableColumnsPlan(t, table, rows, driver1) = Plan(FlattenSeq(parts), errors, manual)
  BY <1>5, Zenon DEF EditParts, BuildEditTableColumnsPlan
<1>10. QED BY <1>8, <1>9, PlanIs

\* The plans of the other forms.
LEMMA AddColumnPlanIs ==
  ASSUME NEW t \in Nat, NEW table, NEW form \in AddColumnForms, NEW driver1
  PROVE  IsScript(BuildAddColumnPlan(t, table, form, driver1).statements)
<1>1. form.name \in Nat BY EnteredNames DEF AddColumnForms
<1>2. IsStatement(Statement("addColumn", t, form.name, [type |-> form.type, nullable |-> form.nullable]))
  BY <1>1, StatementIs, PlainStatements
<1>3. QED BY <1>2, OneStatement DEF BuildAddColumnPlan

\* So do Create Index, Alter Index and Create Constraint.
LEMMA IndexPlansAre ==
  ASSUME NEW t \in Nat, NEW table, IsTableOf(table), NEW form, NEW driver1
  PROVE  /\ form.name \in Nat => IsScript(BuildCreateIndexPlan(t, table, form, driver1).statements)
         /\ IsScript(BuildAlterIndexPlan(t, table, form, driver1).statements)
         /\ form.name \in Nat => IsScript(BuildCreateTableConstraintPlan(t, table, form, driver1).statements)
<1>1. \A name, def : name \in Nat => /\ IsStatement(Statement("createIndex", t, name, def))
                                     /\ IsStatement(Statement("rebuildIndex", t, name, def))
                                     /\ IsStatement(Statement("dropIndex", t, name, def))
                                     /\ IsStatement(Statement("addCheck", t, name, def))
  BY StatementIs, PlainStatements
<1>2. form.name \in Nat => IsScript(BuildCreateIndexPlan(t, table, form, driver1).statements)
  BY <1>1, OneStatement DEF BuildCreateIndexPlan
<1>3. IsScript(BuildAlterIndexPlan(t, table, form, driver1).statements)
  <2>1. CASE IsPrimaryIndex(table, form.name) BY <2>1, ReviewIs DEF BuildAlterIndexPlan
  <2>2. CASE ~IsPrimaryIndex(table, form.name)
    <3>1. PICK errors : errors = (\/ ~HasIndex(table, form.name) \/ ColumnListError(table, form.columns)
                                  \/ table.indexes[form.name] = IndexDef(form))
      OBVIOUS
    <3>2. PICK statements : statements =
            IF driver1 = "mysql" THEN <<Statement("rebuildIndex", t, form.name, IndexDef(form))>>
            ELSE <<Statement("dropIndex", t, form.name, NoDef), Statement("createIndex", t, form.name, IndexDef(form))>>
      OBVIOUS
    <3>3. BuildAlterIndexPlan(t, table, form, driver1) = Plan(statements, errors, ~errors /\ driver1 = "sqlite")
      BY <2>2, <3>1, <3>2, Zenon DEF BuildAlterIndexPlan
    <3>4. ~errors => form.name \in Nat BY <3>1 DEF HasIndex, IsTableOf, IsParts
    <3>5. ~errors => IsScript(statements) BY <1>1, <3>2, <3>4, ShortScripts
    <3>6. QED BY <3>3, <3>5, PlanIs
  <2>3. QED BY <2>1, <2>2
<1>4. form.name \in Nat => IsScript(BuildCreateTableConstraintPlan(t, table, form, driver1).statements)
  <2>1. PICK s : s = IF form.kind = "unique"
                     THEN Statement("createIndex", t, form.name, [columns |-> form.columns, unique |-> TRUE])
                     ELSE Statement("addCheck", t, form.name, NoDef)
    OBVIOUS
  <2>2. form.name \in Nat => IsStatement(s) BY <1>1, <2>1
  <2>3. \E errors, manual : BuildCreateTableConstraintPlan(t, table, form, driver1) = Plan(<<s>>, errors, manual)
    BY <2>1, Zenon DEF BuildCreateTableConstraintPlan
  <2>4. QED BY <2>2, <2>3, OneStatement
<1>5. QED BY <1>2, <1>3, <1>4

\* So do Drop Index and Rename Index.
LEMMA NamedIndexPlansAre ==
  ASSUME NEW t \in Nat, NEW table, IsTableOf(table), NEW name, NEW to \in Nat, NEW driver1
  PROVE  /\ IsScript(BuildDropIndexPlan(t, table, name, driver1).statements)
         /\ IsScript(BuildRenameIndexPlan(t, table, name, to, driver1).statements)
<1>1. HasIndex(table, name) => name \in Nat BY DEF HasIndex, IsTableOf, IsParts
<1>2. HasIndex(table, name) => IsStatement(Statement("dropIndex", t, name, NoDef))
  BY <1>1, StatementIs, PlainStatements
<1>3. HasIndex(table, name) => IsStatement(Statement("renameIndex", t, name, [to |-> to])) BY <1>1, StatementIs
<1>4. IsScript(BuildDropIndexPlan(t, table, name, driver1).statements)
  <2>1. CASE IsPrimaryIndex(table, name) BY <2>1, ReviewIs DEF BuildDropIndexPlan
  <2>2. CASE ~IsPrimaryIndex(table, name) BY <1>2, <2>2, OneStatement DEF BuildDropIndexPlan
  <2>3. QED BY <2>1, <2>2
<1>5. IsScript(BuildRenameIndexPlan(t, table, name, to, driver1).statements)
  <2>1. CASE IsPrimaryIndex(table, name) BY <2>1, ReviewIs DEF BuildRenameIndexPlan
  <2>2. CASE ~IsPrimaryIndex(table, name) BY <1>3, <2>2, OneStatement DEF BuildRenameIndexPlan
  <2>3. QED BY <2>1, <2>2
<1>6. QED BY <1>4, <1>5

\* So do Add Foreign Key and Drop Foreign Key.
LEMMA KeyPlansAre ==
  ASSUME NEW t \in Nat, NEW table, IsTableOf(table), NEW referenced, NEW form, NEW name, NEW driver1
  PROVE  /\ form.name \in Nat => IsScript(BuildAddForeignKeyPlan(t, table, referenced, form, driver1).statements)
         /\ IsScript(BuildDropForeignKeyPlan(t, table, name, driver1).statements)
<1>1. form.name \in Nat => IsStatement(Statement("addForeignKey", t, form.name, form.key))
  BY StatementIs, PlainStatements
<1>2. name \in DOMAIN table.keys => name \in Nat BY DEF IsTableOf, IsParts
<1>3. name \in DOMAIN table.keys => IsStatement(Statement("dropForeignKey", t, name, NoDef))
  BY <1>2, StatementIs, PlainStatements
<1>4. form.name \in Nat => IsScript(BuildAddForeignKeyPlan(t, table, referenced, form, driver1).statements)
  BY <1>1, OneStatement DEF BuildAddForeignKeyPlan
<1>5. IsScript(BuildDropForeignKeyPlan(t, table, name, driver1).statements)
  BY <1>3, OneStatement DEF BuildDropForeignKeyPlan
<1>6. QED BY <1>4, <1>5

\* So do Create View, Alter View and Drop View.
LEMMA ViewPlansAre ==
  ASSUME NEW views, NEW form, NEW v \in Nat, NEW driver1, form.on \in Nat
  PROVE  /\ IsScript(BuildCreateViewPlan(views, form, driver1).statements)
         /\ IsScript(BuildAlterViewPlan(views, form, driver1).statements)
         /\ IsScript(BuildDropViewPlan(views, v, driver1).statements)
<1>1. None \in Nat BY DEF None
<1>2. \A on, def : on \in Nat => /\ IsStatement(Statement("createView", on, None, def))
                                 /\ IsStatement(Statement("replaceView", on, None, def))
                                 /\ IsStatement(Statement("dropView", on, None, def))
  BY <1>1, StatementIs, PlainStatements
<1>3. IsScript(BuildCreateViewPlan(views, form, driver1).statements)
  BY <1>2, OneStatement DEF BuildCreateViewPlan
<1>4. IsScript(BuildDropViewPlan(views, v, driver1).statements)
  BY <1>2, OneStatement DEF BuildDropViewPlan
<1>5. IsScript(BuildAlterViewPlan(views, form, driver1).statements)
  <2>1. PICK statements : statements =
          IF driver1 = "sqlite"
          THEN <<Statement("dropView", form.on, None, NoDef), Statement("createView", form.on, None, form.def)>>
          ELSE <<Statement("replaceView", form.on, None, form.def)>>
    OBVIOUS
  <2>2. IsScript(statements) BY <1>2, <2>1, ShortScripts
  <2>3. \E errors, manual : BuildAlterViewPlan(views, form, driver1) = Plan(statements, errors, manual)
    BY <2>1, Zenon DEF BuildAlterViewPlan
  <2>4. QED BY <2>2, <2>3, PlanIs
<1>6. QED BY <1>3, <1>4, <1>5

\* So does the database definition.
LEMMA DefinitionPlanIs ==
  ASSUME NEW safe, NEW driver1
  PROVE  IsScript(BuildEditDatabaseDefinitionPlan(safe, driver1).statements)
<1>1. None \in Nat BY DEF None
<1>2. IsStatement(Statement("define", None, None, NoDef)) BY <1>1, StatementIs, PlainStatements
<1>3. QED BY <1>2, OneStatement DEF BuildEditDatabaseDefinitionPlan

-----------------------------------------------------------------------------
(* Schemas remain schemas.                                                 *)

\* Running a script is what an action does to the active connection.
RunsScript ==
  \E statements : IsScript(statements) /\ active' = RunScript(active, driver, statements).db

\* A plan that is submitted runs on the active database or does not.
LEMMA SubmitRuns ==
  ASSUME NEW plan, IsScript(plan.statements), Submit(plan)
  PROVE  RunsScript /\ metadata' = metadata /\ baseline' = baseline
BY DEF Submit, RunsScript

\* The connection's schema, the loaded one, the one compared with and the
\* columns the edit dialog shows.
SchemaInv == IsSchema(active) /\ IsSchema(metadata) /\ IsSchema(baseline) /\ AreColumns(opened.columns)

\* A script that was run leaves schemas behind.
LEMMA RunsKeep ==
  ASSUME SchemaInv, RunsScript, metadata' = metadata, baseline' = baseline,
         opened' = opened \/ opened' = Closed
  PROVE  SchemaInv'
<1>1. IsSchema(active') BY RunKeepsSchema DEF SchemaInv, RunsScript
<1>2. AreColumns(opened'.columns)
  <2>1. AreColumns(NoParts) BY NothingIsParts DEF AreColumns
  <2>2. AreColumns(Closed.columns) BY <2>1 DEF Closed
  <2>3. QED BY <2>2 DEF SchemaInv
<1>3. QED BY <1>1, <1>2 DEF SchemaInv

\* A form's action: metadata, baseline and dialog stay.
FormRuns ==
  /\ RunsScript /\ metadata' = metadata /\ baseline' = baseline
  /\ opened' = opened \/ opened' = Closed

\* A form that is submitted runs its script.
LEMMA FormSubmits ==
  ASSUME NEW plan, IsScript(plan.statements), SubmitForm(plan)
  PROVE  FormRuns
BY SubmitRuns DEF SubmitForm, FormRuns

\* The tables of a schema are tables, and names are numbers.
LEMMA TablesOfSchema ==
  ASSUME NEW db, IsSchema(db)
  PROVE  /\ \A t \in DOMAIN db.tables : t \in Nat /\ IsTableOf(db.tables[t])
         /\ DOMAIN db.views \subseteq Nat
BY DEF IsSchema, IsParts

\* Every form that is submitted runs a script.
LEMMA FormsRun ==
  ASSUME SchemaInv,
         \/ CreateTable \/ AddColumn \/ EditTableColumns \/ CreateIndex \/ AlterIndex
         \/ CreateTableConstraint \/ DropIndex \/ RenameIndex \/ AddForeignKey \/ DropForeignKey
         \/ CreateView \/ AlterView \/ DropView \/ ApplyDatabaseDefinition
  PROVE  FormRuns
<1>1. /\ \A t \in DOMAIN metadata.tables : t \in Nat /\ IsTableOf(Table(t))
      /\ ExistingViews \subseteq Nat
  BY TablesOfSchema DEF SchemaInv, Table, ExistingViews
<1>2. CASE CreateTable BY <1>2, CreateTablePlanIs, FormSubmits DEF CreateTable
<1>3. CASE AddColumn BY <1>1, <1>3, AddColumnPlanIs, FormSubmits DEF AddColumn
<1>4. CASE EditTableColumns
  <2>1. PICK rows \in EditTableColumnsForms(opened.columns) :
          Submit(BuildEditTableColumnsPlan(opened.on, Table(opened.on), rows, driver))
    BY <1>4 DEF EditTableColumns
  <2>2. PICK columns : columns = opened.columns OBVIOUS
  <2>3. AreColumns(columns) BY <2>2 DEF SchemaInv
  <2>4. rows \in EditTableColumnsForms(columns) BY <2>1, <2>2
  <2>5. RowsAre(rows, columns) BY <2>3, <2>4, EditFormIs
  <2>6. opened.on \in Nat BY <1>1, <1>4 DEF EditTableColumns
  <2>7. PICK plan : plan = BuildEditTableColumnsPlan(opened.on, Table(opened.on), rows, driver) OBVIOUS
  <2>8. IsScript(plan.statements) BY <2>3, <2>5, <2>6, <2>7, EditPlanIs
  <2>9. Submit(plan) BY <2>1, <2>7
  <2>10. QED BY <1>4, <2>8, <2>9, SubmitRuns DEF EditTableColumns, FormRuns
<1>5. CASE CreateIndex
  <2>1. PICK t \in DOMAIN metadata.tables : \E form \in CreateIndexForms(Table(t)) :
          SubmitForm(BuildCreateIndexPlan(t, Table(t), form, driver))
    BY <1>5 DEF CreateIndex
  <2>2. PICK form \in CreateIndexForms(Table(t)) : SubmitForm(BuildCreateIndexPlan(t, Table(t), form, driver)) BY <2>1
  <2>3. form.name \in Nat BY EnteredNames DEF CreateIndexForms
  <2>4. QED BY <1>1, <2>2, <2>3, IndexPlansAre, FormSubmits
<1>6. CASE AlterIndex
  <2>1. PICK t \in DOMAIN metadata.tables : \E form \in AlterIndexForms(Table(t)) :
          SubmitForm(BuildAlterIndexPlan(t, Table(t), form, driver))
    BY <1>6 DEF AlterIndex
  <2>2. PICK form \in AlterIndexForms(Table(t)) : SubmitForm(BuildAlterIndexPlan(t, Table(t), form, driver)) BY <2>1
  <2>3. QED BY <1>1, <2>2, IndexPlansAre, FormSubmits
<1>7. CASE CreateTableConstraint
  <2>1. PICK t \in DOMAIN metadata.tables : \E form \in CreateTableConstraintForms(Table(t)) :
          SubmitForm(BuildCreateTableConstraintPlan(t, Table(t), form, driver))
    BY <1>7 DEF CreateTableConstraint
  <2>2. PICK form \in CreateTableConstraintForms(Table(t)) :
          SubmitForm(BuildCreateTableConstraintPlan(t, Table(t), form, driver))
    BY <2>1
  <2>3. form.name \in Nat BY EnteredNames DEF CreateTableConstraintForms
  <2>4. QED BY <1>1, <2>2, <2>3, IndexPlansAre, FormSubmits
<1>8. CASE DropIndex
  <2>1. PICK t \in DOMAIN metadata.tables : \E i \in DropIndexForms(Table(t)) :
          SubmitForm(BuildDropIndexPlan(t, Table(t), i, driver))
    BY <1>8 DEF DropIndex
  <2>2. 0 \in Nat OBVIOUS
  <2>3. \A i : IsScript(BuildDropIndexPlan(t, Table(t), i, driver).statements) BY <1>1, <2>2, NamedIndexPlansAre
  <2>4. QED BY <2>1, <2>3, FormSubmits
<1>9. CASE RenameIndex
  <2>1. PICK t \in DOMAIN metadata.tables : \E form \in RenameIndexForms(Table(t)) :
          SubmitForm(BuildRenameIndexPlan(t, Table(t), form.from, form.to, driver))
    BY <1>9 DEF RenameIndex
  <2>2. PICK form \in RenameIndexForms(Table(t)) :
          SubmitForm(BuildRenameIndexPlan(t, Table(t), form.from, form.to, driver))
    BY <2>1
  <2>3. form.to \in Nat BY EnteredNames DEF RenameIndexForms
  <2>4. QED BY <1>1, <2>2, <2>3, NamedIndexPlansAre, FormSubmits
<1>10. CASE AddForeignKey
  <2>1. PICK t \in DOMAIN metadata.tables : \E form \in AddForeignKeyForms(t, metadata.tables) :
          SubmitForm(BuildAddForeignKeyPlan(t, Table(t), Table(form.key.table), form, driver))
    BY <1>10 DEF AddForeignKey
  <2>2. PICK form \in AddForeignKeyForms(t, metadata.tables) :
          SubmitForm(BuildAddForeignKeyPlan(t, Table(t), Table(form.key.table), form, driver))
    BY <2>1
  <2>3. form.name \in Nat
    <3>1. PICK n \in AnyName(PartNames) : form.name = n BY DEF AddForeignKeyForms
    <3>2. QED BY <3>1, EnteredNames
  <2>4. QED BY <1>1, <2>2, <2>3, KeyPlansAre, FormSubmits
<1>11. CASE DropForeignKey
  <2>1. PICK t \in DOMAIN metadata.tables : \E k \in DropForeignKeyForms(Table(t)) :
          SubmitForm(BuildDropForeignKeyPlan(t, Table(t), k, driver))
    BY <1>11 DEF DropForeignKey
  <2>2. QED BY <1>1, <2>1, KeyPlansAre, FormSubmits
<1>12. CASE CreateView
  <2>1. PICK form \in CreateViewForms : SubmitForm(BuildCreateViewPlan(ExistingViews, form, driver))
    BY <1>12 DEF CreateView
  <2>2. form.on \in Nat BY EnteredNames DEF CreateViewForms
  <2>3. QED BY <2>1, <2>2, ViewPlansAre, FormSubmits
<1>13. CASE AlterView
  <2>1. PICK form \in AlterViewForms(ExistingViews) : SubmitForm(BuildAlterViewPlan(ExistingViews, form, driver))
    BY <1>13 DEF AlterView
  <2>2. form.on \in Nat BY <1>1 DEF AlterViewForms
  <2>3. QED BY <2>1, <2>2, ViewPlansAre, FormSubmits
<1>14. CASE DropView
  <2>1. PICK v \in ExistingViews : SubmitForm(BuildDropViewPlan(ExistingViews, v, driver))
    BY <1>14 DEF DropView, DropViewForms
  <2>2. v \in Nat BY <1>1
  <2>3. PICK form : form = [on |-> v] OBVIOUS
  <2>4. IsScript(BuildDropViewPlan(ExistingViews, v, driver).statements)
    <3>1. form.on \in Nat BY <2>2, <2>3
    <3>2. QED BY <2>2, <3>1, ViewPlansAre
  <2>5. QED BY <2>1, <2>4, FormSubmits
<1>15. CASE ApplyDatabaseDefinition BY <1>15, DefinitionPlanIs, FormSubmits DEF ApplyDatabaseDefinition
<1>16. QED
  BY <1>2, <1>3, <1>4, <1>5, <1>6, <1>7, <1>8, <1>9, <1>10, <1>11, <1>12, <1>13, <1>14, <1>15

\* What other sessions execute are statements about named things.
LEMMA OthersKeepSchema ==
  ASSUME SchemaInv, OtherSession
  PROVE  IsSchema(active')
<1> DEFINE Run1(do, names, parts, defs) ==
             \E on \in names, part \in parts, def \in defs :
               /\ Accepts(active, driver, Statement(do, on, part, def))
               /\ active' = Effect(active, Statement(do, on, part, def))
<1>0. /\ None \in Nat /\ {None} \subseteq Nat /\ {2} \subseteq Nat
      /\ TableNames \subseteq Nat /\ ViewNames \subseteq Nat /\ ColumnNames \subseteq Nat /\ PartNames \subseteq Nat
  BY SchemaScriptsAssumption DEF None
<1>1. ASSUME NEW do, PlainStatement(do), NEW names \in SUBSET Nat, NEW parts \in SUBSET Nat, NEW defs,
             Run1(do, names, parts, defs)
      PROVE  IsSchema(active')
  <2>1. PICK on \in names, part \in parts, def \in defs :
               /\ Accepts(active, driver, Statement(do, on, part, def))
               /\ active' = Effect(active, Statement(do, on, part, def))
    BY <1>1
  <2>2. IsStatement(Statement(do, on, part, def)) BY <1>1, StatementIs
  <2>3. QED BY <2>1, <2>2, EffectKeepsSchema DEF SchemaInv
<1> DEFINE created == {[columns |-> [c \in cs |-> Column(1, c # 1, c = 1)]] : cs \in {{1}, {1, 2}}}
                      \cup {[columns |-> [c \in {1, 2} |-> Column(1, FALSE, TRUE)]]}
<1>2. ASSUME Run1("createTable", TableNames, {None}, created)
      PROVE  IsSchema(active')
  <2>1. PICK on \in TableNames, part \in {None}, def \in created :
               /\ Accepts(active, driver, Statement("createTable", on, part, def))
               /\ active' = Effect(active, Statement("createTable", on, part, def))
    BY <1>2
  <2>2. AreColumns(def.columns)
    <3>1. ASSUME NEW cs \in {{1}, {1, 2}}, NEW columns, columns = [c \in cs |-> Column(1, c # 1, c = 1)]
          PROVE  AreColumns(columns)
      <4>0. IsFiniteSet({1}) /\ IsFiniteSet({1} \cup {2}) /\ {1} \cup {2} = {1, 2} BY FS_Singleton, FS_AddElement
      <4>1. IsFiniteSet(cs) /\ cs \subseteq Nat BY <4>0
      <4>2. IsParts(columns) BY <3>1, <4>1, PartsOver
      <4>3. QED BY <3>1, <4>2 DEF AreColumns, Column
    <3>2. ASSUME NEW columns, columns = [c \in {1, 2} |-> Column(1, FALSE, TRUE)] PROVE AreColumns(columns)
      <4>0. IsFiniteSet({1} \cup {2}) /\ {1} \cup {2} = {1, 2} BY FS_Singleton, FS_AddElement
      <4>1. IsFiniteSet({1, 2}) /\ {1, 2} \subseteq Nat BY <4>0
      <4>2. IsParts(columns) BY <3>2, <4>1, PartsOver
      <4>3. QED BY <3>2, <4>2 DEF AreColumns, Column
    <3>3. CASE def \in {[columns |-> [c \in cs |-> Column(1, c # 1, c = 1)]] : cs \in {{1}, {1, 2}}} BY <3>1, <3>3
    <3>4. CASE def = [columns |-> [c \in {1, 2} |-> Column(1, FALSE, TRUE)]] BY <3>2, <3>4
    <3>5. QED BY <3>3, <3>4
  <2>3. IsStatement(Statement("createTable", on, part, def)) BY <1>0, <2>2, StatementIs
  <2>4. QED BY <2>1, <2>3, EffectKeepsSchema DEF SchemaInv
<1> DEFINE keys == [column : ColumnNames, table : TableNames, target : {1}]
           indexes == {[columns |-> <<c>>, unique |-> c = 1] : c \in ColumnNames}
<1>3. \/ Run1("createTable", TableNames, {None}, created)
      \/ Run1("dropTable", TableNames, {None}, {NoDef})
      \/ Run1("addColumn", TableNames, {2}, {[type |-> 1, nullable |-> TRUE]})
      \/ Run1("dropColumn", TableNames, ColumnNames, {NoDef})
      \/ Run1("setType", TableNames, ColumnNames, {[type |-> 2]})
      \/ Run1("setNullable", TableNames, ColumnNames, {[nullable |-> FALSE]})
      \/ Run1("createIndex", TableNames, PartNames, indexes)
      \/ Run1("dropIndex", TableNames, PartNames, {NoDef})
      \/ Run1("addForeignKey", TableNames, PartNames, keys)
      \/ Run1("dropForeignKey", TableNames, PartNames, {NoDef})
      \/ Run1("createView", ViewNames, {None}, Definitions)
      \/ Run1("replaceView", ViewNames, {None}, Definitions)
      \/ Run1("dropView", ViewNames, {None}, {NoDef})
  BY Zenon DEF OtherSession
<1> HIDE DEF Run1, created, keys, indexes
<1>4. QED BY <1>0, <1>1, <1>2, <1>3, PlainStatements

(* Whatever the forms, the migrations and other sessions do, the schema    *)
(* of the connection, the one loaded and the one compared with remain      *)
(* schemas: every statement any of them sends is about named things, and   *)
(* every database that accepts it has a schema afterwards.                 *)
(* (ddlForms.ts, schemaDiff.ts and the schema panels of App.tsx.)          *)
THEOREM SchemaInvHolds == SchemaSpec => []SchemaInv
<1>1. SchemaInit => SchemaInv
  <2> SUFFICES ASSUME SchemaInit PROVE SchemaInv OBVIOUS
  <2>1. IsSchema(active) /\ IsSchema(metadata) BY SchemaScriptsAssumption DEF SchemaInit
  <2>2. AreColumns(NoParts) BY NothingIsParts DEF AreColumns
  <2>3. IsSchema(EmptySchema) BY NothingIsParts DEF IsSchema, EmptySchema
  <2>4. QED BY <2>1, <2>2, <2>3 DEF SchemaInit, SchemaInv, Closed
<1>2. SchemaInv /\ [SchemaNext]_schemaVars => SchemaInv'
  <2> SUFFICES ASSUME SchemaInv, [SchemaNext]_schemaVars PROVE SchemaInv' OBVIOUS
  <2>1. CASE \/ CreateTable \/ AddColumn \/ EditTableColumns \/ CreateIndex \/ AlterIndex
             \/ CreateTableConstraint \/ DropIndex \/ RenameIndex \/ AddForeignKey \/ DropForeignKey
             \/ CreateView \/ AlterView \/ DropView \/ ApplyDatabaseDefinition
    <3>1. FormRuns BY <2>1, FormsRun
    <3>2. QED BY <3>1, RunsKeep DEF FormRuns
  <2>2. CASE \E t \in TableNames : OpenEditColumns(t)
    <3>1. PICK t \in TableNames : OpenEditColumns(t) BY <2>2
    <3>2. AreColumns(metadata.tables[t].columns)
      BY <3>1, TablesOfSchema DEF OpenEditColumns, SchemaInv, IsTableOf
    <3>3. opened'.columns = metadata.tables[t].columns BY <3>1 DEF OpenEditColumns
    <3>4. QED BY <3>1, <3>2, <3>3 DEF OpenEditColumns, SchemaInv
  <2>3. CASE CaptureSchemaBaseline BY <2>3 DEF CaptureSchemaBaseline, SchemaInv
  <2>4. CASE CompareSavedConnection BY <2>4, SchemaScriptsAssumption DEF CompareSavedConnection, SchemaInv
  <2>5. CASE ApplySchemaMigration
    <3>1. PICK statements :
                            /\ statements = BuildSchemaMigrationStatements(
                                              CompareSchemaSnapshots(baseline, metadata, driver))
                            /\ active' = RunScript(active, driver, statements).db
      BY <2>5 DEF ApplySchemaMigration, SchemaDifference
    <3>2. IsScript(statements) BY <3>1, MigrationIsScript DEF SchemaInv
    <3>3. QED BY <2>5, <3>1, <3>2, RunsKeep DEF ApplySchemaMigration, RunsScript
  <2>6. CASE LoadMetadata BY <2>6 DEF LoadMetadata, SchemaInv
  <2>7. CASE OtherSession BY <2>7, OthersKeepSchema DEF OtherSession, SchemaInv
  <2>8. CASE UNCHANGED schemaVars BY <2>8 DEF schemaVars, SchemaInv
  <2>9. QED BY <2>1, <2>2, <2>3, <2>4, <2>5, <2>6, <2>7, <2>8 DEF SchemaNext, FormHandlers, CompareHandlers
<1>3. QED BY <1>1, <1>2, PTL DEF SchemaSpec

-----------------------------------------------------------------------------
(* Runs that succeed, taken apart.                                         *)

\* All statements of the script are accepted, from the schema db to end.
Runs(db, driver1, statements, end) == \E f : IsSteps(f, db, driver1, statements, end)

\* A script without statements changes nothing.
LEMMA NoRun ==
  ASSUME NEW db, NEW driver1, NEW end, Runs(db, driver1, <<>>, end)
  PROVE  end = db
<1>1. PICK f : IsSteps(f, db, driver1, <<>>, end) BY DEF Runs
<1>2. Len(<<>>) = 0 OBVIOUS
<1>3. QED BY <1>1, <1>2 DEF IsSteps

\* A script of one statement is its effect.
LEMMA OneRun ==
  ASSUME NEW db, NEW driver1, NEW end, NEW s, Runs(db, driver1, <<s>>, end)
  PROVE  Accepts(db, driver1, s) /\ end = Effect(db, s)
<1>1. PICK f : IsSteps(f, db, driver1, <<s>>, end) BY DEF Runs
<1>2. Len(<<s>>) = 1 /\ <<s>>[1] = s /\ 1 \in 1..1 /\ 1 - 1 = 0 OBVIOUS
<1>3. f[0] = db /\ f[1] = end BY <1>1, <1>2 DEF IsSteps
<1>4. Accepts(f[1 - 1], driver1, <<s>>[1]) /\ f[1] = Effect(f[1 - 1], <<s>>[1]) BY <1>1, <1>2 DEF IsSteps
<1>5. QED BY <1>2, <1>3, <1>4

\* One script after the other.
LEMMA RunsJoined ==
  ASSUME NEW db, NEW driver1, NEW a, IsScript(a), NEW b, IsScript(b), NEW end, Runs(db, driver1, a \o b, end)
  PROVE  \E mid : Runs(db, driver1, a, mid) /\ Runs(mid, driver1, b, end)
<1>1. PICK f : IsSteps(f, db, driver1, a \o b, end) BY DEF Runs
<1>2. PICK m \in Nat : m = Len(a) BY ScriptEntries
<1>3. PICK n \in Nat : n = Len(b) BY ScriptEntries
<1>4. PICK S : a \in Seq(S) BY DEF IsScript
<1>5. PICK T : b \in Seq(T) BY DEF IsScript
<1>6. a \in Seq(S \cup T) /\ b \in Seq(S \cup T) BY <1>4, <1>5, SeqOfMore
<1>7. PICK all : all = a \o b OBVIOUS
<1>8. /\ Len(all) = m + n /\ \A i \in 1..m : all[i] = a[i]
      /\ \A i \in 1..n : all[m + i] = b[i]
  BY <1>2, <1>3, <1>6, <1>7
<1>9. /\ f[0] = db /\ f[m + n] = end
      /\ \A i \in 1..m + n : Accepts(f[i - 1], driver1, all[i]) /\ f[i] = Effect(f[i - 1], all[i])
  BY <1>1, <1>7, <1>8 DEF IsSteps
<1>10. IsSteps(f, db, driver1, a, f[m])
  <2>1. \A i \in 1..m : i \in 1..m + n OBVIOUS
  <2>2. QED BY <1>2, <1>8, <1>9, <2>1 DEF IsSteps
<1>11. PICK h : h = [i \in 0..n |-> f[m + i]] OBVIOUS
<1>12. ASSUME NEW i \in 1..n PROVE Accepts(h[i - 1], driver1, b[i]) /\ h[i] = Effect(h[i - 1], b[i])
  <2>1. i \in 0..n /\ i - 1 \in 0..n /\ m + i \in 1..m + n /\ m + (i - 1) = (m + i) - 1 OBVIOUS
  <2>2. h[i] = f[m + i] /\ h[i - 1] = f[(m + i) - 1] BY <1>11, <2>1
  <2>3. QED BY <1>8, <1>9, <2>1, <2>2
<1>13. h[0] = f[m] /\ h[n] = end
  <2>1. 0 \in 0..n /\ n \in 0..n /\ m + 0 = m OBVIOUS
  <2>2. QED BY <1>9, <1>11, <2>1
<1>14. IsSteps(h, f[m], driver1, b, end) BY <1>3, <1>12, <1>13 DEF IsSteps
<1>15. QED BY <1>10, <1>14 DEF Runs

\* Scripts written one behind the other run one after the other.
LEMMA RunsFlattened ==
  ASSUME NEW n \in Nat, NEW parts, ScriptParts(parts, n),
         NEW db, NEW driver1, NEW end, Runs(db, driver1, FlattenSeq(parts), end)
  PROVE  \E g : g[0] = db /\ g[n] = end /\ \A k \in 1..n : Runs(g[k - 1], driver1, parts[k], g[k])
<1>1. PICK all : all = FlattenSeq(parts) OBVIOUS
<1>2. PICK f : IsSteps(f, db, driver1, all, end) BY <1>1 DEF Runs
<1>3. PICK off : FlatAt(all, parts, n, off) BY <1>1, ScriptsFlattened
<1>3a. /\ IsOffsets(off, parts) /\ off[n] = Len(all)
       /\ \A k \in 1..n : \A i \in 1..Len(parts[k]) : all[off[k - 1] + i] = parts[k][i]
  BY <1>3 DEF FlatAt
<1>4. Len(parts) = n BY DEF ScriptParts
<1>5. \A k \in 1..n : Len(parts[k]) \in Nat BY ScriptEntries DEF ScriptParts
<1>6. /\ off \in [0..n -> Nat] /\ off[0] = 0
      /\ \A k \in 1..n : off[k] = off[k - 1] + Len(parts[k])
  BY <1>3a, <1>4 DEF IsOffsets
<1>7. PICK g : g = [k \in 0..n |-> f[off[k]]] OBVIOUS
<1>8. ASSUME NEW k \in 1..n PROVE Runs(g[k - 1], driver1, parts[k], g[k])
  <2>1. PICK m \in Nat : m = Len(parts[k]) BY <1>5
  <2>2. k \in 0..n /\ k - 1 \in 0..n OBVIOUS
  <2>3. PICK o \in Nat : o = off[k - 1] BY <1>6, <2>2
  <2>4. off[k] = o + m /\ o + m <= Len(all)
    <3>1. off[k] = o + m BY <1>6, <2>1, <2>3
    <3>2. n \in 0..n /\ k <= n OBVIOUS
    <3>3. off[k] <= off[n] BY <1>3a, <1>4, <1>5, <2>2, <3>2, OffsetsGrow
    <3>4. QED BY <1>3a, <3>1, <3>3
  <2>5. PICK h : h = [i \in 0..m |-> f[o + i]] OBVIOUS
  <2>6. ASSUME NEW i \in 1..m PROVE Accepts(h[i - 1], driver1, parts[k][i]) /\ h[i] = Effect(h[i - 1], parts[k][i])
    <3>1. /\ i \in 0..m /\ i - 1 \in 0..m
          /\ o + i \in Nat /\ o + i > 0 /\ o + i <= o + m /\ o + (i - 1) = (o + i) - 1
      OBVIOUS
    <3>2. h[i] = f[o + i] /\ h[i - 1] = f[(o + i) - 1] BY <2>5, <3>1
    <3>3. PICK l \in Nat : l = Len(all)
      <4>1. n \in 0..n OBVIOUS
      <4>2. QED BY <1>3a, <1>6, <4>1
    <3>4. o + i \in 1..l BY <2>4, <3>1, <3>3
    <3>5. Accepts(f[(o + i) - 1], driver1, all[o + i]) /\ f[o + i] = Effect(f[(o + i) - 1], all[o + i])
      BY <1>2, <3>3, <3>4 DEF IsSteps
    <3>6. all[o + i] = parts[k][i] BY <1>3a, <2>1, <2>3
    <3>7. QED BY <3>2, <3>5, <3>6
  <2>7. h[0] = g[k - 1] /\ h[m] = g[k]
    <3>1. 0 \in 0..m /\ m \in 0..m /\ o + 0 = o OBVIOUS
    <3>2. QED BY <1>7, <2>2, <2>3, <2>4, <2>5, <3>1
  <2>8. IsSteps(h, g[k - 1], driver1, parts[k], g[k]) BY <2>1, <2>6, <2>7 DEF IsSteps
  <2>9. QED BY <2>8 DEF Runs
<1>9. g[0] = db /\ g[n] = end
  <2>1. 0 \in 0..n /\ n \in 0..n OBVIOUS
  <2>2. f[0] = db /\ f[Len(all)] = end BY <1>2 DEF IsSteps
  <2>3. QED BY <1>3a, <1>6, <1>7, <2>1, <2>2
<1>10. QED BY <1>8, <1>9

\* A script that ran through has a run.
LEMMA RunOfScript ==
  ASSUME NEW db, NEW driver1, NEW statements, IsScript(statements), RunScript(db, driver1, statements).ok
  PROVE  Runs(db, driver1, statements, RunScript(db, driver1, statements).db)
BY ScriptEntries, RunSucceeds DEF Runs

-----------------------------------------------------------------------------
(* What the statements of the edit form do to the columns of a table.      *)

Columns(db, t) == db.tables[t].columns

\* The rest of the table is there as before.
RestStays(db, new, t) ==
  /\ IsSchema(new) /\ IsTable(new, t)
  /\ DOMAIN new.tables[t].indexes = DOMAIN db.tables[t].indexes
  /\ DOMAIN new.tables[t].keys = DOMAIN db.tables[t].keys

\* From columns old to columns new: one is dropped, redefined or renamed.
Dropped(old, new, c) ==
  c \in DOMAIN old /\ DOMAIN new = DOMAIN old \ {c} /\ \A d \in DOMAIN new : new[d] = old[d]
Redefined(old, new, c, type, nullable) ==
  /\ c \in DOMAIN old /\ DOMAIN new = DOMAIN old /\ (\A d \in DOMAIN old \ {c} : new[d] = old[d])
  /\ new[c] = Column(type, nullable, old[c].key)
Moved(old, new, c, to) ==
  /\ c \in DOMAIN old /\ to \notin DOMAIN old /\ DOMAIN new = (DOMAIN old \ {c}) \cup {to}
  /\ (\A d \in DOMAIN old \ {c} : new[d] = old[d]) /\ new[to] = old[c]

\* A column with another type.
LEMMA TypedColumn ==
  ASSUME NEW columns, AreColumns(columns), NEW c \in DOMAIN columns, NEW v, NEW new,
         new = [columns EXCEPT ![c].type = v]
  PROVE  AreColumns(new) /\ Redefined(columns, new, c, v, columns[c].nullable)
<1>1. AreColumns(new) BY RetypedColumn
<1>2. DOMAIN new = DOMAIN columns /\ \A d \in DOMAIN columns \ {c} : new[d] = columns[d] OBVIOUS
<1>3. PICK a : a = columns[c] OBVIOUS
<1>4. a = [type |-> a.type, nullable |-> a.nullable, key |-> a.key] BY <1>3 DEF AreColumns, Column
<1>5. new[c] = [a EXCEPT !.type = v] BY <1>3
<1>6. new[c] = Column(v, a.nullable, a.key) BY <1>4, <1>5 DEF Column
<1>7. QED BY <1>1, <1>2, <1>3, <1>6 DEF Redefined

\* A column with another nullability.
LEMMA NulledColumn ==
  ASSUME NEW columns, AreColumns(columns), NEW c \in DOMAIN columns, NEW v, NEW new,
         new = [columns EXCEPT ![c].nullable = v]
  PROVE  AreColumns(new) /\ Redefined(columns, new, c, columns[c].type, v)
<1>1. AreColumns(new) BY RetypedColumn
<1>2. DOMAIN new = DOMAIN columns /\ \A d \in DOMAIN columns \ {c} : new[d] = columns[d] OBVIOUS
<1>3. PICK a : a = columns[c] OBVIOUS
<1>4. a = [type |-> a.type, nullable |-> a.nullable, key |-> a.key] BY <1>3 DEF AreColumns, Column
<1>5. new[c] = [a EXCEPT !.nullable = v] BY <1>3
<1>6. new[c] = Column(a.type, v, a.key) BY <1>4, <1>5 DEF Column
<1>7. QED BY <1>1, <1>2, <1>3, <1>6 DEF Redefined

\* A table put with other columns has these, and all else stays.
LEMMA PutColumns ==
  ASSUME NEW db, IsSchema(db), NEW t \in Nat, IsTable(db, t), NEW columns, AreColumns(columns), NEW new,
         new = PutTable(db, t, [TableAt(db, t) EXCEPT !.columns = columns])
  PROVE  RestStays(db, new, t) /\ Columns(new, t) = columns
<1>1. PICK table : table = TableAt(db, t) OBVIOUS
<1>2. IsTableOf(table) /\ table = db.tables[t] BY <1>1, TableAtIs DEF TableAt
<1>3. PICK put : put = [table EXCEPT !.columns = columns] OBVIOUS
<1>4. put = [columns |-> columns, indexes |-> table.indexes, keys |-> table.keys]
  <2>1. [table EXCEPT !.columns = columns] = [columns |-> columns, indexes |-> table.indexes, keys |-> table.keys]
    BY <1>2, TableExcept
  <2>2. QED BY <1>3, <2>1
<1>5. IsTableOf(put) BY <1>2, <1>3, TableReplaced
<1>6. new = PutTable(db, t, put) BY <1>1, <1>3
<1>7. IsSchema(new) BY <1>5, <1>6, PutKeepsSchema
<1>8. PICK tables : tables = With(db.tables, t, put) OBVIOUS
<1>9. DOMAIN tables = DOMAIN db.tables \cup {t} /\ tables[t] = put BY <1>8 DEF With
<1>10. new.tables = tables BY <1>6, <1>8 DEF PutTable, IsSchema
<1>11. QED BY <1>2, <1>4, <1>7, <1>9, <1>10 DEF RestStays, Columns, IsTable

\* What DROP COLUMN does to the columns.
LEMMA DropColumnRuns ==
  ASSUME NEW db, IsSchema(db), NEW t \in Nat, IsTable(db, t), NEW driver1, NEW c \in Nat, NEW new,
         Runs(db, driver1, <<Statement("dropColumn", t, c, NoDef)>>, new)
  PROVE  RestStays(db, new, t) /\ Dropped(Columns(db, t), Columns(new, t), c)
<1>1. PICK s : s = Statement("dropColumn", t, c, NoDef) OBVIOUS
<1>2. s.do = "dropColumn" /\ s.on = t /\ s.name = c BY <1>1 DEF Statement
<1>2a. Runs(db, driver1, <<s>>, new) BY <1>1
<1>3. Accepts(db, driver1, s) /\ new = Effect(db, s) BY <1>2a, OneRun
<1>4. PICK table : table = TableAt(db, t) OBVIOUS
<1>5. IsTableOf(table) /\ table = db.tables[t] BY <1>4, TableAtIs DEF TableAt
<1>6. TableEffect(db, s, table) BY <1>2, <1>4, EffectOnTable
<1>7. new = PutTable(db, t, [table EXCEPT !.columns = Without(@, c)]) BY <1>2, <1>3, <1>6 DEF TableEffect
<1>8. PICK columns : columns = Without(table.columns, c) OBVIOUS
<1>9. IsParts(columns) BY <1>5, <1>8, PartsWithout DEF IsTableOf, AreColumns
<1>10. DOMAIN columns = DOMAIN table.columns \ {c} /\ \A d \in DOMAIN columns : columns[d] = table.columns[d]
  BY <1>8 DEF Without
<1>11. AreColumns(columns) BY <1>5, <1>9, <1>10, ColumnsFrom DEF IsTableOf
<1>12. new = PutTable(db, t, [table EXCEPT !.columns = columns]) BY <1>7, <1>8
<1>13. RestStays(db, new, t) /\ Columns(new, t) = columns BY <1>4, <1>11, <1>12, PutColumns
<1>14. IsColumn(db, t, c) BY <1>2, <1>3 DEF Accepts
<1>15. QED BY <1>5, <1>10, <1>13, <1>14 DEF Dropped, Columns, IsColumn

\* What a change of the type does to the columns.
LEMMA SetTypeRuns ==
  ASSUME NEW db, IsSchema(db), NEW t \in Nat, IsTable(db, t), NEW driver1, NEW c \in Nat, NEW type, NEW new,
         Runs(db, driver1, <<Statement("setType", t, c, [type |-> type])>>, new)
  PROVE  RestStays(db, new, t) /\ Redefined(Columns(db, t), Columns(new, t), c, type, Columns(db, t)[c].nullable)
<1>1. PICK s : s = Statement("setType", t, c, [type |-> type]) OBVIOUS
<1>2. s.do = "setType" /\ s.on = t /\ s.name = c /\ s.def.type = type BY <1>1 DEF Statement
<1>2a. Runs(db, driver1, <<s>>, new) BY <1>1
<1>3. Accepts(db, driver1, s) /\ new = Effect(db, s) BY <1>2a, OneRun
<1>4. PICK table : table = TableAt(db, t) OBVIOUS
<1>5. IsTableOf(table) /\ table = db.tables[t] BY <1>4, TableAtIs DEF TableAt
<1>6. TableEffect(db, s, table) BY <1>2, <1>4, EffectOnTable
<1>7. IsColumn(db, t, c) BY <1>2, <1>3 DEF Accepts
<1>8. c \in DOMAIN table.columns BY <1>5, <1>7 DEF IsColumn
<1>9. PICK columns : columns = [table.columns EXCEPT ![c].type = type] OBVIOUS
<1>10. AreColumns(columns) /\ Redefined(table.columns, columns, c, type, table.columns[c].nullable)
  BY <1>5, <1>8, <1>9, TypedColumn DEF IsTableOf
<1>11. new = PutTable(db, t, [table EXCEPT !.columns[c].type = type]) BY <1>2, <1>3, <1>6 DEF TableEffect
<1>12. new = PutTable(db, t, [table EXCEPT !.columns = columns]) BY <1>5, <1>9, <1>11, NestedExcept
<1>13. RestStays(db, new, t) /\ Columns(new, t) = columns BY <1>4, <1>10, <1>12, PutColumns
<1>14. QED BY <1>5, <1>10, <1>13 DEF Columns

\* What a change of the nullability does to the columns.
LEMMA SetNullableRuns ==
  ASSUME NEW db, IsSchema(db), NEW t \in Nat, IsTable(db, t), NEW driver1, NEW c \in Nat, NEW nullable, NEW new,
         Runs(db, driver1, <<Statement("setNullable", t, c, [nullable |-> nullable])>>, new)
  PROVE  RestStays(db, new, t) /\ Redefined(Columns(db, t), Columns(new, t), c, Columns(db, t)[c].type, nullable)
<1>1. PICK s : s = Statement("setNullable", t, c, [nullable |-> nullable]) OBVIOUS
<1>2. s.do = "setNullable" /\ s.on = t /\ s.name = c /\ s.def.nullable = nullable BY <1>1 DEF Statement
<1>2a. Runs(db, driver1, <<s>>, new) BY <1>1
<1>3. Accepts(db, driver1, s) /\ new = Effect(db, s) BY <1>2a, OneRun
<1>4. PICK table : table = TableAt(db, t) OBVIOUS
<1>5. IsTableOf(table) /\ table = db.tables[t] BY <1>4, TableAtIs DEF TableAt
<1>6. TableEffect(db, s, table) BY <1>2, <1>4, EffectOnTable
<1>7. IsColumn(db, t, c) BY <1>2, <1>3 DEF Accepts
<1>8. c \in DOMAIN table.columns BY <1>5, <1>7 DEF IsColumn
<1>9. PICK columns : columns = [table.columns EXCEPT ![c].nullable = nullable] OBVIOUS
<1>10. AreColumns(columns) /\ Redefined(table.columns, columns, c, table.columns[c].type, nullable)
  BY <1>5, <1>8, <1>9, NulledColumn DEF IsTableOf
<1>11. new = PutTable(db, t, [table EXCEPT !.columns[c].nullable = nullable]) BY <1>2, <1>3, <1>6 DEF TableEffect
<1>12. new = PutTable(db, t, [table EXCEPT !.columns = columns]) BY <1>5, <1>9, <1>11, NestedExcept
<1>13. RestStays(db, new, t) /\ Columns(new, t) = columns BY <1>4, <1>10, <1>12, PutColumns
<1>14. QED BY <1>5, <1>10, <1>13 DEF Columns

\* What a redefinition does to the columns.
LEMMA SetColumnRuns ==
  ASSUME NEW db, IsSchema(db), NEW t \in Nat, IsTable(db, t), NEW driver1, NEW c \in Nat,
         NEW type, NEW nullable, NEW new,
         Runs(db, driver1, <<Statement("setColumn", t, c, [type |-> type, nullable |-> nullable])>>, new)
  PROVE  RestStays(db, new, t) /\ Redefined(Columns(db, t), Columns(new, t), c, type, nullable)
<1>1. PICK s : s = Statement("setColumn", t, c, [type |-> type, nullable |-> nullable]) OBVIOUS
<1>2. s.do = "setColumn" /\ s.on = t /\ s.name = c /\ s.def.type = type /\ s.def.nullable = nullable
  BY <1>1 DEF Statement
<1>2a. Runs(db, driver1, <<s>>, new) BY <1>1
<1>3. Accepts(db, driver1, s) /\ new = Effect(db, s) BY <1>2a, OneRun
<1>4. PICK table : table = TableAt(db, t) OBVIOUS
<1>5. IsTableOf(table) /\ table = db.tables[t] BY <1>4, TableAtIs DEF TableAt
<1>6. TableEffect(db, s, table) BY <1>2, <1>4, EffectOnTable
<1>7. IsColumn(db, t, c) BY <1>2, <1>3 DEF Accepts
<1>8. c \in DOMAIN table.columns /\ AreColumns(table.columns) BY <1>5, <1>7 DEF IsColumn, IsTableOf
<1>9. PICK key : key = table.columns[c].key /\ key \in BOOLEAN BY <1>8 DEF AreColumns
<1>10. PICK columns : columns = With(table.columns, c, Column(type, nullable, key)) OBVIOUS
<1>11. AreColumns(columns) BY <1>8, <1>9, <1>10, ColumnsWith
<1>12. DOMAIN columns = DOMAIN table.columns \cup {c} /\ columns[c] = Column(type, nullable, key)
       /\ \A d \in DOMAIN table.columns : d # c => columns[d] = table.columns[d]
  BY <1>10 DEF With
<1>13. new = PutTable(db, t, [table EXCEPT !.columns = With(@, c, Column(type, nullable,
                                c \in DOMAIN table.columns /\ table.columns[c].key))])
  BY <1>2, <1>3, <1>6 DEF TableEffect, ColumnStatements
<1>14. new = PutTable(db, t, [table EXCEPT !.columns = columns]) BY <1>8, <1>9, <1>10, <1>13
<1>15. RestStays(db, new, t) /\ Columns(new, t) = columns BY <1>4, <1>11, <1>14, PutColumns
<1>16. QED BY <1>5, <1>8, <1>9, <1>12, <1>15 DEF Columns, Redefined

\* What RENAME COLUMN does to the columns.
LEMMA RenameColumnRuns ==
  ASSUME NEW db, IsSchema(db), NEW t \in Nat, IsTable(db, t), NEW driver1, NEW c \in Nat, NEW to \in Nat, NEW new,
         Runs(db, driver1, <<Statement("renameColumn", t, c, [to |-> to])>>, new)
  PROVE  RestStays(db, new, t) /\ Moved(Columns(db, t), Columns(new, t), c, to)
<1>1. PICK s : s = Statement("renameColumn", t, c, [to |-> to]) OBVIOUS
<1>2. s.do = "renameColumn" /\ s.on = t /\ s.name = c /\ s.def.to = to BY <1>1 DEF Statement
<1>2a. Runs(db, driver1, <<s>>, new) BY <1>1
<1>3. Accepts(db, driver1, s) /\ new = Effect(db, s) BY <1>2a, OneRun
<1>4. IsSchema(new) BY <1>2, <1>3, RenamingKeepsSchema
<1>5. PICK columns : columns = TableAt(db, t).columns OBVIOUS
<1>6. columns = Columns(db, t) BY <1>5 DEF TableAt, Columns
<1>7. IsColumn(db, t, c) /\ ~IsColumn(db, t, to) BY <1>2, <1>3 DEF Accepts
<1>8. c \in DOMAIN columns /\ to \notin DOMAIN columns BY <1>6, <1>7 DEF IsColumn, Columns
<1>9. IsRenamed(new, db, s) BY <1>2, <1>3, EffectOfRenaming
<1>10. /\ DOMAIN new.tables = DOMAIN db.tables /\ t \in DOMAIN db.tables
       /\ new.tables[t].columns = RenamedColumns(columns, s)
       /\ DOMAIN new.tables[t].indexes = DOMAIN db.tables[t].indexes
       /\ DOMAIN new.tables[t].keys = DOMAIN db.tables[t].keys
  BY <1>2, <1>5, <1>9 DEF IsRenamed, IsTable
<1>11. PICK after : after = RenamedColumns(columns, s) OBVIOUS
<1>12. /\ DOMAIN after = (DOMAIN columns \ {c}) \cup {to} /\ after[to] = columns[c]
       /\ \A d \in DOMAIN columns \ {c} : after[d] = columns[d]
  <2>1. s.name \in DOMAIN columns /\ s.def.to \notin DOMAIN columns BY <1>2, <1>8
  <2>2. /\ DOMAIN RenamedColumns(columns, s) = (DOMAIN columns \ {s.name}) \cup {s.def.to}
        /\ RenamedColumns(columns, s)[s.def.to] = columns[s.name]
        /\ \A d \in DOMAIN columns \ {s.name} : RenamedColumns(columns, s)[d] = columns[d]
    BY <2>1, RenamedColumnsAre
  <2>3. QED BY <1>2, <1>11, <2>2
<1>13. RestStays(db, new, t) BY <1>4, <1>10 DEF RestStays, IsTable
<1>14. QED BY <1>6, <1>8, <1>10, <1>11, <1>12, <1>13 DEF Moved, Columns

\* A statement that is there only on a condition.
LEMMA PerhapsRuns ==
  ASSUME NEW db, NEW driver1, NEW new, NEW condition, NEW s,
         Runs(db, driver1, IF condition THEN <<s>> ELSE <<>>, new)
  PROVE  (condition /\ Runs(db, driver1, <<s>>, new)) \/ (~condition /\ new = db)
<1>1. CASE condition BY <1>1
<1>2. CASE ~condition
  <2>1. Runs(db, driver1, <<>>, new) BY <1>2
  <2>2. QED BY <1>2, <2>1, NoRun
<1>3. QED BY <1>1, <1>2

\* A statement about a column is accepted where its table is.
LEMMA ColumnStatementRuns ==
  ASSUME NEW db, NEW driver1, NEW new, NEW s, Runs(db, driver1, <<s>>, new),
         s.do \in {"dropColumn", "setType", "setNullable", "setColumn", "renameColumn"}
  PROVE  IsTable(db, s.on)
<1>1. Accepts(db, driver1, s) BY OneRun
<1>2. IsColumn(db, s.on, s.name)
  <2>1. CASE s.do = "dropColumn" BY <1>1, <2>1 DEF Accepts
  <2>2. CASE s.do \in {"setType", "setNullable", "setColumn"} BY <1>1, <2>2 DEF Accepts
  <2>3. CASE s.do = "renameColumn" BY <1>1, <2>3 DEF Accepts
  <2>4. QED BY <2>1, <2>2, <2>3
<1>3. QED BY <1>2 DEF IsColumn

\* A column that gets what the row shows, or keeps what the row agrees in.
Touched(old, new, x, row, column) ==
  /\ x \in DOMAIN old /\ DOMAIN new = DOMAIN old /\ \A d \in DOMAIN old \ {x} : new[d] = old[d]
  /\ new[x].type = row.type \/ (row.type = column.type /\ new[x].type = old[x].type)
  /\ new[x].nullable = row.nullable \/ (row.nullable = column.nullable /\ new[x].nullable = old[x].nullable)
  /\ new[x].key = old[x].key
Differs(row, c, column) == row.name # c \/ row.type # column.type \/ row.nullable # column.nullable

\* The statements about a column that keeps its place.
TypedRow(t, row) == Statement("setType", t, row.name, [type |-> row.type])
NulledRow(t, row) == Statement("setNullable", t, row.name, [nullable |-> row.nullable])
WholeRow(t, row) == Statement("setColumn", t, row.name, [type |-> row.type, nullable |-> row.nullable])
MovedRow(t, c, row) == Statement("renameColumn", t, c, [to |-> row.name])
InPlace(t, driver1, c, column, row) ==
  CASE driver1 = "postgres" -> (IF row.type # column.type THEN <<TypedRow(t, row)>> ELSE <<>>)
                               \o (IF row.nullable # column.nullable THEN <<NulledRow(t, row)>> ELSE <<>>)
    [] driver1 = "mysql" -> IF row.name # c \/ row.type # column.type \/ row.nullable # column.nullable
                            THEN <<WholeRow(t, row)>> ELSE <<>>
    [] OTHER -> IF row.type # column.type \/ row.nullable # column.nullable THEN <<WholeRow(t, row)>> ELSE <<>>

\* What two steps leave alone, both leave alone.
LEMMA RestStaysOn ==
  ASSUME NEW db, NEW mid, NEW new, NEW t, RestStays(db, mid, t), RestStays(mid, new, t)
  PROVE  RestStays(db, new, t)
BY DEF RestStays

\* What a row does that is written as a redefinition.
LEMMA WholeRowRuns ==
  ASSUME NEW db, IsSchema(db), NEW t \in Nat, NEW driver1, NEW column, NEW row, row.name \in Nat, NEW new,
         Runs(db, driver1, <<WholeRow(t, row)>>, new)
  PROVE  /\ IsTable(db, t) /\ RestStays(db, new, t)
         /\ Touched(Columns(db, t), Columns(new, t), row.name, row, column)
<1>1. PICK s : s = WholeRow(t, row) OBVIOUS
<1>2. s.do = "setColumn" /\ s.on = t BY <1>1 DEF Statement, WholeRow
<1>3. Runs(db, driver1, <<s>>, new) BY <1>1
<1>4. IsTable(db, t) BY <1>2, <1>3, ColumnStatementRuns
<1>5. /\ RestStays(db, new, t)
      /\ Redefined(Columns(db, t), Columns(new, t), row.name, row.type, row.nullable)
  BY <1>4, SetColumnRuns DEF WholeRow
<1>6. QED BY <1>4, <1>5 DEF Redefined, Touched, Column

\* What a row does that is written as a change of the type.
LEMMA TypedRowRuns ==
  ASSUME NEW db, IsSchema(db), NEW t \in Nat, NEW driver1, NEW row, row.name \in Nat, NEW new,
         Runs(db, driver1, <<TypedRow(t, row)>>, new)
  PROVE  /\ IsTable(db, t) /\ RestStays(db, new, t)
         /\ Redefined(Columns(db, t), Columns(new, t), row.name, row.type, Columns(db, t)[row.name].nullable)
<1>1. PICK s : s = TypedRow(t, row) OBVIOUS
<1>2. s.do = "setType" /\ s.on = t BY <1>1 DEF Statement, TypedRow
<1>3. Runs(db, driver1, <<s>>, new) BY <1>1
<1>4. IsTable(db, t) BY <1>2, <1>3, ColumnStatementRuns
<1>5. QED BY <1>4, SetTypeRuns DEF TypedRow

\* What a row does that is written as a change of the nullability.
LEMMA NulledRowRuns ==
  ASSUME NEW db, IsSchema(db), NEW t \in Nat, NEW driver1, NEW row, row.name \in Nat, NEW new,
         Runs(db, driver1, <<NulledRow(t, row)>>, new)
  PROVE  /\ IsTable(db, t) /\ RestStays(db, new, t)
         /\ Redefined(Columns(db, t), Columns(new, t), row.name, Columns(db, t)[row.name].type, row.nullable)
<1>1. PICK s : s = NulledRow(t, row) OBVIOUS
<1>2. s.do = "setNullable" /\ s.on = t BY <1>1 DEF Statement, NulledRow
<1>3. Runs(db, driver1, <<s>>, new) BY <1>1
<1>4. IsTable(db, t) BY <1>2, <1>3, ColumnStatementRuns
<1>5. QED BY <1>4, SetNullableRuns DEF NulledRow

\* What a row does to the column of its own name.
LEMMA InPlaceRuns ==
  ASSUME NEW db, IsSchema(db), NEW t \in Nat, NEW driver1, NEW c \in Nat, NEW column, NEW row, row.name \in Nat,
         NEW new, Runs(db, driver1, InPlace(t, driver1, c, column, row), new)
  PROVE  \/ new = db /\ row.type = column.type /\ row.nullable = column.nullable
         \/ /\ IsTable(db, t) /\ RestStays(db, new, t) /\ Differs(row, c, column)
            /\ Touched(Columns(db, t), Columns(new, t), row.name, row, column)
<1>1. CASE driver1 = "postgres"
  <2>1. PICK a : a = IF row.type # column.type THEN <<TypedRow(t, row)>> ELSE <<>> OBVIOUS
  <2>2. PICK b : b = IF row.nullable # column.nullable THEN <<NulledRow(t, row)>> ELSE <<>> OBVIOUS
  <2>3. Runs(db, driver1, a \o b, new) BY <1>1, <2>1, <2>2 DEF InPlace
  <2>4. IsStatement(TypedRow(t, row)) /\ IsStatement(NulledRow(t, row))
    BY PlainStatements, StatementIs DEF TypedRow, NulledRow
  <2>5. IsScript(a) /\ IsScript(b) BY <2>1, <2>2, <2>4, ShortScripts
  <2>6. PICK mid : Runs(db, driver1, a, mid) /\ Runs(mid, driver1, b, new) BY <2>3, <2>5, RunsJoined
  <2>7. \/ row.type # column.type /\ Runs(db, driver1, <<TypedRow(t, row)>>, mid)
        \/ row.type = column.type /\ mid = db
    BY <2>1, <2>6, PerhapsRuns
  <2>8. \/ row.nullable # column.nullable /\ Runs(mid, driver1, <<NulledRow(t, row)>>, new)
        \/ row.nullable = column.nullable /\ new = mid
    BY <2>2, <2>6, PerhapsRuns
  <2>9. CASE row.type = column.type /\ mid = db
    <3>1. CASE row.nullable = column.nullable /\ new = mid BY <2>9, <3>1
    <3>2. CASE row.nullable # column.nullable /\ Runs(mid, driver1, <<NulledRow(t, row)>>, new)
      <4>1. /\ IsTable(db, t) /\ RestStays(db, new, t)
            /\ Redefined(Columns(db, t), Columns(new, t), row.name, Columns(db, t)[row.name].type, row.nullable)
        BY <2>9, <3>2, NulledRowRuns
      <4>2. QED BY <2>9, <3>2, <4>1 DEF Redefined, Touched, Column, Differs
    <3>3. QED BY <2>8, <3>1, <3>2
  <2>10. CASE row.type # column.type /\ Runs(db, driver1, <<TypedRow(t, row)>>, mid)
    <3>0. /\ IsTable(db, t) /\ RestStays(db, mid, t)
          /\ Redefined(Columns(db, t), Columns(mid, t), row.name, row.type, Columns(db, t)[row.name].nullable)
      BY <2>10, TypedRowRuns
    <3>1. CASE row.nullable = column.nullable /\ new = mid
      BY <2>10, <3>0, <3>1 DEF Redefined, Touched, Column, Differs
    <3>2. CASE row.nullable # column.nullable /\ Runs(mid, driver1, <<NulledRow(t, row)>>, new)
      <4>1. IsSchema(mid) BY <3>0 DEF RestStays
      <4>2. /\ RestStays(mid, new, t)
            /\ Redefined(Columns(mid, t), Columns(new, t), row.name, Columns(mid, t)[row.name].type, row.nullable)
        BY <3>2, <4>1, NulledRowRuns
      <4>3. RestStays(db, new, t) BY <3>0, <4>2, RestStaysOn
      <4>4. Touched(Columns(db, t), Columns(new, t), row.name, row, column)
        BY <3>0, <4>2 DEF Redefined, Touched, Column
      <4>5. QED BY <2>10, <3>0, <4>3, <4>4 DEF Differs
    <3>3. QED BY <2>8, <3>1, <3>2
  <2>11. QED BY <2>7, <2>9, <2>10
<1>2. CASE driver1 # "postgres"
  <2>1. PICK condition \in BOOLEAN :
          condition = (\/ driver1 = "mysql" /\ row.name # c
                       \/ row.type # column.type \/ row.nullable # column.nullable)
    OBVIOUS
  <2>2. InPlace(t, driver1, c, column, row) = IF condition THEN <<WholeRow(t, row)>> ELSE <<>>
    BY <1>2, <2>1 DEF InPlace
  <2>3. \/ condition /\ Runs(db, driver1, <<WholeRow(t, row)>>, new)
        \/ ~condition /\ new = db
    BY <2>2, PerhapsRuns
  <2>4. CASE condition /\ Runs(db, driver1, <<WholeRow(t, row)>>, new)
    <3>1. /\ IsTable(db, t) /\ RestStays(db, new, t)
          /\ Touched(Columns(db, t), Columns(new, t), row.name, row, column)
      BY <2>4, WholeRowRuns
    <3>2. QED BY <2>1, <2>4, <3>1 DEF Differs
  <2>5. QED BY <2>1, <2>3, <2>4
<1>3. QED BY <1>1, <1>2

\* What the statements for one row of the form make of the columns.
Kept(old, new, c, row, column) ==
  /\ ~row.remove /\ c \in DOMAIN old /\ (row.name = c \/ row.name \notin DOMAIN old)
  /\ DOMAIN new = (DOMAIN old \ {c}) \cup {row.name}
  /\ \A d \in DOMAIN old \ {c} : new[d] = old[d]
  /\ AsEdited(c, row, column, old[c], new[row.name])
Agrees(row, c, column) == ~row.remove /\ ~Differs(row, c, column)

\* What a row does, the renaming before it included.
LEMMA RowRuns ==
  ASSUME NEW db, IsSchema(db), NEW t \in Nat, NEW driver1, NEW c \in Nat, NEW column, NEW row, row.name \in Nat,
         NEW new, Runs(db, driver1, EditStatements(t, driver1, c, column, row), new)
  PROVE  \/ new = db /\ Agrees(row, c, column)
         \/ /\ IsTable(db, t) /\ RestStays(db, new, t)
            /\ \/ row.remove /\ Dropped(Columns(db, t), Columns(new, t), c)
               \/ Kept(Columns(db, t), Columns(new, t), c, row, column)
<1>1. EditStatements(t, driver1, c, column, row) =
        IF row.remove THEN <<Statement("dropColumn", t, c, NoDef)>>
        ELSE (IF row.name # c THEN <<MovedRow(t, c, row)>> ELSE <<>>) \o InPlace(t, driver1, c, column, row)
  BY DEF EditStatements, InPlace, MovedRow, TypedRow, NulledRow, WholeRow
<1>2. CASE row.remove
  <2>1. PICK s : s = Statement("dropColumn", t, c, NoDef) OBVIOUS
  <2>2. s.do = "dropColumn" /\ s.on = t BY <2>1 DEF Statement
  <2>3. Runs(db, driver1, <<s>>, new) BY <1>1, <1>2, <2>1
  <2>4. IsTable(db, t) BY <2>2, <2>3, ColumnStatementRuns
  <2>5. Runs(db, driver1, <<Statement("dropColumn", t, c, NoDef)>>, new) BY <2>1, <2>3
  <2>6. RestStays(db, new, t) /\ Dropped(Columns(db, t), Columns(new, t), c) BY <2>4, <2>5, DropColumnRuns
  <2>7. QED BY <1>2, <2>4, <2>6
<1>3. CASE ~row.remove
  <2>1. PICK a : a = IF row.name # c THEN <<MovedRow(t, c, row)>> ELSE <<>> OBVIOUS
  <2>2. PICK b : b = InPlace(t, driver1, c, column, row) OBVIOUS
  <2>3. Runs(db, driver1, a \o b, new) BY <1>1, <1>3, <2>1, <2>2
  <2>4. IsStatement(MovedRow(t, c, row)) BY StatementIs DEF MovedRow
  <2>5. IsScript(a) BY <2>1, <2>4, ShortScripts
  <2>6. IsScript(b)
    <3>1. IsStatement(TypedRow(t, row)) /\ IsStatement(NulledRow(t, row)) /\ IsStatement(WholeRow(t, row))
      BY PlainStatements, StatementIs DEF TypedRow, NulledRow, WholeRow
    <3>2. \A condition, s : IsStatement(s) => IsScript(IF condition THEN <<s>> ELSE <<>>) BY ShortScripts
    <3>3. IsScript((IF row.type # column.type THEN <<TypedRow(t, row)>> ELSE <<>>)
                   \o (IF row.nullable # column.nullable THEN <<NulledRow(t, row)>> ELSE <<>>))
      BY <3>1, <3>2, ScriptsJoined
    <3>4. QED BY <2>2, <3>1, <3>3, ShortScripts DEF InPlace
  <2>7. PICK mid : Runs(db, driver1, a, mid) /\ Runs(mid, driver1, b, new) BY <2>3, <2>5, <2>6, RunsJoined
  <2>8. \/ row.name # c /\ Runs(db, driver1, <<MovedRow(t, c, row)>>, mid)
        \/ row.name = c /\ mid = db
    BY <2>1, <2>7, PerhapsRuns
  <2>9. CASE row.name = c /\ mid = db
    <3>1. \/ new = db /\ row.type = column.type /\ row.nullable = column.nullable
          \/ /\ IsTable(db, t) /\ RestStays(db, new, t) /\ Differs(row, c, column)
             /\ Touched(Columns(db, t), Columns(new, t), row.name, row, column)
      BY <2>2, <2>7, <2>9, InPlaceRuns
    <3>2. CASE new = db /\ row.type = column.type /\ row.nullable = column.nullable
      BY <1>3, <2>9, <3>2 DEF Agrees, Differs
    <3>3. CASE /\ IsTable(db, t) /\ RestStays(db, new, t) /\ Differs(row, c, column)
               /\ Touched(Columns(db, t), Columns(new, t), row.name, row, column)
      <4>1. Kept(Columns(db, t), Columns(new, t), c, row, column)
        BY <1>3, <2>9, <3>3 DEF Kept, Touched, AsEdited, Differs
      <4>2. QED BY <3>3, <4>1
    <3>4. QED BY <3>1, <3>2, <3>3
  <2>10. CASE row.name # c /\ Runs(db, driver1, <<MovedRow(t, c, row)>>, mid)
    <3>1. PICK s : s = MovedRow(t, c, row) OBVIOUS
    <3>2. s.do = "renameColumn" /\ s.on = t BY <3>1 DEF Statement, MovedRow
    <3>3. Runs(db, driver1, <<s>>, mid) BY <2>10, <3>1
    <3>4. IsTable(db, t) BY <3>2, <3>3, ColumnStatementRuns
    <3>5. RestStays(db, mid, t) /\ Moved(Columns(db, t), Columns(mid, t), c, row.name)
      BY <2>10, <3>4, RenameColumnRuns DEF MovedRow
    <3>6. IsSchema(mid) BY <3>5 DEF RestStays
    <3>7. \/ new = mid /\ row.type = column.type /\ row.nullable = column.nullable
          \/ /\ RestStays(mid, new, t)
             /\ Touched(Columns(mid, t), Columns(new, t), row.name, row, column)
      BY <2>2, <2>7, <3>6, InPlaceRuns
    <3>8. CASE new = mid /\ row.type = column.type /\ row.nullable = column.nullable
      <4>1. Kept(Columns(db, t), Columns(new, t), c, row, column)
        BY <1>3, <2>10, <3>5, <3>8 DEF Kept, Moved, AsEdited
      <4>2. QED BY <3>4, <3>5, <3>8, <4>1
    <3>9. CASE /\ RestStays(mid, new, t)
               /\ Touched(Columns(mid, t), Columns(new, t), row.name, row, column)
      <4>1. Kept(Columns(db, t), Columns(new, t), c, row, column)
        BY <1>3, <2>10, <3>5, <3>9 DEF Kept, Moved, Touched, AsEdited
      <4>2. RestStays(db, new, t) BY <3>5, <3>9, RestStaysOn
      <4>3. QED BY <3>4, <4>1, <4>2
    <3>10. QED BY <3>7, <3>8, <3>9
  <2>11. QED BY <2>8, <2>9, <2>10
<1>4. QED BY <1>2, <1>3

\* Every key is in the ascending list.
LEMMA AscendingIsAll ==
  ASSUME NEW keys \in SUBSET Nat, IsFiniteSet(keys)
  PROVE  \A c \in keys : \E n \in 1..Cardinality(keys) : Ascending(keys)[n] = c
<1>1. PICK n \in Nat : n = Cardinality(keys) BY FS_CardinalityType
<1>2. PICK order : order = Ascending(keys) OBVIOUS
<1>3. order \in [1..n -> keys] /\ \A i, j \in 1..n : order[i] = order[j] => i = j
  BY <1>1, <1>2, AscendingIsInjective
<1>4. order \in Injection(1..n, keys) BY <1>3 DEF Injection, IsInjective
<1>5. Cardinality(1..n) = n BY FS_Interval
<1>6. order \in Surjection(1..n, keys) BY <1>1, <1>4, <1>5, FS_Injection
<1>7. QED BY <1>1, <1>2, <1>6 DEF Surjection

\* The columns of a table when some rows of the form are done: old are those it
\* had, known those the form was built from.
NameIn(rows, done, e) == IF e \in done THEN rows[e].name ELSE e
Staying(old, rows, done) == {e \in DOMAIN old : ~(e \in done /\ rows[e].remove)}
ColumnsSoFar(old, new, rows, known, done) ==
  /\ DOMAIN new = {NameIn(rows, done, e) : e \in Staying(old, rows, done)}
  /\ \A e \in DOMAIN old \ done : new[e] = old[e]
  /\ \A e \in Staying(old, rows, done) \cap done : AsEdited(e, rows[e], known[e], old[e], new[rows[e].name])

\* No row was done, or only rows that agree with what is there.
LEMMA NoRowDone ==
  ASSUME NEW old, NEW rows, NEW known
  PROVE  ColumnsSoFar(old, old, rows, known, {})
<1>1. Staying(old, rows, {}) = DOMAIN old BY DEF Staying
<1>2. \A e : NameIn(rows, {}, e) = e BY DEF NameIn
<1>3. QED BY <1>1, <1>2 DEF ColumnsSoFar

\* A row that agrees with its column needs no statement.
LEMMA RowAgrees ==
  ASSUME NEW old, NEW mid, NEW rows, NEW known, NEW done \in SUBSET DOMAIN rows, NEW c \in DOMAIN rows \ done,
         ColumnsSoFar(old, mid, rows, known, done), Agrees(rows[c], c, known[c])
  PROVE  ColumnsSoFar(old, mid, rows, known, done \cup {c})
<1>1. PICK now : now = done \cup {c} OBVIOUS
<1>2. rows[c].name = c /\ ~rows[c].remove /\ rows[c].type = known[c].type /\ rows[c].nullable = known[c].nullable
  BY DEF Agrees, Differs
<1>3. Staying(old, rows, now) = Staying(old, rows, done) BY <1>1, <1>2 DEF Staying
<1>4. \A e : NameIn(rows, now, e) = NameIn(rows, done, e) BY <1>1, <1>2 DEF NameIn
<1>5. {NameIn(rows, now, e) : e \in Staying(old, rows, now)} = {NameIn(rows, done, e) : e \in Staying(old, rows, done)}
  BY <1>3, <1>4
<1>6. ASSUME NEW e \in Staying(old, rows, now) \cap now
      PROVE  AsEdited(e, rows[e], known[e], old[e], mid[rows[e].name])
  <2>1. CASE e \in done BY <1>3, <2>1 DEF ColumnsSoFar
  <2>2. CASE e = c
    <3>1. mid[c] = old[c] BY <2>2 DEF ColumnsSoFar, Staying
    <3>2. QED BY <1>2, <2>2, <3>1 DEF AsEdited
  <2>3. QED BY <1>1, <2>1, <2>2
<1>7. \A e \in DOMAIN old \ now : mid[e] = old[e] BY <1>1 DEF ColumnsSoFar
<1>8. ColumnsSoFar(old, mid, rows, known, now) BY <1>5, <1>6, <1>7 DEF ColumnsSoFar
<1>9. QED BY <1>1, <1>8

\* A column that is there under the name of a row not yet done is that row's.
LEMMA OwnName ==
  ASSUME NEW old, NEW mid, NEW rows, NEW known, NEW done \in SUBSET DOMAIN rows, NEW c \in DOMAIN rows \ done,
         ColumnsSoFar(old, mid, rows, known, done), ~PassesName(rows)
  PROVE  /\ c \in DOMAIN mid => c \in Staying(old, rows, done)
         /\ \A e \in Staying(old, rows, done) : NameIn(rows, done, e) = c => e = c
         /\ \A e \in Staying(old, rows, done) : NameIn(rows, done, e) \in DOMAIN mid
         /\ \A e \in DOMAIN old \ done : e \in DOMAIN mid
         /\ \A e \in Staying(old, rows, done) \cap done : rows[e].name \in DOMAIN mid \ {c}
<1>1. \A e \in Staying(old, rows, done) : NameIn(rows, done, e) = c => e = c BY DEF NameIn, PassesName
<1>2. DOMAIN mid = {NameIn(rows, done, e) : e \in Staying(old, rows, done)} BY DEF ColumnsSoFar
<1>3. \A e \in Staying(old, rows, done) : NameIn(rows, done, e) \in DOMAIN mid BY <1>2
<1>4. c \in DOMAIN mid => c \in Staying(old, rows, done) BY <1>1, <1>2
<1>5. \A e \in DOMAIN old \ done : e \in Staying(old, rows, done) /\ NameIn(rows, done, e) = e BY DEF Staying, NameIn
<1>6. \A e \in Staying(old, rows, done) \cap done : NameIn(rows, done, e) = rows[e].name /\ e # c BY DEF NameIn
<1>7. \A e \in Staying(old, rows, done) \cap done : rows[e].name \in DOMAIN mid \ {c} BY <1>1, <1>3, <1>6
<1>8. QED BY <1>1, <1>3, <1>4, <1>5, <1>7

\* A row that removes its column, after those before it.
LEMMA RowDropped ==
  ASSUME NEW old, NEW mid, NEW new, NEW rows, NEW known, NEW done \in SUBSET DOMAIN rows, NEW c \in DOMAIN rows \ done,
         ColumnsSoFar(old, mid, rows, known, done), ~PassesName(rows), rows[c].remove, Dropped(mid, new, c)
  PROVE  ColumnsSoFar(old, new, rows, known, done \cup {c})
<1>1. PICK now : now = done \cup {c} OBVIOUS
<1>2. c \in DOMAIN mid /\ DOMAIN new = DOMAIN mid \ {c} /\ \A d \in DOMAIN new : new[d] = mid[d] BY DEF Dropped
<1>3. Staying(old, rows, now) = Staying(old, rows, done) \ {c} BY <1>1 DEF Staying
<1>4. \A e \in Staying(old, rows, now) : NameIn(rows, now, e) = NameIn(rows, done, e) BY <1>1, <1>3 DEF NameIn
<1>5. \A e \in Staying(old, rows, done) : NameIn(rows, done, e) = c => e = c BY OwnName
<1>6. c \in Staying(old, rows, done) /\ NameIn(rows, done, c) = c BY <1>2, OwnName DEF NameIn
<1>7. DOMAIN mid = {NameIn(rows, done, e) : e \in Staying(old, rows, done)} BY DEF ColumnsSoFar
<1>8. DOMAIN new = {NameIn(rows, now, e) : e \in Staying(old, rows, now)} BY <1>2, <1>3, <1>4, <1>5, <1>6, <1>7
<1>8a. \A e \in DOMAIN old \ done : e \in DOMAIN mid BY OwnName
<1>9. ASSUME NEW e \in DOMAIN old \ now PROVE new[e] = old[e]
  <2>0. e \in DOMAIN old \ done /\ e # c BY <1>1
  <2>1. e \in DOMAIN mid /\ e # c /\ mid[e] = old[e] BY <1>8a, <2>0 DEF ColumnsSoFar
  <2>2. QED BY <1>2, <2>1
<1>10. ASSUME NEW e \in Staying(old, rows, now) \cap now
       PROVE  AsEdited(e, rows[e], known[e], old[e], new[rows[e].name])
  <2>1. e \in Staying(old, rows, done) \cap done BY <1>1, <1>3
  <2>2. rows[e].name \in DOMAIN new BY <1>2, <2>1, OwnName
  <2>3. QED BY <1>2, <2>1, <2>2 DEF ColumnsSoFar
<1>11. ColumnsSoFar(old, new, rows, known, now) BY <1>8, <1>9, <1>10 DEF ColumnsSoFar
<1>12. QED BY <1>1, <1>11

\* A row that keeps its column, after those before it.
LEMMA RowKept ==
  ASSUME NEW old, NEW mid, NEW new, NEW rows, NEW known, NEW done \in SUBSET DOMAIN rows, NEW c \in DOMAIN rows \ done,
         ColumnsSoFar(old, mid, rows, known, done), ~PassesName(rows), Kept(mid, new, c, rows[c], known[c])
  PROVE  ColumnsSoFar(old, new, rows, known, done \cup {c})
<1>1. PICK now : now = done \cup {c} OBVIOUS
<1>2. /\ ~rows[c].remove /\ c \in DOMAIN mid /\ DOMAIN new = (DOMAIN mid \ {c}) \cup {rows[c].name}
      /\ \A d \in DOMAIN mid \ {c} : new[d] = mid[d]
      /\ AsEdited(c, rows[c], known[c], mid[c], new[rows[c].name])
  BY DEF Kept
<1>3. Staying(old, rows, now) = Staying(old, rows, done) BY <1>1, <1>2 DEF Staying
<1>4. \A e \in Staying(old, rows, done) : e # c => NameIn(rows, now, e) = NameIn(rows, done, e) BY <1>1 DEF NameIn
<1>4a. NameIn(rows, now, c) = rows[c].name BY <1>1 DEF NameIn
<1>5. \A e \in Staying(old, rows, done) : NameIn(rows, done, e) = c => e = c BY OwnName
<1>6. c \in Staying(old, rows, done) /\ NameIn(rows, done, c) = c BY <1>2, OwnName DEF NameIn
<1>7. DOMAIN mid = {NameIn(rows, done, e) : e \in Staying(old, rows, done)} BY DEF ColumnsSoFar
<1>8. DOMAIN new = {NameIn(rows, now, e) : e \in Staying(old, rows, now)}
  <2>1. DOMAIN mid \ {c} = {NameIn(rows, done, e) : e \in Staying(old, rows, done) \ {c}} BY <1>5, <1>6, <1>7
  <2>2. {NameIn(rows, done, e) : e \in Staying(old, rows, done) \ {c}}
          = {NameIn(rows, now, e) : e \in Staying(old, rows, done) \ {c}}
    BY <1>4
  <2>3. {NameIn(rows, now, e) : e \in Staying(old, rows, done)}
          = {NameIn(rows, now, e) : e \in Staying(old, rows, done) \ {c}} \cup {rows[c].name}
    BY <1>4a, <1>6
  <2>4. QED BY <1>2, <1>3, <2>1, <2>2, <2>3
<1>8a. \A e \in DOMAIN old \ done : e \in DOMAIN mid BY OwnName
<1>9. ASSUME NEW e \in DOMAIN old \ now PROVE new[e] = old[e]
  <2>0. e \in DOMAIN old \ done /\ e # c BY <1>1
  <2>1. e \in DOMAIN mid /\ e # c /\ mid[e] = old[e] BY <1>8a, <2>0 DEF ColumnsSoFar
  <2>2. QED BY <1>2, <2>1
<1>10. ASSUME NEW e \in Staying(old, rows, now) \cap now
       PROVE  AsEdited(e, rows[e], known[e], old[e], new[rows[e].name])
  <2>1. CASE e = c
    <3>1. mid[c] = old[c] BY <1>6 DEF ColumnsSoFar, Staying
    <3>2. QED BY <1>2, <2>1, <3>1
  <2>2. CASE e # c
    <3>1. e \in Staying(old, rows, done) \cap done BY <1>1, <1>3, <2>2
    <3>2. rows[e].name \in DOMAIN mid \ {c} BY <3>1, OwnName
    <3>3. AsEdited(e, rows[e], known[e], old[e], mid[rows[e].name]) BY <3>1 DEF ColumnsSoFar
    <3>4. QED BY <1>2, <3>2, <3>3
  <2>3. QED BY <2>1, <2>2
<1>11. ColumnsSoFar(old, new, rows, known, now) BY <1>8, <1>9, <1>10 DEF ColumnsSoFar
<1>12. QED BY <1>1, <1>11

-----------------------------------------------------------------------------
(* The edit form, row by row.                                              *)

\* Some rows of the form are done, from schema db to new; where another session
\* has dropped the table, no row can say anything.
EditedSoFar(db, new, t, rows, known, done) ==
  /\ IsSchema(new)
  /\ IsTable(db, t) => /\ RestStays(db, new, t)
                       /\ ColumnsSoFar(Columns(db, t), Columns(new, t), rows, known, done)
  /\ ~IsTable(db, t) => new = db /\ \A c \in done : Agrees(rows[c], c, known[c])

\* Before the first row nothing is edited.
LEMMA NothingEdited ==
  ASSUME NEW db, IsSchema(db), NEW t, NEW rows, NEW known
  PROVE  EditedSoFar(db, db, t, rows, known, {})
<1>1. ColumnsSoFar(Columns(db, t), Columns(db, t), rows, known, {}) BY NoRowDone
<1>2. QED BY <1>1 DEF EditedSoFar, RestStays

\* One more row is edited.
LEMMA RowEdited ==
  ASSUME NEW db, NEW t \in Nat, NEW driver1, NEW rows, ~PassesName(rows), NEW known,
         NEW done \in SUBSET DOMAIN rows, NEW c \in DOMAIN rows \ done, c \in Nat, rows[c].name \in Nat,
         NEW mid, EditedSoFar(db, mid, t, rows, known, done),
         NEW new, Runs(mid, driver1, EditStatements(t, driver1, c, known[c], rows[c]), new)
  PROVE  EditedSoFar(db, new, t, rows, known, done \cup {c})
<1>1. IsSchema(mid) BY DEF EditedSoFar
<1>2. \/ new = mid /\ Agrees(rows[c], c, known[c])
      \/ /\ IsTable(mid, t) /\ RestStays(mid, new, t)
         /\ \/ rows[c].remove /\ Dropped(Columns(mid, t), Columns(new, t), c)
            \/ Kept(Columns(mid, t), Columns(new, t), c, rows[c], known[c])
  BY <1>1, RowRuns
<1>3. CASE IsTable(db, t)
  <2>1. RestStays(db, mid, t) /\ ColumnsSoFar(Columns(db, t), Columns(mid, t), rows, known, done)
    BY <1>3 DEF EditedSoFar
  <2>2. CASE new = mid /\ Agrees(rows[c], c, known[c])
    <3>1. ColumnsSoFar(Columns(db, t), Columns(new, t), rows, known, done \cup {c}) BY <2>1, <2>2, RowAgrees
    <3>2. QED BY <1>1, <1>3, <2>1, <2>2, <3>1 DEF EditedSoFar
  <2>3. CASE /\ RestStays(mid, new, t)
             /\ \/ rows[c].remove /\ Dropped(Columns(mid, t), Columns(new, t), c)
                \/ Kept(Columns(mid, t), Columns(new, t), c, rows[c], known[c])
    <3>1. ColumnsSoFar(Columns(db, t), Columns(new, t), rows, known, done \cup {c})
      BY <2>1, <2>3, RowDropped, RowKept
    <3>2. RestStays(db, new, t) BY <2>1, <2>3, RestStaysOn
    <3>3. IsSchema(new) BY <3>2 DEF RestStays
    <3>4. QED BY <1>3, <3>1, <3>2, <3>3 DEF EditedSoFar
  <2>4. QED BY <1>2, <2>2, <2>3
<1>4. CASE ~IsTable(db, t)
  <2>1. mid = db /\ \A e \in done : Agrees(rows[e], e, known[e]) BY <1>4 DEF EditedSoFar
  <2>2. new = db /\ Agrees(rows[c], c, known[c]) BY <1>2, <1>4, <2>1
  <2>3. QED BY <1>1, <1>4, <2>1, <2>2 DEF EditedSoFar
<1>5. QED BY <1>3, <1>4

\* The rows in their order, and the statements for each.
RowParts(t, driver1, rows, known, order, n) ==
  [k \in 1..n |-> EditStatements(t, driver1, order[k], known[order[k]], rows[order[k]])]
RowsOf(rows, order, n) ==
  /\ order \in [1..n -> DOMAIN rows] /\ (\A i, j \in 1..n : order[i] = order[j] => i = j)
  /\ (\A c \in DOMAIN rows : \E i \in 1..n : order[i] = c)
  /\ \A c \in DOMAIN rows : c \in Nat /\ rows[c].name \in Nat

\* Each row writes a script of its own.
LEMMA RowPartsAre ==
  ASSUME NEW t \in Nat, NEW driver1, NEW rows, NEW known, NEW order, NEW n \in Nat, RowsOf(rows, order, n)
  PROVE  ScriptParts(RowParts(t, driver1, rows, known, order, n), n)
<1>1. PICK parts : parts = RowParts(t, driver1, rows, known, order, n) OBVIOUS
<1>2. parts = [k \in 1..n |-> parts[k]] BY <1>1 DEF RowParts
<1>3. ASSUME NEW k \in 1..n PROVE IsScript(parts[k])
  <2>1. order[k] \in Nat /\ rows[order[k]].name \in Nat BY DEF RowsOf
  <2>2. parts[k] = EditStatements(t, driver1, order[k], known[order[k]], rows[order[k]]) BY <1>1 DEF RowParts
  <2>3. QED BY <2>1, <2>2, EditStatementsAre
<1>4. QED BY <1>1, <1>2, <1>3 DEF ScriptParts

\* When the script of all rows has run, every row is edited.
LEMMA AllRowsEdited ==
  ASSUME NEW db, IsSchema(db), NEW t \in Nat, NEW driver1, NEW rows, ~PassesName(rows), NEW known,
         NEW order, NEW n \in Nat, RowsOf(rows, order, n),
         NEW end, Runs(db, driver1, FlattenSeq(RowParts(t, driver1, rows, known, order, n)), end)
  PROVE  EditedSoFar(db, end, t, rows, known, DOMAIN rows)
<1>1. PICK parts : parts = RowParts(t, driver1, rows, known, order, n) OBVIOUS
<1>2. ScriptParts(parts, n) BY <1>1, RowPartsAre
<1>3. PICK g : g[0] = db /\ g[n] = end /\ \A k \in 1..n : Runs(g[k - 1], driver1, parts[k], g[k])
  BY <1>1, <1>2, RunsFlattened
<1> DEFINE Done(k) == {order[i] : i \in 1..k}
           T == {k \in Nat : k <= n /\ ~EditedSoFar(db, g[k], t, rows, known, Done(k))}
<1>4. T = {}
  <2>1. SUFFICES ASSUME T # {} PROVE FALSE OBVIOUS
  <2>2. PICK k \in T : \A m \in T : k <= m BY <2>1, LeastMember, Zenon
  <2>3. k \in 0..n /\ ~EditedSoFar(db, g[k], t, rows, known, Done(k)) BY <2>2
  <2>4. k # 0
    <3>1. Done(0) = {} OBVIOUS
    <3>2. EditedSoFar(db, g[0], t, rows, known, Done(0)) BY <1>3, <3>1, NothingEdited
    <3>3. QED BY <2>3, <3>2
  <2>5. k \in 1..n /\ k - 1 \in Nat /\ k - 1 <= n /\ ~(k <= k - 1) BY <2>3, <2>4
  <2>6. EditedSoFar(db, g[k - 1], t, rows, known, Done(k - 1)) BY <2>2, <2>5
  <2>7. PICK c : c = order[k] OBVIOUS
  <2>8. PICK done : done = Done(k - 1) OBVIOUS
  <2>9. Done(k) = done \cup {c}
    <3>1. \A i : i \in 1..k <=> i \in 1..k - 1 \/ i = k BY <2>5
    <3>2. QED BY <2>7, <2>8, <3>1
  <2>10. \A i \in 1..k - 1 : i \in 1..n /\ i # k BY <2>5
  <2>11. done \subseteq DOMAIN rows BY <2>8, <2>10 DEF RowsOf
  <2>12. c \in DOMAIN rows \ done /\ c \in Nat /\ rows[c].name \in Nat BY <2>5, <2>7, <2>8, <2>10 DEF RowsOf
  <2>13. Runs(g[k - 1], driver1, EditStatements(t, driver1, c, known[c], rows[c]), g[k])
    BY <1>1, <1>3, <2>5, <2>7 DEF RowParts
  <2>14. EditedSoFar(db, g[k], t, rows, known, done \cup {c})
    <3>1. EditedSoFar(db, g[k - 1], t, rows, known, done) BY <2>6, <2>8
    <3> HIDE DEF Done, T
    <3>2. QED BY <2>11, <2>12, <2>13, <3>1, RowEdited
  <2>15. QED BY <2>3, <2>9, <2>14
<1>5. EditedSoFar(db, g[n], t, rows, known, Done(n))
  <2>1. n <= n OBVIOUS
  <2>2. ~EditedSoFar(db, g[n], t, rows, known, Done(n)) => n \in T BY <2>1
  <2>3. QED BY <1>4, <2>2, Zenon
<1>6. Done(n) = DOMAIN rows
  <2>1. \A i \in 1..n : order[i] \in DOMAIN rows BY DEF RowsOf
  <2>2. \A c \in DOMAIN rows : \E i \in 1..n : order[i] = c BY DEF RowsOf
  <2>3. QED BY <2>1, <2>2
<1>7. QED BY <1>3, <1>5, <1>6

\* Rows that all agree with what is known have no statements.
LEMMA NothingToSay ==
  ASSUME NEW t \in Nat, NEW driver1, NEW rows, NEW known, NEW order, NEW n \in Nat, RowsOf(rows, order, n),
         \A c \in DOMAIN rows : Agrees(rows[c], c, known[c])
  PROVE  FlattenSeq(RowParts(t, driver1, rows, known, order, n)) = <<>>
<1>1. PICK parts : parts = RowParts(t, driver1, rows, known, order, n) OBVIOUS
<1>2. ASSUME NEW k \in 1..n PROVE parts[k] = <<>>
  <2>1. PICK c \in DOMAIN rows : c = order[k] BY DEF RowsOf
  <2>2. parts[k] = EditStatements(t, driver1, c, known[c], rows[c]) BY <1>1, <2>1 DEF RowParts
  <2>3. /\ ~rows[c].remove /\ rows[c].name = c
        /\ rows[c].type = known[c].type /\ rows[c].nullable = known[c].nullable
    BY DEF Agrees, Differs
  <2>4. PICK row : row = rows[c] OBVIOUS
  <2>5. InPlace(t, driver1, c, known[c], row) = <<>> BY <2>3, <2>4 DEF InPlace
  <2>6. EditStatements(t, driver1, c, known[c], row) =
          IF row.remove THEN <<Statement("dropColumn", t, c, NoDef)>>
          ELSE (IF row.name # c THEN <<MovedRow(t, c, row)>> ELSE <<>>) \o InPlace(t, driver1, c, known[c], row)
    BY DEF EditStatements, InPlace, MovedRow, TypedRow, NulledRow, WholeRow
  <2>7. QED BY <2>2, <2>3, <2>4, <2>5, <2>6
<1>3. parts = [k \in 1..n |-> <<>>] BY <1>1, <1>2 DEF RowParts
<1>4. PICK S : S = {} OBVIOUS
<1>5. parts \in Seq(Seq(S))
  <2>1. <<>> \in Seq(S) OBVIOUS
  <2>2. QED BY <1>3, <2>1
<1>6. FlattenSeq(parts) \in Seq(S) BY <1>5, FlattenParts
<1>7. QED BY <1>1, <1>4, <1>6

\* A plan that may run has no errors, no manual work and its statements.
LEMMA RunnablePlan ==
  ASSUME NEW statements, NEW errors, NEW manual, Runnable(Plan(statements, errors, manual))
  PROVE  ~errors /\ ~manual /\ Plan(statements, errors, manual).statements = statements /\ statements # <<>>
<1>1. ~Plan(statements, errors, manual).errors /\ ~Plan(statements, errors, manual).manual
      /\ Plan(statements, errors, manual).statements # <<>>
  BY DEF Runnable
<1>2. ~errors /\ ~manual BY <1>1 DEF Plan
<1>3. Plan(statements, errors, manual).statements = statements BY <1>2 DEF Plan
<1>4. QED BY <1>1, <1>2, <1>3

\* A plan of the column editor that can be run is the scripts of its rows, in order.
LEMMA EditPlanRuns ==
  ASSUME NEW t, NEW table, NEW rows, DOMAIN rows \in SUBSET Nat, IsFiniteSet(DOMAIN rows), NEW driver1,
         Runnable(BuildEditTableColumnsPlan(t, table, rows, driver1)),
         NEW n \in Nat, n = Cardinality(DOMAIN rows), NEW order, order = Ascending(DOMAIN rows)
  PROVE  /\ BuildEditTableColumnsPlan(t, table, rows, driver1).statements
              = FlattenSeq(RowParts(t, driver1, rows, table.columns, order, n))
         /\ FlattenSeq(RowParts(t, driver1, rows, table.columns, order, n)) # <<>>
<1> DEFINE known == DOMAIN rows \cap DOMAIN table.columns
           keyed == {c \in known : rows[c].key # table.columns[c].key}
           statements == FlattenSeq(EditParts(t, table, rows, driver1))
           manual == \/ keyed # {}
                     \/ \E c \in known : rows[c].remove /\ rows[c].key
                     \/ driver1 = "sqlite" /\ statements # <<>>
           errors == \/ known # DOMAIN rows \/ Duplicates([i \in DOMAIN order |-> rows[order[i]].name])
                     \/ \E c \in DOMAIN rows :
                          \/ IdentifierError(rows[c].name) \/ TypeError(rows[c].type)
                          \/ c \notin keyed /\ rows[c].remove /\ rows[c].name # c
                     \/ \A c \in DOMAIN rows : rows[c].remove
                     \/ statements = <<>> /\ ~manual
<1>1. BuildEditTableColumnsPlan(t, table, rows, driver1) = Plan(statements, errors, manual)
  BY Zenon DEF BuildEditTableColumnsPlan, EditParts
<1>2. PICK e : e = errors OBVIOUS
<1>3. PICK m : m = manual OBVIOUS
<1>4. PICK s : s = statements OBVIOUS
<1>5. BuildEditTableColumnsPlan(t, table, rows, driver1) = Plan(s, e, m) BY <1>1, <1>2, <1>3, <1>4
<1>6. Runnable(Plan(s, e, m)) BY <1>5
<1>7. ~e /\ ~m /\ Plan(s, e, m).statements = s /\ s # <<>> BY <1>6, RunnablePlan
<1>8. known = DOMAIN rows BY <1>2, <1>7
<1>9. keyed = {} BY <1>3, <1>7
<1>10. order \in [1..n -> DOMAIN rows] BY AscendingIsInjective
<1>11. EditParts(t, table, rows, driver1) = RowParts(t, driver1, rows, table.columns, order, n)
  <2>1. EditParts(t, table, rows, driver1) =
          [i \in DOMAIN order |-> IF order[i] \in known \ keyed
                                  THEN EditStatements(t, driver1, order[i], table.columns[order[i]], rows[order[i]])
                                  ELSE <<>>]
    BY DEF EditParts
  <2>2. DOMAIN order = 1..n /\ \A i \in 1..n : order[i] \in known \ keyed BY <1>8, <1>9, <1>10
  <2>3. QED BY <2>1, <2>2 DEF RowParts
<1>12. QED BY <1>4, <1>5, <1>7, <1>11

\* The table as the edit form shows it, the columns of the database apart that
\* the form does not know of.
FormEdited(db, t, rows, new) ==
  LET old == db.tables[t].columns
      now == new.tables[t].columns
      kept == {c \in DOMAIN rows \cap DOMAIN old : ~rows[c].remove}
      left == DOMAIN old \ DOMAIN rows
  IN  /\ DOMAIN now = {rows[c].name : c \in kept} \cup left
      /\ \A c \in left : now[c] = old[c]
      /\ \A c \in kept : AsEdited(c, rows[c], Table(t).columns[c], old[c], now[rows[c].name])
      /\ DOMAIN new.tables[t].indexes = DOMAIN db.tables[t].indexes
      /\ DOMAIN new.tables[t].keys = DOMAIN db.tables[t].keys

\* The column editor does what its rows say.
LEMMA EditSays ==
  ASSUME SchemaInv, NEW t \in DOMAIN metadata.tables,
         NEW rows \in EditTableColumnsForms(opened.columns), ~PassesName(rows),
         NEW plan, plan = BuildEditTableColumnsPlan(t, Table(t), rows, driver), Runnable(plan),
         RunScript(active, driver, plan.statements).ok
  PROVE  FormEdited(active, t, rows, RunScript(active, driver, plan.statements).db)
<1>1. IsSchema(active) /\ IsSchema(metadata) /\ AreColumns(opened.columns) BY DEF SchemaInv
<1>2. t \in Nat BY <1>1 DEF IsSchema, IsParts
<1>3. RowsAre(rows, opened.columns) BY <1>1, EditFormIs
<1>4. DOMAIN rows \in SUBSET Nat /\ IsFiniteSet(DOMAIN rows) BY <1>1, <1>3 DEF RowsAre, AreColumns, IsParts
<1>5. PICK n \in Nat : n = Cardinality(DOMAIN rows) BY <1>4, FS_CardinalityType
<1>6. PICK order : order = Ascending(DOMAIN rows) OBVIOUS
<1>7. RowsOf(rows, order, n)
  <2>1. order \in [1..n -> DOMAIN rows] /\ \A i, j \in 1..n : order[i] = order[j] => i = j
    BY <1>4, <1>5, <1>6, AscendingIsInjective
  <2>2. \A c \in DOMAIN rows : \E i \in 1..n : order[i] = c BY <1>4, <1>5, <1>6, AscendingIsAll
  <2>3. \A c \in DOMAIN rows : rows[c].name \in Nat BY <1>3 DEF RowsAre, RowIs
  <2>4. QED BY <1>4, <2>1, <2>2, <2>3 DEF RowsOf
<1>8. PICK known : known = Table(t).columns OBVIOUS
<1>9. PICK s : s = FlattenSeq(RowParts(t, driver, rows, known, order, n)) OBVIOUS
<1>10. plan.statements = s /\ s # <<>> BY <1>4, <1>5, <1>6, <1>8, <1>9, EditPlanRuns
<1>11. IsScript(s) BY <1>1, <1>2, <1>3, <1>10, EditPlanIs
<1>12. PICK end : end = RunScript(active, driver, s).db OBVIOUS
<1>13. Runs(active, driver, s, end) BY <1>10, <1>11, <1>12, RunOfScript
<1>14. EditedSoFar(active, end, t, rows, known, DOMAIN rows) BY <1>1, <1>2, <1>7, <1>9, <1>13, AllRowsEdited
<1>15. IsTable(active, t)
  <2>1. SUFFICES ASSUME ~IsTable(active, t) PROVE FALSE OBVIOUS
  <2>2. \A c \in DOMAIN rows : Agrees(rows[c], c, known[c]) BY <1>14, <2>1 DEF EditedSoFar
  <2>3. QED BY <1>2, <1>7, <1>9, <1>10, <2>2, NothingToSay
<1>16. RestStays(active, end, t) /\ ColumnsSoFar(Columns(active, t), Columns(end, t), rows, known, DOMAIN rows)
  BY <1>14, <1>15 DEF EditedSoFar
<1>17. PICK old : old = active.tables[t].columns OBVIOUS
<1>18. PICK now : now = end.tables[t].columns OBVIOUS
<1>19. ColumnsSoFar(old, now, rows, known, DOMAIN rows) BY <1>16, <1>17, <1>18 DEF Columns
<1> DEFINE kept == {c \in DOMAIN rows \cap DOMAIN old : ~rows[c].remove}
           left == DOMAIN old \ DOMAIN rows
<1>20. Staying(old, rows, DOMAIN rows) = kept \cup left BY DEF Staying
<1>21. DOMAIN now = {rows[c].name : c \in kept} \cup left
  <2>1. DOMAIN now = {NameIn(rows, DOMAIN rows, e) : e \in kept \cup left} BY <1>19, <1>20 DEF ColumnsSoFar
  <2>2. \A c \in kept : NameIn(rows, DOMAIN rows, c) = rows[c].name BY DEF NameIn
  <2>3. \A c \in left : NameIn(rows, DOMAIN rows, c) = c BY DEF NameIn
  <2>4. QED BY <2>1, <2>2, <2>3
<1>22. \A c \in left : now[c] = old[c] BY <1>19 DEF ColumnsSoFar
<1>23. \A c \in kept : AsEdited(c, rows[c], Table(t).columns[c], old[c], now[rows[c].name])
  BY <1>8, <1>19, <1>20 DEF ColumnsSoFar
<1>24. FormEdited(active, t, rows, end)
  BY <1>16, <1>17, <1>18, <1>21, <1>22, <1>23 DEF FormEdited, RestStays
<1>25. QED BY <1>10, <1>12, <1>24

-----------------------------------------------------------------------------
(* Indexes and views, and what a form that succeeds has done.              *)

\* Scripts of one and of two statements that ran.
LEMMA OneRan ==
  ASSUME NEW db, NEW driver1, NEW s, RunScript(db, driver1, <<s>>).ok
  PROVE  Accepts(db, driver1, s) /\ RunScript(db, driver1, <<s>>).db = Effect(db, s)
<1>1. Len(<<s>>) \in Nat OBVIOUS
<1>2. PICK list : list = <<s>> OBVIOUS
<1>3. Runs(db, driver1, list, RunScript(db, driver1, list).db) BY <1>1, <1>2, RunSucceeds DEF Runs
<1>4. QED BY <1>2, <1>3, OneRun

\* A script of two statements is the effect of both.
LEMMA TwoRan ==
  ASSUME NEW db, NEW driver1, NEW s, NEW u, RunScript(db, driver1, <<s, u>>).ok
  PROVE  /\ Accepts(db, driver1, s) /\ Accepts(Effect(db, s), driver1, u)
         /\ RunScript(db, driver1, <<s, u>>).db = Effect(Effect(db, s), u)
<1>1. PICK list : list = <<s, u>> OBVIOUS
<1>2. Len(list) = 2 /\ list[1] = s /\ list[2] = u BY <1>1
<1>3. PICK end : end = RunScript(db, driver1, list).db OBVIOUS
<1>4. \E f : IsSteps(f, db, driver1, list, end) BY <1>1, <1>2, <1>3, RunSucceeds
<1>5. PICK f : IsSteps(f, db, driver1, list, end) BY <1>4
<1>6. f[0] = db /\ f[2] = end BY <1>2, <1>5 DEF IsSteps
<1>7. \A n \in 1..2 : Accepts(f[n - 1], driver1, list[n]) /\ f[n] = Effect(f[n - 1], list[n])
  BY <1>2, <1>5 DEF IsSteps
<1>8. 1 \in 1..2 /\ 2 \in 1..2 /\ 1 - 1 = 0 /\ 2 - 1 = 1 OBVIOUS
<1>9. Accepts(f[0], driver1, s) /\ f[1] = Effect(f[0], s) BY <1>2, <1>7, <1>8
<1>10. Accepts(f[1], driver1, u) /\ f[2] = Effect(f[1], u) BY <1>2, <1>7, <1>8
<1>11. QED BY <1>1, <1>3, <1>6, <1>9, <1>10

\* A schema that got an index of a table, in place of another or not.
IndexPut(db, t, name, def) == [db EXCEPT !.tables[t].indexes = With(@, name, def)]

\* A table put with other indexes is the schema with these.
LEMMA IndexPutIs ==
  ASSUME NEW db, IsSchema(db), NEW t, IsTable(db, t), NEW indexes
  PROVE  PutTable(db, t, [db.tables[t] EXCEPT !.indexes = indexes]) = [db EXCEPT !.tables[t].indexes = indexes]
<1>1. PICK tables : tables = db.tables OBVIOUS
<1>2. tables = [r \in DOMAIN tables |-> tables[r]] /\ t \in DOMAIN tables
  BY <1>1 DEF IsSchema, IsParts, IsTable
<1>3. PICK table : table = [tables[t] EXCEPT !.indexes = indexes] OBVIOUS
<1>4. With(tables, t, table) = [tables EXCEPT ![t] = table] BY <1>2 DEF With
<1>5. [tables EXCEPT ![t].indexes = indexes] = [tables EXCEPT ![t] = table] BY <1>2, <1>3
<1>6. PutTable(db, t, table) = [db EXCEPT !.tables = With(tables, t, table)] BY <1>1 DEF PutTable
<1>7. [db EXCEPT !.tables[t].indexes = indexes] = [db EXCEPT !.tables = [tables EXCEPT ![t].indexes = indexes]]
  BY <1>1 DEF IsSchema
<1>8. QED BY <1>1, <1>3, <1>4, <1>5, <1>6, <1>7

\* CREATE INDEX, and the MySQL statement that drops and adds an index.
LEMMA IndexMade ==
  ASSUME NEW db, IsSchema(db), NEW t, NEW driver1, NEW do \in IndexStatements, NEW name, NEW def,
         Accepts(db, driver1, Statement(do, t, name, def))
  PROVE  IsTable(db, t) /\ Effect(db, Statement(do, t, name, def)) = IndexPut(db, t, name, def)
<1>1. PICK s : s = Statement(do, t, name, def) OBVIOUS
<1>2. s.do = do /\ s.on = t /\ s.name = name /\ s.def = def BY <1>1 DEF Statement
<1>3. Accepts(db, driver1, s) BY <1>1
<1>4. IsTable(db, t)
  <2>1. CASE s.do = "createIndex" BY <1>2, <1>3, <2>1, SMTT(30) DEF Accepts
  <2>2. CASE s.do = "rebuildIndex" BY <1>2, <1>3, <2>2 DEF Accepts
  <2>3. QED BY <1>2, <2>1, <2>2, SMTT(30) DEF IndexStatements
<1>5. PICK table : table = db.tables[t] OBVIOUS
<1>6. TableAt(db, t) = table BY <1>4, <1>5 DEF TableAt
<1>7. PartsEffect(db, s, table) BY <1>2, <1>6, EffectOnParts
<1>8. PICK indexes : indexes = With(table.indexes, name, def) OBVIOUS
<1>9. Effect(db, s) = PutTable(db, t, [table EXCEPT !.indexes = indexes]) BY <1>2, <1>7, <1>8 DEF PartsEffect
<1>10. Effect(db, s) = [db EXCEPT !.tables[t].indexes = indexes] BY <1>4, <1>5, <1>9, IndexPutIs
<1>11. [db EXCEPT !.tables[t].indexes = indexes] = IndexPut(db, t, name, def) BY <1>5, <1>8 DEF IndexPut
<1>12. QED BY <1>1, <1>4, <1>10, <1>11

\* DROP INDEX and CREATE INDEX.
LEMMA IndexRemade ==
  ASSUME NEW db, IsSchema(db), NEW t, NEW driver1, NEW name, NEW def, NEW mid,
         Accepts(db, driver1, Statement("dropIndex", t, name, NoDef)),
         mid = Effect(db, Statement("dropIndex", t, name, NoDef)),
         Accepts(mid, driver1, Statement("createIndex", t, name, def))
  PROVE  Effect(mid, Statement("createIndex", t, name, def)) = IndexPut(db, t, name, def)
<1>1. PICK s : s = Statement("dropIndex", t, name, NoDef) OBVIOUS
<1>2. s.do = "dropIndex" /\ s.on = t /\ s.name = name BY <1>1 DEF Statement
<1>3. Accepts(db, driver1, s) BY <1>1, Zenon
<1>4. IsTable(db, t) BY <1>2, <1>3 DEF Accepts
<1>5. PICK table : table = db.tables[t] OBVIOUS
<1>6. IsTableOf(table) /\ TableAt(db, t) = table BY <1>4, <1>5, TableAtIs DEF TableAt
<1>7. PartsEffect(db, s, table) BY <1>2, <1>6, EffectOnParts
<1>8. PICK less : less = Without(table.indexes, name) OBVIOUS
<1>9. mid = PutTable(db, t, [table EXCEPT !.indexes = less]) BY <1>1, <1>2, <1>7, <1>8 DEF PartsEffect
<1>10. PICK lesser : lesser = [table EXCEPT !.indexes = less] OBVIOUS
<1>11. mid.tables = With(db.tables, t, lesser) /\ mid = [db EXCEPT !.tables = With(db.tables, t, lesser)]
  BY <1>9, <1>10 DEF PutTable, IsSchema
<1>12. mid.tables[t] = lesser /\ IsTable(mid, t) BY <1>11 DEF With, IsTable
<1>13. TableAt(mid, t) = lesser BY <1>12 DEF TableAt
<1>14. PICK u : u = Statement("createIndex", t, name, def) OBVIOUS
<1>15. u.do = "createIndex" /\ u.on = t /\ u.name = name /\ u.def = def BY <1>14 DEF Statement
<1>16. PartsEffect(mid, u, lesser) BY <1>13, <1>15, EffectOnParts
<1>17. Effect(mid, u) = PutTable(mid, t, [lesser EXCEPT !.indexes = With(@, name, def)])
  BY <1>15, <1>16 DEF PartsEffect, IndexStatements
<1>18. [lesser EXCEPT !.indexes = With(@, name, def)] = [table EXCEPT !.indexes = With(table.indexes, name, def)]
  <2>1. lesser = [columns |-> table.columns, indexes |-> less, keys |-> table.keys] BY <1>6, <1>10, TableExcept
  <2>2. With(less, name, def) = With(table.indexes, name, def) BY <1>8 DEF With, Without
  <2>3. PICK more : more = With(table.indexes, name, def) OBVIOUS
  <2>4. [lesser EXCEPT !.indexes = With(@, name, def)]
          = [columns |-> table.columns, indexes |-> more, keys |-> table.keys]
    BY <2>1, <2>2, <2>3
  <2>5. [table EXCEPT !.indexes = more] = [columns |-> table.columns, indexes |-> more, keys |-> table.keys]
    BY <1>6, TableExcept
  <2>6. QED BY <2>3, <2>4, <2>5
<1>19. PICK indexes : indexes = With(table.indexes, name, def) OBVIOUS
<1>20. PICK whole : whole = [table EXCEPT !.indexes = indexes] OBVIOUS
<1>21. Effect(mid, u) = PutTable(mid, t, whole) BY <1>17, <1>18, <1>19, <1>20
<1>22. PutTable(mid, t, whole) = PutTable(db, t, whole)
  <2>1. With(With(db.tables, t, lesser), t, whole) = With(db.tables, t, whole) BY DEF With
  <2>2. db = [tables |-> db.tables, views |-> db.views] BY DEF IsSchema
  <2>3. mid = [tables |-> With(db.tables, t, lesser), views |-> db.views] BY <1>11, <2>2
  <2>4. PutTable(mid, t, whole) = [tables |-> With(mid.tables, t, whole), views |-> db.views] BY <2>3 DEF PutTable
  <2>5. PutTable(db, t, whole) = [tables |-> With(db.tables, t, whole), views |-> db.views] BY <2>2 DEF PutTable
  <2>6. QED BY <1>11, <2>1, <2>4, <2>5
<1>23. PutTable(db, t, whole) = [db EXCEPT !.tables[t].indexes = indexes]
  <2>1. PutTable(db, t, [db.tables[t] EXCEPT !.indexes = indexes]) = [db EXCEPT !.tables[t].indexes = indexes]
    BY <1>4, IndexPutIs
  <2>2. QED BY <1>5, <1>20, <2>1
<1>24. [db EXCEPT !.tables[t].indexes = indexes] = IndexPut(db, t, name, def) BY <1>5, <1>19 DEF IndexPut
<1>25. QED BY <1>14, <1>21, <1>22, <1>23, <1>24

\* Create Index does what it says.
LEMMA CreateIndexSays ==
  ASSUME SchemaInv, NEW t, NEW form, NEW plan, plan = BuildCreateIndexPlan(t, Table(t), form, driver),
         Runnable(plan), RunScript(active, driver, plan.statements).ok
  PROVE  RunScript(active, driver, plan.statements).db = IndexPut(active, t, form.name, IndexDef(form))
<1>1. PICK def : def = IndexDef(form) OBVIOUS
<1>2. PICK s : s = Statement("createIndex", t, form.name, def) OBVIOUS
<1>3. \E errors, manual : plan = Plan(<<s>>, errors, manual) BY <1>1, <1>2 DEF BuildCreateIndexPlan
<1>4. PICK errors, manual : plan = Plan(<<s>>, errors, manual) BY <1>3
<1>5. plan.statements = <<s>> BY <1>4, RunnablePlan
<1>6. Accepts(active, driver, s) /\ RunScript(active, driver, <<s>>).db = Effect(active, s) BY <1>5, OneRan
<1>7. IsSchema(active) BY DEF SchemaInv
<1>8. Effect(active, s) = IndexPut(active, t, form.name, def)
  <2>1. "createIndex" \in IndexStatements BY DEF IndexStatements
  <2>2. Accepts(active, driver, Statement("createIndex", t, form.name, def)) BY <1>2, <1>6
  <2>3. QED BY <1>2, <1>7, <2>1, <2>2, IndexMade
<1>9. QED BY <1>1, <1>5, <1>6, <1>8

\* Alter Index does what it says, in one statement or in two.
LEMMA AlterIndexSays ==
  ASSUME SchemaInv, NEW t, NEW form, NEW plan, plan = BuildAlterIndexPlan(t, Table(t), form, driver),
         Runnable(plan), RunScript(active, driver, plan.statements).ok
  PROVE  RunScript(active, driver, plan.statements).db = IndexPut(active, t, form.name, IndexDef(form))
<1>1. PICK def : def = IndexDef(form) OBVIOUS
<1>2. PICK r : r = Statement("rebuildIndex", t, form.name, def) OBVIOUS
<1>3. PICK d : d = Statement("dropIndex", t, form.name, NoDef) OBVIOUS
<1>4. PICK s : s = Statement("createIndex", t, form.name, def) OBVIOUS
<1>5. PICK list : list = IF driver = "mysql" THEN <<r>> ELSE <<d, s>> OBVIOUS
<1>6. IsSchema(active) BY DEF SchemaInv
<1>7. ~IsPrimaryIndex(Table(t), form.name)
  <2>1. SUFFICES ASSUME IsPrimaryIndex(Table(t), form.name) PROVE FALSE OBVIOUS
  <2>2. PICK errors : plan = Plan(<<>>, errors, ~errors) BY <2>1 DEF BuildAlterIndexPlan, NeedsReview
  <2>3. QED BY <2>2, RunnablePlan
<1>8. \E errors, manual : plan = Plan(list, errors, manual)
  BY <1>1, <1>2, <1>3, <1>4, <1>5, <1>7, Zenon DEF BuildAlterIndexPlan
<1>9. PICK errors, manual : plan = Plan(list, errors, manual) BY <1>8
<1>10. plan.statements = list BY <1>9, RunnablePlan
<1>11. CASE driver = "mysql"
  <2>1. list = <<r>> BY <1>5, <1>11
  <2>2. Accepts(active, driver, r) /\ RunScript(active, driver, <<r>>).db = Effect(active, r)
    BY <1>10, <2>1, OneRan
  <2>3. "rebuildIndex" \in IndexStatements BY DEF IndexStatements
  <2>4. Accepts(active, driver, Statement("rebuildIndex", t, form.name, def)) BY <1>2, <2>2
  <2>5. Effect(active, r) = IndexPut(active, t, form.name, def) BY <1>2, <1>6, <2>3, <2>4, IndexMade
  <2>6. QED BY <1>1, <1>10, <2>1, <2>2, <2>5
<1>12. CASE driver # "mysql"
  <2>1. list = <<d, s>> BY <1>5, <1>12
  <2>2. /\ Accepts(active, driver, d) /\ Accepts(Effect(active, d), driver, s)
        /\ RunScript(active, driver, <<d, s>>).db = Effect(Effect(active, d), s)
    BY <1>10, <2>1, TwoRan
  <2>3. Effect(Effect(active, d), s) = IndexPut(active, t, form.name, def) BY <1>3, <1>4, <1>6, <2>2, IndexRemade
  <2>4. QED BY <1>1, <1>10, <2>1, <2>2, <2>3
<1>13. QED BY <1>11, <1>12

\* Alter View does what it says.
LEMMA AlterViewSays ==
  ASSUME SchemaInv, NEW form, NEW plan, plan = BuildAlterViewPlan(ExistingViews, form, driver),
         Runnable(plan), RunScript(active, driver, plan.statements).ok
  PROVE  RunScript(active, driver, plan.statements).db = [active EXCEPT !.views = With(@, form.on, form.def)]
<1>1. PICK r : r = Statement("replaceView", form.on, None, form.def) OBVIOUS
<1>2. PICK d : d = Statement("dropView", form.on, None, NoDef) OBVIOUS
<1>3. PICK s : s = Statement("createView", form.on, None, form.def) OBVIOUS
<1>4. PICK list : list = IF driver = "sqlite" THEN <<d, s>> ELSE <<r>> OBVIOUS
<1>5. \E errors, manual : plan = Plan(list, errors, manual)
  BY <1>1, <1>2, <1>3, <1>4, Zenon DEF BuildAlterViewPlan
<1>6. PICK errors, manual : plan = Plan(list, errors, manual) BY <1>5
<1>7. plan.statements = list BY <1>6, RunnablePlan
<1>8. active = [tables |-> active.tables, views |-> active.views] BY DEF SchemaInv, IsSchema
<1>9. CASE driver = "sqlite"
  <2>1. list = <<d, s>> BY <1>4, <1>9
  <2>2. RunScript(active, driver, <<d, s>>).db = Effect(Effect(active, d), s) BY <1>7, <2>1, TwoRan
  <2>3. d.do = "dropView" /\ d.on = form.on /\ s.do = "createView" /\ s.on = form.on /\ s.def = form.def
    BY <1>2, <1>3 DEF Statement
  <2>4. PICK less : less = Without(active.views, form.on) OBVIOUS
  <2>5. Effect(active, d) = [active EXCEPT !.views = less] BY <2>3, <2>4, EffectOnOthers
  <2>6. PICK mid : mid = Effect(active, d) OBVIOUS
  <2>7. mid = [tables |-> active.tables, views |-> less] BY <1>8, <2>5, <2>6
  <2>8. Effect(mid, s) = [mid EXCEPT !.views = With(@, form.on, form.def)] BY <2>3, EffectOnOthers DEF ViewStatements
  <2>9. With(less, form.on, form.def) = With(active.views, form.on, form.def) BY <2>4 DEF With, Without
  <2>10. [mid EXCEPT !.views = With(@, form.on, form.def)]
           = [tables |-> active.tables, views |-> With(active.views, form.on, form.def)]
    BY <2>7, <2>9
  <2>11. [active EXCEPT !.views = With(@, form.on, form.def)]
           = [tables |-> active.tables, views |-> With(active.views, form.on, form.def)]
    BY <1>8
  <2>12. QED BY <1>7, <2>1, <2>2, <2>6, <2>8, <2>10, <2>11
<1>10. CASE driver # "sqlite"
  <2>1. list = <<r>> BY <1>4, <1>10
  <2>2. RunScript(active, driver, <<r>>).db = Effect(active, r) BY <1>7, <2>1, OneRan
  <2>3. r.do = "replaceView" /\ r.on = form.on /\ r.def = form.def BY <1>1 DEF Statement
  <2>4. Effect(active, r) = [active EXCEPT !.views = With(@, form.on, form.def)]
    BY <2>3, EffectOnOthers DEF ViewStatements
  <2>5. QED BY <1>7, <2>1, <2>2, <2>4
<1>11. QED BY <1>9, <1>10

(* A form that succeeds has done what it shows and nothing else, though    *)
(* the schema has changed since its metadata was loaded, or the metadata   *)
(* since the dialog was opened (ddlForms.ts, buildEditTableColumnsPlan and *)
(* the index and view plans).                                              *)
THEOREM FormDoesWhatItSaysHolds == SchemaSpec => []FormDoesWhatItSays
<1> DEFINE Succeeds(plan) == Runnable(plan) /\ RunScript(active, driver, plan.statements).ok
           Ended(plan) == RunScript(active, driver, plan.statements).db
           EditPlan(t, rows) == BuildEditTableColumnsPlan(t, Table(t), rows, driver)
           CreatePlan(t, form) == BuildCreateIndexPlan(t, Table(t), form, driver)
           AlterPlan(t, form) == BuildAlterIndexPlan(t, Table(t), form, driver)
           ViewPlan(form) == BuildAlterViewPlan(ExistingViews, form, driver)
<1>1. SchemaInv => FormDoesWhatItSays
  <2> SUFFICES ASSUME SchemaInv PROVE FormDoesWhatItSays OBVIOUS
  <2>1. ASSUME opened # Closed, opened.on \in DOMAIN metadata.tables,
               NEW rows \in {r \in EditTableColumnsForms(opened.columns) : ~PassesName(r)},
               Succeeds(EditPlan(opened.on, rows))
        PROVE  FormEdited(active, opened.on, rows, Ended(EditPlan(opened.on, rows)))
    BY <2>1, EditSays
  <2>2. ASSUME NEW t, NEW form, Succeeds(CreatePlan(t, form))
        PROVE  Ended(CreatePlan(t, form)) = IndexPut(active, t, form.name, IndexDef(form))
    BY <2>2, CreateIndexSays
  <2>3. ASSUME NEW t, NEW form, Succeeds(AlterPlan(t, form))
        PROVE  Ended(AlterPlan(t, form)) = IndexPut(active, t, form.name, IndexDef(form))
    BY <2>3, AlterIndexSays
  <2>4. ASSUME NEW form, Succeeds(ViewPlan(form))
        PROVE  Ended(ViewPlan(form)) = [active EXCEPT !.views = With(@, form.on, form.def)]
    BY <2>4, AlterViewSays
  <2>5. opened # Closed /\ opened.on \in DOMAIN metadata.tables =>
          \A rows \in {r \in EditTableColumnsForms(opened.columns) : ~PassesName(r)} :
            Succeeds(EditPlan(opened.on, rows)) => FormEdited(active, opened.on, rows, Ended(EditPlan(opened.on, rows)))
    BY <2>1
  <2>6. \A t \in DOMAIN metadata.tables : \A form \in CreateIndexForms(Table(t)) \cup AlterIndexForms(Table(t)) :
          /\ Succeeds(CreatePlan(t, form)) =>
               Ended(CreatePlan(t, form)) = IndexPut(active, t, form.name, IndexDef(form))
          /\ form.name \in DropIndexForms(Table(t)) =>
               (Succeeds(AlterPlan(t, form)) =>
                  Ended(AlterPlan(t, form)) = IndexPut(active, t, form.name, IndexDef(form)))
    BY <2>2, <2>3
  <2>7. \A form \in AlterViewForms(ExistingViews) :
          Succeeds(ViewPlan(form)) => Ended(ViewPlan(form)) = [active EXCEPT !.views = With(@, form.on, form.def)]
    BY <2>4
  <2>8. QED BY <2>5, <2>6, <2>7, Zenon DEF FormDoesWhatItSays, Says, FormEdited, IndexPut
<1>2. QED BY SchemaInvHolds, <1>1, PTL
=============================================================================
