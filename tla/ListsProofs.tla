----------------------------- MODULE ListsProofs -----------------------------
(***************************************************************************)
(* What Take and Only return, for lists of any length, and what FlattenSeq *)
(* returns for any number of parts.  Only and FlattenSeq are recursive     *)
(* functions over the positions of a list; that they are defined and what  *)
(* they compute is shown by least counterexample: a set of natural numbers *)
(* that is not empty has a least member.                                   *)
(***************************************************************************)
EXTENDS Lists, SequencesExt, FiniteSetTheorems, SequenceTheorems, WellFoundedInduction, TLAPS

LEMMA LeastMember ==
  ASSUME NEW T, T \subseteq Nat, T # {}
  PROVE  \E n \in T : \A m \in T : n <= m
<1>1. PICK n \in T : \A m \in T : <<m, n>> \notin OpToRel(<, Nat)
  BY NatLessThanWellFounded, WFMin, Zenon
<1>2. \A m \in T : ~(m < n) BY <1>1 DEF OpToRel
<1>3. QED BY <1>2

-----------------------------------------------------------------------------
(* Only.                                                                   *)

\* One step of the recursion, over a table f of what is kept so far.
KeptAt(list, set, f, n) ==
  IF n = 0 THEN <<>> ELSE IF list[n] \in set THEN Append(f[n - 1], list[n]) ELSE f[n - 1]
IsKept(list, set, f, n) == f = [m \in 0..n |-> KeptAt(list, set, f, m)]

LEMMA KeptExists ==
  ASSUME NEW list, NEW set, NEW n \in Nat
  PROVE  \E f : IsKept(list, set, f, n)
<1> DEFINE T == {m \in Nat : ~ \E f : IsKept(list, set, f, m)}
<1>1. SUFFICES ASSUME T # {} PROVE FALSE OBVIOUS
<1>2. PICK m \in T : \A k \in T : m <= k BY <1>1, LeastMember
<1>3. CASE m = 0
  <2> DEFINE f == [k \in 0..0 |-> <<>>]
  <2>1. IsKept(list, set, f, 0) BY DEF IsKept, KeptAt
  <2>2. QED BY <2>1, <1>3
<1>4. CASE m > 0
  <2>1. m - 1 \in Nat /\ m - 1 \notin T BY <1>4, <1>2
  <2>2. PICK g : IsKept(list, set, g, m - 1) BY <2>1
  <2> DEFINE f == [k \in 0..m |-> IF k < m THEN g[k] ELSE KeptAt(list, set, g, m)]
  <2>3. \A k \in 0..m : f[k] = KeptAt(list, set, f, k)
    <3> SUFFICES ASSUME NEW k \in 0..m PROVE f[k] = KeptAt(list, set, f, k) OBVIOUS
    <3>1. CASE k = m BY <3>1, <1>4 DEF KeptAt
    <3>2. CASE k < m
      <4>1. k \in 0..m - 1 /\ (k # 0 => k - 1 \in 0..m - 1) BY <3>2
      <4>2. g[k] = KeptAt(list, set, g, k) BY <2>2, <4>1 DEF IsKept
      <4>3. QED BY <4>1, <4>2, <3>2 DEF KeptAt
    <3>3. QED BY <3>1, <3>2
  <2>4. IsKept(list, set, f, m) BY <2>3 DEF IsKept
  <2>5. QED BY <2>4
<1>5. QED BY <1>3, <1>4

\* The table of the recursion.
LEMMA OnlyIsKept ==
  ASSUME NEW list, Len(list) \in Nat, NEW set
  PROVE  \E f : /\ f[0] = <<>> /\ Only(list, set) = f[Len(list)]
                /\ \A n \in 1..Len(list) :
                     f[n] = IF list[n] \in set THEN Append(f[n - 1], list[n]) ELSE f[n - 1]
<1> DEFINE F(f) == f = [n \in 0..Len(list) |->
                          IF n = 0 THEN <<>>
                          ELSE IF list[n] \in set THEN Append(f[n - 1], list[n]) ELSE f[n - 1]]
           kept == CHOOSE f : F(f)
<1>1. \E f : F(f)
  <2>1. PICK f : IsKept(list, set, f, Len(list)) BY KeptExists
  <2>2. F(f) BY <2>1 DEF IsKept, KeptAt
  <2>3. QED BY <2>2
<1>2. F(kept) BY <1>1
<1>3. Only(list, set) = kept[Len(list)] BY DEF Only
<1> HIDE DEF kept
<1>4. kept[0] = <<>> BY <1>2
<1>5. \A n \in 1..Len(list) :
        kept[n] = IF list[n] \in set THEN Append(kept[n - 1], list[n]) ELSE kept[n - 1]
  <2> SUFFICES ASSUME NEW n \in 1..Len(list)
               PROVE  kept[n] = IF list[n] \in set THEN Append(kept[n - 1], list[n]) ELSE kept[n - 1]
    OBVIOUS
  <2>1. n \in 0..Len(list) /\ n # 0 OBVIOUS
  <2>2. QED BY <1>2, <2>1
<1>6. QED BY <1>3, <1>4, <1>5

\* What is kept of the first n entries.
Right(list, set, kept, n) ==
  /\ kept \in Seq(Entries(list) \cap set) /\ Len(kept) <= n
  /\ \A i \in 1..n : list[i] \in set => \E k \in 1..Len(kept) : kept[k] = list[i]
  /\ \A k \in 1..Len(kept) : \E i \in 1..n : kept[k] = list[i]
  /\ Distinct(list) => Distinct(kept)
  /\ (\A i \in 1..n : list[i] \in set) => Len(kept) = n /\ \A i \in 1..n : kept[i] = list[i]

LEMMA RightNext ==
  ASSUME NEW S, NEW list \in Seq(S), NEW set, NEW n \in 1..Len(list), NEW kept,
         Right(list, set, kept, n - 1), list[n] \in set
  PROVE  Right(list, set, Append(kept, list[n]), n)
<1> DEFINE more == Append(kept, list[n])
           A == Entries(list) \cap set
<1>1. list[n] \in A BY DEF Entries
<1>2. kept \in Seq(A) /\ Len(kept) \in Nat BY DEF Right
<1>3. /\ more \in Seq(A) /\ Len(more) = Len(kept) + 1
      /\ \A k \in 1..Len(kept) : more[k] = kept[k]
      /\ more[Len(kept) + 1] = list[n]
  BY <1>1, <1>2
<1>4. Len(more) <= n BY <1>3, <1>2 DEF Right
<1>5. \A i \in 1..n : list[i] \in set => \E k \in 1..Len(more) : more[k] = list[i]
  <2> SUFFICES ASSUME NEW i \in 1..n, list[i] \in set PROVE \E k \in 1..Len(more) : more[k] = list[i] OBVIOUS
  <2>1. CASE i = n BY <2>1, <1>3, <1>2
  <2>2. CASE i # n
    <3>1. PICK k \in 1..Len(kept) : kept[k] = list[i] BY <2>2 DEF Right
    <3>2. QED BY <3>1, <1>3, <1>2
  <2>3. QED BY <2>1, <2>2
<1>6. \A k \in 1..Len(more) : \E i \in 1..n : more[k] = list[i]
  <2> SUFFICES ASSUME NEW k \in 1..Len(more) PROVE \E i \in 1..n : more[k] = list[i] OBVIOUS
  <2>1. CASE k = Len(kept) + 1 BY <2>1, <1>3
  <2>2. CASE k # Len(kept) + 1
    <3>1. k \in 1..Len(kept) BY <2>2, <1>3, <1>2
    <3>2. PICK i \in 1..n - 1 : kept[k] = list[i] BY <3>1 DEF Right
    <3>3. QED BY <3>1, <3>2, <1>3
  <2>3. QED BY <2>1, <2>2
<1>7. Distinct(list) => Distinct(more)
  <2> SUFFICES ASSUME Distinct(list) PROVE Distinct(more) OBVIOUS
  <2>1. DOMAIN more = 1..Len(kept) + 1 /\ DOMAIN kept = 1..Len(kept) /\ DOMAIN list = 1..Len(list)
    BY <1>2, <1>3
  <2>2. Distinct(kept) BY DEF Right
  <2>3. \A k \in 1..Len(kept) : kept[k] # list[n]
    <3> SUFFICES ASSUME NEW k \in 1..Len(kept), kept[k] = list[n] PROVE FALSE OBVIOUS
    <3>1. PICK i \in 1..n - 1 : kept[k] = list[i] BY DEF Right
    <3>2. i \in DOMAIN list /\ n \in DOMAIN list /\ i # n BY <2>1
    <3>3. QED BY <3>1, <3>2 DEF Distinct
  <2>4. QED BY <1>3, <2>1, <2>2, <2>3, <1>2 DEF Distinct
<1>8. (\A i \in 1..n : list[i] \in set) => Len(more) = n /\ \A i \in 1..n : more[i] = list[i]
  <2> SUFFICES ASSUME \A i \in 1..n : list[i] \in set
               PROVE  Len(more) = n /\ \A i \in 1..n : more[i] = list[i]
    OBVIOUS
  <2>1. Len(kept) = n - 1 /\ \A i \in 1..n - 1 : kept[i] = list[i] BY DEF Right
  <2>2. QED BY <2>1, <1>3
<1>9. QED BY <1>3, <1>4, <1>5, <1>6, <1>7, <1>8 DEF Right

LEMMA RightSkip ==
  ASSUME NEW S, NEW list \in Seq(S), NEW set, NEW n \in 1..Len(list), NEW kept,
         Right(list, set, kept, n - 1), list[n] \notin set
  PROVE  Right(list, set, kept, n)
<1>1. \A i \in 1..n : list[i] \in set => i \in 1..n - 1 OBVIOUS
<1>2. Len(kept) \in Nat /\ Len(kept) <= n BY DEF Right
<1>3. QED BY <1>1, <1>2 DEF Right

LEMMA OnlyIsRight ==
  ASSUME NEW S, NEW list \in Seq(S), NEW set
  PROVE  Right(list, set, Only(list, set), Len(list))
<1>1. Len(list) \in Nat OBVIOUS
<1>2. PICK f : /\ f[0] = <<>> /\ Only(list, set) = f[Len(list)]
               /\ \A n \in 1..Len(list) :
                    f[n] = IF list[n] \in set THEN Append(f[n - 1], list[n]) ELSE f[n - 1]
  BY <1>1, OnlyIsKept
<1> DEFINE T == {n \in Nat : n <= Len(list) /\ ~Right(list, set, f[n], n)}
<1>3. T = {}
  <2>1. SUFFICES ASSUME T # {} PROVE FALSE OBVIOUS
  <2>2. PICK n \in T : \A k \in T : n <= k BY <2>1, LeastMember
  <2>3. CASE n = 0
    <3>1. Right(list, set, <<>>, 0) BY DEF Right, Distinct
    <3>2. QED BY <1>2, <2>2, <2>3, <3>1
  <2>4. CASE n > 0
    <3>1. n \in 1..Len(list) /\ n - 1 \in Nat /\ n - 1 \notin T BY <2>2, <2>4
    <3>2. Right(list, set, f[n - 1], n - 1) BY <1>1, <3>1
    <3>3. f[n] = IF list[n] \in set THEN Append(f[n - 1], list[n]) ELSE f[n - 1] BY <1>2, <3>1
    <3>4. Right(list, set, f[n], n) BY <3>1, <3>2, <3>3, RightNext, RightSkip
    <3>5. QED BY <2>2, <3>4
  <2>5. QED BY <2>2, <2>3, <2>4
<1>4. QED BY <1>1, <1>2, <1>3

\* What a filter returns: entries of the list that are in the set, all of them,
\* none twice if none was there twice; the list itself if all of them are.
THEOREM OnlyProperties ==
  ASSUME NEW S, NEW list \in Seq(S), NEW set
  PROVE  /\ Only(list, set) \in Seq(S) /\ Len(Only(list, set)) <= Len(list)
         /\ Entries(Only(list, set)) = Entries(list) \cap set
         /\ Distinct(list) => Distinct(Only(list, set))
         /\ Entries(list) \subseteq set => Only(list, set) = list
<1> DEFINE kept == Only(list, set)
<1>1. Right(list, set, kept, Len(list)) BY OnlyIsRight
<1> HIDE DEF kept
<1>2. DOMAIN list = 1..Len(list) /\ \A i \in 1..Len(list) : list[i] \in S OBVIOUS
<1>3. kept \in Seq(Entries(list) \cap set) BY <1>1 DEF Right
<1>4. DOMAIN kept = 1..Len(kept) /\ \A k \in 1..Len(kept) : kept[k] \in Entries(list) \cap set BY <1>3
<1>5. Entries(list) \subseteq S BY <1>2 DEF Entries
<1>6. kept \in Seq(S) BY <1>3, <1>5, SeqMonotonic
<1>7. Entries(kept) = Entries(list) \cap set
  <2>1. Entries(kept) \subseteq Entries(list) \cap set BY <1>4 DEF Entries
  <2>2. ASSUME NEW x \in Entries(list) \cap set PROVE x \in Entries(kept)
    <3>1. PICK i \in 1..Len(list) : list[i] = x BY <1>2 DEF Entries
    <3>2. PICK k \in 1..Len(kept) : kept[k] = x BY <1>1, <3>1 DEF Right
    <3>3. QED BY <3>2, <1>4 DEF Entries
  <2>3. QED BY <2>1, <2>2
<1>8. Entries(list) \subseteq set => kept = list
  <2> SUFFICES ASSUME Entries(list) \subseteq set PROVE kept = list OBVIOUS
  <2>1. \A i \in 1..Len(list) : list[i] \in set BY <1>2 DEF Entries
  <2>2. Len(kept) = Len(list) /\ \A i \in 1..Len(list) : kept[i] = list[i] BY <1>1, <2>1 DEF Right
  <2>3. QED BY <2>2, <1>6, SeqEqual
<1>9. QED BY <1>1, <1>6, <1>7, <1>8 DEF kept, Right

\* A filter keeps the order: numbers that grow still grow.
LEMMA OnlyKeepsOrder ==
  ASSUME NEW list \in Seq(Int), NEW set, \A i, j \in 1..Len(list) : i < j => list[i] < list[j]
  PROVE  \A i, j \in 1..Len(Only(list, set)) : i < j => Only(list, set)[i] < Only(list, set)[j]
<1>1. PICK l \in Nat : l = Len(list) OBVIOUS
<1>2. PICK f : /\ f[0] = <<>> /\ Only(list, set) = f[l]
               /\ \A n \in 1..l : f[n] = IF list[n] \in set THEN Append(f[n - 1], list[n]) ELSE f[n - 1]
  <2>1. Len(list) \in Nat OBVIOUS
  <2>2. \E f : /\ f[0] = <<>> /\ Only(list, set) = f[Len(list)]
               /\ \A n \in 1..Len(list) :
                    f[n] = IF list[n] \in set THEN Append(f[n - 1], list[n]) ELSE f[n - 1]
    BY <2>1, OnlyIsKept
  <2>3. QED BY <1>1, <2>2
<1> DEFINE Grows(kept, n) == /\ kept \in Seq(Int)
                             /\ \A i, j \in 1..Len(kept) : i < j => kept[i] < kept[j]
                             /\ \A k \in 1..Len(kept) : \E i \in 1..n : kept[k] = list[i]
<1>3. Grows(<<>>, 0) OBVIOUS
<1>4. ASSUME NEW n \in 1..l, NEW kept, Grows(kept, n - 1), NEW more, more = Append(kept, list[n])
      PROVE  Grows(more, n)
  <2>1. kept \in Seq(Int) BY <1>4
  <2>2. PICK k \in Nat : k = Len(kept) BY <2>1
  <2>3. list[n] \in Int BY <1>1
  <2>4. /\ more \in Seq(Int) /\ Len(more) = k + 1 /\ more[k + 1] = list[n]
        /\ \A i \in 1..k : more[i] = kept[i]
    BY <1>4, <2>1, <2>2, <2>3
  <2>5. \A i \in 1..k : more[i] < list[n] /\ \E j \in 1..n : more[i] = list[j]
    <3> SUFFICES ASSUME NEW i \in 1..k PROVE more[i] < list[n] /\ \E j \in 1..n : more[i] = list[j] OBVIOUS
    <3>1. PICK j \in 1..n - 1 : kept[i] = list[j] BY <1>4, <2>2
    <3>2. j \in 1..l /\ n \in 1..l /\ j < n /\ j \in 1..n OBVIOUS
    <3>3. list[j] < list[n] BY <1>1, <3>2
    <3>4. QED BY <2>4, <3>1, <3>2, <3>3
  <2>6. ASSUME NEW i \in 1..k + 1, NEW j \in 1..k + 1, i < j PROVE more[i] < more[j]
    <3>1. i \in 1..k BY <2>6
    <3>2. CASE j = k + 1 BY <2>4, <2>5, <3>1, <3>2
    <3>3. CASE j # k + 1
      <4>1. j \in 1..k BY <3>3
      <4>2. kept[i] < kept[j] BY <1>4, <2>2, <2>6, <3>1, <4>1
      <4>3. QED BY <2>4, <3>1, <4>1, <4>2
    <3>4. QED BY <3>2, <3>3
  <2>7. \A i \in 1..k + 1 : \E j \in 1..n : more[i] = list[j]
    <3> SUFFICES ASSUME NEW i \in 1..k + 1 PROVE \E j \in 1..n : more[i] = list[j] OBVIOUS
    <3>1. n \in 1..n /\ (i \in 1..k \/ i = k + 1) OBVIOUS
    <3>2. QED BY <2>4, <2>5, <3>1
  <2>8. QED BY <2>4, <2>6, <2>7
<1>5. ASSUME NEW n \in 1..l, NEW kept, Grows(kept, n - 1) PROVE Grows(kept, n)
  <2>1. \A i \in 1..n - 1 : i \in 1..n OBVIOUS
  <2>2. QED BY <1>5, <2>1
<1> HIDE DEF Grows
<1>6. \A n \in 0..l : Grows(f[n], n)
  <2> DEFINE T == {n \in Nat : n \in 0..l /\ ~Grows(f[n], n)}
  <2>1. SUFFICES ASSUME T # {} PROVE FALSE OBVIOUS
  <2>2. PICK n \in T : \A k \in T : n <= k BY <2>1, LeastMember
  <2>3. n # 0 BY <1>2, <1>3, <2>2
  <2>4. n \in 1..l /\ n - 1 \in Nat /\ n - 1 \in 0..l /\ n - 1 \notin T BY <2>2, <2>3
  <2>5. Grows(f[n - 1], n - 1) BY <2>4
  <2>6. PICK kept : kept = f[n - 1] OBVIOUS
  <2>7. Grows(kept, n) /\ Grows(Append(kept, list[n]), n) BY <1>4, <1>5, <2>4, <2>5, <2>6
  <2>8. Grows(f[n], n) BY <1>2, <2>4, <2>6, <2>7
  <2>9. QED BY <2>2, <2>8
<1>7. Grows(Only(list, set), l)
  <2>1. l \in 0..l OBVIOUS
  <2>2. QED BY <1>2, <1>6, <2>1
<1>8. QED BY <1>7 DEF Grows

-----------------------------------------------------------------------------
(* Take.                                                                   *)

\* What a cut returns: a prefix, and the list itself if it is short enough.
THEOREM TakeProperties ==
  ASSUME NEW S, NEW list \in Seq(S), NEW n \in Nat
  PROVE  /\ Take(list, n) \in Seq(S) /\ Len(Take(list, n)) <= n /\ Len(Take(list, n)) <= Len(list)
         /\ list # <<>> /\ n > 0 => Take(list, n) # <<>> /\ Take(list, n)[1] = list[1]
         /\ Entries(Take(list, n)) \subseteq Entries(list)
         /\ Distinct(list) => Distinct(Take(list, n))
         /\ Len(list) <= n => Take(list, n) = list
<1> DEFINE m == IF Len(list) < n THEN Len(list) ELSE n
           cut == Take(list, n)
<1>1. m \in 0..Len(list) /\ m <= n /\ Len(list) \in Nat OBVIOUS
<1>2. cut \in Seq(S) /\ Len(cut) = m /\ \A i \in 1..m : cut[i] = list[i]
  <2>1. \A i \in 1..m : list[i] \in S OBVIOUS
  <2>2. QED BY <1>1, <2>1, SubSeqProperties DEF Take
<1> HIDE DEF cut
<1>3. DOMAIN cut = 1..m /\ DOMAIN list = 1..Len(list) BY <1>2
<1>4. list # <<>> /\ n > 0 => cut # <<>> /\ cut[1] = list[1]
  <2> SUFFICES ASSUME list # <<>>, n > 0 PROVE cut # <<>> /\ cut[1] = list[1] OBVIOUS
  <2>1. Len(list) > 0 BY <1>1, EmptySeq
  <2>2. 1 \in 1..m BY <2>1
  <2>3. QED BY <2>2, <1>2
<1>5. Entries(cut) \subseteq Entries(list) BY <1>1, <1>2, <1>3 DEF Entries
<1>6. Distinct(list) => Distinct(cut) BY <1>1, <1>2, <1>3 DEF Distinct
<1>7. Len(list) <= n => cut = list BY <1>1, <1>2, SeqEqual
<1>8. QED BY <1>1, <1>2, <1>4, <1>5, <1>6, <1>7 DEF cut

-----------------------------------------------------------------------------
(* Distinct.                                                               *)

\* A list without repetition is as long as its entries are many.
THEOREM DistinctCardinality ==
  ASSUME NEW S, NEW list \in Seq(S)
  PROVE  /\ IsFiniteSet(Entries(list)) /\ Cardinality(Entries(list)) <= Len(list)
         /\ Distinct(list) => Cardinality(Entries(list)) = Len(list)
<1>1. Len(list) \in Nat /\ DOMAIN list = 1..Len(list) OBVIOUS
<1>2. list \in Surjection(1..Len(list), Entries(list))
  <2>1. list \in [1..Len(list) -> Entries(list)] BY <1>1 DEF Entries
  <2>2. QED BY <2>1, <1>1 DEF Surjection, Entries
<1>3. IsFiniteSet(1..Len(list)) /\ Cardinality(1..Len(list)) = Len(list) BY <1>1, FS_Interval
<1>4. IsFiniteSet(Entries(list)) /\ Cardinality(Entries(list)) <= Len(list) BY <1>2, <1>3, FS_Surjection
<1>5. ASSUME Distinct(list) PROVE Cardinality(Entries(list)) = Len(list)
  <2>1. list \in Bijection(1..Len(list), Entries(list))
    BY <1>1, <1>2, <1>5 DEF Distinct, Bijection, Injection, IsInjective, Surjection
  <2>2. QED BY <2>1, <1>3, FS_Bijection DEF ExistsBijection
<1>6. QED BY <1>4, <1>5

\* An entry in front of a list it is not in.
THEOREM InFront ==
  ASSUME NEW S, NEW rest \in Seq(S), NEW x \in S
  PROVE  /\ <<x>> \o rest \in Seq(S)
         /\ Distinct(rest) /\ x \notin Entries(rest) => Distinct(<<x>> \o rest)
<1> DEFINE whole == <<x>> \o rest
<1>1. Len(rest) \in Nat /\ DOMAIN rest = 1..Len(rest) OBVIOUS
<1>2. /\ whole \in Seq(S) /\ DOMAIN whole = 1..Len(rest) + 1 /\ whole[1] = x
      /\ \A i \in 1..Len(rest) : whole[i + 1] = rest[i]
  OBVIOUS
<1> HIDE DEF whole
<1>3. ASSUME Distinct(rest), x \notin Entries(rest) PROVE Distinct(whole)
  <2>1. \A i \in 2..Len(rest) + 1 : i - 1 \in DOMAIN rest /\ whole[i] = rest[i - 1]
    <3> SUFFICES ASSUME NEW i \in 2..Len(rest) + 1
                 PROVE  i - 1 \in DOMAIN rest /\ whole[i] = rest[i - 1]
      OBVIOUS
    <3>1. i - 1 \in 1..Len(rest) /\ (i - 1) + 1 = i BY <1>1
    <3>2. QED BY <1>1, <1>2, <3>1
  <2>2. \A i \in 2..Len(rest) + 1 : whole[i] # x BY <2>1, <1>3 DEF Entries
  <2>3. \A i, j \in 2..Len(rest) + 1 : whole[i] = whole[j] => i = j BY <1>1, <1>3, <2>1 DEF Distinct
  <2>4. QED BY <1>1, <1>2, <2>2, <2>3 DEF Distinct
<1>4. QED BY <1>2, <1>3 DEF whole

\* An entry taken out of a list: the others stay, in their order.
LEMMA TakenOut ==
  ASSUME NEW S, NEW list \in Seq(S), NEW i \in DOMAIN list, NEW rest,
         rest = SubSeq(list, 1, i - 1) \o SubSeq(list, i + 1, Len(list))
  PROVE  /\ rest \in Seq(S) /\ Len(rest) = Len(list) - 1
         /\ i < Len(list) => rest # <<>> /\ rest[Len(rest)] = list[Len(list)]
<1>1. PICK n \in Nat : n = Len(list) OBVIOUS
<1>2. i \in 1..n /\ \A k \in 1..n : list[k] \in S BY <1>1
<1>3. PICK before : before = SubSeq(list, 1, i - 1) OBVIOUS
<1>4. PICK after : after = SubSeq(list, i + 1, n) OBVIOUS
<1>5. before \in Seq(S) /\ Len(before) = i - 1
  <2>1. \A k \in 1..i - 1 : list[k] \in S BY <1>2
  <2>2. QED BY <1>2, <1>3, <2>1, SubSeqProperties
<1>6. i + 1 \in Int /\ n \in Int /\ n - i \in Nat /\ i - 1 \in Nat BY <1>2
<1>7. /\ after \in Seq(S) /\ Len(after) = IF i + 1 <= n THEN n - (i + 1) + 1 ELSE 0
      /\ \A k \in 1..n - (i + 1) + 1 : after[k] = list[i + 1 + k - 1]
  <2>1. \A k \in i + 1..n : list[k] \in S BY <1>2
  <2>2. QED BY <1>4, <1>6, <2>1, SubSeqProperties
<1>8. Len(after) = n - i
  <2>1. n - (i + 1) + 1 = n - i BY <1>2
  <2>2. ~(i + 1 <= n) => n - i = 0 BY <1>2
  <2>3. QED BY <1>7, <2>1, <2>2
<1>9. ASSUME i < n PROVE after[n - i] = list[n]
  <2>1. n - i \in 1..n - (i + 1) + 1 BY <1>2, <1>9
  <2>2. i + 1 + (n - i) - 1 = n BY <1>2
  <2>3. after[n - i] = list[i + 1 + (n - i) - 1] BY <1>7, <2>1
  <2>4. QED BY <2>2, <2>3
<1>10. rest = before \o after BY <1>1, <1>3, <1>4
<1>11. /\ before \o after \in Seq(S) /\ Len(before \o after) = Len(before) + Len(after)
       /\ \A k \in 1..Len(before) + Len(after) :
            (before \o after)[k] = IF k <= Len(before) THEN before[k] ELSE after[k - Len(before)]
  BY <1>5, <1>7, ConcatProperties
<1>12. Len(rest) = n - 1
  <2>1. (i - 1) + (n - i) = n - 1 BY <1>2
  <2>2. QED BY <1>5, <1>8, <1>10, <1>11, <2>1
<1>13. ASSUME i < n PROVE rest # <<>> /\ rest[Len(rest)] = list[n]
  <2>1. n - 1 \in 1..(i - 1) + (n - i) BY <1>2, <1>13
  <2>2. ~(n - 1 <= i - 1) BY <1>2, <1>13
  <2>3. (n - 1) - (i - 1) = n - i BY <1>2
  <2>4. rest[n - 1] = after[(n - 1) - (i - 1)] BY <1>5, <1>8, <1>10, <1>11, <2>1, <2>2
  <2>5. n - 1 # 0 BY <1>2, <1>13
  <2>6. rest # <<>> BY <1>12, <2>5
  <2>7. QED BY <1>9, <1>12, <1>13, <2>3, <2>4, <2>6
<1>14. QED BY <1>1, <1>10, <1>11, <1>12, <1>13

-----------------------------------------------------------------------------
(* Parts of a list, and what is kept of one.                               *)

\* A list of members of a set is a list of members of a larger one.
LEMMA SeqOfMore ==
  ASSUME NEW S, NEW T, S \subseteq T, NEW s \in Seq(S)
  PROVE  s \in Seq(T)
<1>1. PICK n \in Nat : n = Len(s) OBVIOUS
<1>2. s \in [1..n -> S] BY <1>1
<1>3. s \in [1..n -> T] BY <1>2
<1>4. QED BY <1>3, SeqDef

\* A list with one more entry before it.
LEMMA Prepended ==
  ASSUME NEW S, NEW x \in S, NEW list \in Seq(S), NEW more, more = <<x>> \o list
  PROVE  /\ more \in Seq(S) /\ Len(more) = Len(list) + 1 /\ more[1] = x
         /\ \A i \in 1..Len(list) : more[i + 1] = list[i]
         /\ more # <<>> /\ Head(more) = x /\ Tail(more) = list
<1>1. PICK n \in Nat : n = Len(list) OBVIOUS
<1>2. PICK first : first = <<x>> OBVIOUS
<1>3. first \in Seq(S) /\ Len(first) = 1 /\ first[1] = x BY <1>2
<1>4. /\ more \in Seq(S) /\ Len(more) = 1 + n
      /\ \A i \in 1..1 + n : more[i] = IF i <= 1 THEN first[i] ELSE list[i - 1]
  BY <1>1, <1>2, <1>3, ConcatProperties
<1>5. more[1] = x
  <2>1. 1 \in 1..1 + n /\ 1 <= 1 OBVIOUS
  <2>2. QED BY <1>3, <1>4, <2>1
<1>6. \A i \in 1..n : more[i + 1] = list[i]
  <2> SUFFICES ASSUME NEW i \in 1..n PROVE more[i + 1] = list[i] OBVIOUS
  <2>1. i + 1 \in 1..1 + n /\ ~(i + 1 <= 1) /\ (i + 1) - 1 = i OBVIOUS
  <2>2. QED BY <1>4, <2>1
<1>7. more # <<>> /\ Head(more) = x
  <2>1. Len(more) # 0 BY <1>4
  <2>2. QED BY <1>4, <1>5, <2>1
<1>8. Tail(more) = list
  <2>1. PICK t : t = Tail(more) OBVIOUS
  <2>2. t \in Seq(S) /\ Len(t) = n /\ \A i \in 1..n : t[i] = more[i + 1] BY <1>4, <1>7, <2>1
  <2>3. \A i \in 1..n : t[i] = list[i] BY <1>6, <2>2
  <2>4. t = list BY <1>1, <2>2, <2>3
  <2>5. QED BY <2>1, <2>4
<1>9. Len(more) = n + 1 BY <1>4
<1>10. QED BY <1>1, <1>4, <1>5, <1>6, <1>7, <1>8, <1>9

\* The first n entries of a list.
Beginning(list, n) == [i \in 1..n |-> list[i]]

\* It begins empty, grows by one entry at a time, and ends as the list.
LEMMA BeginningGrows ==
  ASSUME NEW S, NEW v \in Seq(S)
  PROVE  /\ Beginning(v, 0) = <<>> /\ Beginning(v, Len(v)) = v
         /\ \A n \in 1..Len(v) : Append(Beginning(v, n - 1), v[n]) = Beginning(v, n)
         /\ \A n \in 0..Len(v) : Beginning(v, n) \in Seq(S) /\ Len(Beginning(v, n)) = n
<1>1. PICK l \in Nat : l = Len(v) OBVIOUS
<1>2. \A n \in 0..l : /\ Beginning(v, n) \in Seq(S) /\ Len(Beginning(v, n)) = n
                      /\ \A i \in 1..n : Beginning(v, n)[i] = v[i]
  BY <1>1 DEF Beginning
<1>3. Beginning(v, 0) = <<>>
  <2>1. 0 \in 0..l OBVIOUS
  <2>2. QED BY <1>2, <2>1, EmptySeq
<1>4. Beginning(v, l) = v BY <1>1 DEF Beginning
<1>5. ASSUME NEW n \in 1..l PROVE Append(Beginning(v, n - 1), v[n]) = Beginning(v, n)
  <2>1. PICK a : a = Beginning(v, n - 1) OBVIOUS
  <2>2. n - 1 \in 0..l /\ n \in 0..l /\ (n - 1) + 1 = n OBVIOUS
  <2>3. a \in Seq(S) /\ Len(a) = n - 1 /\ \A i \in 1..n - 1 : a[i] = v[i] BY <1>2, <2>1, <2>2
  <2>4. v[n] \in S BY <1>1
  <2>5. PICK m : m = Append(a, v[n]) OBVIOUS
  <2>6. /\ m \in Seq(S) /\ Len(m) = n /\ m[n] = v[n] /\ \A i \in 1..n - 1 : m[i] = a[i]
    BY <2>3, <2>4, <2>5
  <2>7. PICK b : b = Beginning(v, n) OBVIOUS
  <2>8. b \in Seq(S) /\ Len(b) = n /\ \A i \in 1..n : b[i] = v[i] BY <1>2, <2>2, <2>7
  <2>9. \A i \in 1..n : m[i] = b[i]
    <3> SUFFICES ASSUME NEW i \in 1..n PROVE m[i] = b[i] OBVIOUS
    <3>1. i \in 1..n - 1 \/ i = n OBVIOUS
    <3>2. QED BY <2>3, <2>6, <2>8, <3>1
  <2>10. m = b BY <2>6, <2>8, <2>9
  <2>11. QED BY <2>1, <2>5, <2>7, <2>10
<1>6. QED BY <1>1, <1>2, <1>3, <1>4, <1>5

\* The least and the greatest of some places.
LEMMA MinAndMax ==
  ASSUME NEW n \in Nat, NEW T, T \subseteq 1..n, T # {}
  PROVE  /\ Min(T) \in T /\ \A t \in T : Min(T) <= t
         /\ Max(T) \in T /\ \A t \in T : t <= Max(T)
<1>1. PICK a \in T : \A t \in T : a <= t
  <2>1. T \subseteq Nat OBVIOUS
  <2>2. QED BY <2>1, LeastMember
<1>2. PICK b \in T : \A t \in T : t <= b
  <2>1. PICK R : R = {n - t : t \in T} OBVIOUS
  <2>2. R \subseteq Nat /\ R # {} BY <2>1
  <2>3. PICK r \in R : \A m \in R : r <= m BY <2>2, LeastMember
  <2>4. PICK b \in T : r = n - b BY <2>1, <2>3
  <2>5. \A t \in T : n - b <= n - t BY <2>1, <2>3, <2>4
  <2>6. \A t \in T : t <= b BY <2>5
  <2>7. QED BY <2>6
<1>3. Min(T) \in T /\ \A t \in T : Min(T) <= t BY <1>1 DEF Min
<1>4. \A x, y \in T : (x >= y) <=> (y <= x) OBVIOUS
<1>5. Max(T) \in T /\ \A t \in T : Max(T) >= t BY <1>2, <1>4 DEF Max
<1>6. QED BY <1>3, <1>4, <1>5

\* The table of Only's recursion, for a list.
IsOnlyTable(f, list, set, n) ==
  /\ f[0] = <<>> /\ Only(list, set) = f[n]
  /\ \A i \in 1..n : f[i] = IF list[i] \in set THEN Append(f[i - 1], list[i]) ELSE f[i - 1]

\* The table of what is kept of a list.
LEMMA OnlyTable ==
  ASSUME NEW S, NEW list \in Seq(S), NEW set, NEW n, n = Len(list)
  PROVE  \E f : IsOnlyTable(f, list, set, n)
<1>1. Len(list) \in Nat OBVIOUS
<1>2. PICK f : /\ f[0] = <<>> /\ Only(list, set) = f[Len(list)]
               /\ \A i \in 1..Len(list) : f[i] = IF list[i] \in set THEN Append(f[i - 1], list[i]) ELSE f[i - 1]
  BY <1>1, OnlyIsKept
<1>3. QED BY <1>2 DEF IsOnlyTable

\* rows is the head of list and behind it what is kept, entry by entry.
HeadAndKept(rows, kept, list, other, S, T, n) ==
  /\ rows \in Seq(S) /\ kept \in Seq(T)
  /\ Len(rows) = Len(kept) + 1 /\ rows[1] = list[1]
  /\ \A k \in 1..Len(kept) : \E i \in 1..n : kept[k] = other[i] /\ rows[k + 1] = list[i + 1]

\* What is kept of a list behind its first entry, and of another one that goes
\* along with it.
LEMMA OnlyBehindHead ==
  ASSUME NEW S, NEW T, NEW list \in Seq(S), NEW other \in Seq(T), NEW A, NEW B, NEW n \in Nat,
         Len(list) = n + 1, Len(other) = n, list[1] \in A,
         \A i \in 1..n : list[i + 1] \in A <=> other[i] \in B
  PROVE  HeadAndKept(Only(list, A), Only(other, B), list, other, S, T, n)
<1>1. PICK f : IsOnlyTable(f, list, A, n + 1) BY OnlyTable
<1>2. PICK g : IsOnlyTable(g, other, B, n) BY OnlyTable
<1> DEFINE Along(r) ==
             /\ f[r + 1] \in Seq(S) /\ g[r] \in Seq(T)
             /\ Len(f[r + 1]) = Len(g[r]) + 1 /\ f[r + 1][1] = list[1]
             /\ \A k \in 1..Len(g[r]) : \E i \in 1..n : g[r][k] = other[i] /\ f[r + 1][k + 1] = list[i + 1]
           N == {r \in Nat : r <= n /\ ~Along(r)}
<1>3. \A i \in 1..n + 1 : list[i] \in S OBVIOUS
<1>4. \A i \in 1..n : other[i] \in T OBVIOUS
<1>5. Along(0)
  <2>1. 1 \in 1..n + 1 /\ 1 - 1 = 0 /\ 0 + 1 = 1 OBVIOUS
  <2>2. f[1] = Append(<<>>, list[1]) BY <1>1, <2>1 DEF IsOnlyTable
  <2>3. PICK h \in S : h = list[1] BY <1>3, <2>1
  <2>4. f[1] \in Seq(S) /\ Len(f[1]) = 1 /\ f[1][1] = h BY <2>2, <2>3
  <2>5. g[0] = <<>> BY <1>2 DEF IsOnlyTable
  <2>6. g[0] \in Seq(T) /\ Len(g[0]) = 0 BY <2>5
  <2>7. QED BY <2>1, <2>3, <2>4, <2>6
<1>6. ASSUME NEW r \in 1..n, Along(r - 1) PROVE Along(r)
  <2>1. r + 1 \in 1..n + 1 /\ (r + 1) - 1 = r /\ (r - 1) + 1 = r OBVIOUS
  <2>2. PICK a : a = f[r] OBVIOUS
  <2>3. PICK b : b = g[r - 1] OBVIOUS
  <2>4. /\ a \in Seq(S) /\ b \in Seq(T) /\ Len(a) = Len(b) + 1 /\ a[1] = list[1]
        /\ \A k \in 1..Len(b) : \E i \in 1..n : b[k] = other[i] /\ a[k + 1] = list[i + 1]
    BY <1>6, <2>1, <2>2, <2>3
  <2>5. f[r + 1] = IF list[r + 1] \in A THEN Append(a, list[r + 1]) ELSE a
    BY <1>1, <2>1, <2>2 DEF IsOnlyTable
  <2>6. g[r] = IF other[r] \in B THEN Append(b, other[r]) ELSE b BY <1>2, <2>3 DEF IsOnlyTable
  <2>7. CASE other[r] \notin B BY <2>4, <2>5, <2>6, <2>7
  <2>8. CASE other[r] \in B
    <3>1. PICK x \in S : x = list[r + 1] BY <1>3, <2>1
    <3>2. PICK y \in T : y = other[r] BY <1>4
    <3>3. PICK m \in Nat : m = Len(b) BY <2>4
    <3>4. PICK c : c = Append(a, x) OBVIOUS
    <3>5. PICK d : d = Append(b, y) OBVIOUS
    <3>6. c \in Seq(S) /\ Len(c) = m + 2 /\ c[m + 2] = x /\ \A k \in 1..m + 1 : c[k] = a[k]
      BY <2>4, <3>3, <3>4
    <3>7. d \in Seq(T) /\ Len(d) = m + 1 /\ d[m + 1] = y /\ \A k \in 1..m : d[k] = b[k]
      BY <2>4, <3>3, <3>5
    <3>8. f[r + 1] = c /\ g[r] = d BY <2>5, <2>6, <2>8, <3>1, <3>2, <3>4, <3>5
    <3>9. c[1] = list[1]
      <4>1. 1 \in 1..m + 1 OBVIOUS
      <4>2. QED BY <2>4, <3>6, <4>1
    <3>10. ASSUME NEW k \in 1..m + 1 PROVE \E i \in 1..n : d[k] = other[i] /\ c[k + 1] = list[i + 1]
      <4>1. CASE k = m + 1
        <5>1. k + 1 = m + 2 BY <4>1
        <5>2. d[k] = other[r] /\ c[k + 1] = list[r + 1] BY <3>1, <3>2, <3>6, <3>7, <4>1, <5>1
        <5>3. QED BY <5>2
      <4>2. CASE k # m + 1
        <5>1. k \in 1..m /\ k + 1 \in 1..m + 1 BY <4>2
        <5>2. PICK i \in 1..n : b[k] = other[i] /\ a[k + 1] = list[i + 1] BY <2>4, <3>3, <5>1
        <5>3. d[k] = other[i] /\ c[k + 1] = list[i + 1] BY <3>6, <3>7, <5>1, <5>2
        <5>4. QED BY <5>3
      <4>3. QED BY <4>1, <4>2
    <3>11. Len(c) = Len(d) + 1 BY <3>6, <3>7
    <3>12. Along(r) BY <3>6, <3>7, <3>8, <3>9, <3>10, <3>11
    <3>13. QED BY <3>12
  <2>9. QED BY <2>7, <2>8
<1>7. N = {}
  <2>1. SUFFICES ASSUME N # {} PROVE FALSE OBVIOUS
  <2>2. PICK r \in N : \A j \in N : r <= j BY <2>1, LeastMember, Zenon
  <2>3. r \in Nat /\ r <= n /\ ~Along(r) BY <2>2
  <2>4. r # 0 BY <1>5, <2>3
  <2>5. r \in 1..n /\ r - 1 \in Nat /\ r - 1 <= n /\ ~(r <= r - 1) BY <2>3, <2>4
  <2>6. Along(r - 1) BY <2>2, <2>5
  <2>7. QED BY <1>6, <2>3, <2>5, <2>6
<1> HIDE DEF Along
<1>8. Along(n)
  <2>1. n \in Nat /\ n <= n OBVIOUS
  <2>2. QED BY <1>7, <2>1
<1> USE DEF Along
<1>9. Only(list, A) = f[n + 1] /\ Only(other, B) = g[n] BY <1>1, <1>2 DEF IsOnlyTable
<1>10. HeadAndKept(f[n + 1], g[n], list, other, S, T, n) BY <1>8 DEF HeadAndKept
<1>11. QED BY <1>9, <1>10

-----------------------------------------------------------------------------
(* Parts put one after the other.                                          *)

\* Where each part begins: off[k] symbols are in the first k parts.
IsOffsets(off, parts) ==
  /\ off \in [0..Len(parts) -> Nat] /\ off[0] = 0
  /\ \A k \in 1..Len(parts) : off[k] = off[k - 1] + Len(parts[k])

\* The first n parts, one after the other.
IsFlat(f, parts, n) == f = [i \in 1..n |-> IF i = 1 THEN parts[i] ELSE f[i - 1] \o parts[i]]

LEMMA FlatExists ==
  ASSUME NEW parts, NEW n \in Nat
  PROVE  \E f : IsFlat(f, parts, n)
<1> DEFINE T == {m \in Nat : ~ \E f : IsFlat(f, parts, m)}
<1>1. SUFFICES ASSUME T # {} PROVE FALSE OBVIOUS
<1>2. PICK m \in T : \A k \in T : m <= k BY <1>1, LeastMember
<1>3. CASE m = 0
  <2>1. IsFlat([i \in 1..0 |-> 0], parts, 0) BY DEF IsFlat
  <2>2. QED BY <2>1, <1>3
<1>4. CASE m > 0
  <2>1. m - 1 \in Nat /\ m - 1 \notin T BY <1>4, <1>2
  <2>2. PICK g : IsFlat(g, parts, m - 1) BY <2>1
  <2> DEFINE last == IF m = 1 THEN parts[m] ELSE g[m - 1] \o parts[m]
             f == [i \in 1..m |-> IF i < m THEN g[i] ELSE last]
  <2>3. \A i \in 1..m : f[i] = IF i = 1 THEN parts[i] ELSE f[i - 1] \o parts[i]
    <3> SUFFICES ASSUME NEW i \in 1..m PROVE f[i] = IF i = 1 THEN parts[i] ELSE f[i - 1] \o parts[i] OBVIOUS
    <3>1. CASE i = m BY <3>1, <1>4
    <3>2. CASE i < m
      <4>1. i \in 1..m - 1 /\ (i # 1 => i - 1 \in 1..m - 1) BY <3>2
      <4>2. g[i] = IF i = 1 THEN parts[i] ELSE g[i - 1] \o parts[i] BY <2>2, <4>1 DEF IsFlat
      <4>3. QED BY <4>1, <4>2, <3>2
    <3>3. QED BY <3>1, <3>2
  <2>4. IsFlat(f, parts, m)
    <3> HIDE DEF last
    <3>1. f = [i \in 1..m |-> f[i]] OBVIOUS
    <3> HIDE DEF f
    <3>2. QED BY <2>3, <3>1 DEF IsFlat
  <2>5. QED BY <2>4
<1>5. QED BY <1>3, <1>4

\* The beginning of all parts, m of them, of length o[m].
FlatOK(f, o, parts, S, m) ==
  /\ f[m] \in Seq(S) /\ Len(f[m]) = o[m] /\ o[m] = o[m - 1] + Len(parts[m]) /\ o[m - 1] \in Nat
  /\ \A k \in 1..m : \A i \in 1..Len(parts[k]) :
       o[k - 1] + i \in 1..o[m] /\ f[m][o[k - 1] + i] = parts[k][i]

LEMMA FlatNext ==
  ASSUME NEW S, NEW f, NEW o, NEW parts, NEW m \in Nat, m > 1, FlatOK(f, o, parts, S, m - 1),
         parts[m] \in Seq(S), f[m] = f[m - 1] \o parts[m], o[m] = Len(f[m])
  PROVE  FlatOK(f, o, parts, S, m)
<1>1. PICK a \in Seq(S) : a = f[m - 1] BY DEF FlatOK
<1>2. PICK b \in Seq(S) : b = parts[m] OBVIOUS
<1>3. /\ a \o b \in Seq(S) /\ Len(a \o b) = Len(a) + Len(b)
      /\ \A i \in 1..Len(a) + Len(b) : (a \o b)[i] = IF i <= Len(a) THEN a[i] ELSE b[i - Len(a)]
  BY ConcatProperties
<1>4. PICK p \in Nat : p = Len(a) OBVIOUS
<1>5. PICK q \in Nat : q = Len(b) OBVIOUS
<1>6. f[m] \in Seq(S) /\ o[m - 1] = p /\ o[m] = p + q
  BY <1>1, <1>2, <1>3, <1>4, <1>5 DEF FlatOK
<1>7. ASSUME NEW k \in 1..m, NEW i \in 1..Len(parts[k])
      PROVE  o[k - 1] + i \in 1..o[m] /\ f[m][o[k - 1] + i] = parts[k][i]
  <2>1. CASE k = m
    <3>1. i \in 1..q /\ o[k - 1] = p BY <1>2, <1>5, <1>6, <1>7, <2>1
    <3>2. p + i \in 1..p + q /\ ~(p + i <= p) /\ (p + i) - p = i BY <3>1
    <3>3. f[m][p + i] = b[i] BY <1>1, <1>2, <1>3, <1>4, <1>5, <3>2
    <3>4. QED BY <1>2, <1>6, <2>1, <3>1, <3>2, <3>3
  <2>2. CASE k # m
    <3>1. k \in 1..m - 1 BY <2>2
    <3>2. o[k - 1] + i \in 1..o[m - 1] /\ f[m - 1][o[k - 1] + i] = parts[k][i] BY <1>7, <3>1 DEF FlatOK
    <3>3. PICK j \in 1..p : j = o[k - 1] + i BY <1>6, <3>2
    <3>4. j \in 1..p + q /\ j <= p OBVIOUS
    <3>5. f[m][j] = a[j] BY <1>1, <1>2, <1>3, <1>4, <1>5, <3>4
    <3>6. QED BY <1>1, <1>6, <3>2, <3>3, <3>4, <3>5
  <2>3. QED BY <2>1, <2>2
<1>8. QED BY <1>2, <1>4, <1>5, <1>6, <1>7 DEF FlatOK

\* The first k parts are the beginning of all of them.
LEMMA FlattenParts ==
  ASSUME NEW S, NEW parts \in Seq(Seq(S))
  PROVE  /\ FlattenSeq(parts) \in Seq(S)
         /\ \E off : /\ IsOffsets(off, parts) /\ off[Len(parts)] = Len(FlattenSeq(parts))
                     /\ \A k \in 1..Len(parts) : \A i \in 1..Len(parts[k]) :
                          FlattenSeq(parts)[off[k - 1] + i] = parts[k][i]
<1>1. PICK n \in Nat : n = Len(parts) OBVIOUS
<1>2. \A k \in 1..n : parts[k] \in Seq(S) /\ Len(parts[k]) \in Nat BY <1>1
<1>3. CASE n = 0
  <2>1. parts = <<>> BY <1>1, <1>3, EmptySeq
  <2>2. FlattenSeq(parts) = <<>> BY <1>1, <1>3, <2>1 DEF FlattenSeq
  <2> DEFINE off == [k \in 0..0 |-> 0]
  <2>3. off \in [0..0 -> Nat] /\ off[0] = 0 OBVIOUS
  <2> HIDE DEF off
  <2>4. Len(parts) = 0 /\ 1..0 = {} BY <1>1, <1>3
  <2>5. IsOffsets(off, parts) BY <2>3, <2>4 DEF IsOffsets
  <2>6. <<>> \in Seq(S) /\ Len(<<>>) = 0 OBVIOUS
  <2>7. QED BY <2>2, <2>3, <2>4, <2>5, <2>6
<1>4. CASE n > 0
  <2>1. PICK f : IsFlat(f, parts, n) /\ FlattenSeq(parts) = f[n]
    <3> DEFINE F == CHOOSE f : f = [i \in 1..n |-> IF i = 1 THEN parts[i] ELSE f[i - 1] \o parts[i]]
    <3>1. \E f : f = [i \in 1..n |-> IF i = 1 THEN parts[i] ELSE f[i - 1] \o parts[i]]
      BY FlatExists DEF IsFlat
    <3>2. IsFlat(F, parts, n) BY <3>1 DEF IsFlat
    <3>3. FlattenSeq(parts) = F[n] BY <1>1, <1>4 DEF FlattenSeq
    <3>4. QED BY <3>2, <3>3
  <2>2. \A i \in 1..n : f[i] = IF i = 1 THEN parts[i] ELSE f[i - 1] \o parts[i] BY <2>1 DEF IsFlat
  <2>3. PICK o : o = [k \in 0..n |-> IF k = 0 THEN 0 ELSE Len(f[k])] OBVIOUS
  <2>4. o[0] = 0 /\ \A k \in 1..n : o[k] = Len(f[k]) BY <2>3
  <2>5. \A m \in 1..n : FlatOK(f, o, parts, S, m)
    <3> DEFINE T == {m \in Nat : m \in 1..n /\ ~FlatOK(f, o, parts, S, m)}
    <3>1. SUFFICES ASSUME T # {} PROVE FALSE OBVIOUS
    <3>2. PICK m \in T : \A k \in T : m <= k BY <3>1, LeastMember
    <3>3. m \in 1..n /\ ~FlatOK(f, o, parts, S, m) BY <3>2
    <3>4. CASE m = 1
      <4>1. f[1] = parts[1] /\ o[1] = Len(f[1]) /\ 1 \in 1..n BY <1>4, <2>2, <2>4
      <4>2. parts[1] \in Seq(S) /\ Len(parts[1]) \in Nat BY <1>2, <4>1
      <4>3. FlatOK(f, o, parts, S, 1) BY <2>4, <4>1, <4>2 DEF FlatOK
      <4>4. QED BY <3>3, <3>4, <4>3
    <3>5. CASE m > 1
      <4>1. m - 1 \in 1..n /\ m - 1 \in Nat /\ ~(m <= m - 1) BY <3>3, <3>5
      <4>2. FlatOK(f, o, parts, S, m - 1) BY <3>2, <4>1
      <4>3. f[m] = f[m - 1] \o parts[m] /\ parts[m] \in Seq(S) /\ o[m] = Len(f[m])
        <5>1. m # 1 BY <3>5
        <5>2. f[m] = IF m = 1 THEN parts[m] ELSE f[m - 1] \o parts[m] BY <2>2, <3>3
        <5>3. QED BY <1>2, <2>4, <3>3, <5>1, <5>2
      <4>4. FlatOK(f, o, parts, S, m) BY <3>3, <3>5, <4>2, <4>3, FlatNext
      <4>5. QED BY <3>3, <4>4
    <3>6. QED BY <3>3, <3>4, <3>5
  <2>6. IsOffsets(o, parts)
    <3>1. ASSUME NEW k \in 1..n PROVE o[k] \in Nat /\ o[k] = o[k - 1] + Len(parts[k])
      <4>1. PICK l \in Nat : l = Len(parts[k]) BY <1>2
      <4>2. o[k] = o[k - 1] + l /\ o[k - 1] \in Nat BY <2>5, <4>1 DEF FlatOK
      <4>3. QED BY <4>1, <4>2
    <3>2. o \in [0..n -> Nat] BY <2>3, <2>4, <3>1
    <3>3. QED BY <1>1, <2>4, <3>1, <3>2 DEF IsOffsets
  <2>7. FlatOK(f, o, parts, S, n) /\ n \in 1..n BY <1>4, <2>5
  <2>8. QED BY <1>1, <2>1, <2>6, <2>7 DEF FlatOK
<1>5. QED BY <1>3, <1>4

\* Parts of the same lengths begin at the same places.
LEMMA OffsetsUnique ==
  ASSUME NEW parts, NEW other, NEW off, NEW oth, Len(parts) \in Nat, Len(other) = Len(parts),
         \A k \in 1..Len(parts) : Len(other[k]) = Len(parts[k]),
         IsOffsets(off, parts), IsOffsets(oth, other)
  PROVE  off = oth
<1> DEFINE T == {k \in Nat : k \in 0..Len(parts) /\ off[k] # oth[k]}
<1>1. T = {}
  <2>1. SUFFICES ASSUME T # {} PROVE FALSE OBVIOUS
  <2>2. PICK k \in T : \A j \in T : k <= j BY <2>1, LeastMember
  <2>3. k # 0 BY <2>2 DEF IsOffsets
  <2>4. k \in 1..Len(parts) /\ k - 1 \in 0..Len(parts) /\ k - 1 \in Nat /\ k - 1 \notin T BY <2>2, <2>3
  <2>5. off[k - 1] = oth[k - 1] BY <2>4
  <2>6. off[k] = oth[k] BY <2>4, <2>5 DEF IsOffsets
  <2>7. QED BY <2>2, <2>6
<1>2. \A k \in 0..Len(parts) : off[k] = oth[k] BY <1>1
<1>3. QED BY <1>2 DEF IsOffsets

LEMMA OffsetsGrow ==
  ASSUME NEW parts, NEW off, Len(parts) \in Nat, IsOffsets(off, parts),
         \A k \in 1..Len(parts) : Len(parts[k]) \in Nat,
         NEW j \in 0..Len(parts)
  PROVE  \A k \in 0..Len(parts) : j <= k => off[j] <= off[k]
<1> DEFINE T == {k \in Nat : k \in 0..Len(parts) /\ j <= k /\ ~(off[j] <= off[k])}
<1>1. SUFFICES ASSUME T # {} PROVE FALSE OBVIOUS
<1>2. PICK k \in T : \A i \in T : k <= i BY <1>1, LeastMember
<1>3. off[j] \in Nat /\ off[k] \in Nat /\ k # j BY <1>2 DEF IsOffsets
<1>4. k \in 1..Len(parts) /\ k - 1 \in 0..Len(parts) /\ k - 1 \in Nat /\ j <= k - 1 /\ k - 1 \notin T
  BY <1>2, <1>3
<1>5. off[j] <= off[k - 1] BY <1>4
<1>6. off[k - 1] \in Nat /\ off[k] = off[k - 1] + Len(parts[k]) /\ Len(parts[k]) \in Nat BY <1>4 DEF IsOffsets
<1>7. QED BY <1>2, <1>3, <1>5, <1>6

\* Every place is in a part.
LEMMA OffsetsCover ==
  ASSUME NEW parts, NEW off, Len(parts) \in Nat, IsOffsets(off, parts),
         NEW i \in 1..off[Len(parts)]
  PROVE  \E k \in 1..Len(parts) : \E j \in 1..Len(parts[k]) : i = off[k - 1] + j
<1> DEFINE T == {k \in Nat : k \in 0..Len(parts) /\ i <= off[k]}
<1>1. Len(parts) \in T BY DEF IsOffsets
<1>2. PICK k \in T : \A j \in T : k <= j BY <1>1, LeastMember
<1>3. k # 0 BY <1>2 DEF IsOffsets
<1>4. k \in 1..Len(parts) /\ k - 1 \in 0..Len(parts) /\ k - 1 \in Nat /\ k - 1 \notin T BY <1>2, <1>3
<1>5. i > off[k - 1] /\ off[k - 1] \in Nat /\ off[k] = off[k - 1] + Len(parts[k]) /\ off[k] \in Nat
  BY <1>4 DEF IsOffsets
<1>6. i - off[k - 1] \in 1..Len(parts[k]) /\ i = off[k - 1] + (i - off[k - 1]) BY <1>2, <1>5
<1>7. QED BY <1>4, <1>6

\* What comes first in a part that next follows.
FirstOr(part, next) == IF Len(part) = 0 THEN next ELSE part[1]

\* The table of FlattenSeq's recursion.
LEMMA FlatIsTable ==
  ASSUME NEW parts, NEW n \in Nat, n > 0, n = Len(parts)
  PROVE  \E f : (\A i \in 1..n : f[i] = IF i = 1 THEN parts[i] ELSE f[i - 1] \o parts[i]) /\ FlattenSeq(parts) = f[n]
<1> DEFINE F == CHOOSE f : f = [i \in 1..n |-> IF i = 1 THEN parts[i] ELSE f[i - 1] \o parts[i]]
<1>1. \E f : f = [i \in 1..n |-> IF i = 1 THEN parts[i] ELSE f[i - 1] \o parts[i]]
  BY FlatExists, Zenon DEF IsFlat
<1>2. IsFlat(F, parts, n) BY <1>1, Zenon DEF IsFlat
<1>3. FlattenSeq(parts) = F[n]
  <2>1. parts # <<>> OBVIOUS
  <2>2. QED BY <2>1 DEF FlattenSeq
<1> HIDE DEF F
<1>4. \A i \in 1..n : F[i] = IF i = 1 THEN parts[i] ELSE F[i - 1] \o parts[i] BY <1>2 DEF IsFlat
<1>5. QED BY <1>3, <1>4

\* Of parts that are read one after the other, nexts[k] is what follows part k.
Follow(parts, nexts, next) ==
  /\ Len(parts) > 0 => nexts[Len(parts)] = next
  /\ \A k \in 1..Len(parts) - 1 : nexts[k] = FirstOr(parts[k + 1], nexts[k + 1])

\* What comes first in two parts, and in parts one after the other.
LEMMA FirstOfBoth ==
  ASSUME NEW S, NEW a \in Seq(S), NEW b \in Seq(S), NEW next
  PROVE  FirstOr(a \o b, next) = FirstOr(a, FirstOr(b, next))
<1>1. PICK l \in Nat : l = Len(a) OBVIOUS
<1>2. PICK m \in Nat : m = Len(b) OBVIOUS
<1>3. PICK ab : ab = a \o b OBVIOUS
<1>4. /\ Len(ab) = l + m
      /\ \A i \in 1..l + m : ab[i] = IF i <= l THEN a[i] ELSE b[i - l]
  BY <1>1, <1>2, <1>3, ConcatProperties
<1>5. CASE l + m = 0
  <2>1. l = 0 /\ m = 0 BY <1>5
  <2>2. QED BY <1>1, <1>2, <1>3, <1>4, <2>1 DEF FirstOr
<1>6. CASE l # 0
  <2>1. 1 \in 1..l + m /\ 1 <= l /\ l + m # 0 BY <1>6
  <2>2. QED BY <1>1, <1>3, <1>4, <1>6, <2>1 DEF FirstOr
<1>7. CASE l = 0 /\ m # 0
  <2>1. 1 \in 1..l + m /\ ~(1 <= l) /\ 1 - l = 1 /\ l + m # 0 BY <1>7
  <2>2. QED BY <1>1, <1>2, <1>3, <1>4, <1>7, <2>1 DEF FirstOr
<1>8. QED BY <1>5, <1>6, <1>7

LEMMA FirstOfParts ==
  ASSUME NEW S, NEW parts \in Seq(Seq(S)), Len(parts) > 0, NEW nexts, NEW next, Follow(parts, nexts, next)
  PROVE  FirstOr(FlattenSeq(parts), next) = FirstOr(parts[1], nexts[1])
<1>1. PICK n \in Nat : n = Len(parts) OBVIOUS
<1>2. n > 0 /\ (\A k \in 1..n : parts[k] \in Seq(S)) BY <1>1
<1>3. PICK f : /\ \A i \in 1..n : f[i] = IF i = 1 THEN parts[i] ELSE f[i - 1] \o parts[i]
               /\ FlattenSeq(parts) = f[n]
  BY <1>1, <1>2, FlatIsTable
<1> DEFINE Same(k) == f[k] \in Seq(S) /\ FirstOr(f[k], nexts[k]) = FirstOr(parts[1], nexts[1])
           T == {k \in Nat : k \in 1..n /\ ~Same(k)}
<1>4. T = {}
  <2>1. SUFFICES ASSUME T # {} PROVE FALSE OBVIOUS
  <2>2. PICK k \in T : \A j \in T : k <= j BY <2>1, LeastMember, Zenon
  <2>3. k \in 1..n /\ ~Same(k) BY <2>2
  <2>4. CASE k = 1
    <3>1. 1 \in 1..n BY <1>2
    <3>2. f[1] = parts[1] BY <1>3, <3>1
    <3>3. Same(1) BY <1>2, <3>1, <3>2
    <3>4. QED BY <2>3, <2>4, <3>3
  <2>5. CASE k > 1
    <3>1. k - 1 \in 1..n /\ k - 1 \in Nat /\ ~(k <= k - 1) /\ k - 1 \in 1..n - 1 /\ (k - 1) + 1 = k /\ k # 1
      BY <2>3, <2>5
    <3>2. Same(k - 1) BY <2>2, <3>1
    <3>3. f[k] = f[k - 1] \o parts[k] BY <1>3, <2>3, <3>1
    <3>4. nexts[k - 1] = FirstOr(parts[k], nexts[k]) BY <1>1, <3>1 DEF Follow
    <3>5. PICK a \in Seq(S) : a = f[k - 1] BY <3>2
    <3>6. PICK b \in Seq(S) : b = parts[k] BY <1>2, <2>3
    <3>7. FirstOr(a \o b, nexts[k]) = FirstOr(a, FirstOr(b, nexts[k])) BY FirstOfBoth
    <3>8. a \o b \in Seq(S) OBVIOUS
    <3>9. QED BY <2>3, <3>2, <3>3, <3>4, <3>5, <3>6, <3>7, <3>8
  <2>6. QED BY <2>3, <2>4, <2>5
<1>5. Same(n)
  <2>1. n \in 1..n BY <1>2
  <2>2. QED BY <1>4, <2>1
<1>6. nexts[n] = next BY <1>1, <1>2 DEF Follow
<1>7. QED BY <1>3, <1>5, <1>6

\* What follows each part can always be told.
LEMMA FollowExists ==
  ASSUME NEW parts, Len(parts) \in Nat, NEW next
  PROVE  \E nexts : Follow(parts, nexts, next)
<1>1. PICK n \in Nat : n = Len(parts) OBVIOUS
<1> DEFINE T == {m \in Nat : m <= n /\ ~ \E nexts : /\ n > 0 => nexts[n] = next
                                                    /\ \A k \in n - m..n - 1 :
                                                          k > 0 => nexts[k] = FirstOr(parts[k + 1], nexts[k + 1])}
<1>2. T = {}
  <2>1. SUFFICES ASSUME T # {} PROVE FALSE OBVIOUS
  <2>2. PICK m \in T : \A j \in T : m <= j BY <2>1, LeastMember, Zenon
  <2>3. CASE m = 0
    <3>1. PICK g : g = [k \in 0..n |-> next] OBVIOUS
    <3>2. g[n] = next /\ n - m..n - 1 = {} BY <2>3, <3>1
    <3>3. QED BY <2>2, <3>2
  <2>4. CASE m > 0
    <3>1. m - 1 \in Nat /\ m - 1 <= n /\ ~(m <= m - 1) /\ m <= n BY <2>2, <2>4
    <3>2. m - 1 \notin T BY <2>2, <3>1
    <3>3. PICK g : /\ n > 0 => g[n] = next
                   /\ \A k \in n - (m - 1)..n - 1 : k > 0 => g[k] = FirstOr(parts[k + 1], g[k + 1])
      BY <3>1, <3>2
    <3>4. PICK j \in Int : j = n - m OBVIOUS
    <3>5. PICK h : h = [k \in 0..n |-> IF k = j THEN FirstOr(parts[j + 1], g[j + 1]) ELSE g[k]] OBVIOUS
    <3>6. n > 0 => h[n] = next
      <4>1. n # j /\ n \in 0..n BY <2>4, <3>4
      <4>2. QED BY <3>3, <3>5, <4>1
    <3>7. ASSUME NEW k \in n - m..n - 1, k > 0 PROVE h[k] = FirstOr(parts[k + 1], h[k + 1])
      <4>1. k \in 0..n /\ k + 1 \in 0..n /\ k + 1 # j BY <3>4, <3>7
      <4>2. h[k + 1] = g[k + 1] BY <3>5, <4>1
      <4>3. CASE k = j BY <3>5, <4>1, <4>2, <4>3
      <4>4. CASE k # j
        <5>1. k \in n - (m - 1)..n - 1 BY <3>4, <4>4
        <5>2. QED BY <3>3, <3>5, <3>7, <4>1, <4>2, <4>4, <5>1
      <4>5. QED BY <4>3, <4>4
    <3>8. QED BY <2>2, <3>6, <3>7
  <2>5. m = 0 \/ m > 0 BY <2>2
  <2>6. QED BY <2>3, <2>4, <2>5
<1>3. n \notin T BY <1>2
<1>4. PICK g : /\ n > 0 => g[n] = next
               /\ \A k \in n - n..n - 1 : k > 0 => g[k] = FirstOr(parts[k + 1], g[k + 1])
  BY <1>3
<1>5. \A k \in 1..n - 1 : k \in n - n..n - 1 /\ k > 0 OBVIOUS
<1>6. QED BY <1>1, <1>4, <1>5 DEF Follow

-----------------------------------------------------------------------------
(* Numbers in ascending order.                                             *)

IsAscending(order, keys) ==
  /\ order \in [1..Cardinality(keys) -> keys]
  /\ \A m, n \in DOMAIN order : m < n => order[m] < order[n]

LEMMA AscendingExists ==
  ASSUME NEW keys \in SUBSET Nat, IsFiniteSet(keys)
  PROVE  \E order : IsAscending(order, keys)
<1> DEFINE Bad(S) == S \in SUBSET Nat /\ IsFiniteSet(S) /\ ~ \E order : IsAscending(order, S)
           T == {n \in Nat : \E S : Bad(S) /\ Cardinality(S) = n}
<1>1. SUFFICES ASSUME T # {} PROVE FALSE
  <2>1. Cardinality(keys) \in Nat BY FS_CardinalityType
  <2>2. QED BY <2>1
<1>2. PICK n \in T : \A m \in T : n <= m BY <1>1, LeastMember
<1>3. PICK S : Bad(S) /\ Cardinality(S) = n BY <1>2
<1>4. CASE S = {}
  <2>1. Cardinality(S) = 0 BY <1>4, FS_EmptySet
  <2>2. IsAscending([i \in 1..0 |-> 0], S) BY <2>1 DEF IsAscending
  <2>3. QED BY <1>3, <2>2
<1>5. CASE S # {}
  <2>1. PICK k \in S : \A j \in S : k <= j BY <1>3, <1>5, LeastMember
  <2> DEFINE R == S \ {k}
  <2>2. /\ IsFiniteSet(R) /\ Cardinality(R) = n - 1 /\ n - 1 \in Nat
    <3>1. IsFiniteSet(R) /\ Cardinality(R) = Cardinality(S) - 1 BY <1>3, <2>1, FS_RemoveElement
    <3>2. Cardinality(R) \in Nat BY <3>1, FS_CardinalityType
    <3>3. QED BY <1>3, <3>1, <3>2
  <2>3. n - 1 \notin T BY <1>2, <2>2
  <2>4. PICK rest : IsAscending(rest, R) BY <1>3, <2>2, <2>3
  <2> DEFINE order == [i \in 1..n |-> IF i = 1 THEN k ELSE rest[i - 1]]
  <2>5. rest \in [1..n - 1 -> R] /\ \A l, m \in 1..n - 1 : l < m => rest[l] < rest[m]
    BY <2>2, <2>4 DEF IsAscending
  <2>6. \A i \in 2..n : i - 1 \in 1..n - 1 /\ order[i] = rest[i - 1] /\ order[i] \in R BY <1>2, <2>5
  <2>7. \A j \in R : k < j /\ j \in Nat BY <1>3, <2>1
  <2>8. order \in [1..n -> S]
    <3>1. \A i \in 1..n : order[i] \in S
      <4> SUFFICES ASSUME NEW i \in 1..n PROVE order[i] \in S OBVIOUS
      <4>1. i = 1 \/ i \in 2..n BY <1>2
      <4>2. QED BY <2>1, <2>6, <4>1
    <3>2. QED BY <3>1
  <2>9. \A l, m \in 1..n : l < m => order[l] < order[m]
    <3> SUFFICES ASSUME NEW l \in 1..n, NEW m \in 1..n, l < m PROVE order[l] < order[m] OBVIOUS
    <3>1. m \in 2..n BY <1>2
    <3>2. CASE l = 1 BY <1>2, <2>6, <2>7, <3>1, <3>2
    <3>3. CASE l # 1
      <4>1. l \in 2..n /\ l - 1 < m - 1 BY <1>2, <3>3
      <4>2. QED BY <2>5, <2>6, <3>1, <4>1
    <3>4. QED BY <3>2, <3>3
  <2>10. IsAscending(order, S) BY <1>3, <2>8, <2>9 DEF IsAscending
  <2>11. QED BY <1>3, <2>10
<1>6. QED BY <1>4, <1>5

LEMMA AscendingIsInjective ==
  ASSUME NEW keys \in SUBSET Nat, IsFiniteSet(keys)
  PROVE  /\ Ascending(keys) \in [1..Cardinality(keys) -> keys] /\ Cardinality(keys) \in Nat
         /\ \A m, n \in DOMAIN Ascending(keys) : Ascending(keys)[m] = Ascending(keys)[n] => m = n
<1> DEFINE order == Ascending(keys)
<1>1. IsAscending(order, keys)
  <2>1. \E o \in [1..Cardinality(keys) -> keys] : \A m, n \in DOMAIN o : m < n => o[m] < o[n]
    BY AscendingExists DEF IsAscending
  <2>2. QED BY <2>1 DEF Ascending, IsAscending
<1> HIDE DEF order
<1>2. Cardinality(keys) \in Nat BY FS_CardinalityType
<1>3. \A m, n \in DOMAIN order : order[m] = order[n] => m = n
  <2>1. DOMAIN order = 1..Cardinality(keys) /\ \A n \in DOMAIN order : order[n] \in Nat
    BY <1>1 DEF IsAscending
  <2>2. QED BY <1>1, <1>2, <2>1 DEF IsAscending
<1>4. QED BY <1>1, <1>2, <1>3 DEF order, IsAscending
=============================================================================
