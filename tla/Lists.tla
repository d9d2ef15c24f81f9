-------------------------------- MODULE Lists --------------------------------
(***************************************************************************)
(* Lists the window keeps and cuts: what slice and filter do to an array.  *)
(***************************************************************************)
EXTENDS Integers, Sequences, FiniteSets

\* The first n entries.
Take(list, n) == SubSeq(list, 1, IF Len(list) < n THEN Len(list) ELSE n)

Entries(list) == {list[i] : i \in DOMAIN list}

\* No entry is there twice.
Distinct(list) == \A i, j \in DOMAIN list : list[i] = list[j] => i = j

\* The entries that are in a set, in their order.
Only(list, set) ==
  LET Kept[n \in 0..Len(list)] ==
        IF n = 0 THEN <<>>
        ELSE IF list[n] \in set THEN Append(Kept[n - 1], list[n]) ELSE Kept[n - 1]
  IN  Kept[Len(list)]

\* Numbers in ascending order.
Ascending(keys) ==
  CHOOSE order \in [1..Cardinality(keys) -> keys] : \A m, n \in DOMAIN order : m < n => order[m] < order[n]
=============================================================================
