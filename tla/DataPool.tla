------------------------------- MODULE DataPool -------------------------------
(***************************************************************************)
(* The pool of records of mmdb_builder (src/mmdb_builder/builder.cpp):     *)
(* equal values have one id, and records of networks that several lists    *)
(* name are merged.  Each store_data and each deep_merge runs under        *)
(* pool_mutex_, so that workers interleave whole operations; which records *)
(* are merged in which order depends on their timing.                      *)
(*                                                                         *)
(* A value is <<type, v>>: a string or a number with v an integer, an      *)
(* array with v a sequence of values, a map with v a sequence of pairs of  *)
(* a key and a value in the order of the keys (Object is a std::map, so    *)
(* that the sort of store() finds them in order).  In the pool, elements,  *)
(* keys and values of a map are ids.  Id 0 is the empty value.             *)
(*                                                                         *)
(* The definitions KeyIgnored and RowsKept are not part of the             *)
(* specification: each is a plausible mistake in the definition that       *)
(* follows it.                                                             *)
(***************************************************************************)
EXTENDS Naturals, Sequences, FiniteSets, SequencesExt

CONSTANTS
  Workloads,  \* the sets of values the workers may store
  SortKey,    \* row_sort_key_
  MaxMerges   \* bound: merges of a behaviour

VARIABLES
  pool,    \* id_to_data_ without entry 0; data_to_id_ is its inverse
  made,    \* the records made: their ids, the value expected, their sources
  pending, \* the values not stored yet
  merges   \* number of merges so far

vars == <<pool, made, pending, merges>>

\* Indices of the variant InternalData.
Str == 1
Num == 4
Map == 10
Arr == 11
-----------------------------------------------------------------------------
(***************************************************************************)
(* Operations take a pool and return [pool, id].                           *)
(***************************************************************************)
intern(p, d) ==
  IF \E i \in DOMAIN p : p[i] = d
  THEN [pool |-> p, id |-> CHOOSE i \in DOMAIN p : p[i] = d]
  ELSE [pool |-> Append(p, d), id |-> Len(p) + 1]

RECURSIVE store(_, _)
store(p, d) ==
  CASE d[1] \in {Str, Num} -> intern(p, d)
    [] d[1] = Arr ->
         LET Element(acc, x) == LET s == store(acc.pool, x)
                                IN  [pool |-> s.pool, ids |-> Append(acc.ids, s.id)]
             all == FoldLeft(Element, [pool |-> p, ids |-> <<>>], d[2])
         IN  intern(all.pool, <<Arr, all.ids>>)
    [] d[1] = Map ->
         LET Pair(acc, kv) ==
               LET k == intern(acc.pool, <<Str, kv[1]>>)
                   v == store(k.pool, kv[2])
               IN  [pool |-> v.pool, ids |-> Append(acc.ids, <<k.id, v.id>>)]
             all == FoldLeft(Pair, [pool |-> p, ids |-> <<>>], d[2])
         IN  intern(all.pool, <<Map, all.ids>>)

\* std::lexicographical_compare
LexLess(x, y, less(_, _)) ==
  \E n \in 0..Len(x) :
    /\ n < Len(y) /\ SubSeq(x, 1, n) = SubSeq(y, 1, n)
    /\ n < Len(x) => less(x[n + 1], y[n + 1])

RECURSIVE less_data(_, _, _)
less_data(p, a, b) ==
  LET x == p[a]
      y == p[b]
      Less(i, j) == less_data(p, i, j)
      PairLess(i, j) == IF i[1] # j[1] THEN Less(i[1], j[1]) ELSE Less(i[2], j[2])
  IN  /\ a # b
      /\ CASE x[1] # y[1] -> x[1] < y[1]
           [] x[1] = Map  -> LexLess(x[2], y[2], PairLess)
           [] x[1] = Arr  -> LexLess(x[2], y[2], Less)
           [] OTHER       -> x[2] < y[2]

Keys(fields) == [c \in DOMAIN fields |-> fields[c][1]]

\* Every value is an array, all of one length.
columnar_rows(p, fields) ==
  /\ fields # <<>>
  /\ \A c \in DOMAIN fields : p[fields[c][2]][1] = Arr
  /\ \A c \in DOMAIN fields : Len(p[fields[c][2]][2]) = Len(p[fields[1][2]][2])

Rows(p, fields) ==
  {[c \in DOMAIN fields |-> p[fields[c][2]][2][r]] :
     r \in 1..Len(p[fields[1][2]][2])}

KeyIgnored(p, fields, x, y) ==
  \E c \in DOMAIN fields :
    (\A d \in 1..(c - 1) : x[d] = y[d]) /\ less_data(p, x[c], y[c])

\* The configured column first, then the others in their order.
row_less(p, fields, x, y) ==
  LET key    == SelectSeq([c \in DOMAIN fields |-> c],
                          LAMBDA c : p[fields[c][1]] = <<Str, SortKey>>)
      others == SelectSeq([c \in DOMAIN fields |-> c],
                          LAMBDA c : p[fields[c][1]] # <<Str, SortKey>>)
      order  == key \o others
      differ == {i \in DOMAIN order : x[order[i]] # y[order[i]]}
      first  == CHOOSE i \in differ : \A j \in differ : i <= j
  IN  differ # {} /\ less_data(p, x[order[first]], y[order[first]])

\* Interns one array for each column of the sequence of rows, then the map.
FromRows(p, keys, rows) ==
  LET Column(acc, c) ==
        LET s == intern(acc.pool, <<Arr, [r \in DOMAIN rows |-> rows[r][c]]>>)
        IN  [pool |-> s.pool, ids |-> Append(acc.ids, <<keys[c], s.id>>)]
      all == FoldLeft(Column, [pool |-> p, ids |-> <<>>],
                      [c \in DOMAIN keys |-> c])
  IN  intern(all.pool, <<Map, all.ids>>)

RowsKept(p, fa, fb) ==
  LET Sorted(f) == SetToSortSeq(Rows(p, f), LAMBDA x, y : row_less(p, fa, x, y))
  IN  FromRows(p, Keys(fa), Sorted(fa) \o Sorted(fb))

\* Rows of both, sorted, without duplicates.
merge_columnar(p, fa, fb) ==
  FromRows(p, Keys(fa), SetToSortSeq(Rows(p, fa) \cup Rows(p, fb),
                                     LAMBDA x, y : row_less(p, fa, x, y)))

RECURSIVE deep_merge(_, _, _)
RECURSIVE MergeFields(_, _, _, _)
\* The fields left of two maps, both in the order of their keys.
MergeFields(p, fa, fb, merged) ==
  IF fa = <<>> \/ fb = <<>> THEN intern(p, <<Map, merged \o fa \o fb>>)
  ELSE LET a == Head(fa)
           b == Head(fb)
       IN  IF a[1] = b[1]
           THEN LET both == deep_merge(p, a[2], b[2])
                IN  MergeFields(both.pool, Tail(fa), Tail(fb),
                                Append(merged, <<a[1], both.id>>))
           ELSE IF p[a[1]][2] < p[b[1]][2]
             THEN MergeFields(p, Tail(fa), fb, Append(merged, a))
           ELSE MergeFields(p, fa, Tail(fb), Append(merged, b))

deep_merge(p, a, b) ==
  IF a = 0 \/ b = 0 \/ a = b THEN [pool |-> p, id |-> IF a = 0 THEN b ELSE a]
  ELSE LET x == p[a]
           y == p[b]
       IN  CASE x[1] = Arr /\ y[1] = Arr -> intern(p, <<Arr, x[2] \o y[2]>>)
             [] x[1] = Map /\ y[1] = Map ->
                  IF /\ Keys(x[2]) = Keys(y[2])
                     /\ columnar_rows(p, x[2]) /\ columnar_rows(p, y[2])
                  THEN merge_columnar(p, x[2], y[2])
                  ELSE MergeFields(p, x[2], y[2], <<>>)
             [] OTHER -> [pool |-> p, id |-> b]
-----------------------------------------------------------------------------
(***************************************************************************)
(* The reference, on values instead of ids.                                *)
(***************************************************************************)
RECURSIVE Content(_, _)
Content(p, id) ==
  LET d == p[id]
  IN  CASE d[1] = Arr -> <<Arr, [i \in DOMAIN d[2] |-> Content(p, d[2][i])]>>
        [] d[1] = Map -> <<Map, [i \in DOMAIN d[2] |->
                             <<p[d[2][i][1]][2], Content(p, d[2][i][2])>>]>>
        [] OTHER -> d

RECURSIVE ValueLess(_, _)
ValueLess(x, y) ==
  CASE x[1] # y[1] -> x[1] < y[1]
    [] x[1] = Arr  -> LexLess(x[2], y[2], ValueLess)
    [] x[1] = Map  -> LexLess(x[2], y[2], LAMBDA i, j :
                        i[1] < j[1] \/ (i[1] = j[1] /\ ValueLess(i[2], j[2])))
    [] OTHER       -> x[2] < y[2]

IsTable(v) ==
  /\ v[1] = Map /\ v[2] # <<>>
  /\ \A c \in DOMAIN v[2] : v[2][c][2][1] = Arr
  /\ \A c \in DOMAIN v[2] : Len(v[2][c][2][2]) = Len(v[2][1][2][2])

TableRows(v) ==
  {[c \in DOMAIN v[2] |-> v[2][c][2][2][r]] : r \in 1..Len(v[2][1][2][2])}

\* Rows are ordered by the column SortKey, then by the first that differs.
RowLess(v, x, y) ==
  LET Before(c, d) == v[2][c][1] = SortKey \/ (v[2][d][1] # SortKey /\ c < d)
      differ == {c \in DOMAIN x : x[c] # y[c]}
  IN  \E c \in differ :
        (\A d \in differ \ {c} : Before(c, d)) /\ ValueLess(x[c], y[c])

Table(v, rows) ==
  LET sorted == SetToSortSeq(rows, LAMBDA x, y : RowLess(v, x, y))
  IN  <<Map, [c \in DOMAIN v[2] |->
        <<v[2][c][1], <<Arr, [r \in DOMAIN sorted |-> sorted[r][c]]>>>>]>>

RECURSIVE Merged(_, _)
Merged(x, y) ==
  CASE x = y -> x
    [] x[1] = Arr /\ y[1] = Arr -> <<Arr, x[2] \o y[2]>>
    [] x[1] = Map /\ y[1] = Map /\ IsTable(x) /\ IsTable(y)
         /\ Keys(x[2]) = Keys(y[2]) -> Table(x, TableRows(x) \cup TableRows(y))
    [] x[1] = Map /\ y[1] = Map ->
         LET Of(v, k) == (CHOOSE kv \in ToSet(v[2]) : kv[1] = k)[2]
             kx   == {kv[1] : kv \in ToSet(x[2])}
             ky   == {kv[1] : kv \in ToSet(y[2])}
             keys == SetToSortSeq(kx \cup ky, LAMBDA i, j : i < j)
         IN  <<Map, [i \in DOMAIN keys |->
               <<keys[i], CASE keys[i] \notin ky -> Of(x, keys[i])
                            [] keys[i] \notin kx -> Of(y, keys[i])
                            [] OTHER -> Merged(Of(x, keys[i]), Of(y, keys[i]))>>]>>
    [] OTHER -> y
-----------------------------------------------------------------------------
Init == pool = <<>> /\ made = {} /\ pending \in Workloads /\ merges = 0

store_data(d) ==
  /\ LET s == store(pool, d)
     IN  /\ pool' = s.pool
         /\ made' = made \cup {[id |-> s.id, value |-> d, from |-> {d}]}
  /\ pending' = pending \ {d}
  /\ UNCHANGED merges

MergeRecords(x, y) ==
  /\ merges < MaxMerges
  /\ LET m == deep_merge(pool, x.id, y.id)
     IN  /\ pool' = m.pool
         /\ made' = made \cup {[id |-> m.id, value |-> Merged(x.value, y.value),
                                from |-> x.from \cup y.from]}
  /\ merges' = merges + 1
  /\ UNCHANGED pending

Next ==
  \/ \E d \in pending : store_data(d)
  \/ \E x, y \in made : MergeRecords(x, y)

Spec == Init /\ [][Next]_vars
-----------------------------------------------------------------------------
(***************************************************************************)
(* Ids refer to earlier ids of the right type, so that contents are finite *)
(* and keys are strings in order.                                          *)
(***************************************************************************)
TypeOK ==
  /\ merges \in 0..MaxMerges /\ \A r \in made : r.id \in DOMAIN pool
  /\ \A i \in DOMAIN pool :
       CASE pool[i][1] = Arr -> ToSet(pool[i][2]) \subseteq 1..(i - 1)
         [] pool[i][1] = Map ->
              /\ \A kv \in ToSet(pool[i][2]) :
                   ToSet(kv) \subseteq 1..(i - 1) /\ pool[kv[1]][1] = Str
              /\ \A c \in 1..(Len(pool[i][2]) - 1) :
                   pool[pool[i][2][c][1]][2] < pool[pool[i][2][c + 1][1]][2]
         [] OTHER -> pool[i][2] \in Nat

(***************************************************************************)
(* Equal contents have one id: pruning and the memo of the writer compare  *)
(* ids only.                                                               *)
(***************************************************************************)
OneIdPerValue == Cardinality({Content(pool, i) : i \in DOMAIN pool}) = Len(pool)

(***************************************************************************)
(* A record has the content its history says: "Arrays are concatenated;    *)
(* maps are merged key by key; for other types `b` wins" and columnar maps *)
(* have their rows united (builder.hpp:90).  Ids given out stay valid.     *)
(***************************************************************************)
ContentAgrees == \A r \in made : Content(pool, r.id) = r.value

(***************************************************************************)
(* Rows of lists merge to a record that depends on the lists only: "so the *)
(* result is independent of insertion order" (builder.hpp:94).             *)
(***************************************************************************)
OrderIndependent ==
  \A r \in made :
    (\A d, e \in r.from : IsTable(d) /\ Keys(d[2]) = Keys(e[2])) =>
      Content(pool, r.id) =
        Table(r.value, UNION {TableRows(d) : d \in r.from})

(***************************************************************************)
(* less_data is the order of contents, whatever ids the timing gave them:  *)
(* "so callers can lay out the data section independently of interning     *)
(* order" (builder.hpp:99).                                                *)
(***************************************************************************)
OrderByContent ==
  LET contents == {<<i, Content(pool, i)>> : i \in DOMAIN pool}
  IN  \A x, y \in contents :
        /\ less_data(pool, x[1], y[1]) <=> ValueLess(x[2], y[2])
        /\ x[1] < y[1] => less_data(pool, x[1], y[1]) \/ less_data(pool, y[1], x[1])
=============================================================================
