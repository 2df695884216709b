----------------------------- MODULE TableProofs -----------------------------
(***************************************************************************)
(* Theorems about Table, for every set of keys and values, every threshold *)
(* and every workload, cancelled statements included.                      *)
(***************************************************************************)
EXTENDS Table, FiniteSetTheorems, WellFoundedInduction, TLAPS

-----------------------------------------------------------------------------
\* Positions.

\* A non-empty set of natural numbers has a least element.
LEMMA LeastExists ==
    ASSUME NEW S \in SUBSET Nat, S # {}
    PROVE  \E m \in S : \A j \in S : m <= j
<1>1. PICK m \in S : \A j \in S : ~ (<<j, m>> \in OpToRel(<, Nat))
  BY NatLessThanWellFounded, WFMin
<1>2. \A j \in S : ~ (j < m)
  BY <1>1, Zenon DEF OpToRel
<1> QED
  BY <1>2

\* A non-empty set of positions of a sequence has a greatest element.
LEMMA GreatestExists ==
    ASSUME NEW n \in Nat, NEW S \in SUBSET (0 .. n), S # {}
    PROVE  \E m \in S : \A j \in S : j <= m
<1> DEFINE T == {n - j : j \in S}
<1>1. \A j \in S : j \in Int /\ 0 <= j /\ j <= n
  OBVIOUS
<1>2. \A j \in S : n - j \in Nat
  BY <1>1
<1>3. T \in SUBSET Nat /\ T # {}
  BY <1>2, Zenon
<1>4. PICK t \in T : \A u \in T : t <= u
  BY <1>3, LeastExists, Zenon
<1>5. PICK m \in S : t = n - m
  OBVIOUS
<1>6. \A j \in S : n - m <= n - j
  BY <1>4, <1>5
<1> QED
  BY <1>1, <1>6

\* The positions up to i among ps: how many, and that they are finitely many.
UpTo(ps, i) == {j \in ps : j <= i}

LEMMA UpToFinite ==
    ASSUME NEW n \in Nat, NEW ps \in SUBSET (1 .. n), NEW i
    PROVE  IsFiniteSet(ps) /\ IsFiniteSet(UpTo(ps, i)) /\ Cardinality(UpTo(ps, i)) \in Nat
           /\ Cardinality(ps) \in Nat /\ Cardinality(ps) <= n
<1>1. IsFiniteSet(1 .. n) /\ Cardinality(1 .. n) = n
  BY FS_Interval
<1>2. IsFiniteSet(ps) /\ Cardinality(ps) <= n
  BY <1>1, FS_Subset, Zenon
<1>3. IsFiniteSet(UpTo(ps, i))
  BY <1>2, FS_Subset DEF UpTo
<1> QED
  BY <1>2, <1>3, FS_CardinalityType

\* One position more counts one more.
LEMMA UpToNext ==
    ASSUME NEW n \in Nat, NEW ps \in SUBSET (1 .. n), NEW i \in ps, NEW m \in ps,
           m < i, \A j \in ps : j < i => j <= m
    PROVE  Cardinality(UpTo(ps, i)) = Cardinality(UpTo(ps, m)) + 1
<1>1. \A j \in ps : j \in Int
  OBVIOUS
<1>a. \A j \in ps : (j <= i <=> j <= m \/ j = i) /\ ~ (i <= m)
  BY <1>1
<1>2. UpTo(ps, i) = UpTo(ps, m) \cup {i} /\ i \notin UpTo(ps, m)
  BY <1>a, Zenon DEF UpTo
<1>3. IsFiniteSet(UpTo(ps, m))
  BY UpToFinite, Zenon
<1> QED
  BY <1>2, <1>3, FS_AddElement, ZenonT(40)

\* The least position counts as the first.
LEMMA UpToLeast ==
    ASSUME NEW n \in Nat, NEW ps \in SUBSET (1 .. n), NEW i \in ps, \A j \in ps : i <= j
    PROVE  Cardinality(UpTo(ps, i)) = 1
<1>1. \A j \in ps : j \in Int
  OBVIOUS
<1>a. \A j \in ps : j <= i <=> j = i
  BY <1>1
<1>2. UpTo(ps, i) = {i}
  BY <1>a, Zenon DEF UpTo
<1> QED
  BY <1>2, FS_Singleton

\* Every number up to the number of positions is the count of some position.
LEMMA NthExists ==
    ASSUME NEW n \in Nat, NEW ps \in SUBSET (1 .. n), NEW c \in 1 .. Cardinality(ps)
    PROVE  \E i \in ps : Cardinality(UpTo(ps, i)) = c
<1>0. \A j \in ps : j \in Nat /\ 1 <= j /\ j <= n
  OBVIOUS
<1>1. /\ IsFiniteSet(ps) /\ Cardinality(ps) \in Nat /\ c \in Nat /\ 1 <= c /\ c <= Cardinality(ps)
      /\ \A i : Cardinality(UpTo(ps, i)) \in Nat
  BY UpToFinite
<1> DEFINE T == {i \in ps : Cardinality(UpTo(ps, i)) >= c}
<1>2. T # {}
  <2>1. ps # {}
    BY <1>1, FS_EmptySet
  <2>a. ps \in SUBSET (0 .. n)
    <3>1. \A j \in ps : j \in 0 .. n
      BY <1>0
    <3> QED
      BY <3>1, Zenon
  <2>2. PICK m \in ps : \A j \in ps : j <= m
    BY <2>a, <2>1, GreatestExists, Zenon
  <2>3. UpTo(ps, m) = ps
    BY <2>2, Zenon DEF UpTo
  <2> QED
    BY <1>1, <2>2, <2>3
<1>3. PICK i \in T : \A j \in T : i <= j
  BY <1>0, <1>2, LeastExists, Zenon
<1> DEFINE B == {j \in ps : j < i}
<1>4. CASE B = {}
  <2>1. \A j \in ps : i <= j
    BY <1>0, <1>4
  <2>2. Cardinality(UpTo(ps, i)) = 1
    BY <2>1, UpToLeast
  <2> QED
    BY <1>1, <2>2
<1>5. CASE B # {}
  <2>1. B \in SUBSET (0 .. n)
    <3>1. \A j \in B : j \in 0 .. n
      BY <1>0
    <3> QED
      BY <3>1, Zenon
  <2>2. PICK m \in B : \A j \in B : j <= m
    BY <1>5, <2>1, GreatestExists, Zenon
  <2>3. Cardinality(UpTo(ps, i)) = Cardinality(UpTo(ps, m)) + 1
    BY <2>2, UpToNext
  <2>4. ~ (Cardinality(UpTo(ps, m)) >= c)
    BY <1>0, <1>3, <2>2
  <2> QED
    BY <1>1, <2>3, <2>4
<1> QED
  BY <1>4, <1>5

\* Nth picks a position that has that count.
LEMMA NthType ==
    ASSUME NEW n \in Nat, NEW ps \in SUBSET (1 .. n), NEW c \in 1 .. Cardinality(ps)
    PROVE  Nth(ps, c) \in ps /\ Cardinality(UpTo(ps, Nth(ps, c))) = c
<1>1. PICK i \in ps : Cardinality(UpTo(ps, i)) = c
  BY NthExists
<1>2. Nth(ps, c) = CHOOSE j \in ps : Cardinality(UpTo(ps, j)) = c
  BY Zenon DEF Nth, UpTo
<1> QED
  BY <1>1, <1>2, Zenon

\* Every position is the Nth for its count.
LEMMA NthOnto ==
    ASSUME NEW n \in Nat, NEW ps \in SUBSET (1 .. n), NEW i \in ps
    PROVE  \E c \in 1 .. Cardinality(ps) : Nth(ps, c) = i
<1> DEFINE c == Cardinality(UpTo(ps, i))
<1>0. \A j \in ps : j \in Nat
  OBVIOUS
<1>1. /\ IsFiniteSet(ps) /\ Cardinality(ps) \in Nat
      /\ \A j : IsFiniteSet(UpTo(ps, j)) /\ Cardinality(UpTo(ps, j)) \in Nat
  BY UpToFinite
<1>2. c <= Cardinality(ps)
  BY <1>1, FS_Subset DEF UpTo
<1>3. c # 0
  <2>1. i \in UpTo(ps, i)
    BY <1>0 DEF UpTo
  <2> QED
    BY <1>1, <2>1, FS_EmptySet
<1>4. c \in 1 .. Cardinality(ps)
  BY <1>1, <1>2, <1>3
<1>5. PICK m : m = Nth(ps, c) /\ m \in ps /\ Cardinality(UpTo(ps, m)) = c
  BY <1>4, NthType, Zenon
<1>6. ASSUME NEW a \in ps, NEW b \in ps, a < b PROVE Cardinality(UpTo(ps, a)) # Cardinality(UpTo(ps, b))
  <2>a. (\A j \in ps : j <= a => j <= b) /\ b <= b /\ ~ (b <= a)
    BY <1>0, <1>6
  <2>1. UpTo(ps, a) \in SUBSET UpTo(ps, b) /\ b \in UpTo(ps, b) /\ b \notin UpTo(ps, a)
    BY <2>a, Zenon DEF UpTo
  <2>2. UpTo(ps, a) # UpTo(ps, b)
    BY <2>1
  <2> QED
    BY <1>1, <2>1, <2>2, FS_Subset
<1>7. m = i
  BY <1>0, <1>5, <1>6
<1> QED
  BY <1>4, <1>5, <1>7, Zenon

\* What keeping the positions ps of a sequence of keys gives: a sequence no
\* longer than it was, of exactly the keys at those positions.
LEMMA KeepFacts ==
    ASSUME NEW o \in Seq(Key), NEW ps \in SUBSET DOMAIN o
    PROVE  /\ Keep(o, ps) \in Seq(Key)
           /\ Len(Keep(o, ps)) = Cardinality(ps) /\ Cardinality(ps) \in Nat /\ Cardinality(ps) <= Len(o)
           /\ \A n \in 1 .. Cardinality(ps) : \E i \in ps : Keep(o, ps)[n] = o[i]
           /\ \A i \in ps : \E n \in 1 .. Cardinality(ps) : Keep(o, ps)[n] = o[i]
<1> DEFINE N == Cardinality(ps)
<1>1. Len(o) \in Nat /\ DOMAIN o = 1 .. Len(o)
  OBVIOUS
<1>2. ps \in SUBSET (1 .. Len(o))
  BY <1>1
<1>3. N \in Nat /\ N <= Len(o)
  BY <1>1, <1>2, UpToFinite, Zenon
<1>4. \A n \in 1 .. N : Nth(ps, n) \in ps
  BY <1>1, <1>2, NthType, Zenon
<1>5. \A i \in ps : \E n \in 1 .. N : Nth(ps, n) = i
  BY <1>1, <1>2, NthOnto, Zenon
<1>6. \A n \in 1 .. N : o[Nth(ps, n)] \in Key
  BY <1>1, <1>2, <1>4
<1>7. Keep(o, ps) = [n \in 1 .. N |-> o[Nth(ps, n)]]
  BY DEF Keep
<1>8. Keep(o, ps) \in [1 .. N -> Key]
  BY <1>6, <1>7
<1>9. Keep(o, ps) \in Seq(Key) /\ Len(Keep(o, ps)) = N
  BY <1>3, <1>8
<1>10. \A n \in 1 .. N : Keep(o, ps)[n] = o[Nth(ps, n)]
  BY <1>7
<1> QED
  BY <1>3, <1>4, <1>5, <1>9, <1>10, Zenon

Rows == [Key -> Values \cup {NoVal}]

\* LiveKeys keeps exactly the keys that have a row.
LEMMA LiveKeysFacts ==
    ASSUME NEW o \in Seq(Key), NEW r \in Rows
    PROVE  /\ LiveKeys(o, r) \in Seq(Key) /\ Len(LiveKeys(o, r)) <= Len(o)
           /\ \A n \in DOMAIN LiveKeys(o, r) : r[LiveKeys(o, r)[n]] # NoVal
           /\ \A i \in DOMAIN o : r[o[i]] # NoVal => \E n \in DOMAIN LiveKeys(o, r) : LiveKeys(o, r)[n] = o[i]
<1> DEFINE ps == LivePositions(o, r)
<1>1. ps \in SUBSET DOMAIN o /\ \A i \in DOMAIN o : i \in ps <=> r[o[i]] # NoVal
  BY DEF LivePositions
<1>2. LiveKeys(o, r) = Keep(o, ps)
  BY DEF LiveKeys
<1> HIDE DEF ps
<1>3. /\ Keep(o, ps) \in Seq(Key)
      /\ Len(Keep(o, ps)) = Cardinality(ps) /\ Cardinality(ps) \in Nat /\ Cardinality(ps) <= Len(o)
      /\ \A n \in 1 .. Cardinality(ps) : \E i \in ps : Keep(o, ps)[n] = o[i]
      /\ \A i \in ps : \E n \in 1 .. Cardinality(ps) : Keep(o, ps)[n] = o[i]
  BY <1>1, KeepFacts, Zenon
<1>4. DOMAIN Keep(o, ps) = 1 .. Cardinality(ps)
  BY <1>3
<1>5. \A n \in DOMAIN Keep(o, ps) : r[Keep(o, ps)[n]] # NoVal
  BY <1>1, <1>3, <1>4
<1>6. \A i \in DOMAIN o : r[o[i]] # NoVal => \E n \in DOMAIN Keep(o, ps) : Keep(o, ps)[n] = o[i]
  BY <1>1, <1>3, <1>4, Zenon
<1> QED
  BY <1>2, <1>3, <1>5, <1>6

-----------------------------------------------------------------------------
\* The index.

\* The index is what a scan of the rows would build.
IndexExact(r, ix) == ix = IF indexed THEN IndexOf(r) ELSE NoIndex

\* Refiling the keys whose rows change keeps the index exact.
LEMMA ReindexExact ==
    ASSUME NEW r, NEW r2, NEW ks, IndexExact(r, index),
           \A k \in Key \ ks : r2[k] = r[k], ks \subseteq Key
    PROVE  IndexExact(r2, Reindex(ks, r, r2))
<1>1. CASE ~indexed
  BY <1>1 DEF IndexExact, Reindex
<1>2. CASE indexed
  <2>1. \A x \in Values : index[x] = {k \in Key : r[k] = x}
    BY <1>2 DEF IndexExact, IndexOf
  <2>2. \A x \in Values : (index[x] \ {k \in ks : r[k] = x}) \cup {k \in ks : r2[k] = x} = {k \in Key : r2[k] = x}
    BY <2>1
  <2> QED
    BY <1>2, <2>2 DEF IndexExact, IndexOf, Reindex
<1> QED
  BY <1>1, <1>2

-----------------------------------------------------------------------------
\* The fast path.  FastExact: whatever fastPos points at is the current row.

FastType == [rows : Seq(FastRow), pos : [Key -> Nat], dead : Nat, old : BOOLEAN]

\* e is the entry of k in a fast path of the table r.
EntryOf(f, e, k, r) == e.key = k /\ r[k] # NoVal /\ (f.old \/ e.val = r[k])

FastExact(f, r) ==
    /\ f \in FastType
    /\ \A k \in Key : f.pos[k] # 0 => f.pos[k] \in 1 .. Len(f.rows) /\ EntryOf(f, f.rows[f.pos[k]], k, r)

LEMMA EntryType == ASSUME NEW k \in Key, NEW r \in Rows PROVE [key |-> k, val |-> r[k]] \in FastRow
BY DEF Rows, FastRow

LEMMA NoFastExact == ASSUME NEW r PROVE FastExact(NoFast, r)
BY DEF NoFast, FastExact, FastType

LEMMA KeyFinite == IsFiniteSet(Key)
<1>1. IsFiniteSet(AutoKeys)
  BY BoundAssumption, FS_Interval DEF AutoKeys
<1> QED
  BY <1>1, FiniteAssumption, FS_Union, Zenon DEF Key

\* The last occurrence PosOf picks exists.
LEMMA PosOfFacts ==
    ASSUME NEW f \in Seq(FastRow), NEW k \in Key
    PROVE  /\ PosOf(f)[k] \in Nat
           /\ PosOf(f)[k] # 0 => PosOf(f)[k] \in 1 .. Len(f) /\ f[PosOf(f)[k]].key = k
<1> DEFINE S == {i \in DOMAIN f : f[i].key = k}
<1>1. Len(f) \in Nat /\ DOMAIN f = 1 .. Len(f)
  OBVIOUS
<1>2. CASE S = {}
  <2>1. PosOf(f)[k] = 0
    BY <1>2 DEF PosOf
  <2> QED
    BY <2>1
<1>3. CASE S # {}
  <2>1. S \in SUBSET (0 .. Len(f))
    BY <1>1
  <2>2. \E i \in S : \A j \in S : j <= i
    <3> HIDE DEF S
    <3> QED
      BY <1>1, <1>3, <2>1, GreatestExists, Zenon
  <2>3. \E n \in DOMAIN f : f[n].key = k /\ \A j \in DOMAIN f : f[j].key = k => j <= n
    BY <2>2
  <2>4. PosOf(f)[k] = CHOOSE n \in DOMAIN f : f[n].key = k /\ \A j \in DOMAIN f : f[j].key = k => j <= n
    BY <2>3, Zenon DEF PosOf
  <2>5. PosOf(f)[k] \in DOMAIN f /\ f[PosOf(f)[k]].key = k
    BY <2>3, <2>4, Zenon
  <2> QED
    BY <1>1, <2>5
<1> QED
  BY <1>2, <1>3

LEMMA RebuildExact ==
    ASSUME NEW o \in Seq(Key), NEW r \in Rows
    PROVE  FastExact(rebuildFastPathLocked(o, r), r)
<1>1. CASE Len(o) < FastThreshold
  BY <1>1, NoFastExact DEF rebuildFastPathLocked
<1>2. CASE ~(Len(o) < FastThreshold)
  <2> DEFINE live == LiveKeys(o, r)
             f == [i \in DOMAIN live |-> [key |-> live[i], val |-> r[live[i]]]]
  <2>1. live \in Seq(Key) /\ \A n \in DOMAIN live : r[live[n]] # NoVal
    BY LiveKeysFacts
  <2>2. rebuildFastPathLocked(o, r) = [rows |-> f, pos |-> PosOf(f), dead |-> 0, old |-> FALSE]
    BY <1>2 DEF rebuildFastPathLocked
  <2> HIDE DEF live
  <2>3. Len(live) \in Nat /\ DOMAIN live = 1 .. Len(live) /\ \A n \in DOMAIN live : live[n] \in Key
    BY <2>1
  <2>4. \A n \in 1 .. Len(live) : [key |-> live[n], val |-> r[live[n]]] \in FastRow
    BY <2>3, EntryType
  <2>5. f \in [1 .. Len(live) -> FastRow]
    BY <2>3, <2>4
  <2>6. f \in Seq(FastRow) /\ Len(f) = Len(live)
    BY <2>3, <2>5
  <2>7. \A n \in 1 .. Len(live) : f[n] = [key |-> live[n], val |-> r[live[n]]]
    BY <2>3
  <2> HIDE DEF f
  <2>8. PosOf(f) = [k \in Key |-> PosOf(f)[k]]
    BY DEF PosOf
  <2>9. \A k \in Key : /\ PosOf(f)[k] \in Nat
                       /\ PosOf(f)[k] # 0 => PosOf(f)[k] \in 1 .. Len(f) /\ f[PosOf(f)[k]].key = k
    BY <2>6, PosOfFacts
  <2>10. PosOf(f) \in [Key -> Nat]
    BY <2>8, <2>9
  <2>11. ASSUME NEW k \in Key, PosOf(f)[k] # 0
         PROVE  PosOf(f)[k] \in 1 .. Len(f) /\ f[PosOf(f)[k]] = [key |-> k, val |-> r[k]] /\ r[k] # NoVal
    <3>1. PosOf(f)[k] \in 1 .. Len(f) /\ f[PosOf(f)[k]].key = k
      BY <2>9, <2>11
    <3> DEFINE n == PosOf(f)[k]
    <3>2. f[n] = [key |-> live[n], val |-> r[live[n]]]
      BY <2>6, <2>7, <3>1
    <3>3. live[n] = k
      BY <3>1, <3>2
    <3> QED
      BY <2>1, <2>3, <2>6, <3>1, <3>2, <3>3
  <2>12. [rows |-> f, pos |-> PosOf(f), dead |-> 0, old |-> FALSE] \in FastType
    BY <2>6, <2>10 DEF FastType
  <2> DEFINE g == [rows |-> f, pos |-> PosOf(f), dead |-> 0, old |-> FALSE]
  <2>13. g.rows = f /\ g.pos = PosOf(f) /\ g.old = FALSE
    OBVIOUS
  <2> HIDE DEF g
  <2>14. ASSUME NEW k \in Key, g.pos[k] # 0
         PROVE  g.pos[k] \in 1 .. Len(g.rows) /\ EntryOf(g, g.rows[g.pos[k]], k, r)
    <3> DEFINE n == PosOf(f)[k]
    <3>1. n \in 1 .. Len(f) /\ f[n] = [key |-> k, val |-> r[k]] /\ r[k] # NoVal
      BY <2>11, <2>13, <2>14
    <3>2. f[n].key = k /\ f[n].val = r[k]
      BY <3>1
    <3> HIDE DEF n
    <3>3. EntryOf(g, f[n], k, r)
      BY <3>1, <3>2 DEF EntryOf
    <3> QED
      BY <2>13, <3>1, <3>3 DEF n
  <2> QED
    BY <2>2, <2>12, <2>14, Zenon DEF FastExact, g
<1> QED
  BY <1>1, <1>2

LEMMA RebuildIfFastExact ==
    ASSUME NEW o \in Seq(Key), NEW r \in Rows, NEW f, FastExact(f, r)
    PROVE  FastExact(rebuildIfFast(f, o, r), r)
BY RebuildExact DEF rebuildIfFast

LEMMA ReapExact ==
    ASSUME NEW o \in Seq(Key), NEW r \in Rows, NEW f, FastExact(f, r)
    PROVE  FastExact(reapFast(f, o, r), r)
BY RebuildExact DEF reapFast

\* The array and the positions when the row of k is appended at the end.
LEMMA AppendFast ==
    ASSUME NEW s \in Seq(FastRow), NEW e \in FastRow
    PROVE  /\ Append(s, e) \in Seq(FastRow) /\ Len(Append(s, e)) = Len(s) + 1
           /\ \A i \in 1 .. Len(s) : Append(s, e)[i] = s[i]
           /\ Append(s, e)[Len(s) + 1] = e
OBVIOUS

\* A new row: the entry it gets is at the end of the array.
LEMMA AppendExact ==
    ASSUME NEW o \in Seq(Key), NEW r \in Rows, NEW k \in Key, NEW x \in Values, NEW f,
           FastExact(f, r), r[k] = NoVal
    PROVE  FastExact(appendFastRowLocked(f, o, [r EXCEPT ![k] = x], k), [r EXCEPT ![k] = x])
<1> DEFINE r2 == [r EXCEPT ![k] = x]
<1>1. r2 \in Rows /\ r2[k] = x /\ \A l \in Key : l # k => r2[l] = r[l]
  BY DEF Rows
<1>2. x # NoVal
  BY MarkerAssumption
<1>3. f.pos[k] = 0
  BY DEF FastExact, EntryOf
<1>4. FastExact(f, r2)
  BY <1>1, <1>3 DEF FastExact, EntryOf
<1> HIDE DEF r2
<1>5. CASE Len(o) < FastThreshold
  BY <1>4, <1>5 DEF appendFastRowLocked, r2
<1>6. CASE ~(Len(o) < FastThreshold) /\ (f.rows = <<>> \/ Len(f.rows) + 1 # Len(o))
  <2>1. appendFastRowLocked(f, o, r2, k) = rebuildFastPathLocked(o, r2)
    BY <1>6 DEF appendFastRowLocked
  <2> QED
    BY <1>1, <2>1, RebuildExact DEF r2
<1>7. CASE ~(Len(o) < FastThreshold) /\ ~(f.rows = <<>> \/ Len(f.rows) + 1 # Len(o))
  <2> DEFINE e == [key |-> k, val |-> Laid(f, r2[k])]
             g == appendFastRowLocked(f, o, r2, k)
  <2>1. g = [f EXCEPT !.rows = Append(@, e), !.pos[k] = Len(f.rows) + 1]
    BY <1>7 DEF appendFastRowLocked
  <2>2. f \in FastType /\ f.rows \in Seq(FastRow) /\ f.pos \in [Key -> Nat] /\ f.dead \in Nat /\ f.old \in BOOLEAN
    BY DEF FastExact, FastType
  <2>3. g = [rows |-> Append(f.rows, e), pos |-> [f.pos EXCEPT ![k] = Len(f.rows) + 1], dead |-> f.dead, old |-> f.old]
    <3> HIDE DEF e, g
    <3> QED
      BY <2>1, <2>2, Zenon DEF FastType
  <2>4. e \in FastRow
    BY <1>1 DEF FastRow, Laid
  <2> HIDE DEF e, g
  <2>5. /\ Append(f.rows, e) \in Seq(FastRow) /\ Len(Append(f.rows, e)) = Len(f.rows) + 1
        /\ \A i \in 1 .. Len(f.rows) : Append(f.rows, e)[i] = f.rows[i]
        /\ Append(f.rows, e)[Len(f.rows) + 1] = e
    BY <2>2, <2>4, AppendFast
  <2>6. Len(f.rows) \in Nat
    BY <2>2
  <2> DEFINE p == [f.pos EXCEPT ![k] = Len(f.rows) + 1]
  <2>7. p \in [Key -> Nat] /\ p[k] = Len(f.rows) + 1 /\ \A l \in Key : l # k => p[l] = f.pos[l]
    BY <2>2, <2>6
  <2> HIDE DEF p
  <2>8. g.rows = Append(f.rows, e) /\ g.pos = p /\ g.old = f.old /\ g \in FastType
    BY <2>2, <2>3, <2>5, <2>7 DEF FastType, p
  <2>9. ASSUME NEW l \in Key, g.pos[l] # 0
        PROVE  g.pos[l] \in 1 .. Len(g.rows) /\ EntryOf(g, g.rows[g.pos[l]], l, r2)
    <3>1. CASE l = k
      <4>1. g.pos[l] = Len(f.rows) + 1 /\ g.rows[g.pos[l]] = e
        BY <2>5, <2>7, <2>8, <3>1
      <4>2. g.pos[l] \in 1 .. Len(g.rows)
        BY <2>5, <2>6, <2>8, <4>1
      <4>3. EntryOf(g, e, k, r2)
        BY <1>1, <1>2, <2>8 DEF e, EntryOf, Laid
      <4> QED
        BY <3>1, <4>1, <4>2, <4>3
    <3>2. CASE l # k
      <4>1. g.pos[l] = f.pos[l] /\ f.pos[l] # 0
        BY <2>7, <2>8, <2>9, <3>2
      <4>2. f.pos[l] \in 1 .. Len(f.rows) /\ EntryOf(f, f.rows[f.pos[l]], l, r2)
        BY <1>4, <4>1 DEF FastExact
      <4>3. g.rows[g.pos[l]] = f.rows[f.pos[l]]
        BY <2>5, <2>8, <4>1, <4>2
      <4>4. g.pos[l] \in 1 .. Len(g.rows)
        BY <2>5, <2>6, <2>8, <4>1, <4>2
      <4> QED
        BY <2>8, <4>2, <4>3, <4>4 DEF EntryOf
    <3> QED
      BY <3>1, <3>2
  <2> QED
    BY <2>8, <2>9, Zenon DEF FastExact, g, r2
<1> QED
  BY <1>5, <1>6, <1>7

\* Two keys never share a position, since the entry there names its key.
LEMMA PositionsApart ==
    ASSUME NEW f, NEW r, FastExact(f, r), NEW k \in Key, NEW l \in Key, k # l, f.pos[k] # 0
    PROVE  f.pos[k] # f.pos[l]
<1> SUFFICES ASSUME f.pos[k] = f.pos[l] PROVE FALSE
  OBVIOUS
<1>1. f.rows[f.pos[k]].key = k
  BY DEF FastExact, EntryOf
<1>2. f.rows[f.pos[l]].key = l
  BY DEF FastExact, EntryOf
<1> QED
  BY <1>1, <1>2

\* Tombstones: the entries of ks go, the others stay where they are.
LEMMA RemoveExact ==
    ASSUME NEW o, NEW r \in Rows, NEW ks \in SUBSET Key, NEW f, FastExact(f, r),
           NEW r2 \in Rows, \A l \in Key \ ks : r2[l] = r[l]
    PROVE  FastExact(removeFastRowLocked(f, o, ks), r2)
<1>0. f \in FastType /\ f.rows \in Seq(FastRow) /\ f.pos \in [Key -> Nat] /\ f.dead \in Nat /\ f.old \in BOOLEAN
  BY DEF FastExact, FastType
<1>1. CASE f.rows = <<>>
  <2>0. Len(f.rows) = 0
    BY <1>1
  <2>1. \A k \in Key : f.pos[k] = 0
    BY <2>0 DEF FastExact
  <2> QED
    BY <1>0, <1>1, <2>1 DEF removeFastRowLocked, FastExact
<1>2. CASE f.rows # <<>> /\ ks # {} /\ Len(o) < FastThreshold
  BY <1>2, NoFastExact DEF removeFastRowLocked
<1>3. CASE ks = {}
  <2>1. removeFastRowLocked(f, o, ks) = f
    BY <1>3 DEF removeFastRowLocked
  <2>2. \A l \in Key : r2[l] = r[l]
    BY <1>3
  <2> QED
    BY <2>1, <2>2 DEF FastExact, EntryOf
<1>4. CASE f.rows # <<>> /\ ks # {} /\ ~(Len(o) < FastThreshold)
  <2> DEFINE g == removeFastRowLocked(f, o, ks)
             a == [i \in DOMAIN f.rows |-> IF \E k \in ks : f.pos[k] = i THEN Tombstone ELSE f.rows[i]]
             p == [k \in Key |-> IF k \in ks THEN 0 ELSE f.pos[k]]
             d == f.dead + Cardinality({k \in ks : f.pos[k] # 0})
  <2>1. g = [rows |-> a, pos |-> p, dead |-> d, old |-> f.old]
    BY <1>4 DEF removeFastRowLocked
  <2>2. Len(f.rows) \in Nat /\ DOMAIN f.rows = 1 .. Len(f.rows) /\ \A i \in 1 .. Len(f.rows) : f.rows[i] \in FastRow
    BY <1>0
  <2>3. Tombstone \in FastRow
    BY DEF Tombstone, FastRow
  <2>4. a \in [1 .. Len(f.rows) -> FastRow]
    BY <2>2, <2>3
  <2>5. a \in Seq(FastRow) /\ Len(a) = Len(f.rows)
    BY <2>2, <2>4
  <2>6. p \in [Key -> Nat]
    BY <1>0
  <2>7. d \in Nat
    <3>1. IsFiniteSet({k \in ks : f.pos[k] # 0})
      BY KeyFinite, FS_Subset
    <3>2. Cardinality({k \in ks : f.pos[k] # 0}) \in Nat
      BY <3>1, FS_CardinalityType
    <3> QED
      BY <1>0, <3>2
  <2>8. g \in FastType
    BY <1>0, <2>1, <2>5, <2>6, <2>7 DEF FastType
  <2>9. ASSUME NEW l \in Key, p[l] # 0
        PROVE  p[l] \in 1 .. Len(a) /\ EntryOf(f, a[p[l]], l, r2)
    <3>1. l \notin ks /\ p[l] = f.pos[l] /\ f.pos[l] # 0
      BY <2>9
    <3>2. f.pos[l] \in 1 .. Len(f.rows) /\ EntryOf(f, f.rows[f.pos[l]], l, r)
      BY <3>1 DEF FastExact
    <3>3. \A k \in ks : f.pos[k] # f.pos[l]
      BY <3>1, PositionsApart
    <3>4. a[f.pos[l]] = f.rows[f.pos[l]]
      BY <2>2, <3>2, <3>3
    <3>5. r2[l] = r[l]
      BY <3>1
    <3> HIDE DEF a, p
    <3> QED
      BY <2>5, <3>1, <3>2, <3>4, <3>5 DEF EntryOf
  <2> HIDE DEF a, p, d, g
  <2>10. g.rows = a /\ g.pos = p /\ g.old = f.old
    BY <2>1
  <2> QED
    BY <2>8, <2>9, <2>10 DEF FastExact, EntryOf, g
<1> QED
  BY <1>1, <1>2, <1>3, <1>4

\* SET v = x in the entries of ks.
LEMMA UpdateExact ==
    ASSUME NEW r \in Rows, NEW ks \in SUBSET Key, NEW x \in Values, NEW f, FastExact(f, r),
           NEW r2, \A l \in Key : r2[l] = IF l \in ks THEN x ELSE r[l]
    PROVE  FastExact(updateFastRowLocked(f, ks, x), r2)
<1> DEFINE g == updateFastRowLocked(f, ks, x)
           a == [i \in DOMAIN f.rows |->
                   IF f.rows[i].val # Null /\ \E k \in ks : f.pos[k] = i
                   THEN [f.rows[i] EXCEPT !.val = x] ELSE f.rows[i]]
<1>1. f \in FastType /\ f.rows \in Seq(FastRow) /\ f.pos \in [Key -> Nat] /\ f.dead \in Nat /\ f.old \in BOOLEAN
  BY DEF FastExact, FastType
<1>0. g = [f EXCEPT !.rows = a]
  BY DEF updateFastRowLocked
<1>2. g = [rows |-> a, pos |-> f.pos, dead |-> f.dead, old |-> f.old]
  <2> HIDE DEF a, g
  <2> QED
    BY <1>0, <1>1 DEF FastType
<1>3. Len(f.rows) \in Nat /\ DOMAIN f.rows = 1 .. Len(f.rows) /\ \A i \in 1 .. Len(f.rows) : f.rows[i] \in FastRow
  BY <1>1
<1>4. \A e \in FastRow : [e EXCEPT !.val = x] \in FastRow
  BY DEF FastRow
<1>5. a \in [1 .. Len(f.rows) -> FastRow]
  BY <1>3, <1>4
<1>6. a \in Seq(FastRow) /\ Len(a) = Len(f.rows)
  BY <1>3, <1>5
<1>7. ASSUME NEW l \in Key, f.pos[l] # 0
      PROVE  f.pos[l] \in 1 .. Len(a) /\ EntryOf(f, a[f.pos[l]], l, r2)
  <2> DEFINE e == f.rows[f.pos[l]]
  <2>1. f.pos[l] \in 1 .. Len(f.rows) /\ EntryOf(f, e, l, r) /\ e \in FastRow
    BY <1>3, <1>7 DEF FastExact
  <2>2. CASE l \in ks
    <3>1. a[f.pos[l]] = IF e.val # Null THEN [e EXCEPT !.val = x] ELSE e
      BY <1>3, <2>1, <2>2
    <3>2. r2[l] = x /\ x # NoVal
      BY <2>2, MarkerAssumption
    <3>3. f.old \/ e.val # Null
      BY <2>1, MarkerAssumption DEF EntryOf, Rows
    <3> HIDE DEF a, e
    <3>4. a[f.pos[l]].key = e.key /\ (f.old \/ a[f.pos[l]].val = x)
      BY <2>1, <3>1, <3>3 DEF FastRow
    <3> QED
      BY <1>6, <2>1, <3>2, <3>4 DEF EntryOf
  <2>3. CASE l \notin ks
    <3>1. \A k \in ks : f.pos[k] # f.pos[l]
      BY <1>7, <2>3, PositionsApart
    <3>2. a[f.pos[l]] = e
      BY <1>3, <2>1, <3>1
    <3>3. r2[l] = r[l]
      BY <2>3
    <3> HIDE DEF a, e
    <3> QED
      BY <1>6, <2>1, <3>2, <3>3 DEF EntryOf
  <2> QED
    BY <2>2, <2>3
<1> HIDE DEF a, g
<1>8. g.rows = a /\ g.pos = f.pos /\ g.old = f.old /\ g \in FastType
  BY <1>1, <1>2, <1>6 DEF FastType
<1> QED
  BY <1>7, <1>8 DEF FastExact, EntryOf, g

\* INSERT OR REPLACE of the row of k.
LEMMA ReplaceExact ==
    ASSUME NEW r \in Rows, NEW k \in Key, NEW x \in Values, NEW f, FastExact(f, r), r[k] # NoVal,
           NEW r2, \A l \in Key : r2[l] = IF l = k THEN x ELSE r[l]
    PROVE  FastExact(replaceFastRowLocked(f, k, x), r2)
<1>0. f \in FastType /\ f.rows \in Seq(FastRow) /\ f.pos \in [Key -> Nat] /\ f.dead \in Nat /\ f.old \in BOOLEAN
  BY DEF FastExact, FastType
<1>1. r2[k] = x /\ x # NoVal
  BY MarkerAssumption
<1>2. CASE f.pos[k] = 0
  <2>1. \A l \in Key : f.pos[l] # 0 => r2[l] = r[l]
    BY <1>2
  <2> QED
    BY <1>2, <2>1 DEF replaceFastRowLocked, FastExact, EntryOf
<1>3. CASE f.pos[k] # 0
  <2> DEFINE n == f.pos[k]
             g == replaceFastRowLocked(f, k, x)
             e == [f.rows[n] EXCEPT !.val = Laid(f, x)]
             a == [f.rows EXCEPT ![n] = e]
  <2>1. n \in 1 .. Len(f.rows) /\ f.rows[n].key = k
    BY <1>3 DEF FastExact, EntryOf
  <2>2. Len(f.rows) \in Nat /\ DOMAIN f.rows = 1 .. Len(f.rows) /\ \A i \in 1 .. Len(f.rows) : f.rows[i] \in FastRow
    BY <1>0
  <2>3. e \in FastRow /\ e.key = k /\ e.val = Laid(f, x)
    BY <2>1, <2>2 DEF FastRow, Laid
  <2>4. g = [rows |-> a, pos |-> f.pos, dead |-> f.dead, old |-> f.old]
    BY <1>0, <1>3, Zenon DEF replaceFastRowLocked, FastType
  <2> HIDE DEF e, g
  <2>5. a = [i \in 1 .. Len(f.rows) |-> IF i = n THEN e ELSE f.rows[i]]
    BY <2>1, <2>2
  <2>6. a \in [1 .. Len(f.rows) -> FastRow]
    BY <2>2, <2>3, <2>5, Zenon
  <2>7. a \in Seq(FastRow) /\ Len(a) = Len(f.rows)
    BY <2>2, <2>6
  <2>8. a[n] = e /\ \A i \in 1 .. Len(f.rows) : i # n => a[i] = f.rows[i]
    BY <2>1, <2>5
  <2> HIDE DEF a
  <2>9. ASSUME NEW l \in Key, f.pos[l] # 0
        PROVE  f.pos[l] \in 1 .. Len(a) /\ EntryOf(f, a[f.pos[l]], l, r2)
    <3>1. f.pos[l] \in 1 .. Len(f.rows) /\ EntryOf(f, f.rows[f.pos[l]], l, r)
      BY <2>9 DEF FastExact
    <3>2. CASE l = k
      BY <1>1, <2>3, <2>7, <2>8, <3>1, <3>2 DEF EntryOf, Laid
    <3>3. CASE l # k
      <4>1. f.pos[l] # n
        BY <1>3, <3>3, PositionsApart
      <4>2. r2[l] = r[l]
        BY <3>3
      <4> HIDE DEF n
      <4> QED
        BY <2>7, <2>8, <3>1, <4>1, <4>2 DEF EntryOf
    <3> QED
      BY <3>2, <3>3
  <2>10. g.rows = a /\ g.pos = f.pos /\ g.old = f.old /\ g \in FastType
    BY <1>0, <2>4, <2>7 DEF FastType
  <2> QED
    BY <2>9, <2>10 DEF FastExact, EntryOf, g
<1> QED
  BY <1>2, <1>3

\* SET pk = new: the entry keeps its position under the new key.
LEMMA RekeyExact ==
    ASSUME NEW r \in Rows, NEW old \in Key, NEW new \in Key, NEW f, FastExact(f, r),
           r[old] # NoVal, r[new] = NoVal,
           NEW r2, \A l \in Key : r2[l] = IF l = new THEN r[old] ELSE IF l = old THEN NoVal ELSE r[l]
    PROVE  FastExact(rekeyFastRowLocked(f, old, new), r2)
<1>0. f \in FastType /\ f.rows \in Seq(FastRow) /\ f.pos \in [Key -> Nat] /\ f.dead \in Nat /\ f.old \in BOOLEAN
  BY DEF FastExact, FastType
<1>1. old # new /\ f.pos[new] = 0
  BY DEF FastExact, EntryOf
<1>2. CASE f.pos[old] = 0
  <2>1. rekeyFastRowLocked(f, old, new) = f
    BY <1>2 DEF rekeyFastRowLocked
  <2>2. \A l \in Key : f.pos[l] # 0 => r2[l] = r[l]
    BY <1>1, <1>2
  <2> QED
    BY <2>1, <2>2 DEF FastExact, EntryOf
<1>3. CASE f.pos[old] # 0
  <2> DEFINE n == f.pos[old]
             g == rekeyFastRowLocked(f, old, new)
             e == [f.rows[n] EXCEPT !.key = new]
             a == [f.rows EXCEPT ![n] = e]
             p == [f.pos EXCEPT ![old] = 0, ![new] = n]
  <2>1. n \in 1 .. Len(f.rows) /\ EntryOf(f, f.rows[n], old, r)
    BY <1>3 DEF FastExact
  <2>2. g = [rows |-> a, pos |-> p, dead |-> f.dead, old |-> f.old]
    BY <1>0, <1>3, Zenon DEF rekeyFastRowLocked, FastType
  <2>3. Len(f.rows) \in Nat /\ DOMAIN f.rows = 1 .. Len(f.rows) /\ \A i \in 1 .. Len(f.rows) : f.rows[i] \in FastRow
    BY <1>0
  <2>4. e.key = new /\ e.val = f.rows[n].val /\ e \in FastRow
    BY <2>1, <2>3 DEF FastRow
  <2>5. EntryOf(f, e, new, r2)
    BY <1>1, <2>1, <2>4 DEF EntryOf
  <2> HIDE DEF e
  <2>6. a = [i \in 1 .. Len(f.rows) |-> IF i = n THEN e ELSE f.rows[i]]
    BY <2>1, <2>3
  <2>7. a \in [1 .. Len(f.rows) -> FastRow]
    BY <2>3, <2>4, <2>6, Zenon
  <2>8. a \in Seq(FastRow) /\ Len(a) = Len(f.rows)
    BY <2>3, <2>7
  <2>9. p \in [Key -> Nat] /\ p[new] = n /\ p[old] = 0 /\ \A l \in Key : l # old /\ l # new => p[l] = f.pos[l]
    BY <1>0, <1>1
  <2>10. a[n] = e /\ \A i \in 1 .. Len(f.rows) : i # n => a[i] = f.rows[i]
    BY <2>1, <2>6
  <2> HIDE DEF a, p, g
  <2>11. ASSUME NEW l \in Key, p[l] # 0
         PROVE  p[l] \in 1 .. Len(a) /\ EntryOf(f, a[p[l]], l, r2)
    <3>1. CASE l = new
      BY <2>1, <2>5, <2>8, <2>9, <2>10, <3>1, ZenonT(40)
    <3>2. CASE l # new
      <4>1. l # old /\ p[l] = f.pos[l] /\ f.pos[l] # 0
        BY <2>9, <2>11, <3>2
      <4>2. f.pos[l] \in 1 .. Len(f.rows) /\ EntryOf(f, f.rows[f.pos[l]], l, r)
        BY <4>1 DEF FastExact
      <4>3. f.pos[l] # n
        BY <1>3, <4>1, PositionsApart
      <4>4. r2[l] = r[l]
        BY <3>2, <4>1
      <4> HIDE DEF n
      <4> QED
        BY <2>8, <2>10, <4>1, <4>2, <4>3, <4>4 DEF EntryOf
    <3> QED
      BY <3>1, <3>2
  <2>12. g.rows = a /\ g.pos = p /\ g.old = f.old /\ g \in FastType
    BY <1>0, <2>2, <2>8, <2>9 DEF FastType
  <2> QED
    BY <2>11, <2>12 DEF FastExact, EntryOf, g
<1> QED
  BY <1>2, <1>3

-----------------------------------------------------------------------------
\* The inductive invariant.

PlainTypes ==
    /\ keyless \in BOOLEAN /\ indexed \in BOOLEAN /\ replace \in BOOLEAN
    /\ rows \in Rows /\ order \in Seq(Key)
    /\ dead \in Nat /\ autoKey \in Nat /\ todo \in Seq(InsertRow)

\* Every row is somewhere in Order.
Listed(r, o) == \A k \in Key : r[k] # NoVal => \E i \in DOMAIN o : o[i] = k

\* The rows of an INSERT not yet applied are still new, and all of them or none
\* of them get synthetic keys.
TodoFresh ==
    /\ \A i \in DOMAIN todo : todo[i].key = NoKey <=> keyless
    /\ ~replace /\ ~keyless =>
         \A i \in DOMAIN todo : /\ rows[todo[i].key] = NoVal
                                /\ \A j \in DOMAIN todo : todo[i].key = todo[j].key => i = j

TableInv ==
    /\ PlainTypes /\ TodoFresh
    /\ IndexExact(rows, index) /\ FastExact(fast, rows) /\ Listed(rows, order)

LEMMA InvInit == Init => TableInv
<1> SUFFICES ASSUME Init PROVE TableInv
  OBVIOUS
<1>1. PlainTypes
  <2>1. rows \in Rows
    BY DEF Init, Rows
  <2>2. keyless \in BOOLEAN /\ indexed \in BOOLEAN /\ replace \in BOOLEAN
    BY Zenon DEF Init
  <2>3. order \in Seq(Key) /\ todo \in Seq(InsertRow) /\ dead \in Nat /\ autoKey \in Nat
    BY DEF Init
  <2> QED
    BY <2>1, <2>2, <2>3 DEF PlainTypes
<1>2. TodoFresh
  BY DEF Init, TodoFresh
<1>3. IndexExact(rows, index)
  BY DEF Init, IndexExact
<1>4. FastExact(fast, rows)
  BY NoFastExact DEF Init
<1>5. Listed(rows, order)
  BY DEF Init, Listed
<1> QED
  BY <1>1, <1>2, <1>3, <1>4, <1>5 DEF TableInv

LEMMA InvTypeOK == TableInv => TypeOK
<1> SUFFICES ASSUME TableInv PROVE TypeOK
  OBVIOUS
<1>1. index \in [Values -> SUBSET Key]
  BY DEF TableInv, IndexExact, IndexOf, NoIndex
<1>2. fast \in [rows : Seq(FastRow), pos : [Key -> Nat], dead : Nat, old : BOOLEAN]
  BY DEF TableInv, FastExact, FastType
<1>3. Len(fast.rows) \in Nat
  BY <1>2
<1>4. ASSUME NEW k \in Key PROVE fast.pos[k] <= Len(fast.rows)
  <2>1. fast.pos[k] = 0 \/ fast.pos[k] \in 1 .. Len(fast.rows)
    BY DEF TableInv, FastExact
  <2> QED
    BY <1>3, <2>1
<1> QED
  BY <1>1, <1>2, <1>4 DEF TableInv, PlainTypes, TypeOK, Rows

LEMMA InvReads == TableInv => PointReadsExact
<1> SUFFICES ASSUME TableInv, ~fast.old PROVE PointReads
  BY DEF PointReadsExact
<1>1. ASSUME NEW k \in Key, fast.pos[k] # 0
      PROVE  fast.pos[k] <= Len(fast.rows) /\ fast.rows[fast.pos[k]].key = k /\ fast.rows[fast.pos[k]].val = rows[k]
  <2>1. Len(fast.rows) \in Nat
    BY DEF TableInv, FastExact, FastType
  <2>2. fast.pos[k] \in 1 .. Len(fast.rows) /\ EntryOf(fast, fast.rows[fast.pos[k]], k, rows)
    BY <1>1 DEF TableInv, FastExact
  <2> QED
    BY <2>1, <2>2 DEF EntryOf
<1>2. NoKey \notin Key
  BY MarkerAssumption
<1>3. \A k \in Key : ReadKey(k) = rows[k]
  BY <1>1, <1>2 DEF ReadKey
<1>4. ASSUME indexed, NEW x \in Values PROVE ReadIndex(x) = {k \in Key : rows[k] = x}
  <2>1. index[x] = {k \in Key : rows[k] = x}
    BY <1>4 DEF TableInv, IndexExact, IndexOf
  <2> QED
    BY <1>1, <2>1, Zenon DEF ReadIndex
<1> QED
  BY <1>3, <1>4 DEF PointReads

LEMMA InvListed == TableInv => NoRowLost
<1> SUFFICES ASSUME TableInv, NEW k \in Key, rows[k] # NoVal PROVE Times(k) >= 1
  BY DEF NoRowLost, Live
<1> DEFINE S == {i \in DOMAIN order : order[i] = k}
<1>1. Len(order) \in Nat /\ DOMAIN order = 1 .. Len(order)
  BY DEF TableInv, PlainTypes
<1>2. S # {}
  BY DEF TableInv, Listed
<1>3. IsFiniteSet(S)
  <2>1. IsFiniteSet(1 .. Len(order))
    BY <1>1, FS_Interval
  <2>2. S \in SUBSET (1 .. Len(order))
    BY <1>1
  <2> QED
    BY <2>1, <2>2, FS_Subset
<1>4. Cardinality(S) \in Nat /\ Cardinality(S) # 0
  BY <1>2, <1>3, FS_CardinalityType, FS_EmptySet
<1> QED
  BY <1>4 DEF Times

\* What the index and the fast path need of a statement that rewrites the rows
\* ks and leaves the INSERT state alone.
LEMMA IndexKept ==
    ASSUME TableInv, NEW ks \in SUBSET Key, UNCHANGED indexed,
           \A k \in Key \ ks : rows'[k] = rows[k], index' = Reindex(ks, rows, rows')
    PROVE  IndexExact(rows, index)'
<1>1. IndexExact(rows', Reindex(ks, rows, rows'))
  BY ReindexExact DEF TableInv
<1> QED
  BY <1>1 DEF IndexExact

LEMMA IdleFresh == ASSUME todo = <<>>, UNCHANGED todo PROVE TodoFresh'
BY DEF TodoFresh

\* Order without its tombstones still lists every row.
LEMMA LiveListed ==
    ASSUME NEW o \in Seq(Key), NEW r \in Rows, Listed(r, o)
    PROVE  LiveKeys(o, r) \in Seq(Key) /\ Listed(r, LiveKeys(o, r))
<1>1. /\ LiveKeys(o, r) \in Seq(Key)
      /\ \A i \in DOMAIN o : r[o[i]] # NoVal => \E n \in DOMAIN LiveKeys(o, r) : LiveKeys(o, r)[n] = o[i]
  BY LiveKeysFacts
<1> QED
  BY <1>1, Zenon DEF Listed

LEMMA BatchType == ASSUME NEW b \in Batches PROVE b \in Seq(InsertRow)
<1>1. \A a \in InsertRow : <<a>> \in Seq(InsertRow)
  OBVIOUS
<1>2. \A a, c \in InsertRow : <<a, c>> \in Seq(InsertRow)
  OBVIOUS
<1>3. (\E a \in InsertRow : b = <<a>>) \/ (\E a, c \in InsertRow : b = <<a, c>>)
  BY DEF Batches
<1> QED
  BY <1>1, <1>2, <1>3, Zenon

LEMMA InsertInv ==
    ASSUME TableInv, NEW batch \in Batches, NEW orReplace \in BOOLEAN, insert(batch, orReplace)
    PROVE  TableInv'
<1>1. PlainTypes /\ IndexExact(rows, index) /\ FastExact(fast, rows) /\ Listed(rows, order)
  BY DEF TableInv
<1>2. /\ todo' = batch /\ replace' = orReplace
      /\ rows' = rows /\ index' = index /\ indexed' = indexed /\ keyless' = keyless /\ autoKey' = autoKey
  BY DEF insert
<1>3. TodoFresh'
  <2>1. /\ \A i \in DOMAIN batch : batch[i].key = NoKey <=> keyless
        /\ ~orReplace /\ ~keyless => /\ \A i \in DOMAIN batch : rows[batch[i].key] = NoVal
                                     /\ \A i, j \in DOMAIN batch : batch[i].key = batch[j].key => i = j
    BY DEF insert
  <2> QED
    BY <1>2, <2>1 DEF TodoFresh
<1>4. rows \in Rows /\ order \in Seq(Key) /\ dead \in Nat
  BY <1>1 DEF PlainTypes
<1>5. order' \in Seq(Key) /\ dead' \in Nat /\ FastExact(fast', rows) /\ Listed(rows, order')
  <2>1. CASE dead > 0
    <3>1. order' = LiveKeys(order, rows) /\ dead' = 0 /\ fast' = rebuildIfFast(fast, order', rows)
      BY <2>1 DEF insert
    <3>2. order' \in Seq(Key) /\ Listed(rows, order')
      BY <1>1, <1>4, <3>1, LiveListed
    <3> QED
      BY <1>1, <1>4, <3>1, <3>2, RebuildIfFastExact
  <2>2. CASE ~(dead > 0)
    BY <1>1, <1>4, <2>2 DEF insert
  <2> QED
    BY <2>1, <2>2
<1>6. PlainTypes'
  BY <1>1, <1>2, <1>5, BatchType DEF PlainTypes
<1>7. IndexExact(rows, index)'
  BY <1>1, <1>2 DEF IndexExact
<1> QED
  BY <1>2, <1>3, <1>5, <1>6, <1>7 DEF TableInv

\* nextSyntheticKeyLocked finds a key no row has.
LEMMA FreshKey ==
    ASSUME FreshKeys # {}
    PROVE  nextSyntheticKeyLocked \in AutoKeys /\ rows[nextSyntheticKeyLocked] = NoVal
<1>1. FreshKeys \in SUBSET Nat
  BY BoundAssumption DEF FreshKeys, AutoKeys
<1>2. \E n \in FreshKeys : \A m \in FreshKeys : n <= m
  BY <1>1, LeastExists
<1>3. nextSyntheticKeyLocked \in FreshKeys
  BY <1>2, Zenon DEF nextSyntheticKeyLocked
<1> QED
  BY <1>3 DEF FreshKeys

LEMMA TailFacts ==
    ASSUME NEW s \in Seq(InsertRow), s # <<>>
    PROVE  /\ Head(s) = s[1] /\ Head(s) \in InsertRow /\ 1 \in DOMAIN s
           /\ Tail(s) \in Seq(InsertRow)
           /\ \A i \in DOMAIN Tail(s) : i + 1 \in DOMAIN s /\ i + 1 # 1 /\ i \in Int /\ Tail(s)[i] = s[i + 1]
OBVIOUS

LEMMA AppendKey ==
    ASSUME NEW o \in Seq(Key), NEW k \in Key
    PROVE  /\ Append(o, k) \in Seq(Key)
           /\ \A i \in DOMAIN o : i \in DOMAIN Append(o, k) /\ Append(o, k)[i] = o[i]
           /\ Len(o) + 1 \in DOMAIN Append(o, k) /\ Append(o, k)[Len(o) + 1] = k
OBVIOUS

LEMMA InsertRowInv == ASSUME TableInv, insertRow PROVE TableInv'
<1> DEFINE h == Head(todo)
           k == IF h.key = NoKey THEN nextSyntheticKeyLocked ELSE h.key
           r2 == [rows EXCEPT ![k] = h.val]
<1>1. PlainTypes /\ IndexExact(rows, index) /\ FastExact(fast, rows) /\ Listed(rows, order) /\ TodoFresh
  BY DEF TableInv
<1>2. rows \in Rows /\ order \in Seq(Key) /\ dead \in Nat /\ autoKey \in Nat /\ todo \in Seq(InsertRow)
  BY <1>1, Zenon DEF PlainTypes
<1>3. /\ todo # <<>> /\ (h.key = NoKey => FreshKeys # {})
      /\ rows' = r2 /\ index' = Reindex({k}, rows, r2)
      /\ autoKey' = (IF h.key = NoKey THEN k + 1 ELSE autoKey)
      /\ todo' = Tail(todo) /\ keyless' = keyless /\ indexed' = indexed /\ dead' = dead /\ replace' = replace
  BY Zenon DEF insertRow
<1>4. \/ /\ replace /\ rows[k] # NoVal /\ fast' = replaceFastRowLocked(fast, k, r2[k]) /\ order' = order
      \/ /\ ~(replace /\ rows[k] # NoVal) /\ order' = Append(order, k)
         /\ fast' = appendFastRowLocked(fast, order', r2, k)
  BY ZenonT(40) DEF insertRow
<1>5. /\ h = todo[1] /\ h \in InsertRow /\ 1 \in DOMAIN todo
      /\ Tail(todo) \in Seq(InsertRow)
      /\ \A i \in DOMAIN Tail(todo) : i + 1 \in DOMAIN todo /\ i + 1 # 1 /\ i \in Int /\ Tail(todo)[i] = todo[i + 1]
  BY <1>2, <1>3, TailFacts
<1>6. h.val \in Values /\ h.val # NoVal /\ (h.key = NoKey \/ h.key \in PkKeys)
  BY <1>5, MarkerAssumption, ZenonT(40) DEF InsertRow
<1>7. k \in Key /\ (h.key = NoKey => k \in Nat /\ rows[k] = NoVal)
  BY <1>3, <1>6, FreshKey, BoundAssumption DEF Key, AutoKeys
<1>8. (h.key = NoKey <=> keyless) /\ (~replace /\ ~keyless => rows[h.key] = NoVal)
  BY <1>1, <1>5 DEF TodoFresh
<1>9. ~(replace /\ rows[k] # NoVal) => rows[k] = NoVal
  BY <1>7, <1>8
<1> HIDE DEF h, k
<1>10. r2 \in Rows /\ r2[k] = h.val /\ \A l \in Key : l # k => r2[l] = rows[l]
  BY <1>2, <1>6, <1>7 DEF Rows
<1>11. IndexExact(rows, index)'
  <2>1. {k} \in SUBSET Key /\ \A l \in Key \ {k} : rows'[l] = rows[l]
    BY <1>3, <1>7, <1>10
  <2> QED
    BY <1>3, <2>1, IndexKept, Zenon
<1>12. order' \in Seq(Key) /\ FastExact(fast', r2) /\ Listed(r2, order')
  <2>1. CASE /\ replace /\ rows[k] # NoVal /\ fast' = replaceFastRowLocked(fast, k, r2[k]) /\ order' = order
    <3>1. \A l \in Key : r2[l] = IF l = k THEN h.val ELSE rows[l]
      BY <1>7, <1>10
    <3>2. FastExact(replaceFastRowLocked(fast, k, h.val), r2)
      <4> HIDE DEF r2
      <4> QED
        BY <1>1, <1>2, <1>6, <1>7, <2>1, <3>1, ReplaceExact
    <3>3. Listed(r2, order)
      BY <1>1, <1>10, <2>1, Zenon DEF Listed
    <3> QED
      BY <1>2, <1>10, <2>1, <3>2, <3>3
  <2>2. CASE /\ ~(replace /\ rows[k] # NoVal) /\ order' = Append(order, k)
             /\ fast' = appendFastRowLocked(fast, order', r2, k)
    <3>1. /\ Append(order, k) \in Seq(Key)
          /\ \A i \in DOMAIN order : i \in DOMAIN Append(order, k) /\ Append(order, k)[i] = order[i]
          /\ Len(order) + 1 \in DOMAIN Append(order, k) /\ Append(order, k)[Len(order) + 1] = k
      BY <1>2, <1>7, AppendKey, ZenonT(40)
    <3>2. FastExact(appendFastRowLocked(fast, order', r2, k), r2)
      BY <1>1, <1>2, <1>6, <1>7, <1>9, <2>2, <3>1, AppendExact, Zenon
    <3>3. Listed(r2, Append(order, k))
      BY <1>1, <1>10, <3>1, Zenon DEF Listed
    <3> QED
      BY <2>2, <3>1, <3>2, <3>3
  <2> QED
    BY <1>4, <2>1, <2>2
<1>13. TodoFresh'
  <2>1. \A i \in DOMAIN todo' : todo'[i].key = NoKey <=> keyless'
    BY <1>1, <1>3, <1>5 DEF TodoFresh
  <2>2. ASSUME ~replace', ~keyless', NEW i \in DOMAIN todo'
        PROVE  rows'[todo'[i].key] = NoVal /\ \A j \in DOMAIN todo' : todo'[i].key = todo'[j].key => i = j
    <3>1. ~replace /\ ~keyless
      BY <1>3, <2>2
    <3>2. \A a \in DOMAIN todo : rows[todo[a].key] = NoVal /\ \A b \in DOMAIN todo : todo[a].key = todo[b].key => a = b
      BY <1>1, <3>1 DEF TodoFresh
    <3>3. i + 1 \in DOMAIN todo /\ i + 1 # 1 /\ i \in Int /\ todo'[i] = todo[i + 1]
      BY <1>3, <1>5, <2>2
    <3>4. k = h.key /\ h.key = todo[1].key
      BY <1>5, <1>8, <3>1 DEF k
    <3>5. todo[i + 1].key # k
      BY <1>5, <3>2, <3>3, <3>4, ZenonT(40)
    <3>6. todo[i + 1] \in InsertRow /\ todo[i + 1].key # NoKey
      BY <1>1, <1>2, <3>1, <3>3 DEF TodoFresh
    <3>7. todo[i + 1].key \in Key
      BY <3>6 DEF InsertRow, Key
    <3>8. rows'[todo'[i].key] = NoVal
      BY <1>3, <1>10, <3>2, <3>3, <3>5, <3>7
    <3>9. ASSUME NEW j \in DOMAIN todo', todo'[i].key = todo'[j].key PROVE i = j
      <4>1. j + 1 \in DOMAIN todo /\ j \in Int /\ todo'[j] = todo[j + 1]
        BY <1>3, <1>5, <3>9
      <4>2. i + 1 = j + 1
        BY <3>2, <3>3, <3>9, <4>1
      <4> QED
        BY <3>3, <4>1, <4>2
    <3> QED
      BY <3>8, <3>9
  <2> QED
    BY <2>1, <2>2 DEF TodoFresh
<1>14. autoKey' \in Nat
  BY <1>2, <1>3, <1>7
<1>15. PlainTypes'
  BY <1>1, <1>3, <1>5, <1>10, <1>12, <1>14 DEF PlainTypes
<1> QED
  BY <1>3, <1>11, <1>12, <1>13, <1>15 DEF TableInv

LEMMA DeleteKeyInv == ASSUME TableInv, NEW k \in Key, deleteKey(k) PROVE TableInv'
<1> DEFINE r2 == [rows EXCEPT ![k] = NoVal]
           f == removeFastRowLocked(fast, order, {k})
           compact == order # <<>> /\ (dead + 1) * 4 >= Len(order)
           o2 == IF compact THEN LiveKeys(order, r2) ELSE order
<1>1. PlainTypes /\ FastExact(fast, rows) /\ Listed(rows, order)
  BY DEF TableInv
<1>2. rows \in Rows /\ order \in Seq(Key) /\ dead \in Nat
  BY <1>1 DEF PlainTypes
<1>3. /\ todo = <<>> /\ rows' = r2 /\ index' = Reindex({k}, rows, rows')
      /\ keyless' = keyless /\ indexed' = indexed /\ autoKey' = autoKey /\ todo' = todo /\ replace' = replace
  BY DEF deleteKey, Idle
<1>4. /\ order' = o2
      /\ dead' = (IF compact \/ order = <<>> THEN 0 ELSE dead + 1)
      /\ fast' = reapFast(IF compact THEN rebuildIfFast(f, o2, r2) ELSE f, o2, r2)
  BY <1>3 DEF deleteKey
<1>5. dead' \in Nat
  BY <1>2, <1>4
<1>6. r2 \in Rows /\ r2[k] = NoVal /\ \A l \in Key : l # k => r2[l] = rows[l]
  BY <1>2 DEF Rows
<1>7. Listed(r2, order)
  BY <1>1, <1>6 DEF Listed
<1> HIDE DEF r2, f, compact
<1>8. o2 \in Seq(Key) /\ Listed(r2, o2)
  BY <1>2, <1>6, <1>7, LiveListed, Zenon
<1>9. {k} \in SUBSET Key /\ \A l \in Key \ {k} : r2[l] = rows[l]
  BY <1>6
<1>10. FastExact(f, r2)
  BY <1>1, <1>2, <1>6, <1>9, RemoveExact DEF f
<1> HIDE DEF o2
<1>11. FastExact(IF compact THEN rebuildIfFast(f, o2, r2) ELSE f, r2)
  BY <1>6, <1>8, <1>10, RebuildIfFastExact, Zenon
<1>12. FastExact(fast', r2)
  BY <1>4, <1>6, <1>8, <1>11, ReapExact, Zenon
<1>13. IndexExact(rows, index)'
  BY <1>3, <1>9, IndexKept, Zenon
<1>14. TodoFresh'
  BY <1>3, IdleFresh
<1>15. PlainTypes'
  BY <1>1, <1>3, <1>4, <1>5, <1>6, <1>8 DEF PlainTypes
<1> QED
  BY <1>3, <1>4, <1>8, <1>12, <1>13, <1>14, <1>15 DEF TableInv

\* The rows ks gone from the table.
LEMMA RowsWithout ==
    ASSUME NEW r \in Rows, NEW ks \in SUBSET Key, NEW r2, r2 = [k \in Key |-> IF k \in ks THEN NoVal ELSE r[k]]
    PROVE  r2 \in Rows /\ (\A l \in Key \ ks : r2[l] = r[l]) /\ (\A l \in Key : r2[l] # NoVal => r[l] # NoVal)
BY DEF Rows

LEMMA DeleteWhereInv == ASSUME TableInv, NEW w, deleteWhere(w) PROVE TableInv'
<1> DEFINE ks == {k \in Matching(w) : \E i \in DOMAIN order : order[i] = k}
<1>1. PlainTypes /\ FastExact(fast, rows) /\ Listed(rows, order)
  BY DEF TableInv
<1>2. rows \in Rows /\ order \in Seq(Key)
  BY <1>1, Zenon DEF PlainTypes
<1>3. /\ todo = <<>> /\ rows' = [k \in Key |-> IF k \in ks THEN NoVal ELSE rows[k]]
      /\ index' = Reindex(ks, rows, rows') /\ order' = LiveKeys(order, rows')
      /\ fast' = reapFast(removeFastRowLocked(fast, order, ks), order', rows') /\ dead' = 0
      /\ keyless' = keyless /\ indexed' = indexed /\ autoKey' = autoKey /\ todo' = todo /\ replace' = replace
  BY DEF deleteWhere, Idle
<1>4. ks \in SUBSET Key
  BY DEF Matching, Live
<1> HIDE DEF ks
<1>5. rows' \in Rows /\ (\A l \in Key \ ks : rows'[l] = rows[l]) /\ (\A l \in Key : rows'[l] # NoVal => rows[l] # NoVal)
  BY <1>2, <1>3, <1>4, RowsWithout
<1>6. Listed(rows', order)
  BY <1>1, <1>5 DEF Listed
<1>7. order' \in Seq(Key) /\ Listed(rows', order')
  BY <1>2, <1>3, <1>5, <1>6, LiveListed
<1>8. FastExact(removeFastRowLocked(fast, order, ks), rows')
  BY <1>1, <1>2, <1>4, <1>5, RemoveExact
<1>9. FastExact(fast', rows')
  BY <1>3, <1>5, <1>7, <1>8, ReapExact, ZenonT(40)
<1>10. IndexExact(rows, index)'
  BY <1>3, <1>4, <1>5, IndexKept, ZenonT(40)
<1>11. TodoFresh'
  BY <1>3, IdleFresh
<1>12. PlainTypes'
  BY <1>1, <1>3, <1>5, <1>7 DEF PlainTypes
<1> QED
  BY <1>7, <1>9, <1>10, <1>11, <1>12 DEF TableInv

\* A cancelled DELETE overwrites the front of Order with the keys it kept.
\* These are no more than it visited, so no unvisited key is overwritten.
LEMMA FrontOverwritten ==
    ASSUME NEW o \in Seq(Key), NEW r \in Rows, Listed(r, o), NEW c \in 0 .. Len(o)
    PROVE  LET remaining == LiveKeys(SubSeq(o, 1, c), r)
               o2 == [i \in DOMAIN o |-> IF i <= Len(remaining) THEN remaining[i] ELSE o[i]]
           IN  o2 \in Seq(Key) /\ Listed(r, o2)
<1> DEFINE front == SubSeq(o, 1, c)
           remaining == LiveKeys(front, r)
           o2 == [i \in DOMAIN o |-> IF i <= Len(remaining) THEN remaining[i] ELSE o[i]]
<1>1. Len(o) \in Nat /\ DOMAIN o = 1 .. Len(o) /\ c \in Nat /\ c <= Len(o) /\ \A i \in 1 .. Len(o) : o[i] \in Key
  OBVIOUS
<1>2. front \in Seq(Key) /\ Len(front) = c /\ \A i \in 1 .. c : front[i] = o[i]
  BY <1>1
<1> HIDE DEF front
<1>3. /\ remaining \in Seq(Key) /\ Len(remaining) <= Len(front)
      /\ \A i \in DOMAIN front : r[front[i]] # NoVal => \E n \in DOMAIN remaining : remaining[n] = front[i]
  BY <1>2, LiveKeysFacts, Zenon
<1> HIDE DEF remaining
<1>4. /\ Len(remaining) \in Nat /\ Len(remaining) <= c /\ DOMAIN remaining = 1 .. Len(remaining)
      /\ \A n \in 1 .. Len(remaining) : remaining[n] \in Key
  BY <1>2, <1>3
<1>5. DOMAIN front = 1 .. c
  BY <1>2
<1>6. \A i \in 1 .. Len(o) : (IF i <= Len(remaining) THEN remaining[i] ELSE o[i]) \in Key
  BY <1>1, <1>4
<1>7. o2 \in [1 .. Len(o) -> Key]
  BY <1>1, <1>6
<1>8. o2 \in Seq(Key)
  BY <1>1, <1>7
<1>9. \A i \in 1 .. Len(o) : o2[i] = IF i <= Len(remaining) THEN remaining[i] ELSE o[i]
  BY <1>1
<1>10. DOMAIN o2 = 1 .. Len(o)
  BY <1>1
<1> HIDE DEF o2
<1>11. ASSUME NEW k \in Key, r[k] # NoVal PROVE \E i \in DOMAIN o2 : o2[i] = k
  <2>1. PICK i \in 1 .. Len(o) : o[i] = k
    BY <1>1, <1>11 DEF Listed
  <2>2. CASE i <= c
    <3>1. i \in 1 .. c /\ front[i] = k
      BY <1>1, <1>2, <2>1, <2>2
    <3>2. PICK n \in 1 .. Len(remaining) : remaining[n] = k
      BY <1>3, <1>4, <1>5, <1>11, <3>1
    <3>3. n \in 1 .. Len(o) /\ n <= Len(remaining)
      BY <1>1, <1>4
    <3> QED
      BY <1>9, <1>10, <3>2, <3>3
  <2>3. CASE ~(i <= c)
    <3>1. ~(i <= Len(remaining))
      BY <1>1, <1>4, <2>3
    <3> QED
      BY <1>9, <1>10, <2>1, <3>1
  <2> QED
    BY <2>2, <2>3
<1>12. Listed(r, o2)
  BY <1>11 DEF Listed
<1> QED
  BY <1>8, <1>12 DEF o2, remaining, front

LEMMA DeleteWhereCancelledInv == ASSUME TableInv, NEW w, deleteWhereCancelled(w) PROVE TableInv'
<1>1. PlainTypes /\ FastExact(fast, rows) /\ Listed(rows, order)
  BY DEF TableInv
<1>2. rows \in Rows /\ order \in Seq(Key) /\ Len(order) \in Nat
  <2>1. rows \in Rows /\ order \in Seq(Key)
    BY <1>1, Zenon DEF PlainTypes
  <2> QED
    BY <2>1
<1>3. PICK c \in CutPoints(Len(order)) :
         LET ks == {k \in Matching(w) : \E i \in 1 .. c : order[i] = k}
             r2 == [k \in Key |-> IF k \in ks THEN NoVal ELSE rows[k]]
             remaining == LiveKeys(SubSeq(order, 1, c), r2)
         IN /\ rows' = r2
            /\ index' = Reindex(ks, rows, r2)
            /\ order' = [i \in DOMAIN order |-> IF i <= Len(remaining) THEN remaining[i] ELSE order[i]]
            /\ fast' = removeFastRowLocked(fast, order, ks)
  BY Zenon DEF deleteWhereCancelled
<1> DEFINE ks == {k \in Matching(w) : \E i \in 1 .. c : order[i] = k}
           remaining == LiveKeys(SubSeq(order, 1, c), rows')
<1>4. /\ rows' = [k \in Key |-> IF k \in ks THEN NoVal ELSE rows[k]]
      /\ index' = Reindex(ks, rows, rows')
      /\ order' = [i \in DOMAIN order |-> IF i <= Len(remaining) THEN remaining[i] ELSE order[i]]
      /\ fast' = removeFastRowLocked(fast, order, ks)
  BY <1>3, Zenon
<1>5. /\ todo = <<>> /\ dead' = dead
      /\ keyless' = keyless /\ indexed' = indexed /\ autoKey' = autoKey /\ todo' = todo /\ replace' = replace
  BY Zenon DEF deleteWhereCancelled, Idle
<1>6. c \in 0 .. Len(order)
  BY <1>2 DEF CutPoints
<1>7. ks \in SUBSET Key
  BY DEF Matching, Live
<1> HIDE DEF ks
<1>8. rows' \in Rows /\ (\A l \in Key \ ks : rows'[l] = rows[l]) /\ (\A l \in Key : rows'[l] # NoVal => rows[l] # NoVal)
  BY <1>2, <1>4, <1>7, RowsWithout, Zenon
<1>9. Listed(rows', order)
  BY <1>1, <1>8, ZenonT(40) DEF Listed
<1>10. order' \in Seq(Key) /\ Listed(rows', order')
  BY <1>2, <1>4, <1>6, <1>8, <1>9, FrontOverwritten, Zenon
<1>11. FastExact(fast', rows')
  BY <1>1, <1>2, <1>4, <1>7, <1>8, RemoveExact, Zenon
<1>12. IndexExact(rows, index)'
  BY <1>4, <1>5, <1>7, <1>8, IndexKept
<1>13. TodoFresh'
  BY <1>5, IdleFresh
<1>14. PlainTypes'
  BY <1>1, <1>5, <1>8, <1>10 DEF PlainTypes
<1> QED
  BY <1>10, <1>11, <1>12, <1>13, <1>14 DEF TableInv

LEMMA SetValueInv ==
    ASSUME TableInv, todo = <<>>, NEW ks \in SUBSET Live(rows), NEW x \in Values, SetValue(ks, x)
    PROVE  TableInv'
<1>1. PlainTypes /\ FastExact(fast, rows) /\ Listed(rows, order)
  BY ZenonT(40) DEF TableInv
<1>2. rows \in Rows /\ ks \in SUBSET Key /\ \A k \in ks : rows[k] # NoVal
  BY <1>1 DEF PlainTypes, Live
<1>3. /\ rows' = [k \in Key |-> IF k \in ks THEN x ELSE rows[k]]
      /\ index' = Reindex(ks, rows, rows') /\ fast' = updateFastRowLocked(fast, ks, x)
      /\ order' = order /\ dead' = dead
      /\ keyless' = keyless /\ indexed' = indexed /\ autoKey' = autoKey /\ todo' = todo /\ replace' = replace
  BY DEF SetValue
<1>4. rows' \in Rows /\ \A l \in Key : rows'[l] = IF l \in ks THEN x ELSE rows[l]
  BY <1>2, <1>3 DEF Rows
<1>5. Listed(rows', order)
  BY <1>1, <1>2, <1>4, ZenonT(40) DEF Listed
<1>6. FastExact(fast', rows')
  BY <1>1, <1>2, <1>3, <1>4, UpdateExact
<1>7. IndexExact(rows, index)'
  BY <1>2, <1>3, <1>4, IndexKept
<1>8. TodoFresh'
  BY <1>3, IdleFresh
<1>9. PlainTypes'
  BY <1>1, <1>3, <1>4 DEF PlainTypes
<1> QED
  BY <1>3, <1>5, <1>6, <1>7, <1>8, <1>9 DEF TableInv

\* The first position of a key of Order.
LEMMA FirstPosition ==
    ASSUME NEW o \in Seq(Key), NEW k \in Key, NEW i \in DOMAIN o, o[i] = k
    PROVE  \E n \in DOMAIN o : o[n] = k /\ \A j \in 1 .. n - 1 : o[j] # k
<1> DEFINE S == {j \in DOMAIN o : o[j] = k}
<1>1. Len(o) \in Nat /\ DOMAIN o = 1 .. Len(o)
  OBVIOUS
<1>2. S \in SUBSET Nat /\ S # {}
  BY <1>1
<1>3. \E n \in S : \A m \in S : n <= m
  <2> HIDE DEF S
  <2> QED
    BY <1>2, LeastExists
<1>4. PICK n \in S : \A m \in S : n <= m
  BY <1>3
<1>5. \A j \in 1 .. n - 1 : j \in 1 .. Len(o) /\ ~(n <= j)
  BY <1>1, <1>4
<1>6. \A j \in 1 .. n - 1 : o[j] # k
  BY <1>1, <1>4, <1>5
<1> QED
  BY <1>4, <1>6

LEMMA RekeyInv ==
    ASSUME TableInv, NEW old \in Key, NEW new \in PkKeys, rekeyPrimaryLocked(old, new)
    PROVE  TableInv'
<1> DEFINE first(i) == order[i] = old /\ \A j \in 1 .. i - 1 : order[j] # old
<1>1. PlainTypes /\ FastExact(fast, rows) /\ Listed(rows, order)
  BY DEF TableInv
<1>2. rows \in Rows /\ order \in Seq(Key) /\ Len(order) \in Nat /\ DOMAIN order = 1 .. Len(order)
  BY <1>1 DEF PlainTypes
<1>3. /\ todo = <<>> /\ rows[old] # NoVal /\ rows[new] = NoVal
      /\ rows' = [rows EXCEPT ![old] = NoVal, ![new] = rows[old]]
      /\ index' = Reindex({old, new}, rows, rows')
      /\ order' = [i \in DOMAIN order |-> IF first(i) THEN new ELSE order[i]]
      /\ fast' = rekeyFastRowLocked(fast, old, new) /\ dead' = dead
      /\ keyless' = keyless /\ indexed' = indexed /\ autoKey' = autoKey /\ todo' = todo /\ replace' = replace
  BY DEF rekeyPrimaryLocked, Idle
<1>4. new \in Key /\ new # old
  BY <1>3 DEF Key
<1>5. rows' \in Rows /\ \A l \in Key : rows'[l] = IF l = new THEN rows[old] ELSE IF l = old THEN NoVal ELSE rows[l]
  BY <1>2, <1>3, <1>4 DEF Rows
<1>6. FastExact(fast', rows')
  <2>1. rows[old] # NoVal /\ rows[new] = NoVal /\ fast' = rekeyFastRowLocked(fast, old, new)
    BY <1>3
  <2>2. \A l \in Key : rows'[l] = IF l = new THEN rows[old] ELSE IF l = old THEN NoVal ELSE rows[l]
    BY <1>5
  <2>3. FastExact(rekeyFastRowLocked(fast, old, new), rows')
    BY <1>1, <1>2, <1>4, <2>1, <2>2, RekeyExact
  <2> QED
    BY <2>1, <2>3
<1>7. IndexExact(rows, index)'
  <2>1. {old, new} \in SUBSET Key /\ \A l \in Key \ {old, new} : rows'[l] = rows[l]
    BY <1>4, <1>5
  <2> QED
    BY <1>3, <2>1, IndexKept, Zenon
<1>8. order' \in Seq(Key)
  <2>1. \A i \in 1 .. Len(order) : order[i] \in Key
    BY <1>2
  <2> HIDE DEF first
  <2>2. order' \in [1 .. Len(order) -> Key]
    BY <1>2, <1>3, <1>4, <2>1
  <2> QED
    BY <1>2, <2>2
<1>9. Listed(rows', order')
  <2>1. SUFFICES ASSUME NEW k \in Key, rows'[k] # NoVal PROVE \E i \in DOMAIN order' : order'[i] = k
    BY DEF Listed
  <2>2. DOMAIN order' = DOMAIN order /\ \A i \in DOMAIN order : order'[i] = IF first(i) THEN new ELSE order[i]
    BY <1>3
  <2>3. CASE k = new
    <3>1. PICK i \in DOMAIN order : order[i] = old
      BY <1>1, <1>3 DEF Listed
    <3>2. \E n \in DOMAIN order : first(n)
      BY <1>2, <3>1, FirstPosition, Zenon
    <3> HIDE DEF first
    <3> QED
      BY <2>2, <2>3, <3>2
  <2>4. CASE k # new
    <3>1. k # old /\ rows[k] # NoVal
      BY <1>5, <2>1, <2>4
    <3>2. PICK i \in DOMAIN order : order[i] = k
      BY <1>1, <3>1 DEF Listed
    <3>3. ~first(i)
      BY <3>1, <3>2
    <3> HIDE DEF first
    <3> QED
      BY <2>2, <3>2, <3>3
  <2> QED
    BY <2>3, <2>4
<1>10. TodoFresh'
  BY <1>3, IdleFresh
<1>11. PlainTypes'
  BY <1>1, <1>3, <1>5, <1>8 DEF PlainTypes
<1> QED
  BY <1>6, <1>7, <1>9, <1>10, <1>11 DEF TableInv

LEMMA SchemaInv ==
    ASSUME TableInv, createIndex \/ dropIndex \/ (\E d \in BOOLEAN : alterTable(d) \/ alterTableCancelled(d)) \/ truncate
    PROVE  TableInv'
<1>1. PlainTypes /\ FastExact(fast, rows) /\ Listed(rows, order) /\ IndexExact(rows, index)
  BY DEF TableInv
<1>2. rows \in Rows /\ order \in Seq(Key)
  BY <1>1 DEF PlainTypes
<1>3. TodoFresh'
  <2>1. todo = <<>> /\ todo' = todo
    BY DEF createIndex, dropIndex, alterTable, alterTableCancelled, truncate, Idle
  <2> QED
    BY <2>1, IdleFresh
<1>4. CASE createIndex
  <2>1. /\ rows' = rows /\ order' = order /\ fast' = fast
        /\ index' = IndexOf(rows) /\ indexed' = TRUE
    BY <1>4 DEF createIndex
  <2>2. IndexExact(rows, index)'
    BY <2>1 DEF IndexExact, IndexOf
  <2>3. PlainTypes'
    BY <1>1, <1>4 DEF PlainTypes, createIndex
  <2> QED
    BY <1>1, <1>3, <2>1, <2>2, <2>3 DEF TableInv
<1>5. CASE dropIndex
  <2>1. /\ rows' = rows /\ order' = order /\ fast' = fast
        /\ index' = NoIndex /\ indexed' = FALSE
    BY <1>5 DEF dropIndex
  <2>2. IndexExact(rows, index)'
    BY <2>1 DEF IndexExact, NoIndex
  <2>3. PlainTypes'
    BY <1>1, <1>5, Zenon DEF PlainTypes, dropIndex
  <2> QED
    BY <1>1, <1>3, <2>1, <2>2, <2>3 DEF TableInv
<1>6. ASSUME NEW d \in BOOLEAN, alterTable(d) \/ alterTableCancelled(d) PROVE TableInv'
  <2>1. /\ rows' = rows /\ order' = order /\ index' = index /\ indexed' = indexed
        /\ keyless' = (keyless \/ d)
        /\ dead' = dead /\ autoKey' = autoKey /\ todo' = todo /\ replace' = replace
    BY <1>6 DEF alterTable, alterTableCancelled
  <2>2. FastExact(fast', rows)
    <3>1. CASE alterTable(d)
      BY <1>1, <1>2, <3>1, RebuildIfFastExact, Zenon DEF alterTable
    <3>2. CASE alterTableCancelled(d)
      <4>1. PICK drop \in BOOLEAN : fast' = [fast EXCEPT !.old = @ \/ (drop /\ fast.rows # <<>>)]
        BY <3>2 DEF alterTableCancelled
      <4>2. fast \in FastType
        BY <1>1 DEF FastExact
      <4> DEFINE b == fast.old \/ (drop /\ fast.rows # <<>>)
      <4>3. b \in BOOLEAN /\ (fast.old => b)
        BY <4>2 DEF FastType
      <4>4. fast' = [fast EXCEPT !.old = b]
        BY <4>1
      <4> HIDE DEF b
      <4>5. fast' \in FastType /\ fast'.rows = fast.rows /\ fast'.pos = fast.pos /\ fast'.old = b
        BY <4>2, <4>3, <4>4 DEF FastType
      <4> QED
        BY <1>1, <4>3, <4>5 DEF FastExact, EntryOf
    <3> QED
      BY <1>6, <3>1, <3>2
  <2>3. keyless' \in BOOLEAN
    BY <2>1
  <2>4. PlainTypes'
    BY <1>1, <2>1, <2>3 DEF PlainTypes
  <2>5. IndexExact(rows, index)'
    BY <1>1, <2>1 DEF IndexExact
  <2> QED
    BY <1>1, <1>3, <2>1, <2>2, <2>4, <2>5 DEF TableInv
<1>7. CASE truncate
  <2>1. /\ rows' = [k \in Key |-> NoVal] /\ order' = <<>> /\ index' = NoIndex /\ fast' = NoFast
        /\ dead' = 0 /\ autoKey' = 0
        /\ keyless' = keyless /\ indexed' = indexed /\ todo' = todo /\ replace' = replace
    BY <1>7 DEF truncate
  <2>2. rows' \in Rows /\ order' \in Seq(Key)
    BY <2>1 DEF Rows
  <2>3. PlainTypes'
    BY <1>1, <2>1, <2>2 DEF PlainTypes
  <2>4. Listed(rows', order')
    BY <2>1 DEF Listed
  <2>5. IndexOf(rows') = NoIndex
    <3>1. \A x \in Values : {k \in Key : rows'[k] = x} = {}
      BY <2>1, MarkerAssumption
    <3> QED
      BY <3>1 DEF IndexOf, NoIndex
  <2>6. IndexExact(rows, index)'
    BY <2>1, <2>5, Zenon DEF IndexExact, NoIndex, IndexOf
  <2>7. FastExact(fast', rows')
    BY <2>1, NoFastExact
  <2> QED
    BY <1>3, <2>3, <2>4, <2>6, <2>7 DEF TableInv
<1> QED
  BY <1>4, <1>5, <1>6, <1>7

\* Restoring the snapshot lists every row again: the first position of a live
\* key is kept, and a row that was in no position is in the tail.
LEMMA RestoreInv == ASSUME TableInv, restore PROVE TableInv'
<1> DEFINE first == {i \in LivePositions(order, rows) : \A j \in 1 .. i - 1 : order[j] # order[i]}
           missing == Live(rows) \ {order[i] : i \in DOMAIN order}
           N == Cardinality(missing)
<1>1. PlainTypes /\ FastExact(fast, rows) /\ Listed(rows, order)
  BY DEF TableInv
<1>2. rows \in Rows /\ order \in Seq(Key)
  BY <1>1 DEF PlainTypes
<1>3. PICK tail \in [1 .. N -> missing] :
        (\A k \in missing : \E i \in DOMAIN tail : tail[i] = k) /\ order' = Keep(order, first) \o tail
  BY ZenonT(40) DEF restore
<1>4. /\ todo = <<>> /\ index' = (IF indexed THEN IndexOf(rows) ELSE NoIndex)
      /\ fast' = rebuildFastPathLocked(order', rows) /\ dead' = 0 /\ autoKey' = 0
      /\ rows' = rows /\ keyless' = keyless /\ indexed' = indexed /\ todo' = todo /\ replace' = replace
  BY DEF restore, Idle
<1>5. first \in SUBSET DOMAIN order
  BY DEF LivePositions
<1>6. missing \in SUBSET Key
  BY DEF Live
<1>7. N \in Nat
  <2>1. IsFiniteSet(missing)
    BY <1>6, KeyFinite, FS_Subset, Zenon
  <2> QED
    BY <2>1, FS_CardinalityType, Zenon
<1> HIDE DEF missing
<1>8. tail \in Seq(Key) /\ Len(tail) = N
  BY <1>6, <1>7
<1> DEFINE kept == Keep(order, first)
<1>9. /\ kept \in Seq(Key) /\ Len(kept) = Cardinality(first)
      /\ \A i \in first : \E n \in 1 .. Cardinality(first) : kept[n] = order[i]
  <2> HIDE DEF first
  <2> QED
    BY <1>2, <1>5, KeepFacts, Zenon
<1>10. \A k \in Key : rows[k] # NoVal => \E i \in first : order[i] = k
  <2>1. SUFFICES ASSUME NEW k \in Key, rows[k] # NoVal PROVE \E i \in first : order[i] = k
    OBVIOUS
  <2>2. PICK i \in DOMAIN order : order[i] = k
    BY <1>1, <2>1 DEF Listed
  <2>3. PICK n \in DOMAIN order : order[n] = k /\ \A j \in 1 .. n - 1 : order[j] # k
    BY <1>2, <2>2, FirstPosition
  <2>4. n \in first
    BY <2>1, <2>3 DEF LivePositions
  <2> QED
    BY <2>3, <2>4
<1> HIDE DEF first, kept
<1>11. order' = kept \o tail
  BY <1>3 DEF kept
<1>12. order' \in Seq(Key) /\ Len(kept) \in Nat /\ \A n \in 1 .. Len(kept) : n \in DOMAIN order' /\ order'[n] = kept[n]
  BY <1>8, <1>9, <1>11
<1>13. Listed(rows, order')
  <2>1. \A k \in Key : rows[k] # NoVal => \E n \in 1 .. Len(kept) : kept[n] = k
    BY <1>9, <1>10, Zenon
  <2> QED
    BY <1>12, <2>1 DEF Listed
<1>14. FastExact(fast', rows)
  BY <1>2, <1>4, <1>12, RebuildExact
<1>15. IndexExact(rows, index)'
  BY <1>4 DEF IndexExact
<1>16. TodoFresh'
  BY <1>4, IdleFresh, ZenonT(40)
<1>17. PlainTypes'
  BY <1>1, <1>4, <1>12, Zenon DEF PlainTypes
<1> QED
  BY <1>4, <1>13, <1>14, <1>15, <1>16, <1>17 DEF TableInv

LEMMA InvNext == TableInv /\ [Next]_vars => TableInv'
<1> SUFFICES ASSUME TableInv, [Next]_vars PROVE TableInv'
  OBVIOUS
<1>1. ASSUME NEW batch \in Batches, NEW orReplace \in BOOLEAN, insert(batch, orReplace) PROVE TableInv'
  BY <1>1, InsertInv
<1>2. CASE insertRow
  BY <1>2, InsertRowInv
<1>3. ASSUME NEW k \in Key, deleteKey(k) PROVE TableInv'
  BY <1>3, DeleteKeyInv
<1>4. ASSUME NEW w \in SUBSET Values, deleteWhere(w) \/ deleteWhereCancelled(w) PROVE TableInv'
  BY <1>4, DeleteWhereInv, DeleteWhereCancelledInv
<1>5. ASSUME NEW k \in Key, NEW x \in Values, updateKey(k, x) PROVE TableInv'
  <2>1. todo = <<>> /\ {k} \in SUBSET Live(rows) /\ SetValue({k}, x)
    BY <1>5 DEF updateKey, Idle, Live
  <2> QED
    BY <2>1, SetValueInv
<1>6. ASSUME NEW w \in SUBSET Values, NEW x \in Values, updateWhere(w, x) PROVE TableInv'
  <2>1. todo = <<>> /\ Matching(w) \in SUBSET Live(rows) /\ SetValue(Matching(w), x)
    BY <1>6, Zenon DEF updateWhere, Idle, Matching
  <2> QED
    BY <2>1, SetValueInv, Zenon
<1>7. ASSUME NEW w \in SUBSET Values, NEW x \in Values, updateWhereCancelled(w, x) PROVE TableInv'
  <2>1. PICK seen \in SUBSET Live(rows) : SetValue(Matching(w) \cap seen, x)
    BY <1>7, Zenon DEF updateWhereCancelled
  <2>2. todo = <<>> /\ Matching(w) \cap seen \in SUBSET Live(rows)
    BY <1>7 DEF updateWhereCancelled, Idle
  <2> QED
    BY <2>1, <2>2, SetValueInv
<1>7a. ASSUME NEW w \in SUBSET Values, NEW x \in Values, updateWherePanics(w, x) PROVE TableInv'
  <2>1. PICK seen \in SUBSET Matching(w) : SetValue(seen, x)
    BY <1>7a DEF updateWherePanics
  <2>2. todo = <<>> /\ seen \in SUBSET Live(rows)
    BY <1>7a DEF updateWherePanics, Idle, Matching
  <2> QED
    BY <2>1, <2>2, SetValueInv
<1>8. ASSUME NEW old \in Key, NEW new \in PkKeys, rekeyPrimaryLocked(old, new) PROVE TableInv'
  BY <1>8, RekeyInv
<1>9. CASE createIndex \/ dropIndex \/ (\E d \in BOOLEAN : alterTable(d) \/ alterTableCancelled(d)) \/ truncate
  BY <1>9, SchemaInv, Zenon
<1>10. CASE restore
  BY <1>10, RestoreInv
<1>11. CASE UNCHANGED vars
  BY <1>11, Zenon DEF vars, store, TableInv, PlainTypes, TodoFresh, IndexExact, FastExact, EntryOf, Listed
<1> QED
  BY <1>1, <1>2, <1>3, <1>4, <1>5, <1>6, <1>7, <1>7a, <1>8, <1>9, <1>10, <1>11, ZenonT(40) DEF Next

LEMMA TableInvariant == Spec => []TableInv
BY InvInit, InvNext, PTL DEF Spec

\* The parts of the Table struct keep their types, and fastPos never points
\* outside the array.
THEOREM TableTypeCorrect == Spec => []TypeOK
BY TableInvariant, InvTypeOK, PTL

\* For every table, threshold and workload, cancelled statements included:
\* lookups by primary key and by index return exactly the rows of Rows.
THEOREM LookupsAreExact == Spec => []PointReadsExact
BY TableInvariant, InvReads, PTL

\* For every table, threshold and workload, cancelled statements included:
\* Order lists every row at least once.
THEOREM OrderLosesNoRow == Spec => []NoRowLost
BY TableInvariant, InvListed, PTL
=============================================================================
