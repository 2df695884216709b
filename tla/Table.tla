-------------------------------- MODULE Table --------------------------------
(***************************************************************************)
(* One table of the engine (internal/engine): the rows, the scan order     *)
(* with its tombstones, the secondary index, and the positional copy of    *)
(* the rows ("fast path") large tables are read from.  Every statement     *)
(* holds Table.mu from its first to its last change, so a statement is one *)
(* step; an INSERT of several rows is one step for each row, during which  *)
(* nothing else happens.                                                   *)
(*                                                                         *)
(* A row is its key and the value of one further column, v, the last one.  *)
(* A WHERE clause on v is the set of values that satisfy it.               *)
(***************************************************************************)
EXTENDS Integers, Sequences, FiniteSets

CONSTANTS
    PkKeys,         \* primary-key values
    MaxAuto,        \* bound on synthetic "#N" keys
    Values,         \* values of column v
    NoVal,          \* the value of a row that does not exist
    Null,           \* nil: what reading past the end of a fast row gives
    NoKey,          \* the key of a tombstone in fast (the code's "")
    FastThreshold,  \* fastPathThreshold, 256 in the code
    TickEvery,      \* rows between two cancellation checks, 64 in the code
    QueryTimeout,   \* TRUE when statements can be cancelled
    Workload,       \* the kinds of statement clients send
    MaxOrder        \* bound on the length of Order

\* nextSyntheticKeyLocked's keys.  A TEXT primary key may be spelled the same.
AutoKeys == 0 .. MaxAuto - 1
Key == PkKeys \cup AutoKeys

ASSUME FiniteAssumption == IsFiniteSet(PkKeys)
ASSUME MarkerAssumption == NoVal \notin Values /\ Null \notin Values \cup {NoVal} /\ NoKey \notin Key
ASSUME BoundAssumption ==
    /\ FastThreshold \in Nat \ {0} /\ TickEvery \in Nat \ {0} /\ QueryTimeout \in BOOLEAN
    /\ MaxAuto \in Nat /\ MaxOrder \in Nat

VARIABLES
    keyless,    \* the table has no primary key
    rows,       \* Rows: v of each row, NoVal when there is no such row
    order,      \* Order
    indexed,    \* an index on v exists
    index,      \* Indexes[v]: for each value the keys filed under it
    fast,       \* [rows: the array fast, pos: fastPos (0 is absent), dead: fastDead,
                \*  old: the column positions in columns are no longer those of Columns]
    dead,       \* dead
    autoKey,    \* autoKey
    todo,       \* rows of the INSERT in progress
    replace     \* that INSERT is INSERT OR REPLACE

store == <<keyless, rows, order, indexed, index, fast, dead, autoKey>>
vars == <<store, todo, replace>>

Live(r) == {k \in Key : r[k] # NoVal}
Matching(w) == {k \in Live(rows) : rows[k] \in w}
\* The n-th of the positions ps in increasing order, and the part of a sequence
\* at those positions.
Nth(ps, n) == CHOOSE i \in ps : Cardinality({j \in ps : j <= i}) = n
Keep(o, ps) == [n \in 1 .. Cardinality(ps) |-> o[Nth(ps, n)]]

LivePositions(o, r) == {i \in DOMAIN o : r[o[i]] # NoVal}

LiveKeysUnfiltered(o, r) == o
LiveKeysReversed(o, r) ==
    LET l == Keep(o, LivePositions(o, r)) IN [i \in DOMAIN l |-> l[Len(l) + 1 - i]]
LiveKeysButLast(o, r) ==
    LET l == Keep(o, LivePositions(o, r)) IN IF l = <<>> THEN l ELSE SubSeq(l, 1, Len(l) - 1)

\* The keys of Order that still have a row: what compactOrderLocked, INSERT and
\* a scan DELETE keep, and what a rebuild copies.
LiveKeys(o, r) == Keep(o, LivePositions(o, r))

-----------------------------------------------------------------------------
\* The secondary index.

ReindexRemoveOnly(ks, r, r2) ==
    IF indexed THEN [x \in Values |-> index[x] \ {k \in ks : r[k] = x}] ELSE index

\* removeIndexValue for the rows ks of table r, then addIndexValue for what
\* they are in table r2.
Reindex(ks, r, r2) ==
    IF indexed
    THEN [x \in Values |-> (index[x] \ {k \in ks : r[k] = x}) \cup {k \in ks : r2[k] = x}]
    ELSE index

IndexOf(r) == [x \in Values |-> {k \in Key : r[k] = x}]

NoIndex == [x \in Values |-> {}]

-----------------------------------------------------------------------------
\* The fast path.

NoFast == [rows |-> <<>>, pos |-> [k \in Key |-> 0], dead |-> 0, old |-> FALSE]

FastRow == [key : Key \cup {NoKey}, val : Values \cup {NoVal, Null}]
Tombstone == [key |-> NoKey, val |-> NoVal]

PosOfOffByOne(f) ==
    [k \in Key |-> IF \E i \in DOMAIN f : f[i].key = k THEN 1 + CHOOSE i \in DOMAIN f : f[i].key = k ELSE 0]

\* fastPos after a rebuild: the last entry for a key wins.
PosOf(f) ==
    [k \in Key |->
        IF \E i \in DOMAIN f : f[i].key = k
        THEN CHOOSE i \in DOMAIN f : f[i].key = k /\ \A j \in DOMAIN f : f[j].key = k => j <= i
        ELSE 0]

rebuildFastPathLocked(o, r) ==
    IF Len(o) < FastThreshold THEN NoFast
    ELSE LET live == LiveKeys(o, r)
             f == [i \in DOMAIN live |-> [key |-> live[i], val |-> r[live[i]]]]
         IN  [rows |-> f, pos |-> PosOf(f), dead |-> 0, old |-> FALSE]

\* What reads find as v in an entry laid out by Columns: after a column in
\* front of v is gone, columns[v] points past its end.
Laid(f, x) == IF f.old THEN Null ELSE x

appendFastRowLocked(f, o, r, k) ==
    IF Len(o) < FastThreshold THEN f
    ELSE IF f.rows = <<>> \/ Len(f.rows) + 1 # Len(o) THEN rebuildFastPathLocked(o, r)
    ELSE [f EXCEPT !.rows = Append(@, [key |-> k, val |-> Laid(f, r[k])]), !.pos[k] = Len(f.rows) + 1]

\* Called for every key of ks; order is not shortened before the last of them.
removeFastRowLocked(f, o, ks) ==
    IF f.rows = <<>> \/ ks = {} THEN f
    ELSE IF Len(o) < FastThreshold THEN NoFast
    ELSE [rows |-> [i \in DOMAIN f.rows |-> IF \E k \in ks : f.pos[k] = i THEN Tombstone ELSE f.rows[i]],
          pos  |-> [k \in Key |-> IF k \in ks THEN 0 ELSE f.pos[k]],
          dead |-> f.dead + Cardinality({k \in ks : f.pos[k] # 0}),
          old  |-> f.old]

replaceFastRowLocked(f, k, x) ==
    IF f.pos[k] = 0 THEN f ELSE [f EXCEPT !.rows[f.pos[k]].val = Laid(f, x)]

updateFastRowForgotten(f, ks, x) == f

\* Writing past the end of an entry panics and leaves it as it was.
updateFastRowLocked(f, ks, x) ==
    [f EXCEPT !.rows = [i \in DOMAIN f.rows |->
                          IF f.rows[i].val # Null /\ \E k \in ks : f.pos[k] = i
                          THEN [f.rows[i] EXCEPT !.val = x] ELSE f.rows[i]]]

\* The entries of these keys are too short for columns[v].
Short(f) == {k \in Key : f.pos[k] # 0 /\ f.rows[f.pos[k]].val = Null}

rekeyFastRowForgotten(f, old, new) == f

rekeyFastRowLocked(f, old, new) ==
    IF f.pos[old] = 0 THEN f
    ELSE [f EXCEPT !.rows[f.pos[old]].key = new, !.pos[old] = 0, !.pos[new] = f.pos[old]]

reapFastNever(f, o, r) == f

\* The rebuild at the end of DELETE.  The array still holds the tombstones, and
\* they are added to its length once more.
reapFast(f, o, r) ==
    IF f.rows # <<>> /\ f.dead * 4 >= Len(f.rows) + f.dead THEN rebuildFastPathLocked(o, r) ELSE f

\* The rebuild that follows a change of Order or of the columns.
rebuildIfFast(f, o, r) == IF f.rows # <<>> THEN rebuildFastPathLocked(o, r) ELSE f
-----------------------------------------------------------------------------
\* Statements.

Idle(kind) == todo = <<>> /\ kind \in Workload

\* applyInsertRows up to its second loop: duplicates are rejected (a rejected
\* INSERT changes nothing), then tombstones are reclaimed.
insert(batch, orReplace) ==
    /\ Idle(IF orReplace THEN "replace" ELSE "insert")
    /\ \A i \in DOMAIN batch : batch[i].key = NoKey <=> keyless
    /\ ~orReplace /\ ~keyless =>
         /\ \A i \in DOMAIN batch : rows[batch[i].key] = NoVal
         /\ \A i, j \in DOMAIN batch : batch[i].key = batch[j].key => i = j
    /\ Len(order) + Len(batch) <= MaxOrder
    /\ todo' = batch /\ replace' = orReplace
    /\ IF dead > 0
       THEN /\ order' = LiveKeys(order, rows)
            /\ dead' = 0
            /\ fast' = rebuildIfFast(fast, order', rows)
       ELSE UNCHANGED <<order, dead, fast>>
    /\ UNCHANGED <<keyless, rows, indexed, index, autoKey>>

\* nextSyntheticKeyLocked
FreshKeys == {n \in AutoKeys : n >= autoKey /\ rows[n] = NoVal}
nextSyntheticKeyLocked == CHOOSE n \in FreshKeys : \A m \in FreshKeys : n <= m

\* One round of the loop that applies the rows.
insertRow ==
    /\ todo # <<>>
    /\ Head(todo).key = NoKey => FreshKeys # {}
    /\ LET k == IF Head(todo).key = NoKey THEN nextSyntheticKeyLocked ELSE Head(todo).key
           r2 == [rows EXCEPT ![k] = Head(todo).val]
       IN /\ rows' = r2
          /\ index' = Reindex({k}, rows, r2)
          /\ autoKey' = IF Head(todo).key = NoKey THEN k + 1 ELSE autoKey
          /\ IF replace /\ rows[k] # NoVal
             THEN /\ fast' = replaceFastRowLocked(fast, k, r2[k])
                  /\ UNCHANGED order
             ELSE /\ order' = Append(order, k)
                  /\ fast' = appendFastRowLocked(fast, order', r2, k)
    /\ todo' = Tail(todo)
    /\ UNCHANGED <<keyless, indexed, dead, replace>>

\* DELETE ... WHERE pk = k: a tombstone stays in Order until a quarter of it is
\* garbage (compactOrderLocked).
deleteKey(k) ==
    /\ Idle("delete") /\ ~keyless /\ rows[k] # NoVal
    /\ rows' = [rows EXCEPT ![k] = NoVal]
    /\ index' = Reindex({k}, rows, rows')
    /\ LET f == removeFastRowLocked(fast, order, {k})
           compact == order # <<>> /\ (dead + 1) * 4 >= Len(order)
           o2 == IF compact THEN LiveKeys(order, rows') ELSE order
       IN /\ order' = o2
          /\ dead' = IF compact \/ order = <<>> THEN 0 ELSE dead + 1
          /\ fast' = reapFast(IF compact THEN rebuildIfFast(f, o2, rows') ELSE f, o2, rows')
    /\ UNCHANGED <<keyless, indexed, autoKey, todo, replace>>

\* DELETE over a scan of Order.
deleteWhere(w) ==
    /\ Idle("delete")
    /\ LET ks == {k \in Matching(w) : \E i \in DOMAIN order : order[i] = k} IN
         /\ rows' = [k \in Key |-> IF k \in ks THEN NoVal ELSE rows[k]]
         /\ index' = Reindex(ks, rows, rows')
         /\ order' = LiveKeys(order, rows')
         /\ fast' = reapFast(removeFastRowLocked(fast, order, ks), order', rows')
    /\ dead' = 0
    /\ UNCHANGED <<keyless, indexed, autoKey, todo, replace>>

\* rowTicker: cancellation is seen before the first row and before every
\* TickEvery-th, so this many rows of n may have been visited.
CutPoints(n) == {i \in 0 .. n - 1 : i = 0 \/ (i + 1) % TickEvery = 0}

\* The same scan cancelled after c keys.  The keys kept so far have been
\* written over the front of Order, which shares its array with remaining.
deleteWhereCancelled(w) ==
    /\ QueryTimeout /\ Idle("delete")
    /\ \E c \in CutPoints(Len(order)) :
         LET ks == {k \in Matching(w) : \E i \in 1 .. c : order[i] = k}
             r2 == [k \in Key |-> IF k \in ks THEN NoVal ELSE rows[k]]
             remaining == LiveKeys(SubSeq(order, 1, c), r2)
         IN /\ rows' = r2
            /\ index' = Reindex(ks, rows, r2)
            /\ order' = [i \in DOMAIN order |-> IF i <= Len(remaining) THEN remaining[i] ELSE order[i]]
            /\ fast' = removeFastRowLocked(fast, order, ks)
    /\ UNCHANGED <<keyless, indexed, dead, autoKey, todo, replace>>

\* SET v = x for the rows ks.
SetValue(ks, x) ==
    /\ rows' = [k \in Key |-> IF k \in ks THEN x ELSE rows[k]]
    /\ index' = Reindex(ks, rows, rows')
    /\ fast' = updateFastRowLocked(fast, ks, x)
    /\ UNCHANGED <<keyless, order, indexed, dead, autoKey, todo, replace>>

updateKey(k, x) == Idle("update") /\ ~keyless /\ rows[k] # NoVal /\ SetValue({k}, x)

updateWhere(w, x) == Idle("update") /\ Matching(w) \cap Short(fast) = {} /\ SetValue(Matching(w), x)

\* The scan panics at the first entry that is too short; the hosted server's
\* dispatch recovers and goes on.
updateWherePanics(w, x) ==
    /\ Idle("update")
    /\ \E seen \in SUBSET Matching(w) : Cardinality(seen \cap Short(fast)) = 1 /\ SetValue(seen, x)

\* Go visits the map Rows in any order.
updateWhereCancelled(w, x) ==
    /\ QueryTimeout /\ Idle("update")
    /\ \E seen \in SUBSET Live(rows) :
         /\ Cardinality(seen) \in CutPoints(Cardinality(Live(rows)))
         /\ Matching(w) \cap seen \cap Short(fast) = {}
         /\ SetValue(Matching(w) \cap seen, x)

\* SET pk = new for one row: rekeyPrimaryLocked, from an equality on the
\* primary key or from updatePrimaryMultiLocked when one row matches.
rekeyPrimaryLocked(old, new) ==
    /\ Idle("rekey") /\ ~keyless
    /\ rows[old] # NoVal /\ rows[new] = NoVal
    /\ rows' = [rows EXCEPT ![old] = NoVal, ![new] = rows[old]]
    /\ index' = Reindex({old, new}, rows, rows')
    /\ order' = [i \in DOMAIN order |->
                   IF order[i] = old /\ \A j \in 1 .. i - 1 : order[j] # old THEN new ELSE order[i]]
    /\ fast' = rekeyFastRowLocked(fast, old, new)
    /\ UNCHANGED <<keyless, indexed, dead, autoKey, todo, replace>>

-----------------------------------------------------------------------------
\* Schema changes, TRUNCATE and the snapshot.

createIndex ==
    /\ Idle("schema") /\ ~indexed
    /\ indexed' = TRUE /\ index' = IndexOf(rows)
    /\ UNCHANGED <<keyless, rows, order, fast, dead, autoKey, todo, replace>>

dropIndex ==
    /\ Idle("schema") /\ indexed
    /\ indexed' = FALSE /\ index' = NoIndex
    /\ UNCHANGED <<keyless, rows, order, fast, dead, autoKey, todo, replace>>

\* ALTER TABLE: a column other than v is added or dropped.  Dropping the
\* primary key makes the table keyless.
alterTable(dropPrimary) ==
    /\ Idle("schema")
    /\ dropPrimary => ~keyless
    /\ keyless' = (keyless \/ dropPrimary)
    /\ fast' = rebuildIfFast(fast, order, rows)
    /\ UNCHANGED <<rows, order, indexed, index, dead, autoKey, todo, replace>>

\* A cancelled ALTER has changed Columns and skips the rebuild.  When it was to
\* drop a column, the primary key or another one in front of v, columns keeps
\* the old positions.
alterTableCancelled(dropPrimary) ==
    /\ QueryTimeout /\ Idle("schema") /\ Live(rows) # {}
    /\ dropPrimary => ~keyless
    /\ keyless' = (keyless \/ dropPrimary)
    /\ \E drop \in BOOLEAN :
         /\ dropPrimary => drop
         /\ fast' = [fast EXCEPT !.old = @ \/ (drop /\ fast.rows # <<>>)]
    /\ UNCHANGED <<rows, order, indexed, index, dead, autoKey, todo, replace>>

truncate ==
    /\ Idle("truncate")
    /\ rows' = [k \in Key |-> NoVal] /\ order' = <<>> /\ index' = NoIndex
    /\ fast' = NoFast /\ dead' = 0 /\ autoKey' = 0
    /\ UNCHANGED <<keyless, indexed, todo, replace>>

\* UnmarshalJSON of the table's own snapshot: Order without stale and repeated
\* keys, then rows missing from it in any order; the index and the fast path
\* built anew; the counters, which are not stored, at zero.
restore ==
    /\ Idle("restore")
    /\ LET first == {i \in LivePositions(order, rows) : \A j \in 1 .. i - 1 : order[j] # order[i]}
           missing == Live(rows) \ {order[i] : i \in DOMAIN order}
       IN \E tail \in [1 .. Cardinality(missing) -> missing] :
            /\ \A k \in missing : \E i \in DOMAIN tail : tail[i] = k
            /\ order' = Keep(order, first) \o tail
    /\ index' = IF indexed THEN IndexOf(rows) ELSE NoIndex
    /\ fast' = rebuildFastPathLocked(order', rows)
    /\ dead' = 0 /\ autoKey' = 0
    /\ UNCHANGED <<keyless, rows, indexed, todo, replace>>

-----------------------------------------------------------------------------

Init ==
    /\ keyless \in BOOLEAN
    /\ rows = [k \in Key |-> NoVal] /\ order = <<>>
    /\ indexed = FALSE /\ index = NoIndex
    /\ fast = NoFast /\ dead = 0 /\ autoKey = 0
    /\ todo = <<>> /\ replace = FALSE

\* Rows an INSERT may carry, at most two of them.
InsertRow == [key : PkKeys \cup {NoKey}, val : Values]
Batches == {<<a>> : a \in InsertRow} \cup {<<a, b>> : a, b \in InsertRow}

Next ==
    \/ \E batch \in Batches, orReplace \in BOOLEAN : insert(batch, orReplace)
    \/ insertRow
    \/ \E k \in Key : deleteKey(k)
    \/ \E w \in SUBSET Values : deleteWhere(w) \/ deleteWhereCancelled(w)
    \/ \E k \in Key, x \in Values : updateKey(k, x)
    \/ \E w \in SUBSET Values, x \in Values : updateWhere(w, x) \/ updateWhereCancelled(w, x) \/ updateWherePanics(w, x)
    \/ \E old \in Key, new \in PkKeys : rekeyPrimaryLocked(old, new)
    \/ createIndex \/ dropIndex
    \/ \E dropPrimary \in BOOLEAN : alterTable(dropPrimary) \/ alterTableCancelled(dropPrimary)
    \/ truncate
    \/ restore

Spec == Init /\ [][Next]_vars

-----------------------------------------------------------------------------
\* Reads (selectRows).

\* WHERE pk = k: through fastPos when the key is there.
ReadKey(k) ==
    IF fast.pos[k] # 0
    THEN IF fast.pos[k] <= Len(fast.rows) /\ fast.rows[fast.pos[k]].key # NoKey
         THEN fast.rows[fast.pos[k]].val ELSE NoVal
    ELSE rows[k]

\* WHERE v = x through the index; candidates are verified.
ReadIndex(x) ==
    {k \in index[x] : IF fast.pos[k] # 0 /\ fast.rows[fast.pos[k]].key # NoKey
                      THEN fast.rows[fast.pos[k]].val = x ELSE rows[k] = x}

\* A scan without ORDER BY: the fast path when there is one, else Order.
ReadAll ==
    IF fast.rows # <<>>
    THEN SelectSeq(fast.rows, LAMBDA e : e.key # NoKey)
    ELSE LET live == LiveKeys(order, rows) IN [i \in DOMAIN live |-> [key |-> live[i], val |-> rows[live[i]]]]

Times(k) == Cardinality({i \in DOMAIN order : order[i] = k})

-----------------------------------------------------------------------------
\* Properties.

\* The parts of the Table struct keep their types; every position in fastPos
\* is one of the array.
TypeOK ==
    /\ keyless \in BOOLEAN /\ indexed \in BOOLEAN /\ replace \in BOOLEAN
    /\ rows \in [Key -> Values \cup {NoVal}]
    /\ order \in Seq(Key)
    /\ index \in [Values -> SUBSET Key]
    /\ fast \in [rows : Seq(FastRow), pos : [Key -> Nat], dead : Nat, old : BOOLEAN]
    /\ \A k \in Key : fast.pos[k] <= Len(fast.rows)
    /\ dead \in Nat /\ autoKey \in Nat
    /\ todo \in Seq(InsertRow)

\* A lookup by primary key through fastPos, and a lookup through the index
\* verified against the fast path, return exactly the rows of Rows.
PointReads ==
    /\ \A k \in Key : ReadKey(k) = rows[k]
    /\ indexed => \A x \in Values : ReadIndex(x) = {k \in Key : rows[k] = x}

\* Point reads never lie, after any statements and wherever they were
\* cancelled, but for an ALTER cancelled since fast was last rebuilt.
PointReadsExact == fast.old \/ PointReads

\* A scan over Order misses no row, even after a cancelled DELETE has
\* overwritten the front of Order or a row has changed its key.
NoRowLost == \A k \in Live(rows) : Times(k) >= 1

\* Order holds every row once, and dead is the number of its tombstones: what
\* INSERT relies on when it reclaims only if dead > 0.
OrderExact ==
    /\ \A k \in Live(rows) : Times(k) = 1
    /\ dead = Cardinality({i \in DOMAIN order : rows[order[i]] = NoVal})

\* What the fast path shows is current: no deleted row, no old value, no row
\* twice.
FastSound ==
    \A i \in DOMAIN fast.rows :
        LET e == fast.rows[i] IN e.key # NoKey => rows[e.key] = e.val /\ fast.pos[e.key] = i

Garbage == Cardinality({i \in DOMAIN order : rows[order[i]] = NoVal})
FastGarbage == Cardinality({i \in DOMAIN fast.rows : fast.rows[i].key = NoKey})

\* Whatever the order of inserts, deletes, updates and restores, the keys in
\* Order without a row stay below a quarter of it, and the tombstones in the
\* fast array below a third of it: counted in the slices, not by the counters
\* that trigger the rebuilds.  (types.go speaks of a quarter for both; DELETE adds
\* the tombstones to a length that counts them already.)
GarbageBounded ==
    /\ Garbage > 0 => Garbage * 4 < Len(order)
    /\ FastGarbage > 0 => FastGarbage * 3 < Len(fast.rows)

\* A scan returns every row of the table once, with its current values ("the
\* fast array stays aligned").
ScanExact ==
    todo = <<>> =>
        /\ Len(ReadAll) = Cardinality(Live(rows))
        /\ \A k \in Live(rows) : \E i \in DOMAIN ReadAll : ReadAll[i] = [key |-> k, val |-> rows[k]]

Before(o, k, l) == \E i, j \in DOMAIN o : i < j /\ o[i] = k /\ o[j] = l

\* Tables "preserve insertion order": no statement, compaction or restore
\* exchanges two rows that both survive it.
InsertionOrderKept ==
    [][\A k, l \in Live(rows) \cap Live(rows') : Before(order, k, l) => Before(order', k, l)]_vars
=============================================================================
