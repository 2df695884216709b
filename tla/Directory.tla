----------------------------- MODULE Directory -----------------------------
(***************************************************************************)
(* The range directory of a cluster node (internal/cluster/ranges.go) and  *)
(* the operations on it (internal/cluster/fsm.go, node.go).  Ranges divide *)
(* the keyspace 0 .. MaxKey; tables are assigned to ranges.  Where a range *)
(* is served (Replicas, Leader) is left out: nothing that is replicated    *)
(* depends on it.                                                          *)
(***************************************************************************)
EXTENDS Integers, Sequences, FiniteSets, SequencesExt

CONSTANTS
    Tables,     \* table names
    MaxKey      \* keys are 0 .. MaxKey

ASSUME KeyAssumption == MaxKey \in Nat

Keys == 0 .. MaxKey
\* StartKey "" is 0; EndKey "" (unbounded) is MaxKey + 1.
RangeType == [start : Keys, end : 1 .. MaxKey + 1, gen : Nat]
Whole == [start |-> 0, end |-> MaxKey + 1, gen |-> 1]

\* A RangeStore: the map ranges from ids to ranges, the map assign (0: not
\* there) and nextID.
NewRangeStore == [ranges |-> <<>>, assign |-> [t \in Tables |-> 0], nextID |-> 1]

IDs(d) == DOMAIN d.ranges

Holds(r, key) == r.start <= key /\ key < r.end

\* Unassigned tables, and tables whose range is gone, fall back to the range of
\* lowest id; 0 when there is none (the zero Range).
TableRange(d, t) ==
    IF d.assign[t] \in IDs(d) THEN d.assign[t]
    ELSE IF IDs(d) = {} THEN 0 ELSE Min(IDs(d))

Bind(f, id, r) == [i \in DOMAIN f \cup {id} |-> IF i = id THEN r ELSE f[i]]

\* Putting the range e.range under the id e.id, or under a new one for id 0.
PutRange(d, e) ==
    LET id == IF e.id = 0 THEN d.nextID ELSE e.id IN
    [d EXCEPT !.ranges = Bind(d.ranges, id, e.range), !.nextID = IF id >= @ THEN id + 1 ELSE @]

FencedIfPresent(d, op) == \A id \in DOMAIN op.base : id \in IDs(d) => d.ranges[id].gen = op.base[id]

\* BaseGenerations: every range the proposer started from is still there, in
\* the generation it saw.
Fenced(d, op) == \A id \in DOMAIN op.base : id \in IDs(d) /\ d.ranges[id].gen = op.base[id]

\* applyOpLocked, after the fence: Remove, then Ranges, then Assign.
applyOp(d, op) ==
    LET removed == [d EXCEPT !.ranges = [id \in IDs(d) \ op.remove |-> d.ranges[id]]]
        put == FoldLeft(PutRange, removed, op.put)
    IN  [put EXCEPT !.assign = [t \in Tables |-> IF t \in DOMAIN op.assign THEN op.assign[t] ELSE @[t]]]

NextAfterReused(ranges) == Max({0} \cup DOMAIN ranges)

\* The id after the largest one in use.
NextAfter(ranges) == Max({0} \cup DOMAIN ranges) + 1

\* ReplaceBulk: the directory a seed reports; assign is left alone.
ReplaceBulk(d, ranges) == [d EXCEPT !.ranges = ranges, !.nextID = NextAfter(ranges)]

restoreForgetsAssign(img) == ReplaceBulk(NewRangeStore, img.ranges)

\* restoreLocked from a snapshot image.
restore(img) == [img EXCEPT !.nextID = Max({@, NextAfter(img.ranges)})]

-----------------------------------------------------------------------------
\* The operations a node computes from its own copy of the directory.

NoAssign == [t \in {} |-> 0]
Generations(d, ids) == [id \in ids |-> d.ranges[id].gen]
Moved(r) == [r EXCEPT !.gen = @ + 1]

\* ensureGenesis
GenesisOp == [base |-> <<>>, remove |-> {}, put |-> <<[id |-> 1, range |-> Whole]>>, assign |-> NoAssign]

\* A key as an EndKey: "" is unbounded there.
EndAt(key) == IF key = 0 THEN MaxKey + 1 ELSE key

\* SplitRange's first entry: the parent goes, two children come.  The key is not
\* compared with the bounds of the range.
SplitOp(d, id, key) ==
    LET r == Moved(d.ranges[id]) IN
    [base |-> Generations(d, {id}), remove |-> {id}, assign |-> NoAssign,
     put |-> <<[id |-> 0, range |-> [r EXCEPT !.end = EndAt(key)]], [id |-> 0, range |-> [r EXCEPT !.start = key]]>>]

\* Whether an operation is no split, or one at a key between the bounds of its
\* range: then the children lie side by side.
SplitsInside(op) ==
    op.remove # {} =>
        LET left == op.put[1].range
            right == op.put[2].range
        IN  left.start <= left.end /\ left.end = right.start /\ right.start <= right.end

\* MoveRange (one range) and Rebalance (the ranges that are not served by the
\* current voters and leader).
MoveOp(d, ids) ==
    [base |-> Generations(d, ids), remove |-> {}, assign |-> NoAssign,
     put |-> [i \in 1 .. Cardinality(ids) |->
                LET id == SetToSortSeq(ids, <)[i] IN [id |-> id, range |-> Moved(d.ranges[id])]]]

\* AssignTable, and SplitRange's second entry.
AssignOp(d, assign, ids) == [base |-> Generations(d, ids), remove |-> {}, put |-> <<>>, assign |-> assign]

\* childrenOf
ChildrenOf(d, key) == {id \in IDs(d) : d.ranges[id].end = EndAt(key) \/ d.ranges[id].start = key}

\* The tables SplitRange assigns once the children have ids: leftTables to the
\* first child, those that were assigned to the parent to the second.
SplitAssign(d, parent, key, leftTables) ==
    LET ids == ChildrenOf(d, key)
        onParent == {t \in Tables : d.assign[t] = parent}
    IN  AssignOp(d, [t \in leftTables \cup onParent |-> IF t \in leftTables THEN Min(ids) ELSE Max(ids)], ids)
=============================================================================
