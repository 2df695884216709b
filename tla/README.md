# SuperDB in TLA+

A verification development of SuperDB, kept beside its code. It models the SQL
sessions and their write-ahead log, the storage of one table, and the cluster
nodes over Raft, checks them with TLC and proves the central invariants of
sessions and tables with TLAPS.

## The system

SuperDB is an in-memory SQL database (`internal/engine`) served over a local
protocol (`internal/server`), over the hosted SDB1 protocol (`internal/remote`)
and, replicated with Raft, as a cluster (`internal/cluster`). Durability is a
write-ahead log or a snapshot file (`internal/storage`).

| Part | State | Operations | Interacts with |
|---|---|---|---|
| Sessions | shared image, revision, `commitMu`, per-session clone and `txSQL` | statements, BEGIN, COMMIT, ROLLBACK, batches | engine, storage |
| Storage | `wal.spdb`, `snapshot.spdb` | append and fsync, encode and rename, load, replay, compact, backup, recover | sessions, start-up |
| Table | `Rows`, `Order`, `Indexes`, `fast`, `fastPos`, counters | INSERT, UPDATE, DELETE, ALTER, TRUNCATE, index DDL, snapshot decoding | SELECT |
| Limiter | connection and query slots | acquire with timeout, release | both servers |
| Hosted server | listener, connections, inflight requests | accept, dispatch, shutdown | sessions |
| Cluster node | Raft log, range directory, membership, transport pool | writes, reads, split, move, join, leave, heartbeat | engine |
| Client | pending requests, read loop | dial, round trip, close | hosted server |

What makes it hard: sessions interleave between a statement and its log record;
crashes and failing fsyncs hit the log between two steps; a query timeout stops
a scan in the middle; four redundant copies of a table (rows, order, index, fast
path) change together; commits are optimistic; cluster nodes act on copies of
the range directory of different age, and on leaders that no longer lead.

## Modules

| Module | Models |
|---|---|
| `Statements` | a statement's effect on a table image, its cancelled effects, log replay |
| `Sessions` | the session loop, transactions, persistence, crash and restart |
| `TxStore` | the abstract store: transactions that read and publish in one piece |
| `Table` | one table with its order, index and fast path |
| `Directory` | the range directory of a cluster node and the operations on it |
| `Cluster` | cluster nodes: start, join, writes, range operations, reads, apply, restart |
| `MCSessions`, `MCTable`, `MCCluster` | the instances TLC checks |
| `SessionsProofs`, `SessionsRefinement`, `SessionsDurability`, `TableProofs` | theorems |

`Sessions`. One step is what a session does between two points where another
session can see it: an engine call complete under `commitMu`, the row-budget
test of BEGIN, the clone, the revision test, the log write, the fsync, the
encoding of a snapshot, its rename, the publication. `ExecAuto`, `ExecTx`,
`BeginCheck`/`TakeClone`, `EndWithoutCommit`, `CommitCheck`/`Publish` are the
branches of `executeSQL` (`internal/server/server.go`) and of `execOne`
(`internal/remote/session.go`); `WalWrite`/`WalSync` are `WALWriter.Append`;
`SnapEncode`/`SnapRename` are `WriteSnapshot`. `origin`, `nextId`, `acked` and
the `unit` field of a record are history only.

`Table`. A statement is one step, as it holds `Table.mu` throughout; an INSERT
of several rows is one step per row, because each row consults the state the
previous one left. A row is its key and one further column `v`; a WHERE clause
is the set of values that satisfy it. `fast.old` says that a cancelled ALTER
left the positional map `columns` behind `Columns`.

`Cluster`. `fsm[n]` is the `ReplicatedState` of a node: its directory, the
statements its engine has run (as proposal numbers), and the applied index.
`execLocked`, `rangeLocked` and `applyCommitted` are the functions of `state.go`
with their names; `Directory` has those of `ranges.go`. A client call is a small
process: `Exec`, `ExecAtomic`, `Forward`, `SplitRange`, `MoveRange`, `Rebalance`
or `AssignTable` looks up the directory and picks the target, `Propose` is
`writeCommitted` or the forward handler at a leader, and `Respond`,
`LeadershipLost`, `NotLeader`, `RangeNotFound` and `CallLost` are the ways it
ends; `SplitTables` starts the second entry of a split. `ExecConsistent`,
`Barrier`, `ReadAfterBarrier` and `BarrierFails` are the linearizable read.
`Join`, `GenesisBarrier`, `ProposeGenesis`, `Started` and `StartFails` are
`Start`. Raft itself
(`Commit`, `Elect`, `StepDown`, and when `Apply` and `Install` happen) is
external and modelled by what hashicorp/raft guarantees: an entry commits in
order while a majority is up, a new leader keeps some prefix of the uncommitted
entries, and a call is told of success only by the leader that proposed it, in
its own term. The known leader's address is any leader there has been, which
includes every stale view. `acked`, `read` and `late` are history only.

## Runs

Passing:

| Run | Shows |
|---|---|
| `isolation` | `BaseIsCurrent`, and that the sessions implement `TxStore` (`Serializable`) |
| `recovery` | when writes go through transactions and atomic batches, replay rebuilds the database the sessions see |
| `snapshot` | the snapshot file is the published image once nothing is on its way to disk |
| `faults` | acknowledged writes are in the synced part of the log whatever writes fail, stop short or are not synced, and after timeouts and a crash; every request is answered. This is not that replay reaches them: a torn frame in front of them stops it |
| `storage` | the four copies of a table agree; garbage stays below a quarter of `Order` and a third of the fast array; insertion order is kept |
| `cancelled` | lookups stay exact and no row leaves `Order` through cancellations and key changes |
| `cluster` | nodes with the same applied index agree; splits at keys inside their ranges, computed from directories of different age, keep the partition of the keys; reads see what was acknowledged before them; acknowledged writes stay; batches are atomic |

Runs in which TLC finds the code departing from what the repository says of it:

| Run | What happens |
|---|---|
| `walorder` | two automatic commits are logged in the opposite order of execution |
| `torn` | a crash leaves part of an atomic batch in the log |
| `fastscan` | a row inserted after a scan DELETE is missing from scans |
| `latejoin` | a node that joins after a split replays the split over the seed's directory and keeps ranges nobody else has |
| `walrestart` | a cluster node in `wal` mode runs committed statements twice after a restart |

The models contain more behaviours of this kind, which the passing runs leave
out by their requests, faults or workload, or by a condition in the property:

- a COMMIT inside a batch is logged before the batch's earlier writes, and in
  snapshot mode the image of one automatic commit can be renamed over a newer
  one (`recovery` and `snapshot` send transactions and atomic batches only);
- a cancelled scan changes memory and neither the log nor the revision
  (`QueryTimeout` is FALSE in `isolation`, `recovery` and `snapshot`);
- a commit refused after a failed fsync or a short write is in the log and comes
  back after a restart, and the COMMIT a client repeats then logs it twice
  (`recovery` and `snapshot` have no such faults);
- BEGIN's clone may exceed the row budget, which is tested before the clone is
  taken;
- rows read through a fast path that a cancelled ALTER left with old column
  positions are NULL (`PointReadsExact` excepts `fast.old`);
- a key change onto the key of a tombstone, or a cancelled DELETE, lists a row
  twice in `Order` (`OrderExact` is checked in `storage` only, `NoRowLost` in
  `cancelled`);
- a scan DELETE can leave a quarter of the fast array and more as tombstones:
  `types.go` says they are reaped "once they reach a quarter of their slice", but
  the test in `delete.go` adds them to `len(fast)`, which counts them already, so
  that the rebuild comes at a third (the bound `GarbageBounded` states);
- `SplitRange` at a key outside the range, or at the empty key, commits ranges
  that overlap others (`RangesPartition` excepts logs with such a split);
- a joining node whose answer was lost fetches the directory again after it has
  begun to apply the log, and a node left with an empty directory this way
  commits a second genesis range (`Converged`, `RangesPartition` and
  `AckedWritesKept` except clusters with such a node, or one that joined after a
  split: `late`);
- a forwarded write that is retried after a leader change can run twice, as two
  entries;
- a split whose second entry does not commit leaves tables assigned to the
  removed range; `TableRange` then falls back to the lowest one.

Bounds. Two sessions suffice for every race of the session code, as its locks
are held by one session against any other; four requests allow a transaction, a
conflicting writer and a retry. `FastThreshold` (256 in the code) is 2 to 7 and
`TickEvery` (64) is 2, so that tables cross both with a handful of rows;
`MaxOrder` leaves room for tombstones to reach a quarter. Sessions and
primary keys that no statement tells apart are symmetric. The cluster run
starts from eight scenarios (`MCCluster`), each with the operations and bounds
of one kind of trouble: two or three nodes, the genesis entry and one or two
more (three where two nodes compete for the directory), one failover, a crash
and a Raft snapshot. Three nodes are the least with
a deposed leader that is not needed for the next election; two keys and two
entries are enough for two splits of one range. A third election would let a
leader that was deposed and re-elected between the barrier and the proposal of
`ensureGenesis` commit a second genesis range; this is outside the bounds. Split
keys come from the scenario and need not lie inside the range, as the code does
not test it: a second split at the same key has an empty child, and
`RangeRecovery` also splits at the empty key. `RangesPartition` speaks of logs
whose splits all lie between the bounds of their ranges; the other properties of
`cluster` do not depend on it. Deadlock checking is off because clients may stop
sending requests and the bounds end every run.

Fairness. `FairSpec` assumes weak fairness of each handler goroutine: the Go
scheduler runs a goroutine that can run, and `sync.Mutex` does not starve a
waiter. No fairness is assumed of clients, crashes or restarts.

## Proofs

| Theorem | Says |
|---|---|
| `TypeCorrect`, `TableTypeCorrect` | type correctness |
| `RevisionTestIsExact` | without query timeouts, an unchanged revision means an unchanged database |
| `SessionsSerializable` | without query timeouts, the sessions implement `TxStore` |
| `AcknowledgedWritesAreDurable` | an acknowledged write is in the synced log, whatever fails |
| `LookupsAreExact` | lookups by key and by index return exactly the stored rows |
| `OrderLosesNoRow` | every stored row is in `Order` |

They hold for all sets of sessions, keys and values and all workloads, under the
named ASSUMEs of the modules; those marked need `QueryTimeout = FALSE`, since a
cancelled scan changes the database under an unchanged revision.

`AckedDurable` is not inductive: the strengthening says that between a log write
and its fsync the session holds `walMu` and its writes are the last records, so
that `synced = Len(wal)` covers them. `BaseIsCurrent` needs that `base` never
exceeds `revision` and that the holder of `commitMu` passed the test. For the
table, `TableInv` says that the index files each row exactly under its value,
that each `fastPos` entry points to an array entry with its key and value (or
`Null` after a cancelled ALTER), and that each row occurs in `Order`.

Only model-checked: `RecoveryIsCurrent` (what replay computes needs induction
over the log), `OrderExact`, `FastSound`, `GarbageBounded`,
`InsertionOrderKept`, liveness, and all of `Cluster`.

## Not modelled, and the plan

SQL text, JSON and terminal I/O are left out: they carry no state. Next, in
order:

1. theorems about `Directory` and `Cluster`: convergence and the partition of
   the keys for any number of nodes and entries;
2. compaction, backup, restore and recover commands, with crashes;
3. membership, graceful leave and voter removal; admission control; hosted
   server lifecycle;
4. transport pool; Go client;
5. SELECT operators: index and top-K paths against a reference definition.

In the cluster, replica placement, leader hints, status and statistics are left
out: no replicated state depends on them. A node that fails in its first start
stays down, since its next start would run under another identity.
