------------------------------ MODULE Sessions ------------------------------
(***************************************************************************)
(* The sessions of one SuperDB server over one shared database: automatic  *)
(* commit, session transactions (BEGIN/COMMIT/ROLLBACK on a private        *)
(* clone), plain and atomic batches, the optimistic revision check, and    *)
(* the write-ahead log or snapshot file every change has to reach.  A      *)
(* session is one connection handler goroutine (internal/server/server.go; *)
(* the hosted server's internal/remote/session.go runs the same code       *)
(* without batches).                                                       *)
(*                                                                         *)
(* A step is what a session does between two points where another session  *)
(* can be observed: one engine call under commitMu, one file operation.    *)
(***************************************************************************)
EXTENDS Statements

CONSTANTS
    Sessions,           \* connection handlers
    Free,               \* the holder of a mutex nobody holds
    Torn,               \* an incomplete WAL frame
    Mode,               \* "memory", "wal" or "snapshot"
    Requests,           \* what clients may send: [kind |-> ..., cmds |-> ...]
    MaxTxStatements,    \* Limits.MaxTxStatements, 0 is unlimited
    MaxTxDatabaseRows,  \* Limits.MaxTxDatabaseRows, 0 is unlimited
    QueryTimeout,       \* TRUE when Limits.QueryTimeout > 0
    Faults,             \* file operations that may fail: "write", "torn", "sync"
    MaxRequests,        \* bound on the number of requests
    MaxCrashes          \* bound on the number of crashes

Begin    == [op |-> "BEGIN"]
Commit   == [op |-> "COMMIT"]
Rollback == [op |-> "ROLLBACK"]
Command  == Statement \cup {Begin, Commit, Rollback}

\* "sql": one statement; "batch": {"sqls": [...]}; "atomic": the same with
\* "atomic": true, where every entry is executed as a plain statement.
Request == [kind : {"sql", "batch", "atomic"}, cmds : Seq(Command)]

ASSUME FreeAssumption == Free \notin Sessions
ASSUME TornAssumption == Torn \notin Statement
ASSUME ModeAssumption == Mode \in {"memory", "wal", "snapshot"}
ASSUME RequestsAssumption ==
    /\ \A r \in Requests : /\ r \in Request
                           /\ Len(r.cmds) > 0
                           /\ r.kind = "sql" => Len(r.cmds) = 1
                           /\ r.kind = "atomic" => \A i \in DOMAIN r.cmds : r.cmds[i] \in Statement
ASSUME LimitsAssumption ==
    /\ MaxTxStatements \in Nat /\ MaxTxDatabaseRows \in Nat
    /\ MaxRequests \in Nat /\ MaxCrashes \in Nat
    /\ QueryTimeout \in BOOLEAN
    /\ Faults \subseteq {"write", "torn", "sync"}

VARIABLES
    running,    \* the server process is up
    db,         \* Database.Tables, the shared image
    revision,   \* Database.revision
    commitMu,   \* the session inside CommitFrom (it also holds the gate), or Free
    pc,         \* where each session is
    kind,       \* kind of the request a session is serving
    queue,      \* commands of that request not yet executed
    tx,         \* "none", "session" (BEGIN) or "atomic" (batch clone)
    clone,      \* session.tx: the private image
    origin,     \* the image the clone was taken from (history variable)
    base,       \* Database.baseRevision of the clone
    txSQL,      \* writes executed on the clone
    pending,    \* writes executed on db and not yet persisted
    snapBuf,    \* the encoded image a session is about to rename into place
    snap,       \* snapshot.spdb
    wal,        \* wal.spdb: the records written
    synced,     \* how many of them an fsync has covered
    walMu,      \* WALWriter.mu
    nextId,     \* number of writes executed so far (history variable)
    acked,      \* ids of writes reported durable (history variable)
    requests,   \* requests submitted so far
    crashes     \* crashes so far

memory == <<db, revision, commitMu>>
session == <<pc, kind, queue, tx, clone, origin, base, txSQL, pending>>
disk == <<snap, wal, synced>>
history == <<nextId, acked>>
vars == <<running, memory, session, snapBuf, disk, walMu, history, requests, crashes>>

\* A write on its way to disk.  In the log it also carries the ids of the
\* writes that belong to the same transaction.
Write == [id : Nat, stmt : Statement]
Record == [id : Nat, stmt : Statement \cup {Torn}, unit : SUBSET Nat]

PCs == {"idle", "run", "clone", "commit", "persist", "sync", "rename", "publish"}

Ids(seq) == {seq[i].id : i \in DOMAIN seq}

-----------------------------------------------------------------------------
\* The request loop.

NoTx(s) ==
    /\ tx' = [tx EXCEPT ![s] = "none"]
    /\ txSQL' = [txSQL EXCEPT ![s] = <<>>]

\* executeRequest after the head of the queue: the next command runs; after
\* the last one a batch persists what it collected, an atomic batch goes on to
\* CommitFrom, and a single statement's response is sent.
Advance(s) ==
    /\ queue' = [queue EXCEPT ![s] = Tail(@)]
    /\ pc' = [pc EXCEPT ![s] = IF Len(queue[s]) > 1 THEN "run"
                               ELSE IF kind[s] = "batch" THEN "persist"
                               ELSE IF kind[s] = "atomic" THEN "commit" ELSE "idle"]

\* The response is sent, whatever is left of the request.
Respond(s) ==
    /\ queue' = [queue EXCEPT ![s] = <<>>]
    /\ pc' = [pc EXCEPT ![s] = "idle"]
    /\ pending' = [pending EXCEPT ![s] = <<>>]

\* A client sends a request.  An atomic batch is refused inside a transaction.
Submit(s, r) ==
    /\ running /\ pc[s] = "idle" /\ requests < MaxRequests
    /\ requests' = requests + 1
    /\ IF r.kind = "atomic" /\ tx[s] # "none" THEN UNCHANGED <<kind, queue, pc>>
       ELSE /\ kind' = [kind EXCEPT ![s] = r.kind]
            /\ queue' = [queue EXCEPT ![s] = r.cmds]
            /\ pc' = [pc EXCEPT ![s] = IF r.kind = "atomic" THEN "clone" ELSE "run"]
    /\ UNCHANGED <<running, memory, tx, clone, origin, base, txSQL, pending, snapBuf, disk, walMu,
                   history, crashes>>

\* The connection ends between two requests: the handler returns and the
\* session is dropped, with its clone.
Disconnect(s) ==
    /\ pc[s] = "idle" /\ tx[s] # "none"
    /\ NoTx(s)
    /\ UNCHANGED <<running, memory, pc, kind, queue, clone, origin, base, pending, snapBuf, disk, walMu,
                   history, requests, crashes>>

-----------------------------------------------------------------------------
\* Statements.

Runs(s, cmds) == pc[s] = "run" /\ queue[s] # <<>> /\ Head(queue[s]) \in cmds

\* executeSQL recognises BEGIN, COMMIT and ROLLBACK; executeAtomicBatch does not.
RunsControl(s, cmd) == kind[s] # "atomic" /\ Runs(s, {cmd})

NewRevisionMissing == revision

\* revision.Add(1) after every successful write and every publish.
NewRevision == revision + 1

\* executeSQL outside a transaction: ExecWithOptions on the shared database,
\* complete under commitMu and the gate; a write then goes to persistence with
\* no lock held, or in a batch joins pendingPersist.
ExecAuto(s) ==
    /\ Runs(s, Statement) /\ tx[s] = "none" /\ commitMu = Free
    /\ LET st == Head(queue[s]) IN
         \/ /\ Accepts(st, db) /\ IsWrite(st)
            /\ db' = Effect(st, db)
            /\ revision' = NewRevision
            /\ nextId' = nextId + 1
            /\ pending' = [pending EXCEPT ![s] = Append(@, [id |-> nextId, stmt |-> st])]
            /\ IF kind[s] = "batch" THEN Advance(s)
               ELSE /\ queue' = [queue EXCEPT ![s] = Tail(@)]
                    /\ pc' = [pc EXCEPT ![s] = "persist"]
         \/ /\ ~ (Accepts(st, db) /\ IsWrite(st))
            /\ Advance(s)
            /\ UNCHANGED <<db, revision, nextId, pending>>
    /\ UNCHANGED <<running, commitMu, kind, tx, clone, origin, base, txSQL, snapBuf, disk, walMu,
                   acked, requests, crashes>>

\* The same call cut short by the query timeout: an error, no new revision, no
\* log record, and whatever the scan had already changed.
ExecAutoTimeout(s) ==
    /\ QueryTimeout
    /\ Runs(s, Statement) /\ tx[s] = "none" /\ commitMu = Free
    /\ db' \in CutShort(Head(queue[s]), db)
    /\ Advance(s)
    /\ UNCHANGED <<running, revision, commitMu, kind, tx, clone, origin, base, txSQL, pending, snapBuf,
                   disk, walMu, history, requests, crashes>>

\* A failed statement leaves a session transaction open and ends an atomic
\* batch, clone and all.
TxStatementFails(s) ==
    IF tx[s] = "atomic" THEN NoTx(s) /\ Respond(s)
    ELSE Advance(s) /\ UNCHANGED <<tx, txSQL, pending>>

\* executeSQL inside a transaction, and the loop of executeAtomicBatch: the
\* statement runs on the clone, which no other session sees.  A session
\* transaction at its statement limit is aborted after the statement ran.
ExecTx(s) ==
    /\ Runs(s, Statement) /\ tx[s] # "none"
    /\ LET st == Head(queue[s])
           full == tx[s] = "session" /\ MaxTxStatements > 0 /\ Len(txSQL[s]) >= MaxTxStatements
       IN
         \/ /\ Accepts(st, clone[s]) /\ IsWrite(st) /\ ~full
            /\ clone' = [clone EXCEPT ![s] = Effect(st, @)]
            /\ txSQL' = [txSQL EXCEPT ![s] = Append(@, [id |-> nextId, stmt |-> st])]
            /\ nextId' = nextId + 1
            /\ Advance(s)
            /\ UNCHANGED <<tx, pending>>
         \/ /\ Accepts(st, clone[s]) /\ IsWrite(st) /\ full
            /\ NoTx(s)
            /\ Advance(s)
            /\ UNCHANGED <<clone, nextId, pending>>
         \/ /\ Accepts(st, clone[s]) /\ ~IsWrite(st)
            /\ Advance(s)
            /\ UNCHANGED <<tx, clone, txSQL, nextId, pending>>
         \/ /\ ~Accepts(st, clone[s])
            /\ TxStatementFails(s)
            /\ UNCHANGED <<clone, nextId>>
    /\ UNCHANGED <<running, memory, kind, origin, base, snapBuf, disk, walMu, acked, requests,
                   crashes>>

\* A statement of a transaction cut short: its partial effect stays in the
\* clone of a session transaction, and it is not recorded in txSQL.
ExecTxTimeout(s) ==
    /\ QueryTimeout
    /\ Runs(s, Statement) /\ tx[s] # "none"
    /\ \E img \in CutShort(Head(queue[s]), clone[s]) : clone' = [clone EXCEPT ![s] = img]
    /\ TxStatementFails(s)
    /\ UNCHANGED <<running, memory, kind, origin, base, snapBuf, disk, walMu, history, requests, crashes>>

-----------------------------------------------------------------------------
\* Transactions.

\* BEGIN up to the row-budget test, which reads RowCount under Database.mu
\* only.  The clone is taken in a later step.
BeginCheck(s) ==
    /\ RunsControl(s, Begin)
    /\ IF \/ tx[s] # "none"
          \/ MaxTxDatabaseRows > 0 /\ RowCount(db) > MaxTxDatabaseRows
       THEN Advance(s)
       ELSE pc' = [pc EXCEPT ![s] = "clone"] /\ UNCHANGED queue
    /\ UNCHANGED <<running, memory, kind, tx, clone, origin, base, txSQL, pending, snapBuf, disk, walMu,
                   history, requests, crashes>>

CloneBaseOffByOne == revision - 1

\* Database.Clone's baseRevision.
CloneBase == revision

\* Database.Clone under commitMu, for BEGIN and for an atomic batch.
TakeClone(s) ==
    /\ pc[s] = "clone" /\ commitMu = Free
    /\ clone' = [clone EXCEPT ![s] = db]
    /\ origin' = [origin EXCEPT ![s] = db]
    /\ base' = [base EXCEPT ![s] = CloneBase]
    /\ txSQL' = [txSQL EXCEPT ![s] = <<>>]
    /\ IF kind[s] = "atomic"
       THEN /\ tx' = [tx EXCEPT ![s] = "atomic"]
            /\ pc' = [pc EXCEPT ![s] = "run"]
            /\ UNCHANGED queue
       ELSE /\ tx' = [tx EXCEPT ![s] = "session"]
            /\ Advance(s)
    /\ UNCHANGED <<running, memory, kind, pending, snapBuf, disk, walMu, history, requests, crashes>>

\* ROLLBACK, and COMMIT of a transaction that wrote nothing or is not open.
EndWithoutCommit(s) ==
    /\ \/ RunsControl(s, Rollback)
       \/ RunsControl(s, Commit) /\ (tx[s] = "none" \/ txSQL[s] = <<>>)
    /\ NoTx(s)
    /\ Advance(s)
    /\ UNCHANGED <<running, memory, kind, clone, origin, base, pending, snapBuf, disk, walMu, history,
                   requests, crashes>>

\* CommitFrom fails: COMMIT leaves the transaction open, an atomic batch is
\* over.
CommitFails(s) ==
    IF tx[s] = "atomic" THEN NoTx(s) /\ Respond(s)
    ELSE Advance(s) /\ UNCHANGED <<tx, txSQL, pending>>

StaleNever(s) == FALSE

\* "transaction conflict: database changed since BEGIN"
Stale(s) == revision # base[s]

\* The deferred unlocks of replace: gate and commitMu.
Unlock == commitMu' = Free

\* CommitFrom up to the persist callback: take commitMu, compare revisions,
\* take the gate.
CommitCheck(s) ==
    /\ \/ RunsControl(s, Commit) /\ tx[s] = "session" /\ txSQL[s] # <<>>
       \/ pc[s] = "commit"
    /\ commitMu = Free
    /\ IF Stale(s)
       THEN CommitFails(s) /\ UNCHANGED commitMu
       ELSE /\ commitMu' = s
            /\ pc' = [pc EXCEPT ![s] = "persist"]
            /\ UNCHANGED <<queue, tx, txSQL, pending>>
    /\ UNCHANGED <<running, db, revision, kind, clone, origin, base, snapBuf, disk, walMu, nextId, acked,
                   requests, crashes>>

\* The end of CommitFrom: the image is published and the locks released.
Publish(s) ==
    /\ pc[s] = "publish"
    /\ db' = clone[s]
    /\ revision' = NewRevision
    /\ Unlock
    /\ acked' = acked \cup Ids(txSQL[s])
    /\ NoTx(s)
    /\ IF tx[s] = "atomic" THEN Respond(s) ELSE Advance(s) /\ UNCHANGED pending
    /\ UNCHANGED <<running, kind, clone, origin, base, snapBuf, disk, walMu, nextId, requests,
                   crashes>>

-----------------------------------------------------------------------------
\* persistStatements: called inside CommitFrom with the clone's image and the
\* transaction's writes, or with no lock held after an automatic commit.

Out(s) == IF commitMu = s THEN txSQL[s] ELSE pending[s]

PersistDone(s) ==
    IF commitMu = s
    THEN pc' = [pc EXCEPT ![s] = "publish"] /\ UNCHANGED <<queue, pending, acked>>
    ELSE acked' = acked \cup Ids(pending[s]) /\ Respond(s)

PersistFails(s) ==
    IF commitMu = s
    THEN CommitFails(s) /\ Unlock
    ELSE Respond(s) /\ UNCHANGED <<tx, txSQL, commitMu>>

PersistNothing(s) ==
    /\ pc[s] = "persist"
    /\ Mode = "memory" \/ Out(s) = <<>>
    /\ PersistDone(s)
    /\ UNCHANGED <<running, memory, kind, tx, clone, origin, base, txSQL, snapBuf, disk, walMu, nextId,
                   requests, crashes>>

FramesFirstOnly(s) ==
    <<[id |-> Out(s)[1].id, stmt |-> Out(s)[1].stmt, unit |-> {Out(s)[1].id}]>>

\* One frame per statement; nothing on disk ties the frames of a transaction
\* together (unit is a history field).
Frames(s) ==
    [i \in DOMAIN Out(s) |->
        [id |-> Out(s)[i].id, stmt |-> Out(s)[i].stmt,
         unit |-> IF commitMu = s THEN Ids(Out(s)) ELSE {Out(s)[i].id}]]

TornFrame == [id |-> 0, stmt |-> Torn, unit |-> {}]

\* WALWriter.Append: one write of all frames, then one fsync, under
\* WALWriter.mu.
WalWrite(s) ==
    /\ pc[s] = "persist" /\ Mode = "wal" /\ Out(s) # <<>>
    /\ walMu = Free
    /\ walMu' = s
    /\ wal' = wal \o Frames(s)
    /\ pc' = [pc EXCEPT ![s] = "sync"]
    /\ UNCHANGED <<running, memory, kind, queue, tx, clone, origin, base, txSQL, pending, snapBuf, snap,
                   synced, history, requests, crashes>>

\* What a write that stops after n frames leaves in the file.
ShortWrite(s, n, cut) == SubSeq(Frames(s), 1, n) \o cut

\* The write fails, with nothing in the file or part of what was to be there.
WalWriteFails(s) ==
    /\ pc[s] = "persist" /\ Mode = "wal" /\ Out(s) # <<>>
    /\ walMu = Free
    /\ \/ "write" \in Faults /\ UNCHANGED wal
       \/ /\ "torn" \in Faults
          /\ \E n \in 0 .. Len(Out(s)) - 1, cut \in {<<>>, <<TornFrame>>} : wal' = wal \o ShortWrite(s, n, cut)
    /\ PersistFails(s)
    /\ UNCHANGED <<running, db, revision, kind, clone, origin, base, snapBuf, snap, synced, walMu, nextId,
                   acked, requests, crashes>>

SyncedUnchanged == synced

\* What a successful fsync covers.
SyncedByFsync == Len(wal)

WalSync(s) ==
    /\ pc[s] = "sync"
    /\ synced' = SyncedByFsync
    /\ walMu' = Free
    /\ PersistDone(s)
    /\ UNCHANGED <<running, memory, kind, tx, clone, origin, base, txSQL, snapBuf, snap, wal, nextId,
                   requests, crashes>>

WalSyncFailsLocked(s) ==
    /\ pc[s] = "sync" /\ "sync" \in Faults
    /\ PersistFails(s)
    /\ UNCHANGED <<running, db, revision, kind, clone, origin, base, snapBuf, disk, walMu, nextId, acked,
                   requests, crashes>>

\* The fsync fails: an error, and the frames stay in the file.
WalSyncFails(s) ==
    /\ pc[s] = "sync" /\ "sync" \in Faults
    /\ walMu' = Free
    /\ PersistFails(s)
    /\ UNCHANGED <<running, db, revision, kind, clone, origin, base, snapBuf, disk, nextId, acked,
                   requests, crashes>>

SnapImageOfShared(s) == db

\* The database persistStatements is given: the clone inside CommitFrom, the
\* shared one after an automatic commit.
SnapImage(s) == IF commitMu = s THEN clone[s] ELSE db

\* WriteSnapshot: MarshalJSON takes the gate for the shared database, so it
\* waits for a commit in progress; a commit encodes its own image.
SnapEncode(s) ==
    /\ pc[s] = "persist" /\ Mode = "snapshot" /\ Out(s) # <<>>
    /\ commitMu \in {s, Free}
    /\ snapBuf' = [snapBuf EXCEPT ![s] = SnapImage(s)]
    /\ pc' = [pc EXCEPT ![s] = "rename"]
    /\ UNCHANGED <<running, memory, kind, queue, tx, clone, origin, base, txSQL, pending, disk, walMu,
                   history, requests, crashes>>

\* atomicWrite: the temporary file is complete and synced before the rename.
SnapRename(s) ==
    /\ pc[s] = "rename"
    /\ snap' = snapBuf[s]
    /\ PersistDone(s)
    /\ UNCHANGED <<running, memory, kind, tx, clone, origin, base, txSQL, snapBuf, wal, synced, walMu,
                   nextId, requests, crashes>>

SnapFails(s) ==
    /\ pc[s] = "rename" /\ "write" \in Faults
    /\ PersistFails(s)
    /\ UNCHANGED <<running, db, revision, kind, clone, origin, base, snapBuf, disk, walMu, nextId, acked,
                   requests, crashes>>

-----------------------------------------------------------------------------
\* Crash and restart.

\* The process and the page cache are lost: the log keeps at least what an
\* fsync covered, and may end inside a frame.
Crash ==
    /\ running /\ crashes < MaxCrashes
    /\ crashes' = crashes + 1
    /\ running' = FALSE
    /\ \E n \in synced .. Len(wal) :
         \/ wal' = SubSeq(wal, 1, n)
         \/ n < Len(wal) /\ wal' = Append(SubSeq(wal, 1, n), TornFrame)
    /\ synced' = Len(wal')
    /\ commitMu' = Free /\ walMu' = Free
    /\ pc' = [s \in Sessions |-> "idle"]
    /\ queue' = [s \in Sessions |-> <<>>]
    /\ tx' = [s \in Sessions |-> "none"]
    /\ txSQL' = [s \in Sessions |-> <<>>]
    /\ pending' = [s \in Sessions |-> <<>>]
    /\ UNCHANGED <<db, revision, kind, clone, origin, base, snapBuf, snap, history, requests>>

\* LoadSnapshot and ReplayWAL of runServer.
Recovered ==
    CASE Mode = "memory"   -> [ok |-> TRUE, img |-> EmptyImage]
      [] Mode = "snapshot" -> [ok |-> TRUE, img |-> snap]
      [] Mode = "wal"      -> Replay(snap, [i \in DOMAIN wal |-> wal[i].stmt])

\* The server comes up again; when replay fails it exits (log.Fatal) and stays
\* down.
Restart ==
    /\ ~running
    /\ \E img \in Image : Recovered = [ok |-> TRUE, img |-> img] /\ db' = img
    /\ running' = TRUE
    /\ revision' = Len(wal)
    /\ UNCHANGED <<commitMu, session, snapBuf, disk, walMu, history, requests, crashes>>

-----------------------------------------------------------------------------

Init ==
    /\ running = TRUE
    /\ db = EmptyImage /\ revision = 0 /\ commitMu = Free
    /\ pc = [s \in Sessions |-> "idle"]
    /\ kind = [s \in Sessions |-> "sql"]
    /\ queue = [s \in Sessions |-> <<>>]
    /\ tx = [s \in Sessions |-> "none"]
    /\ clone = [s \in Sessions |-> EmptyImage]
    /\ origin = [s \in Sessions |-> EmptyImage]
    /\ base = [s \in Sessions |-> 0]
    /\ txSQL = [s \in Sessions |-> <<>>]
    /\ pending = [s \in Sessions |-> <<>>]
    /\ snapBuf = [s \in Sessions |-> EmptyImage]
    /\ snap = EmptyImage /\ wal = <<>> /\ synced = 0 /\ walMu = Free
    /\ nextId = 1 /\ acked = {}
    /\ requests = 0 /\ crashes = 0

Execute(s) ==
    \/ ExecAuto(s) \/ ExecAutoTimeout(s) \/ ExecTx(s) \/ ExecTxTimeout(s)
    \/ BeginCheck(s) \/ TakeClone(s) \/ EndWithoutCommit(s) \/ CommitCheck(s) \/ Publish(s)

Persist(s) ==
    \/ PersistNothing(s)
    \/ WalWrite(s) \/ WalWriteFails(s) \/ WalSync(s) \/ WalSyncFails(s)
    \/ SnapEncode(s) \/ SnapRename(s) \/ SnapFails(s)

Next ==
    \/ \E s \in Sessions : \/ \E r \in Requests : Submit(s, r)
                           \/ Disconnect(s)
                           \/ Execute(s)
                           \/ Persist(s)
    \/ Crash
    \/ Restart

Spec == Init /\ [][Next]_vars

\* A handler goroutine that can take a step is eventually scheduled.
FairSpec == Spec /\ \A s \in Sessions : WF_vars(Execute(s) \/ Persist(s))

-----------------------------------------------------------------------------
\* Properties.

\* Every variable of the session model stays in its type (the state of
\* engine.Database, server.session and the files).
TypeOK ==
    /\ running \in BOOLEAN
    /\ db \in Image /\ revision \in Nat /\ commitMu \in Sessions \cup {Free}
    /\ pc \in [Sessions -> PCs]
    /\ kind \in [Sessions -> {"sql", "batch", "atomic"}]
    /\ queue \in [Sessions -> Seq(Command)]
    /\ tx \in [Sessions -> {"none", "session", "atomic"}]
    /\ clone \in [Sessions -> Image] /\ origin \in [Sessions -> Image]
    /\ base \in [Sessions -> Nat]
    /\ txSQL \in [Sessions -> Seq(Write)] /\ pending \in [Sessions -> Seq(Write)]
    /\ snapBuf \in [Sessions -> Image]
    /\ snap \in Image /\ wal \in Seq(Record) /\ synced \in Nat
    /\ walMu \in Sessions \cup {Free}
    /\ nextId \in Nat /\ acked \subseteq Nat
    /\ requests \in Nat /\ crashes \in Nat

\* CommitFrom's revision test decides what it is meant to decide: while a
\* transaction's base revision is still the database's revision, the database
\* is still the image the transaction was cloned from.
BaseIsCurrent ==
    \A s \in Sessions : tx[s] # "none" /\ base[s] = revision => origin[s] = db

\* A write reported successful is in the part of the log an fsync has covered,
\* and keeps its place there through crashes (WALWriter.Append).
AckedDurable ==
    Mode = "wal" => acked \subseteq {wal[i].id : i \in 1 .. synced}

\* Nothing on its way to disk.
Settled ==
    /\ running
    /\ \A s \in Sessions : pending[s] = <<>> /\ pc[s] \notin {"persist", "sync", "rename", "publish"}

\* "restarts recover the same state": whenever no write is on its way to disk,
\* LoadSnapshot and ReplayWAL would succeed and rebuild exactly the database
\* the sessions see.
RecoveryIsCurrent ==
    Settled /\ Mode # "memory" => Recovered = [ok |-> TRUE, img |-> db]

\* A transaction or atomic batch is on disk completely or not at all when the
\* server starts again.
AllOrNothing ==
    ~running => \A i \in DOMAIN wal : wal[i].unit \subseteq Ids(wal)

\* Every request is answered: no session waits for a mutex for ever.
RequestsAnswered == \A s \in Sessions : pc[s] # "idle" ~> pc[s] = "idle"

\* The abstract store the sessions implement.
Store == INSTANCE TxStore WITH
    store <- db,
    open  <- [s \in Sessions |-> tx[s] # "none"],
    start <- origin,
    view  <- clone

\* Transactions and atomic batches are serializable: CommitFrom publishes a
\* clone only over the very image it was taken from, so every committed
\* transaction is its statements executed in one piece at its commit.
Serializable == Store!Spec
=============================================================================
