------------------------------ MODULE Cluster ------------------------------
(***************************************************************************)
(* Cluster nodes (internal/cluster): writes, range operations and          *)
(* linearizable reads through a Raft log, joins, genesis and restarts.     *)
(*                                                                         *)
(* Consensus is hashicorp/raft, which is external: one committed log,      *)
(* leaders elected in turn, and proposals that commit in order or are      *)
(* overwritten by the next leader.  A deposed leader goes on believing     *)
(* that it leads until it hears of the new term.                           *)
(*                                                                         *)
(* Simplifications: a node serves one client call at a time; the address   *)
(* of the leader a node knows (rn.Leader) is any leader there has been;    *)
(* replica placement, membership gossip, voter removal and statistics are  *)
(* left out.                                                               *)
(***************************************************************************)
EXTENDS Directory

CONSTANTS
    Nodes,
    Boot,       \* the node started without --join
    Mode,       \* --mode: "memory" or "wal"
    Scenarios   \* clusters to start from, what is asked of them, and bounds

\* A scenario: nodes that form a cluster already and nodes that will join it, the
\* operations clients ask for, the keys they split ranges at, and bounds on the
\* entries proposed (the genesis entry included), the elections (the first
\* included), crashes, Raft snapshots and linearizable reads.
ASSUME ClusterAssumption ==
    /\ Boot \in Nodes
    /\ Mode \in {"memory", "wal"}
    /\ \A s \in Scenarios :
         /\ s.formed \cup s.joining \subseteq Nodes /\ Boot \notin s.joining /\ s.keys \subseteq Keys
         /\ {s.proposals, s.elections, s.crashes, s.snapshots, s.reads} \subseteq Nat

VARIABLES
    voters,     \* the Raft configuration
    elected,    \* the leaders there have been, the current one last
    believes,   \* nodes whose IsLeader() is true
    props,      \* every entry proposed, by proposal number
    log,        \* the committed log, as proposal numbers
    fsm,        \* ReplicatedState of each node: dir, db (statements run), applied
    wal,        \* the WAL side-copy in each data directory
    snap,       \* the newest Raft snapshot of each node
    pc, op,     \* where each node is, and the call it is serving
    stored,     \* nodes that have stored their identity
    acked,      \* proposals acknowledged to a client as written
    read,       \* latest linearizable read: what was acked before it, what it saw
    late,       \* nodes that took a directory which no longer was the genesis range
    crashes, snaps, reads,  \* counted against the bounds
    scenario    \* the scenario: never changes

raftVars == <<voters, elected, believes>>
nodeVars == <<fsm, wal, snap>>
callVars == <<pc, op>>
ghostVars == <<acked, read, late>>
bounds == <<crashes, snaps, reads, scenario>>
vars == <<raftVars, props, log, nodeVars, callVars, stored, ghostVars, bounds>>

NoOp == [kind |-> "none"]
Empty == [dir |-> NewRangeStore, db |-> <<>>, applied |-> 0]

\* A node being bootstrapped, which has elected itself, or a formed cluster: its
\* nodes joined one by one and have applied the genesis entry.
Genesis == [by |-> Boot, term |-> 1, entry |-> [kind |-> "range", op |-> GenesisOp], st |-> "committed", res |-> "ok"]
Formed(n, d) == n \in d.formed

Init ==
    \E d \in Scenarios :
    /\ voters = {Boot} \cup d.formed /\ elected = <<Boot>> /\ believes = {Boot}
    /\ props = IF d.formed = {} THEN <<>> ELSE <<Genesis>>
    /\ log = IF d.formed = {} THEN <<>> ELSE <<1>>
    /\ fsm = [n \in Nodes |-> IF Formed(n, d) THEN [Empty EXCEPT !.dir = applyOp(@, GenesisOp), !.applied = 1] ELSE Empty]
    /\ snap = [n \in Nodes |-> Empty]
    /\ wal = [n \in Nodes |-> <<>>]
    /\ pc = [n \in Nodes |-> IF Formed(n, d) THEN "idle" ELSE IF n = Boot THEN "genesis"
                             ELSE IF n \in d.joining THEN "new" ELSE "gone"]
    /\ op = [n \in Nodes |-> NoOp]
    /\ stored = d.formed /\ acked = {} /\ late = {}
    /\ read = [floor |-> {}, saw |-> {}]
    /\ crashes = 0 /\ snaps = 0 /\ reads = 0 /\ scenario = d

Leader == Last(elected)
Term == Len(elected)
Up(n) == pc[n] \notin {"new", "down", "gone"}
Majority(S) == 2 * Cardinality(S \cap voters) > Cardinality(voters)
Alive == {n \in voters : Up(n)}
Pending == {i \in DOMAIN props : props[i].st = "pending"}
Dir(n) == fsm[n].dir

-----------------------------------------------------------------------------
\* The state machine (fsm.go, state.go).

\* The range and generation an entry may run against; an entry without a range
\* (Forward) may run against any.
InRange(d, e) == e.rid # 0 => e.rid \in IDs(d) /\ d.ranges[e.rid].gen = e.gen

\* The statements before the first failing one, e.bad (0: none fails).
RunUpTo(e, id) == [i \in 1 .. (IF e.bad = 0 THEN e.stmts ELSE e.bad - 1) |-> id]

execInPlace(f, id, e) ==
    IF ~InRange(f.dir, e) THEN [fsm |-> f, ok |-> FALSE]
    ELSE [fsm |-> [f EXCEPT !.db = @ \o RunUpTo(e, id)], ok |-> e.bad = 0]

\* An atomic entry runs on a clone that replaces the database only when every
\* statement succeeded.
execLocked(f, id, e) ==
    IF ~InRange(f.dir, e) THEN [fsm |-> f, ok |-> FALSE]
    ELSE IF e.atomic /\ e.bad # 0 THEN [fsm |-> f, ok |-> FALSE]
    ELSE [fsm |-> [f EXCEPT !.db = @ \o RunUpTo(e, id)], ok |-> e.bad = 0]

rangeLocked(f, e) ==
    IF Fenced(f.dir, e.op) THEN [fsm |-> [f EXCEPT !.dir = applyOp(@, e.op)], ok |-> TRUE]
    ELSE [fsm |-> f, ok |-> FALSE]

\* The index advances on failure too.
applyCommitted(f, id, e) ==
    LET out == IF e.kind = "exec" THEN execLocked(f, id, e) ELSE rangeLocked(f, e)
    IN  [out EXCEPT !.fsm.applied = @ + 1]

Apply(n) ==
    /\ Up(n) /\ n \in voters
    /\ fsm[n].applied < Len(log)
    /\ LET id == log[fsm[n].applied + 1]
           e == props[id].entry
           out == applyCommitted(fsm[n], id, e)
       IN  /\ fsm' = [fsm EXCEPT ![n] = out.fsm]
           /\ wal' = [wal EXCEPT ![n] = IF e.kind = "exec" /\ out.ok THEN @ \o RunUpTo(e, id) ELSE @]
           /\ props' = [props EXCEPT ![id].res = IF props[id].by = n THEN (IF out.ok THEN "ok" ELSE "failed") ELSE @]
    /\ UNCHANGED <<raftVars, log, snap, callVars, stored, ghostVars, bounds>>

\* The images Raft keeps, and a follower that is sent one.
Snapshot(n) ==
    /\ snaps < scenario.snapshots /\ Up(n) /\ fsm[n].applied > snap[n].applied
    /\ snap' = [snap EXCEPT ![n] = fsm[n]]
    /\ snaps' = snaps + 1
    /\ UNCHANGED <<raftVars, props, log, fsm, wal, callVars, stored, ghostVars, crashes, reads, scenario>>

Restored(img) == [img EXCEPT !.dir = restore(@)]

Install(n) ==
    /\ Up(n) /\ n \in voters /\ Leader \in believes
    /\ snap[Leader].applied > fsm[n].applied
    /\ fsm' = [fsm EXCEPT ![n] = Restored(snap[Leader])]
    /\ snap' = [snap EXCEPT ![n] = snap[Leader]]
    /\ UNCHANGED <<raftVars, props, log, wal, callVars, stored, ghostVars, bounds>>

-----------------------------------------------------------------------------
\* Raft (external).

Commit ==
    /\ Leader \in believes /\ Majority(Alive) /\ Pending # {}
    /\ LET id == Min(Pending) IN
       /\ log' = Append(log, id)
       \* an entry of an earlier term commits, but nobody waits for it
       /\ props' = [props EXCEPT ![id].st =
                      IF props[id].by = Leader /\ props[id].term = Term THEN "committed" ELSE "orphan"]
    /\ UNCHANGED <<raftVars, nodeVars, callVars, stored, ghostVars, bounds>>

\* The new leader has the first k of the uncommitted entries.
Elect(m) ==
    /\ Len(elected) < scenario.elections
    /\ m \in Alive \ believes /\ Majority(Alive)
    /\ elected' = Append(elected, m)
    \* a leader whose vote was needed has stepped down
    /\ believes' = {m} \cup {b \in believes : Majority(Alive \ {b})}
    /\ \E k \in 0 .. Cardinality(Pending) :
         props' = [i \in DOMAIN props |->
                     IF i \in Pending /\ Cardinality({j \in Pending : j <= i}) > k
                     THEN [props[i] EXCEPT !.st = "doomed"] ELSE props[i]]
    /\ UNCHANGED <<voters, log, nodeVars, callVars, stored, ghostVars, bounds>>

\* A leader hears of a later term, or loses the majority before an election.
StepDown(n) ==
    /\ n \in believes
    /\ n = Leader => Len(elected) < scenario.elections
    /\ believes' = believes \ {n}
    /\ UNCHANGED <<voters, elected, props, log, nodeVars, callVars, stored, ghostVars, bounds>>

-----------------------------------------------------------------------------
\* Calls: proposing an entry, locally or at the leader a node knows.

\* A call is the entry's content, the node asked to propose it, whether it was
\* retried, its proposal number, and the rest of a split.
NoSplit == [parent |-> 0]
Call(kind, content, target, split) ==
    [kind |-> kind, content |-> content, target |-> target, retried |-> FALSE, id |-> 0, split |-> split]

\* IsLeader, or else the address of a leader.
Targets(n) == IF n \in believes THEN {n} ELSE {elected[i] : i \in DOMAIN elected} \ {n}

Goto(n, label, call) == pc' = [pc EXCEPT ![n] = label] /\ op' = [op EXCEPT ![n] = call]
Return(n) == Goto(n, "idle", NoOp)

\* Calls that may still propose (for the bound: none starts in vain).
Unproposed == {n \in Nodes : pc[n] \in {"call", "found", "split"}}
Left == scenario.proposals - Len(props) - Cardinality(Unproposed)

AskAt(n, targets, kind, content, split) ==
    /\ pc[n] = "idle" /\ Left > 0
    /\ \E m \in targets : Goto(n, "call", Call(kind, content, m, split))
    /\ UNCHANGED <<raftVars, props, log, nodeVars, stored, ghostVars, bounds>>

Ask(n, kind, content, split) == AskAt(n, Targets(n), kind, content, split)

Exec(n) ==
    /\ "exec" \in scenario.ops
    /\ \E t \in Tables, bad \in {0, 1} :
         Ask(n, "exec", [stmts |-> 1, bad |-> bad, atomic |-> FALSE, rid |-> TableRange(Dir(n), t)], NoSplit)

ExecAtomic(n) ==
    /\ "batch" \in scenario.ops
    /\ \E t \in Tables, bad \in {0, 2} :
         Ask(n, "exec", [stmts |-> 2, bad |-> bad, atomic |-> TRUE, rid |-> TableRange(Dir(n), t)], NoSplit)

\* A write sent to the node at a given address, without a range.
Forward(n) ==
    /\ "forward" \in scenario.ops
    /\ \E bad \in {0, 1} :
         AskAt(n, Nodes \ {n}, "forward", [stmts |-> 1, bad |-> bad, atomic |-> FALSE, rid |-> 0], NoSplit)

\* At any key the caller gives, whatever the bounds of the range.
SplitRange(n) ==
    /\ "split" \in scenario.ops
    /\ \E id \in IDs(Dir(n)), key \in scenario.keys, left \in SUBSET Tables :
         Ask(n, "range", SplitOp(Dir(n), id, key), [parent |-> id, key |-> key, left |-> left])

MoveRange(n) ==
    /\ "move" \in scenario.ops
    /\ \E id \in IDs(Dir(n)) : Ask(n, "range", MoveOp(Dir(n), {id}), NoSplit)

Rebalance(n) ==
    /\ "rebalance" \in scenario.ops
    /\ \E ids \in SUBSET IDs(Dir(n)) \ {{}} : Ask(n, "range", MoveOp(Dir(n), ids), NoSplit)

AssignTable(n) ==
    /\ "assign" \in scenario.ops
    /\ \E id \in IDs(Dir(n)), t \in Tables :
         Ask(n, "range", AssignOp(Dir(n), [u \in {t} |-> id], {id}), NoSplit)

\* The entry the node m proposes for a call: a write carries the generation m
\* sees now, a range operation the ones its proposer saw.
EntryFor(m, call) ==
    IF call.kind = "range" THEN [kind |-> "range", op |-> call.content]
    ELSE [kind |-> "exec", stmts |-> call.content.stmts, bad |-> call.content.bad, atomic |-> call.content.atomic,
          rid |-> call.content.rid, gen |-> IF call.content.rid = 0 THEN 0 ELSE Dir(m).ranges[call.content.rid].gen]

Proposal(m, entry) ==
    [by |-> m, term |-> CHOOSE k \in DOMAIN elected : elected[k] = m /\ \A j \in k + 1 .. Term : elected[j] # m,
     entry |-> entry, st |-> IF m = Leader THEN "pending" ELSE "doomed", res |-> "none"]

\* The handler of a forwarded write lets one without a range pass.
RangeKnown(n) ==
    LET call == op[n] IN
    call.kind # "range" =>
        \/ call.content.rid \in IDs(Dir(call.target))
        \/ call.content.rid = 0 /\ call.target # n

\* writeCommitted and the KindForward and KindRangeOp handlers, at a leader.
Propose(n) ==
    LET m == op[n].target IN
    /\ pc[n] = "call" /\ m \in believes /\ RangeKnown(n)
    /\ Len(props) < scenario.proposals
    /\ props' = Append(props, Proposal(m, EntryFor(m, op[n])))
    /\ Goto(n, "wait", [op[n] EXCEPT !.id = Len(props')])
    /\ UNCHANGED <<raftVars, log, nodeVars, stored, ghostVars, bounds>>

RangeNotFound(n) ==
    /\ pc[n] = "call" /\ op[n].target \in believes /\ ~RangeKnown(n)
    /\ Return(n)
    /\ UNCHANGED <<raftVars, props, log, nodeVars, stored, ghostVars, bounds>>

\* CodeNoLeader: a forwarded write is tried once more at another leader.
NoLeaderAnswer(n) ==
    \/ /\ op[n].kind = "exec" /\ op[n].target # n /\ ~op[n].retried
       /\ \E m \in Targets(n) \ {op[n].target, n} :
            Goto(n, "call", [op[n] EXCEPT !.target = m, !.retried = TRUE, !.id = 0])
    \/ Return(n)

NotLeader(n) ==
    /\ pc[n] = "call" /\ Up(op[n].target) /\ op[n].target \notin believes
    /\ NoLeaderAnswer(n)
    /\ UNCHANGED <<raftVars, props, log, nodeVars, stored, ghostVars, bounds>>

\* Of a proposal its proposer waits for: answered once applied there, lost with
\* the proposer's leadership.
Answered(p) == p.st = "committed" /\ p.res # "none"
Lost(p) == p.st # "committed" /\ (p.by \notin believes \/ (p.by = Leader /\ p.term # Term))

LeadershipLost(n) ==
    /\ pc[n] = "wait" /\ Lost(props[op[n].id])
    /\ NoLeaderAnswer(n)
    /\ UNCHANGED <<raftVars, props, log, nodeVars, stored, ghostVars, bounds>>

RespondEarly(n) ==
    LET p == props[op[n].id] IN
    /\ pc[n] = "wait" /\ p.res # "failed"
    /\ acked' = acked \cup {op[n].id}
    /\ Return(n)
    /\ UNCHANGED <<raftVars, props, log, nodeVars, stored, read, late, bounds>>

\* A split goes on with its second entry.
Respond(n) ==
    LET p == props[op[n].id] IN
    /\ pc[n] = "wait" /\ Answered(p)
    /\ acked' = IF p.res = "ok" THEN acked \cup {op[n].id} ELSE acked
    /\ IF p.res = "ok" /\ op[n].split # NoSplit
       THEN Goto(n, "split", op[n])
       ELSE Return(n)
    /\ UNCHANGED <<raftVars, props, log, nodeVars, stored, read, late, bounds>>

SplitTables(n) ==
    LET s == op[n].split IN
    /\ pc[n] = "split"
    /\ IF Cardinality(ChildrenOf(Dir(n), s.key)) = 2
       THEN \/ \E m \in Targets(n) :
                 Goto(n, "call", Call("range", SplitAssign(Dir(n), s.parent, s.key, s.left), m, NoSplit))
            \/ n \notin believes /\ Return(n)
       ELSE Return(n)
    /\ UNCHANGED <<raftVars, props, log, nodeVars, stored, ghostVars, bounds>>

\* A call to another node that cannot be made, or whose answer does not come.
CallLost(n) ==
    /\ op[n] # NoOp /\ op[n].target # n
    /\ pc[n] = "wait" \/ (pc[n] = "call" /\ ~Up(op[n].target))
    /\ Return(n)
    /\ UNCHANGED <<raftVars, props, log, nodeVars, stored, ghostVars, bounds>>

-----------------------------------------------------------------------------
\* ExecConsistent: a barrier at the leader, then a read there.

ReadOp(m, floor) == [kind |-> "read", target |-> m, floor |-> floor, mark |-> 0]

ExecConsistent(n) ==
    /\ pc[n] = "idle" /\ reads < scenario.reads
    /\ reads' = reads + 1
    /\ \E m \in Targets(n) \cup {n} : Goto(n, "read", ReadOp(m, acked))
    /\ UNCHANGED <<raftVars, props, log, nodeVars, stored, ghostVars, crashes, snaps, scenario>>

BarrierSkipped(n) ==
    LET m == op[n].target IN
    /\ pc[n] = "read" /\ m \in believes
    /\ Goto(n, "readwait", op[n])
    /\ UNCHANGED <<raftVars, props, log, nodeVars, stored, ghostVars, bounds>>

\* The barrier commits after everything proposed before it.
Barrier(n) ==
    LET m == op[n].target IN
    /\ pc[n] = "read" /\ m \in believes
    /\ m = Leader /\ Majority(Alive) /\ Pending = {}
    /\ Goto(n, "readwait", [op[n] EXCEPT !.mark = Len(log)])
    /\ UNCHANGED <<raftVars, props, log, nodeVars, stored, ghostVars, bounds>>

ReadAfterBarrier(n) ==
    LET f == fsm[op[n].target] IN
    /\ pc[n] = "readwait" /\ f.applied >= op[n].mark
    /\ read' = [floor |-> op[n].floor, saw |-> {log[i] : i \in 1 .. f.applied}]
    /\ Return(n)
    /\ UNCHANGED <<raftVars, props, log, nodeVars, stored, acked, late, bounds>>

\* A forwarded read that fails is tried with a barrier of the node's own, which
\* fails for good where the node is not the leader.
BarrierFails(n) ==
    LET m == op[n].target IN
    /\ pc[n] = "read" \/ (pc[n] = "readwait" /\ m # n)
    /\ m = n => m \notin believes
    /\ IF m = n THEN Return(n) ELSE Goto(n, "read", [op[n] EXCEPT !.target = n])
    /\ UNCHANGED <<raftVars, props, log, nodeVars, stored, ghostVars, bounds>>

-----------------------------------------------------------------------------
\* Start: join, genesis, and what a restart restores.

\* join: the seed's directory replaces the node's own, then the leader is asked
\* to add the voter.  A node that is refused, or whose answer is lost, starts
\* over.
Join(n) ==
    /\ pc[n] \in {"new", "join"}
    /\ \E seed \in Alive \ {n} :
         /\ fsm' = [fsm EXCEPT ![n].dir = ReplaceBulk(@, Dir(seed).ranges)]
         /\ late' = IF IDs(Dir(seed)) \subseteq {1} /\ fsm[n].applied = 0 THEN late ELSE late \cup {n}
    /\ \/ /\ Leader \in believes /\ Majority(Alive)
          /\ voters' = voters \cup {n}
          /\ \E label \in {"genesis", "join"} : pc' = [pc EXCEPT ![n] = label]
       \/ /\ pc' = [pc EXCEPT ![n] = "join"]
          /\ UNCHANGED voters
    /\ UNCHANGED <<elected, believes, props, log, wal, snap, op, stored, acked, read, bounds>>

\* ensureGenesis: done when there is a range.
Started(n) ==
    /\ pc[n] \in {"genesis", "founding"} /\ IDs(Dir(n)) # {}
    /\ pc' = [pc EXCEPT ![n] = "idle"]
    /\ stored' = stored \cup {n}
    /\ UNCHANGED <<raftVars, props, log, nodeVars, op, ghostVars, bounds>>

\* A leader that has applied the log and has no range proposes the first one.
GenesisBarrier(n) ==
    /\ pc[n] = "genesis" /\ n \in believes /\ n = Leader
    /\ Majority(Alive) /\ Pending = {} /\ fsm[n].applied = Len(log)
    /\ IDs(Dir(n)) = {}
    /\ pc' = [pc EXCEPT ![n] = "found"]
    /\ UNCHANGED <<raftVars, props, log, nodeVars, op, stored, ghostVars, bounds>>

\* The entry is proposed; whether it commits or is lost shows later.
ProposeGenesis(n) ==
    /\ pc[n] = "found" /\ n \in believes
    /\ Len(props) < scenario.proposals
    /\ props' = Append(props, Proposal(n, [kind |-> "range", op |-> GenesisOp]))
    /\ pc' = [pc EXCEPT ![n] = "founding"]
    /\ UNCHANGED <<raftVars, log, nodeVars, op, stored, ghostVars, bounds>>

\* Callers of a node that stops lose their calls; a read falls back.  The node
\* can start again under its identity once that is stored.
Stop(n) ==
    /\ believes' = believes \ {n}
    /\ LET calling(x) == x # n /\ op[x] # NoOp /\ op[x].target = n IN
       /\ pc' = [x \in Nodes |-> IF x = n THEN (IF n \in stored' THEN "down" ELSE "gone")
                                 ELSE IF calling(x) THEN (IF op[x].kind = "read" THEN "read" ELSE "idle")
                                 ELSE pc[x]]
       /\ op' = [x \in Nodes |-> IF x = n THEN NoOp
                                 ELSE IF calling(x) THEN (IF op[x].kind = "read" THEN [op[x] EXCEPT !.target = x] ELSE NoOp)
                                 ELSE op[x]]
    /\ UNCHANGED <<voters, elected, props, log, nodeVars, ghostVars, snaps, reads, scenario>>

Crash(n) ==
    /\ crashes < scenario.crashes /\ Up(n)
    /\ crashes' = crashes + 1
    /\ UNCHANGED stored
    /\ Stop(n)

\* Start gives up and stops the node: ensureGenesis finds no range within its
\* deadline or its Barrier or Apply fails, also when the entry is applied under
\* the next leader; or, with the identity stored, the leader's last Barrier fails.
StartFails(n) ==
    /\ pc[n] \in {"genesis", "found", "founding"}
    /\ \/ /\ IDs(Dir(n)) = {} \/ (pc[n] # "genesis" /\ n \notin believes)
          /\ UNCHANGED stored
       \/ /\ IDs(Dir(n)) # {} /\ pc[n] # "found" /\ n \in believes
          /\ stored' = stored \cup {n}
    /\ UNCHANGED crashes
    /\ Stop(n)

\* The database main.go loads, then the Raft snapshot; the log is replayed by Apply.
Recovered(n) ==
    IF snap[n].applied > 0 THEN Restored(snap[n])
    ELSE [Empty EXCEPT !.db = IF Mode = "wal" THEN wal[n] ELSE <<>>]

Restart(n) ==
    /\ pc[n] = "down"
    /\ fsm' = [fsm EXCEPT ![n] = Recovered(n)]
    /\ pc' = [pc EXCEPT ![n] = "genesis"]
    /\ UNCHANGED <<raftVars, props, log, wal, snap, op, stored, ghostVars, bounds>>

-----------------------------------------------------------------------------
Requests(n) ==
    \/ Exec(n) \/ ExecAtomic(n) \/ Forward(n) \/ SplitRange(n) \/ MoveRange(n) \/ Rebalance(n) \/ AssignTable(n)
    \/ ExecConsistent(n)

Next ==
    \/ Commit
    \/ \E n \in Nodes :
         \/ Requests(n)
         \/ Propose(n) \/ RangeNotFound(n) \/ NotLeader(n) \/ LeadershipLost(n)
         \/ Respond(n) \/ SplitTables(n) \/ CallLost(n)
         \/ Barrier(n) \/ ReadAfterBarrier(n) \/ BarrierFails(n)
         \/ Join(n) \/ Started(n) \/ GenesisBarrier(n) \/ ProposeGenesis(n)
         \/ StartFails(n) \/ Crash(n) \/ Restart(n)
         \/ Apply(n) \/ Snapshot(n) \/ Install(n) \/ Elect(n) \/ StepDown(n)

Spec == Init /\ [][Next]_vars

-----------------------------------------------------------------------------
\* Every variable has its type.
TypeOK ==
    /\ voters \subseteq Nodes /\ Boot \in voters
    /\ elected \in Seq(voters) /\ elected # <<>>
    /\ believes \subseteq {elected[i] : i \in DOMAIN elected}
    /\ \A i \in DOMAIN props :
         /\ props[i].by \in voters /\ props[i].term \in DOMAIN elected
         /\ props[i].st \in {"pending", "doomed", "committed", "orphan"}
         /\ props[i].res \in {"none", "ok", "failed"}
    /\ IsInjective(log) /\ {log[i] : i \in DOMAIN log} \subseteq DOMAIN props
    /\ \A n \in Nodes : \A img \in {fsm[n], snap[n]} :
         /\ img.applied \in 0 .. Len(log)
         /\ \A id \in IDs(img.dir) : id \in 1 .. img.dir.nextID - 1 /\ img.dir.ranges[id] \in RangeType
         /\ {img.db[i] : i \in DOMAIN img.db} \subseteq DOMAIN props
    /\ stored \cup late \subseteq Nodes /\ acked \subseteq DOMAIN props

\* Nodes that have applied as much of the log have the same directory and the
\* same data, whatever snapshots, restarts and elections there were: provided
\* every node joined while the directory was the genesis range.
Converged ==
    late = {} => \A n, m \in Nodes : fsm[n].applied = fsm[m].applied /\ fsm[n].applied > 0 => fsm[n] = fsm[m]

\* "Mutations arrive only via committed Raft entries so every member converges
\* on the same directory" (ranges.go): the voters that have applied the whole
\* log have the same directory.
EveryMemberConverges ==
    \A n, m \in Alive : fsm[n].applied = Len(log) /\ fsm[m].applied = Len(log) => Dir(n) = Dir(m)

\* Every key is in exactly one range of a directory.
Partitioned(d) == \A key \in Keys : Cardinality({id \in IDs(d) : Holds(d.ranges[id], key)}) = 1

RangeOps == {props[log[i]].entry.op : i \in {j \in DOMAIN log : props[log[j]].entry.kind = "range"}}

\* Splits and moves, proposed by several nodes from copies of the directory of
\* different age, leave every key in exactly one range: provided every split was
\* asked for at a key between the bounds of its range, which SplitRange does not
\* test, and every node joined while the directory was the genesis range.
RangesPartition ==
    late = {} /\ (\A o \in RangeOps : SplitsInside(o)) =>
        \A n \in Nodes : IDs(Dir(n)) # {} => Partitioned(Dir(n))

\* A linearizable read sees every write acknowledged before it was asked for,
\* also when the node it is sent to has lost the leadership unawares.
ReadsLinearizable == read.floor \subseteq read.saw

Times(id, s) == Cardinality({i \in DOMAIN s : s[i] = id})

\* An acknowledged write was committed, and every node that has applied it, before
\* or after restarts and restored snapshots, has run each statement of it once.
AckedWritesKept ==
    /\ acked \subseteq {log[i] : i \in DOMAIN log}
    /\ late = {} => \A n \in Nodes : \A i \in 1 .. fsm[n].applied :
         LET e == props[log[i]].entry IN
         e.kind = "exec" /\ log[i] \in acked => Times(log[i], fsm[n].db) = e.stmts

\* "multi-statement all-or-nothing commits as a single Raft entry" (docs): of an
\* atomic batch a node has run all statements, or none where one of them fails.
AtomicBatches ==
    \A n \in Nodes : \A i \in DOMAIN props :
        LET e == props[i].entry IN
        (IF e.kind = "exec" THEN e.atomic ELSE FALSE) =>
            Times(i, fsm[n].db) \in (IF e.bad = 0 THEN {0, e.stmts} ELSE {0})

\* "Raft log + snapshots are the authority" (state.go): a restart runs no
\* committed statement a second time.
RunOnce ==
    \A n \in Nodes : \A i \in DOMAIN log :
        LET e == props[log[i]].entry IN e.kind = "exec" => Times(log[i], fsm[n].db) <= e.stmts
=============================================================================
