-------------------------- MODULE SessionsDurability --------------------------
(***************************************************************************)
(* Acknowledged writes are durable: the proof that a write a client was    *)
(* told is stored lies in the part of the log an fsync has covered.        *)
(***************************************************************************)
EXTENDS SessionsProofs

\* The writes an fsync has covered.
Covered == {wal[i].id : i \in 1 .. synced}

\* AckedDurable is not inductive alone.  A session that is about to sync has
\* its frames in the file, one that is about to publish has them covered.
DurableInv ==
    /\ synced <= Len(wal)
    /\ Mode = "wal" => acked \subseteq Covered
    /\ \A s \in Sessions :
         /\ pc[s] = "sync" => Ids(Out(s)) \subseteq Ids(wal)
         /\ pc[s] = "rename" => Mode = "snapshot"
         /\ Mode = "wal" /\ pc[s] = "publish" => Ids(txSQL[s]) \subseteq Covered

InFlight == {"sync", "rename", "publish"}

\* A step of session s leaves what the other sessions have on the way to disk.
OthersKeep(s) ==
    \A t \in Sessions \ {s} :
        /\ pc'[t] = pc[t] /\ txSQL'[t] = txSQL[t] /\ pending'[t] = pending[t]
        /\ commitMu' = t <=> commitMu = t

\* A sequence of writes that is empty has no ids.
LEMMA NoIds == Ids(<<>>) = {}
BY DEF Ids

\* A step of s that only adds to the log and to what is covered.
LEMMA DurableGrow ==
    ASSUME DurableInv, NEW s \in Sessions, OthersKeep(s),
           synced' <= Len(wal'), Ids(wal) \subseteq Ids(wal'), Covered \subseteq Covered',
           Mode = "wal" => acked' \subseteq acked \cup Covered',
           pc'[s] = "sync" => Ids(Out(s)') \subseteq Ids(wal'),
           pc'[s] = "rename" => Mode = "snapshot",
           Mode = "wal" /\ pc'[s] = "publish" => Ids(txSQL'[s]) \subseteq Covered'
    PROVE  DurableInv'
<1>1. ASSUME NEW t \in Sessions \ {s} PROVE Out(t)' = Out(t)
  BY DEF OthersKeep, Out
<1>2. Mode = "wal" => acked' \subseteq Covered'
  BY DEF DurableInv
<1>3. ASSUME NEW t \in Sessions
      PROVE  /\ pc'[t] = "sync" => Ids(Out(t)') \subseteq Ids(wal')
             /\ pc'[t] = "rename" => Mode = "snapshot"
             /\ Mode = "wal" /\ pc'[t] = "publish" => Ids(txSQL'[t]) \subseteq Covered'
  <2>1. CASE t = s
    BY <2>1
  <2>2. CASE t # s
    <3>1. Out(t)' = Out(t) /\ pc'[t] = pc[t] /\ txSQL'[t] = txSQL[t]
      BY <1>1, <2>2 DEF OthersKeep
    <3> QED
      BY <3>1 DEF DurableInv
  <2> QED
    BY <2>1, <2>2
<1> QED
  BY <1>2, <1>3 DEF DurableInv

\* A step of s that writes nothing and puts nothing in flight.
LEMMA DurableQuiet ==
    ASSUME DurableInv, NEW s \in Sessions, OthersKeep(s), UNCHANGED <<wal, synced, acked>>,
           pc'[s] \notin InFlight
    PROVE  DurableInv'
<1>1. Covered' = Covered /\ synced' <= Len(wal') /\ Ids(wal') = Ids(wal)
  BY DEF Covered, DurableInv
<1> QED
  BY <1>1, DurableGrow DEF InFlight

\* A log that keeps its first n records and at least those keeps their ids.
LEMMA PrefixKeepsIds ==
    ASSUME NEW w, NEW v, NEW n \in Nat, \A i \in 1 .. n : v[i] = w[i]
    PROVE  {w[i].id : i \in 1 .. n} \subseteq {v[i].id : i \in 1 .. n}
OBVIOUS

\* What one more record does to a log.
LEMMA AppendOne ==
    ASSUME NEW w \in Seq(Record), NEW x \in Record
    PROVE  /\ Append(w, x) \in Seq(Record) /\ Len(Append(w, x)) = Len(w) + 1
           /\ \A i \in 1 .. Len(w) : Append(w, x)[i] = w[i]
OBVIOUS

\* Appending records to the log keeps what was there.
LEMMA AppendKeeps ==
    ASSUME TypeOK, DurableInv, NEW f \in Seq(Record), wal' = wal \o f, synced' = synced
    PROVE  /\ synced' <= Len(wal') /\ Ids(wal) \subseteq Ids(wal') /\ Ids(f) \subseteq Ids(wal')
           /\ Covered \subseteq Covered'
<1>1. /\ wal \in Seq(Record) /\ Len(wal) \in Nat /\ Len(f) \in Nat /\ synced \in Nat /\ synced <= Len(wal)
      /\ DOMAIN wal = 1 .. Len(wal) /\ DOMAIN f = 1 .. Len(f)
  BY DEF TypeOK, DurableInv
<1>2. Len(wal') = Len(wal) + Len(f) /\ DOMAIN wal' = 1 .. Len(wal')
  BY <1>1
<1>3. \A i \in 1 .. Len(wal) : wal'[i] = wal[i] /\ i \in DOMAIN wal'
  BY <1>1, <1>2
<1>4. \A i \in 1 .. Len(f) : wal'[Len(wal) + i] = f[i] /\ Len(wal) + i \in DOMAIN wal'
  BY <1>1, <1>2
<1>5. Ids(wal) \subseteq Ids(wal')
  BY <1>1, <1>3 DEF Ids
<1>6. Ids(f) \subseteq Ids(wal')
  BY <1>1, <1>4, Zenon DEF Ids
<1>7. \A i \in 1 .. synced : wal'[i] = wal[i]
  BY <1>1, <1>3
<1>8. Covered \subseteq Covered'
  BY <1>1, <1>7, PrefixKeepsIds DEF Covered
<1>9. synced' <= Len(wal')
  BY <1>1, <1>2
<1> QED
  BY <1>5, <1>6, <1>8, <1>9

\* Ids of a session's frames are the ids of the writes it persists.
LEMMA FrameIds ==
    ASSUME TypeOK, NEW s \in Sessions
    PROVE  Ids(Frames(s)) = Ids(Out(s))
BY DEF Frames, Ids

\* Steps of the request loop and the transactions put nothing in flight.
LEMMA ExecuteDurable ==
    ASSUME TypeOK, Control, DurableInv, NEW s \in Sessions, Execute(s), ~Publish(s)
    PROVE  DurableInv'
<1>a. ControlOf(s) /\ \A t \in Sessions : t # Free
  BY FreeAssumption DEF Control
<1>b. ASSUME Advance(s), queue[s] # <<>>
      PROVE  /\ pc'[s] \notin InFlight
             /\ \A t \in Sessions \ {s} : pc'[t] = pc[t]
  BY <1>b, AdvanceEffect DEF Advanced, InFlight
<1>c. ASSUME UNCHANGED <<wal, synced, acked>>, UNCHANGED <<txSQL, pending, commitMu>>, queue[s] # <<>>, Advance(s)
      PROVE  DurableInv'
  BY <1>b, <1>c, DurableQuiet DEF OthersKeep
<1>1. CASE ExecAuto(s)
  <2>1. queue[s] # <<>> /\ UNCHANGED <<wal, synced, acked, txSQL, commitMu>>
    BY <1>1 DEF ExecAuto, Runs, disk
  <2>2. pending' = pending \/ \E w : pending' = [pending EXCEPT ![s] = w]
    BY <1>1 DEF ExecAuto
  <2>3. \A t \in Sessions \ {s} : pending'[t] = pending[t]
    BY <2>2 DEF TypeOK
  <2>4. pc'[s] \notin InFlight /\ \A t \in Sessions \ {s} : pc'[t] = pc[t]
    <3>1. CASE Advance(s)
      BY <1>b, <2>1, <3>1
    <3>2. CASE pc' = [pc EXCEPT ![s] = "persist"]
      BY <3>2 DEF TypeOK, InFlight
    <3> QED
      BY <1>1, <3>1, <3>2 DEF ExecAuto
  <2> QED
    BY <2>1, <2>3, <2>4, DurableQuiet DEF OthersKeep
<1>2. CASE ExecAutoTimeout(s)
  BY <1>2, <1>c DEF ExecAutoTimeout, Runs, disk, history
<1>3. CASE ExecTx(s)
  <2>1. queue[s] # <<>> /\ UNCHANGED <<wal, synced, acked, commitMu>>
    BY <1>3 DEF ExecTx, Runs, disk, memory
  <2>2. \/ Advance(s) /\ pending' = pending /\ \A t \in Sessions \ {s} : txSQL'[t] = txSQL[t]
        \/ TxStatementFails(s)
    BY <1>3, NoTxEffect DEF ExecTx, TypeOK
  <2>3. CASE TxStatementFails(s)
    BY <2>1, <2>3, TxStatementFailsEffect, DurableQuiet, Zenon DEF LoopStep, OthersKeep, InFlight, Advanced
  <2>4. CASE Advance(s) /\ pending' = pending /\ \A t \in Sessions \ {s} : txSQL'[t] = txSQL[t]
    BY <1>b, <2>1, <2>4, DurableQuiet DEF OthersKeep
  <2> QED
    BY <2>2, <2>3, <2>4
<1>4. CASE ExecTxTimeout(s)
  <2>1. queue[s] # <<>> /\ UNCHANGED <<wal, synced, acked, commitMu>> /\ TxStatementFails(s)
    BY <1>4 DEF ExecTxTimeout, Runs, disk, memory, history
  <2> QED
    BY <2>1, TxStatementFailsEffect, DurableQuiet, Zenon DEF LoopStep, OthersKeep, InFlight, Advanced
<1>5. CASE BeginCheck(s)
  <2>1. queue[s] # <<>> /\ UNCHANGED <<wal, synced, acked, txSQL, pending, commitMu>>
    BY <1>5 DEF BeginCheck, RunsControl, Runs, disk, memory, history
  <2>2. CASE Advance(s)
    BY <1>c, <2>1, <2>2
  <2>3. CASE pc' = [pc EXCEPT ![s] = "clone"]
    <3>1. pc'[s] = "clone" /\ \A t \in Sessions \ {s} : pc'[t] = pc[t]
      BY <2>3 DEF TypeOK
    <3> QED
      BY <2>1, <3>1, DurableQuiet DEF OthersKeep, InFlight
  <2> QED
    BY <1>5, <2>2, <2>3 DEF BeginCheck
<1>6. CASE TakeClone(s)
  <2>1. queue[s] # <<>> /\ UNCHANGED <<wal, synced, acked, pending, commitMu>>
    BY <1>6, <1>a DEF TakeClone, disk, memory, history, ControlOf
  <2>2. \A t \in Sessions \ {s} : txSQL'[t] = txSQL[t]
    BY <1>6 DEF TakeClone, TypeOK
  <2>3. pc'[s] \notin InFlight /\ \A t \in Sessions \ {s} : pc'[t] = pc[t]
    <3>1. CASE Advance(s)
      BY <1>b, <2>1, <3>1
    <3>2. CASE pc' = [pc EXCEPT ![s] = "run"]
      BY <3>2 DEF TypeOK, InFlight
    <3> QED
      BY <1>6, <3>1, <3>2 DEF TakeClone
  <2> QED
    BY <2>1, <2>2, <2>3, DurableQuiet, Zenon DEF OthersKeep
<1>7. CASE EndWithoutCommit(s)
  <2>1. queue[s] # <<>> /\ UNCHANGED <<wal, synced, acked, pending, commitMu>> /\ Advance(s) /\ NoTx(s)
    BY <1>7 DEF EndWithoutCommit, RunsControl, Runs, disk, memory, history
  <2> QED
    BY <1>b, <2>1, NoTxEffect, DurableQuiet, Zenon DEF OthersKeep
<1>8. CASE CommitCheck(s)
  <2>1. /\ UNCHANGED <<wal, synced, acked>> /\ commitMu = Free
        /\ tx[s] # "atomic" => queue[s] # <<>>
    BY <1>8, <1>a, ZenonT(40) DEF CommitCheck, RunsControl, Runs, disk, ControlOf
  <2>2. CASE Stale(s)
    <3>1. CommitFails(s) /\ commitMu' = commitMu
      BY <1>8, <2>2 DEF CommitCheck
    <3> QED
      BY <2>1, <3>1, CommitFailsEffect, DurableQuiet, ZenonT(40) DEF LoopStep, OthersKeep, InFlight, Advanced
  <2>3. CASE ~Stale(s)
    <3>1. commitMu' = s /\ pc' = [pc EXCEPT ![s] = "persist"] /\ UNCHANGED <<txSQL, pending>>
      BY <1>8, <2>3 DEF CommitCheck
    <3>2. pc'[s] \notin InFlight /\ OthersKeep(s)
      BY <1>a, <2>1, <3>1 DEF OthersKeep, InFlight, TypeOK
    <3> QED
      BY <2>1, <3>2, DurableQuiet
  <2> QED
    BY <2>2, <2>3
<1> QED
  BY <1>1, <1>2, <1>3, <1>4, <1>5, <1>6, <1>7, <1>8 DEF Execute

\* The steps that carry writes to disk and acknowledge them.
LEMMA PersistDurable ==
    ASSUME TypeOK, Control, DurableInv, NEW s \in Sessions, Persist(s) \/ Publish(s)
    PROVE  DurableInv'
<1>a. ControlOf(s) /\ \A t \in Sessions : t # Free
  BY FreeAssumption DEF Control
<1>b. ASSUME PersistFails(s)
      PROVE  OthersKeep(s) /\ pc'[s] \notin InFlight
  BY <1>b, <1>a, PersistFailsEffect, ZenonT(40) DEF LoopStep, OthersKeep, InFlight, Advanced
\* A persist that succeeded: what it was asked to store is covered now.
<1>c. ASSUME PersistDone(s), UNCHANGED <<tx, txSQL, commitMu>>,
             synced' <= Len(wal'), Ids(wal) \subseteq Ids(wal'), Covered \subseteq Covered',
             Mode = "wal" => Ids(Out(s)) \subseteq Covered'
      PROVE  DurableInv'
  <2>1. OthersKeep(s)
    BY <1>c, PersistDoneEffect DEF LoopStep, OthersKeep
  <2>2. CASE commitMu = s
    <3>1. pc'[s] = "publish" /\ acked' = acked /\ Out(s) = txSQL[s]
      BY <1>c, <2>2, PersistDoneEffect DEF Out
    <3> QED
      BY <1>c, <2>1, <3>1, DurableGrow
  <2>3. CASE commitMu # s
    <3>1. pc'[s] = "idle" /\ acked' = acked \cup Ids(pending[s]) /\ Out(s) = pending[s]
      BY <1>c, <2>3, PersistDoneEffect DEF Out
    <3> QED
      BY <1>c, <2>1, <3>1, DurableGrow
  <2> QED
    BY <2>2, <2>3
<1>d. UNCHANGED <<wal, synced>> =>
        Covered' = Covered /\ Ids(wal') = Ids(wal) /\ synced' <= Len(wal')
  BY DEF Covered, DurableInv
<1>1. CASE PersistNothing(s)
  <2>1. /\ PersistDone(s) /\ UNCHANGED <<wal, synced, tx, txSQL, commitMu>>
        /\ Mode = "wal" => Out(s) = <<>>
    BY <1>1 DEF PersistNothing, memory, disk
  <2>2. Mode = "wal" => Ids(Out(s)) = {}
    BY <2>1, NoIds, Zenon
  <2> QED
    BY <1>c, <1>d, <2>1, <2>2
<1>2. CASE WalWrite(s)
  <2>1. /\ wal' = wal \o Frames(s) /\ pc' = [pc EXCEPT ![s] = "sync"]
        /\ UNCHANGED <<synced, txSQL, pending, commitMu, acked>>
    BY <1>2 DEF WalWrite, memory, history
  <2>2. Frames(s) \in Seq(Record)
    BY FramesType
  <2>3. /\ synced' <= Len(wal') /\ Ids(wal) \subseteq Ids(wal') /\ Ids(Frames(s)) \subseteq Ids(wal')
        /\ Covered \subseteq Covered'
    BY <2>1, <2>2, AppendKeeps, Zenon
  <2>4. pc'[s] = "sync" /\ OthersKeep(s) /\ Out(s)' = Out(s)
    BY <2>1 DEF OthersKeep, Out, TypeOK
  <2>5. Ids(Out(s)') \subseteq Ids(wal')
    BY <2>3, <2>4, FrameIds
  <2> QED
    BY <2>1, <2>3, <2>4, <2>5, DurableGrow
<1>3. CASE WalWriteFails(s)
  <2>1. /\ PersistFails(s) /\ UNCHANGED <<synced, acked>>
        /\ wal' = wal \/ \E part \in Seq(Record) : wal' = wal \o part
    BY <1>3, FailedWriteExtends, Zenon DEF WalWriteFails
  <2>2. CASE wal' = wal
    BY <1>b, <2>1, <2>2, DurableQuiet
  <2>3. ASSUME NEW part \in Seq(Record), wal' = wal \o part PROVE DurableInv'
    <3>1. synced' <= Len(wal') /\ Ids(wal) \subseteq Ids(wal') /\ Covered \subseteq Covered'
      BY <2>1, <2>3, AppendKeeps
    <3> QED
      BY <1>b, <2>1, <3>1, DurableGrow DEF InFlight
  <2> QED
    BY <2>1, <2>2, <2>3
<1>4. CASE WalSync(s)
  <2>1. /\ pc[s] = "sync" /\ synced' = Len(wal) /\ wal' = wal /\ PersistDone(s)
        /\ UNCHANGED <<tx, txSQL, commitMu>>
    BY <1>4 DEF WalSync, SyncedByFsync, memory
  <2>2. Len(wal) \in Nat /\ DOMAIN wal = 1 .. Len(wal) /\ synced \in Nat /\ synced <= Len(wal)
    BY DEF TypeOK, DurableInv
  <2>3. Covered' = Ids(wal) /\ Covered \subseteq Ids(wal) /\ synced' <= Len(wal')
    BY <2>1, <2>2 DEF Covered, Ids
  <2>4. Ids(Out(s)) \subseteq Covered' /\ Ids(wal') = Ids(wal)
    BY <2>1, <2>3 DEF DurableInv
  <2> QED
    BY <1>c, <2>1, <2>3, <2>4
<1>5. CASE WalSyncFails(s)
  BY <1>5, <1>b, DurableQuiet DEF WalSyncFails, disk
<1>6. CASE SnapEncode(s)
  <2>1. /\ Mode = "snapshot" /\ pc' = [pc EXCEPT ![s] = "rename"]
        /\ UNCHANGED <<wal, synced, txSQL, pending, commitMu, acked>>
    BY <1>6 DEF SnapEncode, memory, history, disk
  <2>2. pc'[s] = "rename" /\ OthersKeep(s)
    BY <2>1 DEF OthersKeep, TypeOK
  <2> QED
    BY <1>d, <2>1, <2>2, DurableGrow
<1>7. CASE SnapRename(s)
  <2>1. PersistDone(s) /\ UNCHANGED <<wal, synced, tx, txSQL, commitMu>> /\ Mode # "wal"
    BY <1>7, Zenon DEF SnapRename, memory, DurableInv
  <2> QED
    BY <1>c, <1>d, <2>1, Zenon
<1>8. CASE SnapFails(s)
  BY <1>8, <1>b, DurableQuiet, Zenon DEF SnapFails, disk
<1>9. CASE Publish(s)
  <2>1. /\ pc[s] = "publish" /\ commitMu = s /\ commitMu' = Free /\ NoTx(s)
        /\ acked' = acked \cup Ids(txSQL[s]) /\ UNCHANGED <<wal, synced>>
        /\ tx[s] # "atomic" => queue[s] # <<>>
        /\ \/ Respond(s)
           \/ tx[s] # "atomic" /\ Advance(s) /\ pending' = pending
    BY <1>9, <1>a, Zenon DEF Publish, Unlock, disk, ControlOf, TypeOK
  <2>2. /\ pc'[s] \notin InFlight
        /\ \A t \in Sessions \ {s} : pc'[t] = pc[t] /\ pending'[t] = pending[t]
    BY <2>1, RespondEffect, AdvanceEffect DEF Advanced, InFlight
  <2>3. OthersKeep(s)
    BY <1>a, <2>1, <2>2, NoTxEffect, Zenon DEF OthersKeep
  <2>4. Mode = "wal" => acked' \subseteq acked \cup Covered'
    BY <1>d, <2>1 DEF DurableInv
  <2> QED
    BY <1>d, <2>1, <2>2, <2>3, <2>4, DurableGrow, Zenon DEF InFlight
<1> QED
  BY <1>1, <1>2, <1>3, <1>4, <1>5, <1>6, <1>7, <1>8, <1>9 DEF Persist

\* A crash keeps the covered part of the log.
LEMMA CrashDurable ==
    ASSUME TypeOK, DurableInv, Crash
    PROVE  DurableInv'
<1>1. /\ Len(wal) \in Nat /\ synced \in Nat /\ synced <= Len(wal) /\ wal \in Seq(Record)
  BY DEF TypeOK, DurableInv
<1>2. PICK n \in synced .. Len(wal) : \/ wal' = SubSeq(wal, 1, n)
                                      \/ wal' = Append(SubSeq(wal, 1, n), TornFrame)
  BY DEF Crash
<1>3. n \in Nat /\ synced <= n /\ n <= Len(wal)
  BY <1>1, <1>2
<1>4. /\ SubSeq(wal, 1, n) \in Seq(Record) /\ Len(SubSeq(wal, 1, n)) = n
      /\ \A i \in 1 .. n : SubSeq(wal, 1, n)[i] = wal[i]
  BY <1>1, <1>3
<1>5. wal' \in Seq(Record) /\ Len(wal') \in Nat /\ n <= Len(wal') /\ \A i \in 1 .. n : wal'[i] = wal[i]
  <2>1. CASE wal' = SubSeq(wal, 1, n)
    BY <1>3, <1>4, <2>1
  <2>2. CASE wal' = Append(SubSeq(wal, 1, n), TornFrame)
    <3>1. /\ wal' \in Seq(Record) /\ Len(wal') = n + 1
          /\ \A i \in 1 .. n : wal'[i] = SubSeq(wal, 1, n)[i]
      BY <1>4, <2>2, AppendOne, TornFrameType
    <3> QED
      BY <1>3, <1>4, <3>1
  <2> QED
    BY <1>2, <2>1, <2>2
<1>6. synced' = Len(wal') /\ acked' = acked /\ \A t \in Sessions : pc'[t] = "idle"
  BY DEF Crash, history
<1>7. Covered \subseteq Covered'
  <2>1. \A i \in 1 .. synced : wal'[i] = wal[i] /\ i \in 1 .. synced'
    BY <1>1, <1>3, <1>5, <1>6
  <2> QED
    BY <2>1 DEF Covered
<1> QED
  BY <1>5, <1>6, <1>7 DEF DurableInv

\* The strengthened invariant holds of every behaviour, in every mode and with
\* every fault.
LEMMA DurableInvariant == Spec => [](TypeOK /\ Control /\ DurableInv)
<1>1. Init => DurableInv
  <2> SUFFICES ASSUME Init PROVE DurableInv
    OBVIOUS
  <2>1. synced = 0 /\ wal = <<>> /\ acked = {} /\ \A s \in Sessions : pc[s] = "idle"
    BY DEF Init
  <2> QED
    BY <2>1 DEF DurableInv
<1>2. TypeOK /\ Control /\ DurableInv /\ [Next]_vars => DurableInv'
  <2> SUFFICES ASSUME TypeOK, Control, DurableInv, [Next]_vars PROVE DurableInv'
    OBVIOUS
  <2>1. ASSUME NEW s \in Sessions, NEW r \in Requests, Submit(s, r) PROVE DurableInv'
    <3>1. UNCHANGED <<wal, synced, acked, txSQL, pending, commitMu>>
      BY <2>1 DEF Submit, memory, disk, history
    <3>2. pc'[s] \notin InFlight /\ \A t \in Sessions \ {s} : pc'[t] = pc[t]
      BY <2>1 DEF Submit, InFlight, TypeOK
    <3> QED
      BY <3>1, <3>2, DurableQuiet DEF OthersKeep
  <2>2. ASSUME NEW s \in Sessions, Disconnect(s) PROVE DurableInv'
    <3>1. /\ UNCHANGED <<wal, synced, acked, pending, commitMu, pc>> /\ NoTx(s) /\ pc[s] = "idle"
      BY <2>2 DEF Disconnect, memory, disk, history
    <3> QED
      BY <3>1, NoTxEffect, DurableQuiet DEF OthersKeep, InFlight
  <2>3. ASSUME NEW s \in Sessions, Execute(s) \/ Persist(s) PROVE DurableInv'
    BY <2>3, ExecuteDurable, PersistDurable
  <2>4. CASE Crash
    BY <2>4, CrashDurable
  <2>5. CASE Restart \/ UNCHANGED vars
    <3>1. UNCHANGED <<wal, synced, acked, txSQL, pending, commitMu, pc>>
      BY <2>5 DEF Restart, vars, memory, session, disk, history
    <3>2. \A s \in Sessions : Out(s)' = Out(s)
      BY <3>1 DEF Out
    <3>3. Covered' = Covered /\ Ids(wal') = Ids(wal)
      BY <3>1 DEF Covered
    <3> QED
      BY <3>1, <3>2, <3>3 DEF DurableInv
  <2> QED
    BY <2>1, <2>2, <2>3, <2>4, <2>5 DEF Next
<1> QED
  BY <1>1, <1>2, TypeInit, TypeStep, ControlStep, PTL DEF Spec

\* A write reported successful in WAL mode is covered by an fsync, and stays
\* so through failing file operations, crashes and restarts.
THEOREM AcknowledgedWritesAreDurable == Spec => []AckedDurable
<1>1. DurableInv => AckedDurable
  BY DEF DurableInv, AckedDurable, Covered
<1> QED
  BY <1>1, DurableInvariant, PTL
=============================================================================
