--------------------------- MODULE SessionsProofs ---------------------------
(***************************************************************************)
(* Theorems about Sessions, for every set of sessions, keys, values and    *)
(* requests and for every bound.                                           *)
(***************************************************************************)
EXTENDS Sessions, TLAPS

-----------------------------------------------------------------------------
\* Statements keep images well formed.

\* What Effect returns for any statement is again a table image.
LEMMA EffectType ==
    ASSUME NEW st \in Statement, NEW img \in Image
    PROVE  Effect(st, img) \in Image
BY DEF Statement, Image, Effect, Insert, Update, UpdateAll, DeleteAll, Select, EmptyImage

\* So is whatever a cancelled statement leaves behind.
LEMMA CutShortType ==
    ASSUME NEW st \in Statement, NEW img \in Image
    PROVE  CutShort(st, img) \subseteq Image
<1>1. Effect(st, img) \in Image
  BY EffectType
<1> DEFINE After(done) == [k \in Keys |-> IF k \in done THEN Effect(st, img)[k] ELSE img[k]]
<1>2. \A done : After(done) \in Image
  BY <1>1 DEF Image
<1> SUFFICES ASSUME NEW x \in CutShort(st, img)
             PROVE  x \in Image
  OBVIOUS
<1>3. x = img \/ \E done : x = After(done)
  BY DEF CutShort
<1> QED
  BY <1>2, <1>3

-----------------------------------------------------------------------------
\* Type correctness and the control state of the sessions.

Persisting == {"persist", "sync", "rename", "publish"}

\* Where a session is, and what it has there: a command to run, a clone, the
\* commit lock.
ControlOf(s) ==
    /\ pc[s] \in {"run", "clone"} => queue[s] # <<>>
    /\ pc[s] = "clone" => tx[s] = "none"
    /\ pc[s] = "run" /\ kind[s] = "atomic" => tx[s] = "atomic"
    /\ pc[s] = "commit" => tx[s] = "atomic"
    /\ pc[s] = "publish" => commitMu = s
    /\ commitMu = s => pc[s] \in Persisting /\ tx[s] # "none"
    /\ commitMu = s /\ tx[s] = "session" => queue[s] # <<>> /\ kind[s] # "atomic"
    /\ tx[s] = "atomic" => kind[s] = "atomic" /\ pc[s] \notin {"idle", "clone"}
    /\ tx[s] = "atomic" /\ pc[s] \in Persisting => commitMu = s
    /\ ~running => pc[s] = "idle" /\ tx[s] = "none"

Control == \A s \in Sessions : ControlOf(s)

\* The ids of a sequence of writes are numbers.
LEMMA IdsType ==
    ASSUME NEW w \in Seq(Write)
    PROVE  Ids(w) \subseteq Nat
<1>1. \A i \in DOMAIN w : w[i] \in Write
  OBVIOUS
<1>2. \A x \in Write : x.id \in Nat
  BY DEF Write
<1> QED
  BY <1>1, <1>2 DEF Ids

\* The log frames Append writes are records, one for each write.
LEMMA FramesType ==
    ASSUME TypeOK, NEW s \in Sessions
    PROVE  /\ Frames(s) \in Seq(Record)
           /\ Len(Frames(s)) = Len(Out(s))
<1>1. Out(s) \in Seq(Write)
  BY DEF TypeOK, Out
<1>2. Ids(Out(s)) \in SUBSET Nat
  BY <1>1, IdsType
<1>3. \A i \in DOMAIN Out(s) : Out(s)[i] \in Write
  BY <1>1
<1>4. \A i \in DOMAIN Out(s) : Frames(s)[i] \in Record
  BY <1>2, <1>3 DEF Frames, Write, Record
<1>5. DOMAIN Frames(s) = 1 .. Len(Out(s)) /\ Len(Out(s)) \in Nat
  BY <1>1 DEF Frames
<1>6. Frames(s) \in [1 .. Len(Out(s)) -> Record]
  BY <1>1, <1>4, <1>5 DEF Frames
<1> QED
  BY <1>5, <1>6

\* A partial frame at the end of the log is a record.
LEMMA TornFrameType == TornFrame \in Record
BY DEF TornFrame, Record

\* What a short write leaves behind are records.
LEMMA ShortWriteType ==
    ASSUME TypeOK, NEW s \in Sessions,
           NEW n \in 0 .. Len(Out(s)) - 1, NEW cut \in {<<>>, <<TornFrame>>}
    PROVE  ShortWrite(s, n, cut) \in Seq(Record)
<1>1. Frames(s) \in Seq(Record) /\ Len(Frames(s)) = Len(Out(s))
  BY FramesType
<1>2. SubSeq(Frames(s), 1, n) \in Seq(Record)
  BY <1>1
<1>3. <<>> \in Seq(Record) /\ <<TornFrame>> \in Seq(Record)
  BY TornFrameType
<1>4. cut \in Seq(Record)
  BY <1>3, Zenon
<1> QED
  BY <1>2, <1>4 DEF ShortWrite

\* A write that fails extends the log by records, if at all.
LEMMA FailedWriteExtends ==
    ASSUME TypeOK, NEW s \in Sessions, WalWriteFails(s)
    PROVE  wal' = wal \/ \E part \in Seq(Record) : wal' = wal \o part
<1>1. \/ wal' = wal
      \/ \E n \in 0 .. Len(Out(s)) - 1, cut \in {<<>>, <<TornFrame>>} : wal' = wal \o ShortWrite(s, n, cut)
  BY Zenon DEF WalWriteFails
<1> QED
  BY <1>1, ShortWriteType, Zenon

\* A step of session s keeps the types of the variables the request loop
\* touches, and leaves the other sessions alone.
LoopStep(s) ==
    /\ queue' \in [Sessions -> Seq(Command)] /\ pc' \in [Sessions -> PCs]
    /\ tx' \in [Sessions -> {"none", "session", "atomic"}]
    /\ txSQL' \in [Sessions -> Seq(Write)] /\ pending' \in [Sessions -> Seq(Write)]
    /\ \A t \in Sessions \ {s} :
          /\ queue'[t] = queue[t] /\ pc'[t] = pc[t] /\ tx'[t] = tx[t]
          /\ txSQL'[t] = txSQL[t] /\ pending'[t] = pending[t]

\* Where a session can be after it has finished a command.
Advanced(s) ==
    /\ pc'[s] \in {"idle", "run", "commit", "persist"}
    /\ pc'[s] = "run" => queue'[s] # <<>>
    /\ pc'[s] = "commit" => kind[s] = "atomic"
    /\ kind[s] = "atomic" => pc'[s] \in {"run", "commit"}

\* A queue of two or more commands has a next command.
LEMMA TailNonEmpty ==
    ASSUME NEW S, NEW q \in Seq(S), Len(q) > 1
    PROVE  Tail(q) # <<>>
<1>1. SUFFICES ASSUME Tail(q) = <<>> PROVE FALSE
  OBVIOUS
<1>2. Len(<<>>) = 0
  OBVIOUS
<1>3. Len(Tail(q)) = 0
  BY <1>1, <1>2, Zenon
<1>4. Len(Tail(q)) = Len(q) - 1 /\ Len(q) \in Nat
  OBVIOUS
<1> QED
  BY <1>3, <1>4

\* What the request loop does to a session that has finished one command.
LEMMA AdvanceEffect ==
    ASSUME TypeOK, NEW s \in Sessions, queue[s] # <<>>, Advance(s)
    PROVE  /\ queue' \in [Sessions -> Seq(Command)] /\ pc' \in [Sessions -> PCs]
           /\ \A t \in Sessions \ {s} : queue'[t] = queue[t] /\ pc'[t] = pc[t]
           /\ Advanced(s)
<1>1. queue[s] \in Seq(Command)
  BY DEF TypeOK
<1>2. Tail(queue[s]) \in Seq(Command) /\ Len(Tail(queue[s])) = Len(queue[s]) - 1
  BY <1>1
<1>3. Len(queue[s]) > 1 => Tail(queue[s]) # <<>>
  BY <1>1, TailNonEmpty
<1>4. queue'[s] = Tail(queue[s])
  BY DEF Advance, TypeOK
<1>5. /\ queue' \in [Sessions -> Seq(Command)]
      /\ \A t \in Sessions \ {s} : queue'[t] = queue[t]
  BY <1>2 DEF Advance, TypeOK
<1>6. /\ pc' \in [Sessions -> PCs]
      /\ \A t \in Sessions \ {s} : pc'[t] = pc[t]
  BY DEF Advance, TypeOK, PCs
<1>7. pc'[s] = IF Len(queue[s]) > 1 THEN "run"
               ELSE IF kind[s] = "batch" THEN "persist"
               ELSE IF kind[s] = "atomic" THEN "commit" ELSE "idle"
  BY DEF Advance, TypeOK
<1> QED
  BY <1>3, <1>4, <1>5, <1>6, <1>7 DEF Advanced

\* What ending a request does to its session.
LEMMA RespondEffect ==
    ASSUME TypeOK, NEW s \in Sessions, Respond(s)
    PROVE  /\ queue' \in [Sessions -> Seq(Command)] /\ pc' \in [Sessions -> PCs]
           /\ pending' \in [Sessions -> Seq(Write)]
           /\ \A t \in Sessions \ {s} : queue'[t] = queue[t] /\ pc'[t] = pc[t] /\ pending'[t] = pending[t]
           /\ pc'[s] = "idle" /\ pending'[s] = <<>>
BY DEF Respond, TypeOK, PCs

\* What dropping a clone does to its session.
LEMMA NoTxEffect ==
    ASSUME TypeOK, NEW s \in Sessions, NoTx(s)
    PROVE  /\ tx' \in [Sessions -> {"none", "session", "atomic"}]
           /\ txSQL' \in [Sessions -> Seq(Write)]
           /\ \A t \in Sessions \ {s} : tx'[t] = tx[t] /\ txSQL'[t] = txSQL[t]
           /\ tx'[s] = "none" /\ txSQL'[s] = <<>>
BY DEF NoTx, TypeOK

\* A failed statement on a clone: the batch is over, or the next command runs.
LEMMA TxStatementFailsEffect ==
    ASSUME TypeOK, NEW s \in Sessions, queue[s] # <<>>, TxStatementFails(s)
    PROVE  /\ LoopStep(s)
           /\ \/ tx[s] = "atomic" /\ tx'[s] = "none" /\ pc'[s] = "idle"
              \/ tx[s] # "atomic" /\ tx'[s] = tx[s] /\ Advanced(s)
           /\ txSQL'[s] \in {txSQL[s], <<>>} /\ pending'[s] \in {pending[s], <<>>}
<1>1. CASE tx[s] = "atomic"
  <2>1. NoTx(s) /\ Respond(s)
    BY <1>1 DEF TxStatementFails
  <2> QED
    BY <1>1, <2>1, NoTxEffect, RespondEffect DEF LoopStep
<1>2. CASE tx[s] # "atomic"
  <2>1. Advance(s) /\ tx' = tx /\ txSQL' = txSQL /\ pending' = pending
    BY <1>2 DEF TxStatementFails
  <2>2. /\ tx \in [Sessions -> {"none", "session", "atomic"}] /\ txSQL \in [Sessions -> Seq(Write)]
        /\ pending \in [Sessions -> Seq(Write)]
    BY Zenon DEF TypeOK
  <2> QED
    BY <1>2, <2>1, <2>2, AdvanceEffect, Zenon DEF LoopStep
<1> QED
  BY <1>1, <1>2

\* A failed commit: the same.
LEMMA CommitFailsEffect ==
    ASSUME TypeOK, NEW s \in Sessions, tx[s] # "atomic" => queue[s] # <<>>, CommitFails(s)
    PROVE  /\ LoopStep(s)
           /\ \/ tx[s] = "atomic" /\ tx'[s] = "none" /\ pc'[s] = "idle"
              \/ tx[s] # "atomic" /\ tx'[s] = tx[s] /\ Advanced(s)
           /\ txSQL'[s] \in {txSQL[s], <<>>} /\ pending'[s] \in {pending[s], <<>>}
<1>1. CASE tx[s] = "atomic"
  <2>1. NoTx(s) /\ Respond(s)
    BY <1>1 DEF CommitFails
  <2> QED
    BY <1>1, <2>1, NoTxEffect, RespondEffect, IdsType, ZenonT(60) DEF LoopStep, CommitFails, TypeOK
<1>2. CASE tx[s] # "atomic"
  <2>1. Advance(s) /\ tx' = tx /\ txSQL' = txSQL /\ pending' = pending
    BY <1>2 DEF CommitFails
  <2> QED
    BY <1>2, <2>1, AdvanceEffect, IdsType, Zenon DEF LoopStep, CommitFails, TypeOK
<1> QED
  BY <1>1, <1>2

\* A successful persist: a commit goes on to publish, anything else responds.
LEMMA PersistDoneEffect ==
    ASSUME TypeOK, NEW s \in Sessions, PersistDone(s), tx' = tx, txSQL' = txSQL
    PROVE  /\ LoopStep(s)
           /\ acked' \in SUBSET Nat
           /\ \/ commitMu = s /\ pc'[s] = "publish" /\ queue'[s] = queue[s] /\ acked' = acked
                              /\ pending'[s] = pending[s]
              \/ commitMu # s /\ pc'[s] = "idle" /\ acked' = acked \cup Ids(pending[s])
                              /\ pending'[s] = <<>>
<1>1. CASE commitMu = s
  BY <1>1, Zenon DEF PersistDone, LoopStep, TypeOK, PCs
<1>2. CASE commitMu # s
  <2>1. Respond(s) /\ acked' = acked \cup Ids(pending[s])
    BY <1>2 DEF PersistDone
  <2> QED
    BY <1>2, <2>1, RespondEffect, IdsType, Zenon DEF LoopStep, TypeOK
<1> QED
  BY <1>1, <1>2

\* A failed persist: a commit gives up its lock and fails, anything else
\* responds.
LEMMA PersistFailsEffect ==
    ASSUME TypeOK, Control, NEW s \in Sessions, PersistFails(s)
    PROVE  /\ LoopStep(s)
           /\ \/ /\ commitMu = s /\ commitMu' = Free
                 /\ \/ tx[s] = "atomic" /\ tx'[s] = "none" /\ pc'[s] = "idle"
                    \/ tx[s] # "atomic" /\ tx'[s] = tx[s] /\ Advanced(s)
              \/ commitMu # s /\ commitMu' = commitMu /\ tx'[s] = tx[s] /\ pc'[s] = "idle"
           /\ txSQL'[s] \in {txSQL[s], <<>>} /\ pending'[s] \in {pending[s], <<>>}
<1>1. CASE commitMu = s
  <2>1. CommitFails(s) /\ commitMu' = Free
    BY <1>1 DEF PersistFails, Unlock
  <2>2. tx[s] # "atomic" => queue[s] # <<>>
    BY <1>1 DEF Control, ControlOf, TypeOK
  <2> QED
    BY <1>1, <2>1, <2>2, CommitFailsEffect
<1>2. CASE commitMu # s
  <2>1. Respond(s) /\ tx' = tx /\ txSQL' = txSQL /\ commitMu' = commitMu
    BY <1>2 DEF PersistFails
  <2>2. /\ tx \in [Sessions -> {"none", "session", "atomic"}] /\ txSQL \in [Sessions -> Seq(Write)]
        /\ pending \in [Sessions -> Seq(Write)]
    BY Zenon DEF TypeOK
  <2> QED
    BY <1>2, <2>1, <2>2, RespondEffect, Zenon DEF LoopStep
<1> QED
  BY <1>1, <1>2

\* Init establishes types and control.
LEMMA TypeInit == Init => TypeOK /\ Control
<1> SUFFICES ASSUME Init PROVE TypeOK /\ Control
  OBVIOUS
<1>1. EmptyImage \in Image
  BY DEF EmptyImage, Image
<1>2. TypeOK
  BY <1>1 DEF Init, TypeOK, PCs
<1>3. Control
  BY FreeAssumption DEF Init, Control, ControlOf, Persisting
<1> QED
  BY <1>2, <1>3

\* No step of a session, no crash and no restart breaks a type.
LEMMA TypeStep == TypeOK /\ Control /\ [Next]_vars => TypeOK'
<1> SUFFICES ASSUME TypeOK, Control, [Next]_vars PROVE TypeOK'
  OBVIOUS
<1>1. ASSUME NEW s \in Sessions, NEW r \in Requests, Submit(s, r) PROVE TypeOK'
  <2>1. r.kind \in {"sql", "batch", "atomic"} /\ r.cmds \in Seq(Command)
    BY RequestsAssumption DEF Request
  <2>2. /\ kind' \in [Sessions -> {"sql", "batch", "atomic"}]
        /\ queue' \in [Sessions -> Seq(Command)] /\ pc' \in [Sessions -> PCs]
    BY <1>1, <2>1, Zenon DEF Submit, TypeOK, PCs
  <2>3. /\ requests' = requests + 1
        /\ UNCHANGED <<running, memory, tx, clone, origin, base, txSQL, pending, snapBuf, disk, walMu,
                       history, crashes>>
    BY <1>1 DEF Submit
  <2>4. requests' \in Nat
    BY <2>3 DEF TypeOK
  <2> QED
    BY <2>2, <2>3, <2>4, Zenon DEF TypeOK, memory, disk, history
<1>2. ASSUME NEW s \in Sessions, Disconnect(s) PROVE TypeOK'
  BY <1>2, NoTxEffect, Zenon DEF Disconnect, TypeOK, memory, disk, history
<1>3. ASSUME NEW s \in Sessions, ExecAuto(s) PROVE TypeOK'
  <2> DEFINE st == Head(queue[s])
  <2>1. st \in Statement /\ queue[s] # <<>>
    BY <1>3, Zenon DEF ExecAuto, Runs
  <2>2. [id |-> nextId, stmt |-> st] \in Write
    BY <2>1 DEF TypeOK, Write
  <2>3. Append(pending[s], [id |-> nextId, stmt |-> st]) \in Seq(Write) /\ Tail(queue[s]) \in Seq(Command)
    BY <2>1, <2>2 DEF TypeOK
  <2>4. Effect(st, db) \in Image
    BY <2>1, EffectType DEF TypeOK
  <2>5. queue' \in [Sessions -> Seq(Command)] /\ pc' \in [Sessions -> PCs]
    <3>1. CASE Advance(s)
      BY <2>1, <3>1, AdvanceEffect
    <3>2. CASE ~Advance(s)
      <4>1. queue' = [queue EXCEPT ![s] = Tail(@)] /\ pc' = [pc EXCEPT ![s] = "persist"]
        BY <1>3, <3>2 DEF ExecAuto
      <4>2. queue \in [Sessions -> Seq(Command)] /\ pc \in [Sessions -> PCs]
        BY Zenon DEF TypeOK
      <4>3. Tail(queue[s]) \in Seq(Command)
        BY <2>3, <4>2
      <4>4. "persist" \in PCs
        BY DEF PCs
      <4> QED
        BY <4>1, <4>2, <4>3, <4>4, Zenon
    <3> QED
      BY <3>1, <3>2
  <2>6. db' \in Image /\ revision' \in Nat /\ nextId' \in Nat /\ pending' \in [Sessions -> Seq(Write)]
    <3>1. CASE /\ db' = Effect(st, db) /\ revision' = NewRevision /\ nextId' = nextId + 1
               /\ pending' = [pending EXCEPT ![s] = Append(@, [id |-> nextId, stmt |-> st])]
      BY <2>3, <2>4, <3>1 DEF NewRevision, TypeOK
    <3>2. CASE UNCHANGED <<db, revision, nextId, pending>>
      BY <3>2, Zenon DEF TypeOK
    <3> QED
      BY <1>3, <3>1, <3>2 DEF ExecAuto
  <2>7. UNCHANGED <<running, commitMu, kind, tx, clone, origin, base, txSQL, snapBuf, disk, walMu,
                    acked, requests, crashes>>
    BY <1>3 DEF ExecAuto
  <2> QED
    BY <2>5, <2>6, <2>7, Zenon DEF TypeOK, disk
<1>4. ASSUME NEW s \in Sessions, ExecAutoTimeout(s) PROVE TypeOK'
  <2>1. queue[s] # <<>> /\ db' \in Image
    BY <1>4, CutShortType, Zenon DEF ExecAutoTimeout, Runs, TypeOK
  <2> QED
    BY <1>4, <2>1, AdvanceEffect, Zenon DEF ExecAutoTimeout, TypeOK, disk, history
<1>5. ASSUME NEW s \in Sessions, ExecTx(s) PROVE TypeOK'
  <2> DEFINE st == Head(queue[s])
  <2>1. st \in Statement /\ queue[s] # <<>>
    BY <1>5 DEF ExecTx, Runs
  <2>2. [id |-> nextId, stmt |-> st] \in Write
    BY <2>1 DEF TypeOK, Write
  <2>3. Append(txSQL[s], [id |-> nextId, stmt |-> st]) \in Seq(Write)
    BY <2>2 DEF TypeOK
  <2>4. Effect(st, clone[s]) \in Image
    BY <2>1, EffectType DEF TypeOK
  <2>5. CASE /\ clone' = [clone EXCEPT ![s] = Effect(st, @)]
             /\ txSQL' = [txSQL EXCEPT ![s] = Append(@, [id |-> nextId, stmt |-> st])]
             /\ nextId' = nextId + 1 /\ Advance(s) /\ tx' = tx /\ pending' = pending
    <3>1. /\ clone' \in [Sessions -> Image] /\ nextId' \in Nat /\ txSQL' \in [Sessions -> Seq(Write)]
      BY <2>3, <2>4, <2>5 DEF TypeOK
    <3> QED
      BY <1>5, <2>1, <2>5, <3>1, AdvanceEffect, ZenonT(60) DEF ExecTx, TypeOK, memory, disk
  <2>6. CASE clone' = clone /\ nextId' = nextId /\ Advance(s) /\ pending' = pending
             /\ (NoTx(s) \/ (tx' = tx /\ txSQL' = txSQL))
    BY <1>5, <2>1, <2>6, AdvanceEffect, NoTxEffect, ZenonT(60) DEF ExecTx, TypeOK, memory, disk
  <2>7. CASE clone' = clone /\ nextId' = nextId /\ TxStatementFails(s)
    BY <1>5, <2>1, <2>7, TxStatementFailsEffect, Zenon DEF ExecTx, LoopStep, TypeOK, memory, disk
  <2> QED
    BY <1>5, <2>5, <2>6, <2>7, Zenon DEF ExecTx
<1>6. ASSUME NEW s \in Sessions, ExecTxTimeout(s) PROVE TypeOK'
  <2>1. queue[s] # <<>> /\ clone' \in [Sessions -> Image]
    BY <1>6, CutShortType DEF ExecTxTimeout, Runs, TypeOK
  <2> QED
    BY <1>6, <2>1, TxStatementFailsEffect, Zenon DEF ExecTxTimeout, LoopStep, TypeOK, memory, disk, history
<1>7. ASSUME NEW s \in Sessions, BeginCheck(s) PROVE TypeOK'
  <2>1. queue[s] # <<>>
    BY <1>7, Zenon DEF BeginCheck, RunsControl, Runs
  <2> QED
    BY <1>7, <2>1, AdvanceEffect, Zenon DEF BeginCheck, TypeOK, memory, disk, history, PCs
<1>8. ASSUME NEW s \in Sessions, TakeClone(s) PROVE TypeOK'
  <2>1. queue[s] # <<>>
    BY <1>8 DEF TakeClone, Control, ControlOf
  <2>2. queue' \in [Sessions -> Seq(Command)] /\ pc' \in [Sessions -> PCs]
    BY <1>8, <2>1, AdvanceEffect, Zenon DEF TakeClone, TypeOK, PCs
  <2> QED
    <3>1. /\ clone' \in [Sessions -> Image] /\ origin' \in [Sessions -> Image] /\ base' \in [Sessions -> Nat]
          /\ txSQL' \in [Sessions -> Seq(Write)] /\ tx' \in [Sessions -> {"none", "session", "atomic"}]
      <4>1. /\ clone' = [clone EXCEPT ![s] = db] /\ origin' = [origin EXCEPT ![s] = db]
            /\ base' = [base EXCEPT ![s] = revision] /\ txSQL' = [txSQL EXCEPT ![s] = <<>>]
            /\ \E x \in {"session", "atomic"} : tx' = [tx EXCEPT ![s] = x]
        BY <1>8 DEF TakeClone, CloneBase
      <4>2. tx' \in [Sessions -> {"none", "session", "atomic"}]
        BY <4>1, Zenon DEF TypeOK
      <4>3. clone' \in [Sessions -> Image] /\ origin' \in [Sessions -> Image]
        BY <4>1, Zenon DEF TypeOK
      <4>4. base' \in [Sessions -> Nat] /\ txSQL' \in [Sessions -> Seq(Write)]
        BY <4>1 DEF TypeOK
      <4> QED
        BY <4>2, <4>3, <4>4, Zenon
    <3>2. UNCHANGED <<running, db, revision, commitMu, kind, pending, snapBuf, snap, wal, synced, walMu,
                      nextId, acked, requests, crashes>>
      BY <1>8, Zenon DEF TakeClone, memory, disk, history
    <3> QED
      BY <2>2, <3>1, <3>2, Zenon DEF TypeOK
<1>9. ASSUME NEW s \in Sessions, EndWithoutCommit(s) PROVE TypeOK'
  <2>1. queue[s] # <<>>
    BY <1>9, Zenon DEF EndWithoutCommit, RunsControl, Runs
  <2> QED
    BY <1>9, <2>1, NoTxEffect, AdvanceEffect, Zenon DEF EndWithoutCommit, TypeOK, memory, disk, history
<1>10. ASSUME NEW s \in Sessions, CommitCheck(s) PROVE TypeOK'
  <2>1. tx[s] # "atomic" => queue[s] # <<>>
    BY <1>10, Zenon DEF CommitCheck, RunsControl, Runs, Control, ControlOf
  <2>2. CASE Stale(s)
    BY <1>10, <2>1, <2>2, CommitFailsEffect, Zenon DEF CommitCheck, LoopStep, TypeOK, disk
  <2>3. CASE ~Stale(s)
    BY <1>10, <2>3, Zenon DEF CommitCheck, TypeOK, disk, PCs
  <2> QED
    BY <2>2, <2>3
<1>11. ASSUME NEW s \in Sessions, Publish(s) PROVE TypeOK'
  <2>1. tx[s] # "atomic" => queue[s] # <<>>
    BY <1>11 DEF Publish, Control, ControlOf, TypeOK
  <2>2. /\ queue' \in [Sessions -> Seq(Command)] /\ pc' \in [Sessions -> PCs]
        /\ pending' \in [Sessions -> Seq(Write)]
    BY <1>11, <2>1, AdvanceEffect, RespondEffect, Zenon DEF Publish, TypeOK
  <2> QED
    <3>1. acked' \in SUBSET Nat
      BY <1>11, IdsType, ZenonT(60) DEF Publish, TypeOK
    <3>2. db' \in Image /\ revision' \in Nat
      BY <1>11 DEF Publish, NewRevision, TypeOK
    <3> QED
      BY <1>11, <2>2, <3>1, <3>2, NoTxEffect, Zenon DEF Publish, Unlock, TypeOK, disk
<1>12. ASSUME NEW s \in Sessions, PersistNothing(s) PROVE TypeOK'
  BY <1>12, PersistDoneEffect, ZenonT(60) DEF PersistNothing, LoopStep, TypeOK, memory, disk
<1>13. ASSUME NEW s \in Sessions, WalWrite(s) PROVE TypeOK'
  <2>1. wal \o Frames(s) \in Seq(Record)
    BY FramesType DEF TypeOK
  <2> QED
    BY <1>13, <2>1, Zenon DEF WalWrite, TypeOK, memory, history, PCs
<1>14. ASSUME NEW s \in Sessions, WalWriteFails(s) PROVE TypeOK'
  <2>1. (wal' = wal \/ \E part \in Seq(Record) : wal' = wal \o part) /\ wal \in Seq(Record)
    BY <1>14, FailedWriteExtends, Zenon DEF TypeOK
  <2>2. wal' \in Seq(Record)
    <3>1. ASSUME NEW part \in Seq(Record), wal' = wal \o part PROVE wal' \in Seq(Record)
      BY <2>1, <3>1
    <3> QED
      BY <2>1, <3>1
  <2> QED
    BY <1>14, <2>2, PersistFailsEffect, Zenon DEF WalWriteFails, LoopStep, TypeOK
<1>15. ASSUME NEW s \in Sessions, WalSync(s) PROVE TypeOK'
  <2>1. Len(wal) \in Nat
    BY DEF TypeOK
  <2> QED
    BY <1>15, <2>1, PersistDoneEffect, Zenon DEF WalSync, SyncedByFsync, LoopStep, TypeOK, memory
<1>16. ASSUME NEW s \in Sessions, WalSyncFails(s) PROVE TypeOK'
  BY <1>16, PersistFailsEffect, ZenonT(60) DEF WalSyncFails, LoopStep, TypeOK, disk
<1>17. ASSUME NEW s \in Sessions, SnapEncode(s) PROVE TypeOK'
  BY <1>17, Zenon DEF SnapEncode, SnapImage, TypeOK, memory, disk, history, PCs
<1>18. ASSUME NEW s \in Sessions, SnapRename(s) PROVE TypeOK'
  BY <1>18, PersistDoneEffect, Zenon DEF SnapRename, LoopStep, TypeOK, memory
<1>19. ASSUME NEW s \in Sessions, SnapFails(s) PROVE TypeOK'
  BY <1>19, PersistFailsEffect, Zenon DEF SnapFails, LoopStep, TypeOK, disk
<1>20. ASSUME Crash PROVE TypeOK'
  <2>1. wal \in Seq(Record) /\ synced \in Nat
    BY DEF TypeOK
  <2>2. PICK n \in synced .. Len(wal) : wal' \in {SubSeq(wal, 1, n), Append(SubSeq(wal, 1, n), TornFrame)}
    BY <1>20 DEF Crash
  <2>3. n \in 0 .. Len(wal) /\ SubSeq(wal, 1, n) \in Seq(Record)
    BY <2>1, <2>2
  <2>4. wal' \in Seq(Record) /\ Len(wal') \in Nat
    BY <2>2, <2>3, TornFrameType
  <2>5. synced' \in Nat
    BY <1>20, <2>4 DEF Crash
  <2>6. /\ pc' \in [Sessions -> PCs] /\ queue' \in [Sessions -> Seq(Command)]
        /\ tx' \in [Sessions -> {"none", "session", "atomic"}]
        /\ txSQL' \in [Sessions -> Seq(Write)] /\ pending' \in [Sessions -> Seq(Write)]
    BY <1>20 DEF Crash, PCs
  <2>7. /\ commitMu' = Free /\ walMu' = Free /\ running' = FALSE /\ crashes' = crashes + 1
        /\ UNCHANGED <<db, revision, kind, clone, origin, base, snapBuf, snap, history, requests>>
    BY <1>20 DEF Crash
  <2>8. crashes' \in Nat
    BY <2>7 DEF TypeOK
  <2> QED
    BY <2>4, <2>5, <2>6, <2>7, <2>8, ZenonT(60) DEF TypeOK, history
<1>21. ASSUME Restart PROVE TypeOK'
  BY <1>21 DEF Restart, TypeOK, session, disk, history
<1>22. CASE UNCHANGED vars
  BY <1>22, Zenon DEF vars, TypeOK, memory, session, disk, history
<1> QED
  BY ZenonT(40), <1>1, <1>2, <1>3, <1>4, <1>5, <1>6, <1>7, <1>8, <1>9, <1>10, <1>11, <1>12, <1>13, <1>14, <1>15, <1>16,
     <1>17, <1>18, <1>19, <1>20, <1>21, <1>22 DEF Next, Execute, Persist

\* The commit lock is untouched, taken by s, or given up by s.
LockStep(s) ==
    \/ commitMu' = commitMu
    \/ commitMu = Free /\ commitMu' = s
    \/ commitMu = s /\ commitMu' = Free

\* A step of one session leaves the control of every other session alone.
LEMMA ControlFrame ==
    ASSUME Control, NEW s \in Sessions, LoopStep(s), LockStep(s), running' = running,
           \A t \in Sessions \ {s} : kind'[t] = kind[t],
           ControlOf(s)'
    PROVE  Control'
<1> SUFFICES ASSUME NEW t \in Sessions, t # s PROVE ControlOf(t)'
  BY DEF Control
<1>1. ControlOf(t)
  BY DEF Control
<1>2. commitMu' = t <=> commitMu = t
  BY FreeAssumption DEF LockStep
<1> QED
  BY <1>1, <1>2, ZenonT(60) DEF ControlOf, LoopStep

\* No step of a session, no crash and no restart breaks the control.
LEMMA ControlStep == TypeOK /\ Control /\ [Next]_vars => Control'
<1> SUFFICES ASSUME TypeOK, Control, [Next]_vars PROVE Control'
  OBVIOUS
<1>a. ASSUME NEW s \in Sessions PROVE ControlOf(s) /\ s # Free
  BY FreeAssumption DEF Control
<1> USE DEF ControlOf, Persisting
<1>1. ASSUME NEW s \in Sessions, NEW r \in Requests, Submit(s, r) PROVE Control'
  <2>1. r.cmds \in Seq(Command) /\ r.cmds # <<>>
    BY RequestsAssumption DEF Request
  <2>2. LoopStep(s)
    BY <1>1, <2>1, Zenon DEF Submit, LoopStep, TypeOK, PCs
  <2>3. ControlOf(s)'
    BY <1>1, <1>a, <2>1, Zenon DEF Submit, TypeOK, memory
  <2> QED
    BY <1>1, <2>2, <2>3, ControlFrame, Zenon DEF Submit, LockStep, memory, TypeOK
<1>2. ASSUME NEW s \in Sessions, Disconnect(s) PROVE Control'
  <2>1. pc[s] = "idle" /\ NoTx(s) /\ UNCHANGED <<running, commitMu, kind, pc, queue, pending>>
    BY <1>2, ZenonT(60) DEF Disconnect, memory
  <2>2. /\ queue \in [Sessions -> Seq(Command)] /\ pc \in [Sessions -> PCs]
        /\ pending \in [Sessions -> Seq(Write)]
    BY Zenon DEF TypeOK
  <2>3. LoopStep(s) /\ tx'[s] = "none"
    BY <2>1, <2>2, NoTxEffect, Zenon DEF LoopStep
  <2> QED
    BY <1>a, <2>1, <2>3, ControlFrame, Zenon DEF LockStep
<1>3. ASSUME NEW s \in Sessions, ExecAuto(s) PROVE Control'
  <2>1. /\ queue[s] # <<>> /\ pc[s] = "run" /\ tx[s] = "none" /\ commitMu = Free
        /\ UNCHANGED <<running, commitMu, kind, tx, txSQL>>
    BY <1>3, Zenon DEF ExecAuto, Runs
  <2>2. LoopStep(s)
    <3>1. TypeOK'
      BY <1>3, TypeStep DEF Next, Execute
    <3>2. \A t \in Sessions \ {s} : queue'[t] = queue[t] /\ pc'[t] = pc[t] /\ pending'[t] = pending[t]
      <4>1. pending' = pending \/ \E w : pending' = [pending EXCEPT ![s] = w]
        BY <1>3, Zenon DEF ExecAuto
      <4>2. Advance(s) \/ (queue' = [queue EXCEPT ![s] = Tail(@)] /\ pc' = [pc EXCEPT ![s] = "persist"])
        BY <1>3 DEF ExecAuto
      <4>3. \A t \in Sessions \ {s} : queue'[t] = queue[t] /\ pc'[t] = pc[t]
        BY <2>1, <4>2, AdvanceEffect, Zenon DEF TypeOK
      <4> QED
        BY <4>1, <4>3, Zenon DEF TypeOK
    <3> QED
      BY <2>1, <3>1, <3>2, Zenon DEF LoopStep, TypeOK
  <2>3. pc'[s] = "persist" \/ Advanced(s)
    BY <1>3, <2>1, AdvanceEffect, Zenon DEF ExecAuto, TypeOK
  <2> QED
    BY <1>a, <2>1, <2>2, <2>3, ControlFrame DEF LockStep, Advanced
<1>4. ASSUME NEW s \in Sessions, ExecAutoTimeout(s) PROVE Control'
  <2>1. /\ queue[s] # <<>> /\ pc[s] = "run" /\ tx[s] = "none" /\ commitMu = Free /\ Advance(s)
        /\ UNCHANGED <<running, commitMu, kind, tx, txSQL, pending>>
    BY <1>4, Zenon DEF ExecAutoTimeout, Runs
  <2>2. LoopStep(s) /\ Advanced(s)
    BY <2>1, AdvanceEffect, Zenon DEF LoopStep, TypeOK
  <2> QED
    BY <1>a, <2>1, <2>2, ControlFrame DEF LockStep, Advanced
<1>5. ASSUME NEW s \in Sessions, ExecTx(s) PROVE Control'
  <2>1. /\ queue[s] # <<>> /\ pc[s] = "run" /\ tx[s] # "none"
        /\ UNCHANGED <<running, commitMu, kind>>
    BY <1>5, Zenon DEF ExecTx, Runs, memory
  <2>2. TypeOK'
    BY <1>5, TypeStep, ZenonT(40) DEF Next, Execute
  <2>3. \/ Advance(s) /\ tx' = tx /\ pending' = pending /\ \A t \in Sessions \ {s} : txSQL'[t] = txSQL[t]
        \/ Advance(s) /\ tx[s] = "session" /\ NoTx(s) /\ pending' = pending
        \/ TxStatementFails(s)
    BY <1>5 DEF ExecTx, TypeOK
  <2>4. LoopStep(s) /\ \/ Advanced(s) /\ tx'[s] = tx[s]
                       \/ Advanced(s) /\ tx[s] = "session" /\ tx'[s] = "none"
                       \/ tx'[s] = "none" /\ pc'[s] = "idle"
    <3>1. CASE Advance(s)
      BY <2>1, <2>2, <2>3, <3>1, AdvanceEffect, NoTxEffect, TxStatementFailsEffect, ZenonT(60) DEF LoopStep, TypeOK
    <3>2. CASE ~Advance(s)
      BY <2>1, <2>3, <3>2, TxStatementFailsEffect, Zenon
    <3> QED
      BY <3>1, <3>2, Zenon
  <2> QED
    BY <1>a, <2>1, <2>4, ControlFrame, Zenon DEF LockStep, Advanced
<1>6. ASSUME NEW s \in Sessions, ExecTxTimeout(s) PROVE Control'
  <2>1. /\ queue[s] # <<>> /\ pc[s] = "run" /\ tx[s] # "none" /\ TxStatementFails(s)
        /\ UNCHANGED <<running, commitMu, kind>>
    BY <1>6, Zenon DEF ExecTxTimeout, Runs, memory
  <2> QED
    BY <1>a, <2>1, TxStatementFailsEffect, ControlFrame, ZenonT(40) DEF LockStep, Advanced
<1>7. ASSUME NEW s \in Sessions, BeginCheck(s) PROVE Control'
  <2>1. /\ queue[s] # <<>> /\ pc[s] = "run" /\ kind[s] # "atomic"
        /\ UNCHANGED <<running, commitMu, kind, tx, txSQL, pending>>
        /\ Advance(s) \/ (tx[s] = "none" /\ pc' = [pc EXCEPT ![s] = "clone"] /\ queue' = queue)
    BY <1>7, Zenon DEF BeginCheck, RunsControl, Runs, memory
  <2>2. LoopStep(s) /\ (Advanced(s) \/ (tx[s] = "none" /\ pc'[s] = "clone" /\ queue'[s] # <<>>))
    BY <2>1, AdvanceEffect, Zenon DEF LoopStep, TypeOK, PCs
  <2> QED
    BY <1>a, <2>1, <2>2, ControlFrame, Zenon DEF LockStep, Advanced
<1>8. ASSUME NEW s \in Sessions, TakeClone(s) PROVE Control'
  <2>1. /\ queue[s] # <<>> /\ pc[s] = "clone" /\ commitMu = Free
        /\ UNCHANGED <<running, commitMu, kind, pending>>
    BY <1>8, <1>a, Zenon DEF TakeClone, memory
  <2>2. TypeOK'
    BY <1>8, TypeStep DEF Next, Execute
  <2>3. /\ LoopStep(s)
        /\ \/ kind[s] = "atomic" /\ tx'[s] = "atomic" /\ pc'[s] = "run" /\ queue'[s] # <<>>
           \/ kind[s] # "atomic" /\ tx'[s] = "session" /\ Advanced(s)
    <3>1. CASE kind[s] = "atomic"
      <4>1. /\ tx' = [tx EXCEPT ![s] = "atomic"] /\ pc' = [pc EXCEPT ![s] = "run"]
            /\ txSQL' = [txSQL EXCEPT ![s] = <<>>] /\ queue' = queue
        BY <1>8, <3>1 DEF TakeClone
      <4> QED
        BY <2>1, <2>2, <3>1, <4>1, Zenon DEF LoopStep, TypeOK
    <3>2. CASE kind[s] # "atomic"
      <4>1. /\ tx' = [tx EXCEPT ![s] = "session"] /\ txSQL' = [txSQL EXCEPT ![s] = <<>>]
            /\ Advance(s)
        BY <1>8, <3>2 DEF TakeClone
      <4> QED
        BY <2>1, <2>2, <3>2, <4>1, AdvanceEffect, ZenonT(60) DEF LoopStep, TypeOK
    <3> QED
      BY <3>1, <3>2, Zenon
  <2> QED
    BY <1>a, <2>1, <2>3, ControlFrame, Zenon DEF LockStep, Advanced
<1>9. ASSUME NEW s \in Sessions, EndWithoutCommit(s) PROVE Control'
  <2>1. /\ queue[s] # <<>> /\ pc[s] = "run" /\ kind[s] # "atomic" /\ NoTx(s) /\ Advance(s)
        /\ UNCHANGED <<running, commitMu, kind, pending>>
    BY <1>9, Zenon DEF EndWithoutCommit, RunsControl, Runs, memory
  <2>2. LoopStep(s) /\ Advanced(s) /\ tx'[s] = "none"
    BY <2>1, NoTxEffect, AdvanceEffect, Zenon DEF LoopStep, TypeOK
  <2> QED
    BY <1>a, <2>1, <2>2, ControlFrame, Zenon DEF LockStep, Advanced
<1>10. ASSUME NEW s \in Sessions, CommitCheck(s) PROVE Control'
  <2>1. /\ tx[s] # "none" /\ commitMu = Free
        /\ tx[s] # "atomic" => queue[s] # <<>> /\ kind[s] # "atomic"
        /\ UNCHANGED <<running, kind>>
    BY <1>10, <1>a, Zenon DEF CommitCheck, RunsControl, Runs
  <2>2. CASE Stale(s)
    <3>1. CommitFails(s) /\ UNCHANGED commitMu
      BY <1>10, <2>2, ZenonT(60) DEF CommitCheck
    <3> QED
      BY <1>a, <2>1, <3>1, CommitFailsEffect, ControlFrame, Zenon DEF LockStep, Advanced
  <2>3. CASE ~Stale(s)
    <3>1. commitMu' = s /\ pc' = [pc EXCEPT ![s] = "persist"] /\ UNCHANGED <<queue, tx, txSQL, pending>>
      BY <1>10, <2>3, Zenon DEF CommitCheck
    <3>2. LoopStep(s) /\ pc'[s] = "persist"
      BY <3>1, Zenon DEF LoopStep, TypeOK, PCs
    <3> QED
      BY <1>a, <2>1, <3>1, <3>2, ControlFrame DEF LockStep
  <2> QED
    BY <2>2, <2>3
<1>11. ASSUME NEW s \in Sessions, Publish(s) PROVE Control'
  <2>1. /\ commitMu = s /\ commitMu' = Free /\ tx[s] # "none" /\ NoTx(s)
        /\ tx[s] # "atomic" => queue[s] # <<>> /\ kind[s] # "atomic"
        /\ UNCHANGED <<running, kind>>
    BY <1>11, <1>a DEF Publish, Unlock, TypeOK
  <2>2. LoopStep(s) /\ tx'[s] = "none" /\ (pc'[s] = "idle" \/ (Advanced(s) /\ kind[s] # "atomic"))
    <3>1. CASE tx[s] = "atomic"
      BY <1>11, <2>1, <3>1, NoTxEffect, RespondEffect, Zenon DEF Publish, LoopStep
    <3>2. CASE tx[s] # "atomic"
      <4>1. Advance(s) /\ pending' = pending
        BY <1>11, <3>2, Zenon DEF Publish
      <4> QED
        BY <2>1, <3>2, <4>1, NoTxEffect, AdvanceEffect, Zenon DEF LoopStep, TypeOK
    <3> QED
      BY <3>1, <3>2, Zenon
  <2> QED
    BY <1>a, <2>1, <2>2, ControlFrame, Zenon DEF LockStep, Advanced
<1>12. ASSUME NEW s \in Sessions, PersistNothing(s) PROVE Control'
  BY <1>12, <1>a, PersistDoneEffect, ControlFrame, ZenonT(60) DEF PersistNothing, LockStep, memory
<1>13. ASSUME NEW s \in Sessions, WalWrite(s) PROVE Control'
  <2>1. LoopStep(s) /\ pc'[s] = "sync"
    BY <1>13 DEF WalWrite, LoopStep, TypeOK, PCs
  <2> QED
    BY <1>13, <1>a, <2>1, ControlFrame, ZenonT(40) DEF WalWrite, LockStep, memory
<1>14. ASSUME NEW s \in Sessions, WalWriteFails(s) PROVE Control'
  BY <1>14, <1>a, PersistFailsEffect, ControlFrame, ZenonT(60) DEF WalWriteFails, LockStep, Advanced, TypeOK
<1>15. ASSUME NEW s \in Sessions, WalSync(s) PROVE Control'
  BY <1>15, <1>a, PersistDoneEffect, ControlFrame, Zenon DEF WalSync, LockStep, memory
<1>16. ASSUME NEW s \in Sessions, WalSyncFails(s) PROVE Control'
  BY <1>16, <1>a, PersistFailsEffect, ControlFrame, ZenonT(60) DEF WalSyncFails, LockStep, Advanced, TypeOK
<1>17. ASSUME NEW s \in Sessions, SnapEncode(s) PROVE Control'
  <2>1. LoopStep(s) /\ pc'[s] = "rename"
    BY <1>17 DEF SnapEncode, LoopStep, TypeOK, PCs
  <2> QED
    BY <1>17, <1>a, <2>1, ControlFrame, Zenon DEF SnapEncode, LockStep, memory
<1>18. ASSUME NEW s \in Sessions, SnapRename(s) PROVE Control'
  BY <1>18, <1>a, PersistDoneEffect, ControlFrame, Zenon DEF SnapRename, LockStep, memory
<1>19. ASSUME NEW s \in Sessions, SnapFails(s) PROVE Control'
  BY <1>19, <1>a, PersistFailsEffect, ControlFrame, ZenonT(60) DEF SnapFails, LockStep, Advanced, TypeOK
<1>20. ASSUME Crash PROVE Control'
  BY <1>20, FreeAssumption, Zenon DEF Crash, Control
<1>21. ASSUME Restart PROVE Control'
  BY <1>21, Zenon DEF Restart, Control, session
<1>22. CASE UNCHANGED vars
  BY <1>22, ZenonT(60) DEF vars, Control, memory, session
<1> QED
  BY Zenon, <1>1, <1>2, <1>3, <1>4, <1>5, <1>6, <1>7, <1>8, <1>9, <1>10, <1>11, <1>12, <1>13, <1>14, <1>15, <1>16,
     <1>17, <1>18, <1>19, <1>20, <1>21, <1>22 DEF Next, Execute, Persist

\* Every variable keeps its type, whatever clients send and whatever fails.
THEOREM TypeCorrect == Spec => []TypeOK
<1>1. Spec => [](TypeOK /\ Control)
  BY TypeInit, TypeStep, ControlStep, PTL DEF Spec
<1> QED
  BY <1>1, PTL

-----------------------------------------------------------------------------
\* The revision test.

\* BaseIsCurrent is not inductive alone: a base must not lie in the future, and
\* the committer must still be at the revision it checked.
BaseInv ==
    /\ \A s \in Sessions : tx[s] # "none" => base[s] <= revision /\ (base[s] = revision => origin[s] = db)
    /\ \A s \in Sessions : commitMu = s => base[s] = revision

\* A revision counted up is newer than every base.
LEMMA NewerRevision ==
    ASSUME NEW r \in Nat, NEW b \in Nat, b <= r
    PROVE  b <= r + 1 /\ b # r + 1
OBVIOUS

\* A step that touches neither the database nor a base preserves it.
LEMMA BaseFrame ==
    ASSUME BaseInv, UNCHANGED <<db, revision, base, origin>>,
           \A t \in Sessions : (tx'[t] # "none" => tx[t] # "none") /\ (commitMu' = t => commitMu = t)
    PROVE  BaseInv'
BY DEF BaseInv

\* Without query timeouts, every step preserves it: each change of the database
\* raises the revision above every base taken before.
LEMMA BaseStep ==
    ASSUME QueryTimeout = FALSE
    PROVE  TypeOK /\ Control /\ BaseInv /\ [Next]_vars => BaseInv'
<1> SUFFICES ASSUME TypeOK, Control, BaseInv, [Next]_vars PROVE BaseInv'
  OBVIOUS
<1>a. ASSUME NEW s \in Sessions PROVE ControlOf(s) /\ s # Free
  BY FreeAssumption DEF Control
<1>1. ASSUME NEW s \in Sessions, NEW r \in Requests, Submit(s, r) PROVE BaseInv'
  BY <1>1, BaseFrame, Zenon DEF Submit, memory
<1>2. ASSUME NEW s \in Sessions, Disconnect(s) PROVE BaseInv'
  BY <1>2, BaseFrame, NoTxEffect, Zenon DEF Disconnect, memory
<1>3. ASSUME NEW s \in Sessions, ExecAuto(s) PROVE BaseInv'
  <2>1. CASE UNCHANGED <<db, revision>>
    BY <1>3, <2>1, BaseFrame, Zenon DEF ExecAuto
  <2>2. CASE revision' = revision + 1
    <3>1. UNCHANGED <<tx, base, origin, commitMu>> /\ commitMu = Free
      BY <1>3, Zenon DEF ExecAuto
    <3>2. \A t \in Sessions : base[t] \in Nat /\ revision \in Nat /\ t # Free
      BY <1>a, Zenon DEF TypeOK
    <3>3. \A t \in Sessions : tx'[t] # "none" => base'[t] <= revision' /\ base'[t] # revision'
      BY <2>2, <3>1, <3>2 DEF BaseInv
    <3>4. \A t \in Sessions : commitMu' # t
      BY <3>1, <3>2
    <3> QED
      BY <3>3, <3>4, Zenon DEF BaseInv
  <2> QED
    BY <1>3, <2>1, <2>2, Zenon DEF ExecAuto, NewRevision
<1>4. ASSUME NEW s \in Sessions, ExecAutoTimeout(s) PROVE BaseInv'
  BY <1>4, Zenon DEF ExecAutoTimeout
<1>5. ASSUME NEW s \in Sessions, ExecTx(s) PROVE BaseInv'
  <2>1. queue[s] # <<>> /\ UNCHANGED <<db, revision, base, origin, commitMu>>
    BY <1>5, ZenonT(40) DEF ExecTx, Runs, memory
  <2>2. \A t \in Sessions : tx'[t] # "none" => tx[t] # "none"
    BY <1>5, <2>1, NoTxEffect, TxStatementFailsEffect, Zenon DEF ExecTx, LoopStep
  <2> QED
    BY <2>1, <2>2, BaseFrame, Zenon
<1>6. ASSUME NEW s \in Sessions, ExecTxTimeout(s) PROVE BaseInv'
  BY <1>6 DEF ExecTxTimeout
<1>7. ASSUME NEW s \in Sessions, BeginCheck(s) PROVE BaseInv'
  BY <1>7, BaseFrame DEF BeginCheck, memory
<1>8. ASSUME NEW s \in Sessions, TakeClone(s) PROVE BaseInv'
  <2>1. /\ UNCHANGED <<db, revision, commitMu>> /\ commitMu = Free
        /\ base'[s] = revision /\ origin'[s] = db
        /\ \A t \in Sessions \ {s} : tx'[t] = tx[t] /\ base'[t] = base[t] /\ origin'[t] = origin[t]
    BY <1>8, SMTT(60) DEF TakeClone, CloneBase, TypeOK, memory
  <2>2. \A t \in Sessions : base[t] \in Nat /\ revision \in Nat /\ t # Free
    BY <1>a DEF TypeOK
  <2>3. \A t \in Sessions : tx'[t] # "none" => base'[t] <= revision' /\ (base'[t] = revision' => origin'[t] = db')
    <3>1. base'[s] = revision' /\ origin'[s] = db' /\ revision' = revision /\ db' = db
      BY <2>1
    <3>2. ASSUME NEW t \in Sessions \ {s}, tx'[t] # "none"
          PROVE  base'[t] <= revision' /\ (base'[t] = revision' => origin'[t] = db')
      BY <2>1, <3>1, <3>2 DEF BaseInv
    <3>3. base'[s] <= revision'
      BY <2>2, <3>1
    <3> QED
      BY <3>1, <3>2, <3>3, Zenon
  <2>4. \A t \in Sessions : commitMu' # t
    BY <2>1, <2>2
  <2> QED
    BY <2>3, <2>4, ZenonT(60) DEF BaseInv
<1>9. ASSUME NEW s \in Sessions, EndWithoutCommit(s) PROVE BaseInv'
  BY <1>9, BaseFrame, NoTxEffect, Zenon DEF EndWithoutCommit, memory
<1>10. ASSUME NEW s \in Sessions, CommitCheck(s) PROVE BaseInv'
  <2>1. tx[s] # "atomic" => queue[s] # <<>>
    BY <1>10, <1>a, Zenon DEF CommitCheck, RunsControl, Runs, ControlOf
  <2>2. CASE Stale(s)
    BY <1>10, <2>1, <2>2, BaseFrame, CommitFailsEffect DEF CommitCheck, LoopStep
  <2>3. CASE ~Stale(s)
    BY <1>10, <2>3, Zenon DEF CommitCheck, Stale, BaseInv
  <2> QED
    BY <2>2, <2>3, Zenon
<1>11. ASSUME NEW s \in Sessions, Publish(s) PROVE BaseInv'
  <2>1. /\ revision' = revision + 1 /\ commitMu' = Free /\ UNCHANGED <<base, origin>>
        /\ \A t \in Sessions : tx'[t] # "none" => tx[t] # "none"
    BY <1>11, NoTxEffect, Zenon DEF Publish, NewRevision, Unlock
  <2>2. revision \in Nat /\ \A t \in Sessions : base[t] \in Nat /\ t # Free
    BY <1>a, SMTT(60) DEF TypeOK
  <2>3. ASSUME NEW t \in Sessions, tx'[t] # "none" PROVE base'[t] <= revision' /\ base'[t] # revision'
    <3>1. base[t] <= revision /\ base'[t] = base[t]
      BY <2>1, <2>3, Zenon DEF BaseInv
    <3>2. revision' = revision + 1 /\ revision \in Nat /\ base[t] \in Nat
      BY <2>1, <2>2, Zenon
    <3>3. base[t] <= revision + 1 /\ base[t] # revision + 1
      BY <3>1, <3>2, NewerRevision, Zenon
    <3> QED
      BY <3>1, <3>2, <3>3, Zenon
  <2> QED
    BY <2>1, <2>2, <2>3, Zenon DEF BaseInv
<1>12. ASSUME NEW s \in Sessions, PersistNothing(s) PROVE BaseInv'
  BY <1>12, BaseFrame, Zenon DEF PersistNothing, memory
<1>13. ASSUME NEW s \in Sessions, WalWrite(s) PROVE BaseInv'
  BY <1>13, BaseFrame DEF WalWrite, memory
<1>14. ASSUME NEW s \in Sessions, WalWriteFails(s) PROVE BaseInv'
  BY <1>14, <1>a, BaseFrame, PersistFailsEffect, Zenon DEF WalWriteFails, LoopStep
<1>15. ASSUME NEW s \in Sessions, WalSync(s) PROVE BaseInv'
  BY <1>15, BaseFrame, Zenon DEF WalSync, memory
<1>16. ASSUME NEW s \in Sessions, WalSyncFails(s) PROVE BaseInv'
  BY <1>16, <1>a, BaseFrame, PersistFailsEffect, ZenonT(60) DEF WalSyncFails, LoopStep
<1>17. ASSUME NEW s \in Sessions, SnapEncode(s) PROVE BaseInv'
  BY <1>17, BaseFrame, Zenon DEF SnapEncode, memory
<1>18. ASSUME NEW s \in Sessions, SnapRename(s) PROVE BaseInv'
  BY <1>18, BaseFrame, Zenon DEF SnapRename, memory
<1>19. ASSUME NEW s \in Sessions, SnapFails(s) PROVE BaseInv'
  BY <1>19, <1>a, BaseFrame, PersistFailsEffect, ZenonT(60) DEF SnapFails, LoopStep
<1>20. ASSUME Crash PROVE BaseInv'
  <2>1. tx' = [t \in Sessions |-> "none"] /\ commitMu' = Free
    BY <1>20, Zenon DEF Crash
  <2>2. \A t \in Sessions : tx'[t] = "none" /\ commitMu' # t
    BY <2>1, FreeAssumption, Zenon
  <2> QED
    BY <2>2, Zenon DEF BaseInv
<1>21. ASSUME Restart PROVE BaseInv'
  <2>1. \A t \in Sessions : tx'[t] = "none" /\ commitMu' # t
    BY <1>21, <1>a DEF Restart, ControlOf, session
  <2> QED
    BY <2>1, Zenon DEF BaseInv
<1>22. CASE UNCHANGED vars
  BY <1>22, BaseFrame DEF vars, memory, session
<1> QED
  BY Zenon, <1>1, <1>2, <1>3, <1>4, <1>5, <1>6, <1>7, <1>8, <1>9, <1>10, <1>11, <1>12, <1>13, <1>14, <1>15, <1>16,
     <1>17, <1>18, <1>19, <1>20, <1>21, <1>22 DEF Next, Execute, Persist

\* The strengthened invariant holds of every behaviour without query timeouts.
LEMMA BaseInvariant ==
    ASSUME QueryTimeout = FALSE
    PROVE  Spec => [](TypeOK /\ Control /\ BaseInv)
<1>1. Init => BaseInv
  BY FreeAssumption DEF Init, BaseInv
<1> QED
  BY <1>1, TypeInit, TypeStep, ControlStep, BaseStep, PTL DEF Spec

\* When no query timeout is configured, equal revisions mean equal images: the
\* test in CommitFrom detects every change made since BEGIN.
THEOREM RevisionTestIsExact ==
    ASSUME QueryTimeout = FALSE
    PROVE  Spec => []BaseIsCurrent
<1>1. BaseInv => BaseIsCurrent
  BY DEF BaseInv, BaseIsCurrent
<1> QED
  BY <1>1, BaseInvariant, PTL
=============================================================================
