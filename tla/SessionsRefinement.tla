------------------------- MODULE SessionsRefinement -------------------------
(***************************************************************************)
(* The sessions implement TxStore: transactions are serializable, for      *)
(* every set of sessions, keys, values and requests, when no query timeout *)
(* is configured.                                                          *)
(***************************************************************************)
EXTENDS SessionsProofs

\* Init maps to the abstract initial state.
LEMMA StoreInit == Init => Store!Init
BY ZenonT(40) DEF Init, Store!Init, EmptyImage, Store!EmptyImage

\* A step that changes no image and opens or closes no transaction stutters.
LEMMA StoreStutter ==
    ASSUME UNCHANGED <<db, clone, origin>>,
           \A t \in Sessions : tx'[t] # "none" <=> tx[t] # "none"
    PROVE  UNCHANGED Store!vars
BY DEF Store!vars

\* Dropping a clone is an abstract abort.
LEMMA StoreAbort ==
    ASSUME NEW s \in Sessions, UNCHANGED <<db, clone, origin>>,
           tx[s] # "none", tx'[s] = "none", \A t \in Sessions \ {s} : tx'[t] = tx[t]
    PROVE  Store!Next
<1>1. Store!Abort(s)
  BY Zenon DEF Store!Abort
<1> QED
  BY <1>1 DEF Store!Next

\* Both modules take statements from the same definitions.
LEMMA SameStatements ==
    /\ Store!Statement = Statement
    /\ Store!Image = Image
    /\ \A st, img : Store!Accepts(st, img) <=> Accepts(st, img)
    /\ \A st, img : Store!Effect(st, img) = Effect(st, img)
<1>1. Store!Statement = Statement
  BY DEF Statement, Insert, Update, UpdateAll, DeleteAll, Select,
         Store!Statement, Store!Insert, Store!Update, Store!UpdateAll, Store!DeleteAll, Store!Select
<1>2. Store!Image = Image
  BY DEF Image, Store!Image
<1>3. \A st, img : Store!Accepts(st, img) <=> Accepts(st, img)
  BY DEF Accepts, Store!Accepts
<1>4. \A st, img : Store!Effect(st, img) = Effect(st, img)
  BY DEF Effect, Store!Effect, EmptyImage, Store!EmptyImage
<1> QED
  BY <1>1, <1>2, <1>3, <1>4

\* Every step of the sessions is a step of the abstract store or stutters.
\* The one that needs the invariant is Publish: the committer's base is the
\* current revision, so the database is still the image it cloned.
LEMMA StoreStep ==
    ASSUME QueryTimeout = FALSE
    PROVE  TypeOK /\ Control /\ BaseInv /\ [Next]_vars => [Store!Next]_Store!vars
<1> SUFFICES ASSUME TypeOK, Control, BaseInv, [Next]_vars PROVE Store!Next \/ UNCHANGED Store!vars
  OBVIOUS
<1>a. ASSUME NEW s \in Sessions PROVE ControlOf(s) /\ s # Free
  BY FreeAssumption DEF Control
<1>1. ASSUME NEW s \in Sessions, NEW r \in Requests, Submit(s, r) PROVE UNCHANGED Store!vars
  BY <1>1, StoreStutter DEF Submit, memory
<1>2. ASSUME NEW s \in Sessions, Disconnect(s) PROVE Store!Next
  BY <1>2, StoreAbort, NoTxEffect DEF Disconnect, memory
<1>3. ASSUME NEW s \in Sessions, ExecAuto(s) PROVE Store!Next \/ UNCHANGED Store!vars
  <2>1. UNCHANGED <<tx, clone, origin>>
    BY <1>3 DEF ExecAuto
  <2>2. CASE db' = db
    BY <2>1, <2>2, StoreStutter
  <2>3. CASE db' # db
    <3>1. \E st \in Statement : Accepts(st, db) /\ db' = Effect(st, db)
      BY <1>3, <2>3 DEF ExecAuto, Runs
    <3>2. Store!AutoCommit
      BY <2>1, <3>1, SameStatements DEF Store!AutoCommit
    <3> QED
      BY <3>2 DEF Store!Next
  <2> QED
    BY <2>2, <2>3
<1>4. ASSUME NEW s \in Sessions, ExecAutoTimeout(s) PROVE FALSE
  BY <1>4 DEF ExecAutoTimeout
<1>5. ASSUME NEW s \in Sessions, ExecTx(s) PROVE Store!Next \/ UNCHANGED Store!vars
  <2>1. /\ queue[s] # <<>> /\ tx[s] # "none" /\ UNCHANGED <<db, origin>>
        /\ Head(queue[s]) \in Statement
    BY <1>5 DEF ExecTx, Runs, memory
  <2>2. CASE /\ Accepts(Head(queue[s]), clone[s]) /\ tx' = tx
             /\ clone' = [clone EXCEPT ![s] = Effect(Head(queue[s]), @)]
    <3>1. Store!Work(s)
      BY <2>1, <2>2, SameStatements, Zenon DEF Store!Work
    <3> QED
      BY <3>1 DEF Store!Next
  <2>3. CASE clone' = clone /\ NoTx(s)
    BY <2>1, <2>3, StoreAbort, NoTxEffect
  <2>4. CASE clone' = clone /\ tx' = tx
    BY <2>1, <2>4, StoreStutter
  <2> QED
    BY <1>5, <2>2, <2>3, <2>4 DEF ExecTx, TxStatementFails
<1>6. ASSUME NEW s \in Sessions, ExecTxTimeout(s) PROVE FALSE
  BY <1>6 DEF ExecTxTimeout
<1>7. ASSUME NEW s \in Sessions, BeginCheck(s) PROVE UNCHANGED Store!vars
  BY <1>7, StoreStutter DEF BeginCheck, memory
<1>8. ASSUME NEW s \in Sessions, TakeClone(s) PROVE Store!Next
  <2>1. /\ tx[s] = "none" /\ db' = db
        /\ clone' = [clone EXCEPT ![s] = db] /\ origin' = [origin EXCEPT ![s] = db]
        /\ tx'[s] # "none" /\ \A t \in Sessions \ {s} : tx'[t] = tx[t]
    BY <1>8, <1>a DEF TakeClone, ControlOf, TypeOK, memory
  <2>2. Store!Begin(s)
    BY <2>1, Zenon DEF Store!Begin
  <2> QED
    BY <2>2 DEF Store!Next
<1>9. ASSUME NEW s \in Sessions, EndWithoutCommit(s) PROVE Store!Next \/ UNCHANGED Store!vars
  <2>1. NoTx(s) /\ UNCHANGED <<db, clone, origin>>
    BY <1>9 DEF EndWithoutCommit, memory
  <2> QED
    BY <2>1, NoTxEffect, StoreAbort, StoreStutter
<1>b. ASSUME NEW s \in Sessions, CommitFails(s), UNCHANGED <<db, clone, origin>>,
             tx[s] # "none", tx[s] # "atomic" => queue[s] # <<>>
      PROVE  Store!Next \/ UNCHANGED Store!vars
  <2>1. CASE tx[s] = "atomic"
    BY <1>b, <2>1, CommitFailsEffect, StoreAbort DEF LoopStep
  <2>2. CASE tx[s] # "atomic"
    BY <1>b, <2>2, StoreStutter DEF CommitFails
  <2> QED
    BY <2>1, <2>2
<1>10. ASSUME NEW s \in Sessions, CommitCheck(s) PROVE Store!Next \/ UNCHANGED Store!vars
  <2>1. /\ UNCHANGED <<db, clone, origin>> /\ tx[s] # "none"
        /\ tx[s] # "atomic" => queue[s] # <<>>
    BY <1>10, <1>a, ZenonT(40) DEF CommitCheck, RunsControl, Runs, ControlOf
  <2>2. CASE Stale(s)
    BY <1>10, <1>b, <2>1, <2>2 DEF CommitCheck
  <2>3. CASE ~Stale(s)
    BY <1>10, <2>1, <2>3, StoreStutter DEF CommitCheck
  <2> QED
    BY <2>2, <2>3, Zenon
<1>11. ASSUME NEW s \in Sessions, Publish(s) PROVE Store!Next
  <2>1. commitMu = s /\ tx[s] # "none"
    BY <1>11, <1>a DEF Publish, ControlOf
  <2>2. db = origin[s]
    BY <2>1 DEF BaseInv
  <2>3. /\ db' = clone[s] /\ UNCHANGED <<clone, origin>>
        /\ tx'[s] = "none" /\ \A t \in Sessions \ {s} : tx'[t] = tx[t]
    BY <1>11, NoTxEffect DEF Publish
  <2>4. Store!Commit(s)
    BY <2>1, <2>2, <2>3, Zenon DEF Store!Commit
  <2> QED
    BY <2>4 DEF Store!Next
<1>12. ASSUME NEW s \in Sessions, PersistNothing(s) PROVE UNCHANGED Store!vars
  BY <1>12, StoreStutter DEF PersistNothing, memory
<1>13. ASSUME NEW s \in Sessions, WalWrite(s) PROVE UNCHANGED Store!vars
  BY <1>13, StoreStutter DEF WalWrite, memory
<1>c. ASSUME NEW s \in Sessions, PersistFails(s), UNCHANGED <<db, clone, origin>>
      PROVE  Store!Next \/ UNCHANGED Store!vars
  <2>1. CASE commitMu = s
    <3>1. CommitFails(s) /\ tx[s] # "none" /\ (tx[s] # "atomic" => queue[s] # <<>>)
      BY <1>c, <1>a, <2>1 DEF PersistFails, ControlOf, TypeOK
    <3> QED
      BY <1>b, <1>c, <3>1
  <2>2. CASE commitMu # s
    BY <1>c, <2>2, StoreStutter DEF PersistFails
  <2> QED
    BY <2>1, <2>2
<1>14. ASSUME NEW s \in Sessions, WalWriteFails(s) PROVE Store!Next \/ UNCHANGED Store!vars
  BY <1>14, <1>c DEF WalWriteFails
<1>15. ASSUME NEW s \in Sessions, WalSync(s) PROVE UNCHANGED Store!vars
  BY <1>15, StoreStutter DEF WalSync, memory
<1>16. ASSUME NEW s \in Sessions, WalSyncFails(s) PROVE Store!Next \/ UNCHANGED Store!vars
  BY <1>16, <1>c DEF WalSyncFails
<1>17. ASSUME NEW s \in Sessions, SnapEncode(s) PROVE UNCHANGED Store!vars
  BY <1>17, StoreStutter DEF SnapEncode, memory
<1>18. ASSUME NEW s \in Sessions, SnapRename(s) PROVE UNCHANGED Store!vars
  BY <1>18, StoreStutter DEF SnapRename, memory
<1>19. ASSUME NEW s \in Sessions, SnapFails(s) PROVE Store!Next \/ UNCHANGED Store!vars
  BY <1>19, <1>c DEF SnapFails
<1>20. ASSUME Crash PROVE Store!Next
  <2>1. Store!Crash
    BY <1>20, Zenon DEF Crash, Store!Crash
  <2> QED
    BY <2>1 DEF Store!Next
<1>21. ASSUME Restart PROVE Store!Next
  <2>1. /\ db' \in Image /\ UNCHANGED <<tx, clone, origin>>
        /\ \A t \in Sessions : tx[t] = "none"
    BY <1>21, <1>a DEF Restart, ControlOf, session
  <2>2. Store!Recover
    BY <2>1, SameStatements, Zenon DEF Store!Recover
  <2> QED
    BY <2>2 DEF Store!Next
<1>22. CASE UNCHANGED vars
  BY <1>22, StoreStutter DEF vars, memory, session
<1> QED
  BY <1>1, <1>2, <1>3, <1>4, <1>5, <1>6, <1>7, <1>8, <1>9, <1>10, <1>11, <1>12, <1>13, <1>14, <1>15, <1>16,
     <1>17, <1>18, <1>19, <1>20, <1>21, <1>22 DEF Next, Execute, Persist

\* Without a query timeout the sessions implement the abstract store: session
\* transactions and atomic batches are serializable, whatever fails or crashes.
THEOREM SessionsSerializable ==
    ASSUME QueryTimeout = FALSE
    PROVE  Spec => Serializable
<1>1. Spec => Store!Init
  BY StoreInit DEF Spec
<1>2. Spec => [][Store!Next]_Store!vars
  BY BaseInvariant, StoreStep, PTL DEF Spec
<1> QED
  BY <1>1, <1>2, PTL DEF Serializable, Store!Spec
=============================================================================
