----------------------------- MODULE MCSessions -----------------------------
(***************************************************************************)
(* Model-checking instances of Sessions: the requests clients may send in  *)
(* each run, and the abstract store the sessions implement.                *)
(***************************************************************************)
EXTENDS Sessions, TLC

CONSTANTS k1, k2

Sql(c) == [kind |-> "sql", cmds |-> <<c>>]
Batch(cs) == [kind |-> "batch", cmds |-> cs]
Atomic(cs) == [kind |-> "atomic", cmds |-> cs]

Control == {Sql(Begin), Sql(Commit), Sql(Rollback)}

\* Everything a client can do in single requests, over one row.
MixedRequests ==
    Control \cup {Sql(Insert(k1, 1)), Sql(Update(k1, 2)), Sql(DeleteAll), Sql(Select),
                  Atomic(<<Insert(k1, 2), Select, Update(k1, 1)>>)}

\* Writes only inside transactions and atomic batches.
TxRequests ==
    {Batch(<<Begin, Insert(k1, 1), Update(k1, 2), Commit>>),
     Batch(<<Begin, UpdateAll(1), Insert(k2, 2), Commit>>),
     Batch(<<Rollback, Begin, DeleteAll, Commit>>),
     Atomic(<<Insert(k1, 2), Insert(k2, 1)>>),
     Atomic(<<Select>>)}

\* Requests that compete for commitMu and the log's mutex.
LockRequests ==
    {Sql(Insert(k1, 1)), Batch(<<Begin, Insert(k1, 1), Commit>>), Atomic(<<Insert(k1, 2), DeleteAll>>)}

\* Two automatic commits whose order matters.
AutoCommitRequests == {Sql(Insert(k1, 1)), Sql(Update(k1, 2))}

AtomicRequests == {Atomic(<<Insert(k1, 1), Insert(k2, 1)>>)}

SessionSymmetry == Permutations(Sessions)
=============================================================================
