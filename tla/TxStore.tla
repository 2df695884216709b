------------------------------ MODULE TxStore -------------------------------
(***************************************************************************)
(* What the sessions promise, without revisions, locks or files: a store,  *)
(* and transactions that run on a private view and take effect at one      *)
(* instant, on the very image they started from.  A committed transaction  *)
(* is therefore its statements executed one after the other on the store   *)
(* at the moment of commit: transactions are serializable.                 *)
(***************************************************************************)
EXTENDS Statements

CONSTANTS Sessions

VARIABLES
    store,      \* the shared image
    open,       \* open[s]: s has a transaction
    start,      \* the image it started from
    view        \* the image it sees

vars == <<store, open, start, view>>

Init ==
    /\ store = EmptyImage
    /\ open = [s \in Sessions |-> FALSE]
    /\ start = [s \in Sessions |-> EmptyImage]
    /\ view = [s \in Sessions |-> EmptyImage]

\* A statement outside a transaction.
AutoCommit ==
    /\ \E st \in Statement : Accepts(st, store) /\ store' = Effect(st, store)
    /\ UNCHANGED <<open, start, view>>

Begin(s) ==
    /\ ~open[s]
    /\ open' = [open EXCEPT ![s] = TRUE]
    /\ start' = [start EXCEPT ![s] = store]
    /\ view' = [view EXCEPT ![s] = store]
    /\ UNCHANGED store

\* A statement inside a transaction.
Work(s) ==
    /\ open[s]
    /\ \E st \in Statement : Accepts(st, view[s]) /\ view' = [view EXCEPT ![s] = Effect(st, @)]
    /\ UNCHANGED <<store, open, start>>

\* The view replaces the store, provided the store is what the view grew from.
Commit(s) ==
    /\ open[s] /\ store = start[s]
    /\ store' = view[s]
    /\ open' = [open EXCEPT ![s] = FALSE]
    /\ UNCHANGED <<start, view>>

Abort(s) ==
    /\ open[s]
    /\ open' = [open EXCEPT ![s] = FALSE]
    /\ UNCHANGED <<store, start, view>>

\* A crash ends every transaction; what a restart finds is not this module's
\* concern.
Crash ==
    /\ open' = [s \in Sessions |-> FALSE]
    /\ UNCHANGED <<store, start, view>>

Recover ==
    /\ \A s \in Sessions : ~open[s]
    /\ store' \in Image
    /\ UNCHANGED <<open, start, view>>

Next ==
    \/ AutoCommit \/ Crash \/ Recover
    \/ \E s \in Sessions : Begin(s) \/ Work(s) \/ Commit(s) \/ Abort(s)

Spec == Init /\ [][Next]_vars
=============================================================================
