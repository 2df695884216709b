----------------------------- MODULE Statements -----------------------------
(***************************************************************************)
(* What one SQL statement does to one table, at the level the sessions and *)
(* the write-ahead log need: a table image maps every primary key to the   *)
(* row stored under it, or to NoRow.  How a table stores its rows (Rows,   *)
(* Order, the fast path and the indexes) is the subject of module Table.   *)
(***************************************************************************)
EXTENDS Naturals, Sequences, FiniteSets

CONSTANTS
    Keys,       \* primary keys
    Values,     \* row contents
    NoRow       \* "no row under this key"

ASSUME NoRowAssumption == NoRow \notin Values

Image == [Keys -> Values \cup {NoRow}]

EmptyImage == [k \in Keys |-> NoRow]

RowCount(img) == Cardinality({k \in Keys : img[k] # NoRow})

\* The statements: INSERT of one row, UPDATE ... WHERE pk = k, UPDATE of every
\* row and DELETE of every row (both visit the rows one by one), and SELECT.
Insert(k, v) == [op |-> "insert", key |-> k, val |-> v]
Update(k, v) == [op |-> "update", key |-> k, val |-> v]
UpdateAll(v) == [op |-> "updateall", val |-> v]
DeleteAll    == [op |-> "deleteall"]
Select       == [op |-> "select"]

Statement ==
    {Insert(k, v) : k \in Keys, v \in Values}
        \cup {Update(k, v) : k \in Keys, v \in Values}
        \cup {UpdateAll(v) : v \in Values}
        \cup {DeleteAll, Select}

\* isWriteSQL: everything but SELECT, SHOW and DESCRIBE.
IsWrite(st) == st.op # "select"

\* A statement that is not accepted returns an error and changes nothing:
\* INSERT looks for the duplicate key before it stores a row.
Accepts(st, img) == st.op = "insert" => img[st.key] = NoRow

Effect(st, img) ==
    CASE st.op = "insert"    -> [img EXCEPT ![st.key] = st.val]
      [] st.op = "update"    -> IF img[st.key] = NoRow THEN img
                                ELSE [img EXCEPT ![st.key] = st.val]
      [] st.op = "updateall" -> [k \in Keys |-> IF img[k] = NoRow THEN NoRow ELSE st.val]
      [] st.op = "deleteall" -> EmptyImage
      [] st.op = "select"    -> img

\* The images a statement can leave behind when its context expires while it
\* runs.  UPDATE and DELETE scans stop in front of some entry and keep what
\* they did so far (a DELETE scan may stop at a trailing tombstone, after its
\* last row); every other statement is cancelled before it changes anything.
CutShort(st, img) ==
    LET live == {k \in Keys : img[k] # NoRow}
        After(done) == [k \in Keys |-> IF k \in done THEN Effect(st, img)[k] ELSE img[k]]
    IN  {img} \cup CASE st.op = "updateall" -> {After(done) : done \in SUBSET live \ {live}}
                     [] st.op = "deleteall" -> {After(done) : done \in SUBSET live}
                     [] OTHER -> {}

\* ReplayWAL: statements applied in log order, the first error aborts.
Replay(img, stmts) ==
    LET after[n \in 0 .. Len(stmts)] ==
          IF n = 0 THEN [ok |-> TRUE, img |-> img]
          ELSE LET prev == after[n - 1]
               IN  IF prev.ok /\ stmts[n] \in Statement /\ Accepts(stmts[n], prev.img)
                   THEN [ok |-> TRUE, img |-> Effect(stmts[n], prev.img)]
                   ELSE [ok |-> FALSE, img |-> prev.img]
    IN  after[Len(stmts)]
=============================================================================
