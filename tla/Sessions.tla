------------------------------- MODULE Sessions -------------------------------
(***************************************************************************)
(* SQLite through one SQLAlchemy session per task (db.py): WAL mode,       *)
(* autocommitted reads, one writer at a time.  The first flush of a session *)
(* takes the write lock; from then to its commit or rollback it reads and   *)
(* writes its own transaction, while every other session goes on reading    *)
(* what is committed and cannot write.                                      *)
(***************************************************************************)
CONSTANT NoTask

VARIABLES
    db,      \* what is committed
    tx,      \* what the session that holds the write lock sees
    writer   \* the task that holds it, or NoTask
dbVars == <<db, tx, writer>>

View(task) == IF writer = task THEN tx ELSE db

Write(task, d) ==
    /\ writer \in {NoTask, task}
    /\ writer' = task
    /\ tx' = d
    /\ UNCHANGED db

Commit(task) ==
    /\ db' = View(task)
    /\ writer' = IF writer = task THEN NoTask ELSE writer
    /\ UNCHANGED tx

Rollback(task) ==
    /\ tx' = IF writer = task THEN db ELSE tx
    /\ writer' = IF writer = task THEN NoTask ELSE writer
    /\ UNCHANGED db

\* a whole transaction without an await in it
Transact(d) ==
    /\ writer = NoTask
    /\ db' = d /\ tx' = d
    /\ UNCHANGED writer

\* another session keeps the lock for longer than busy_timeout
LockedOut(task) == writer \notin {NoTask, task}
===============================================================================
