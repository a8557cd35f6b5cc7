-------------------------- MODULE CheckpointStore --------------------------
(***************************************************************************)
(* How a store serializes read/change/write sequences (session_transaction,*)
(* agenthandler/store.py), which SessionControl takes as single steps.     *)
(* Threads share a store instance and its RLock; instances, each in a      *)
(* process of its own, share a SQLite file, whose write lock a transaction *)
(* takes at BEGIN IMMEDIATE.  A MemoryStore has the RLock alone, and no    *)
(* rollback.                                                               *)
(*                                                                         *)
(* One row stands for the checkpoints: a transaction reads it, computes    *)
(* and saves the whole row; an UPDATE statement raises its usage.          *)
(***************************************************************************)
EXTENDS Integers

CONSTANTS
    Thread,
    Instance,    \* store instances: one process each
    NoThread,
    MaxEdits,    \* bound: transactions that save
    Usage        \* bound: the usage that supervisors report

ASSUME StoreAssumption ==
    /\ NoThread \notin Thread /\ Usage \subseteq Nat /\ MaxEdits \in Nat

VARIABLES
    backend,   \* "memory" or "sqlite"
    home,      \* the instance each thread uses
    committed, \* the row that is there for everyone
    owner,     \* who holds the RLock of each instance
    writer,    \* who holds the database's write lock
    txn,       \* of each thread: where it is, the row it sees in its transaction
    kept       \* history: saves that must be there, and the highest usage reported

storeVars == <<backend, home, committed, owner, writer, txn, kept>>

NewRow == [there |-> TRUE, edits |-> 0, usage |-> 0]

Idle == [at |-> "idle", row |-> NewRow]

StoreInit ==
    /\ home \in [Thread -> Instance]
    /\ backend \in {"sqlite", "memory"}
    /\ backend = "memory" => \A t, u \in Thread : home[t] = home[u]
    /\ committed = NewRow
    /\ owner = [i \in Instance |-> NoThread] /\ writer = NoThread
    /\ txn = [t \in Thread |-> Idle]
    /\ kept = [edits |-> 0, usage |-> 0]

-----------------------------------------------------------------------------
InStore(t, place) == txn[t].at = place

\* The lock of the thread's own instance.
Locks(t)   == owner[home[t]] = NoThread /\ owner' = [owner EXCEPT ![home[t]] = t]
Unlocks(t) == owner' = [owner EXCEPT ![home[t]] = NoThread]

Sees(t) == IF backend = "memory" THEN committed ELSE txn[t].row

Enter(t) ==
    /\ InStore(t, "idle") /\ Locks(t)
    /\ txn' = [txn EXCEPT ![t].at = "entered"]
    /\ UNCHANGED <<backend, home, committed, writer, kept>>

\* (Bug: a deferred BEGIN leaves the write lock for later.)
BeginDeferred(t) ==
    /\ InStore(t, "entered")
    /\ UNCHANGED writer
    /\ txn' = [txn EXCEPT ![t] = [at |-> "inside", row |-> committed]]
    /\ UNCHANGED <<backend, home, committed, owner, kept>>

\* BEGIN IMMEDIATE; the connection is kept for nested calls of this thread.
Begin(t) ==
    /\ InStore(t, "entered")
    /\ IF backend = "sqlite" THEN writer = NoThread /\ writer' = t ELSE UNCHANGED writer
    /\ txn' = [txn EXCEPT ![t] = [at |-> "inside", row |-> committed]]
    /\ UNCHANGED <<backend, home, committed, owner, kept>>

\* busy_timeout_s passed: OperationalError out of session_transaction.
Busy(t) ==
    /\ InStore(t, "entered") /\ backend = "sqlite" /\ writer # NoThread
    /\ txn' = [txn EXCEPT ![t] = Idle] /\ Unlocks(t)
    /\ UNCHANGED <<backend, home, committed, writer, kept>>

\* load_checkpoint, and what the manager then computes.
Load(t) ==
    /\ InStore(t, "inside") /\ Sees(t).there
    /\ txn' = [txn EXCEPT ![t] = [at |-> "loaded", row |-> Sees(t)]]
    /\ UNCHANGED <<backend, home, committed, owner, writer, kept>>

\* save_checkpoint, nested: INSERT OR REPLACE of every column.
Save(t) ==
    LET new == [txn[t].row EXCEPT !.edits = @ + 1]
    IN  /\ InStore(t, "loaded") /\ new.edits <= MaxEdits
        /\ txn' = [txn EXCEPT ![t] = [at |-> "saved", row |-> new]]
        /\ IF backend = "memory" THEN committed' = new /\ kept' = [kept EXCEPT !.edits = @ + 1]
           ELSE UNCHANGED <<committed, kept>>
        /\ UNCHANGED <<backend, home, owner, writer>>

Inside(t) == txn[t].at \in {"inside", "loaded", "saved"}

Leaves(t) ==
    /\ txn' = [txn EXCEPT ![t] = Idle] /\ Unlocks(t)
    /\ writer' = IF writer = t THEN NoThread ELSE writer

Commit(t) ==
    /\ Inside(t) /\ Leaves(t)
    /\ IF backend = "sqlite" /\ InStore(t, "saved")
       THEN committed' = txn[t].row /\ kept' = [kept EXCEPT !.edits = @ + 1]
       ELSE UNCHANGED <<committed, kept>>
    /\ UNCHANGED <<backend, home>>

\* The body raises: sqlite3 rolls back; what a MemoryStore saved stays.
Abort(t) ==
    /\ Inside(t) /\ Leaves(t)
    /\ UNCHANGED <<backend, home, committed, kept>>

\* A call of its own, one statement, waits for both locks.
Alone(t) ==
    /\ InStore(t, "idle") /\ owner[home[t]] = NoThread /\ writer = NoThread

Higher(a, b) == IF a > b THEN a ELSE b

\* update_supervisor_checkpoint, whose caller takes TRUE as stored.
ReportUsage(t, n) ==
    /\ Alone(t) /\ committed.there
    /\ committed' = [committed EXCEPT !.usage = Higher(@, n)]
    /\ kept' = [kept EXCEPT !.usage = Higher(@, n)]
    /\ UNCHANGED <<backend, home, owner, writer, txn>>

\* delete_expired.
Expire(t) ==
    /\ Alone(t) /\ committed.there /\ committed' = [committed EXCEPT !.there = FALSE]
    /\ UNCHANGED <<backend, home, owner, writer, txn, kept>>

\* A process dies: its locks are gone, SQLite undoes its transaction, and with
\* a MemoryStore everything is gone.
Crash(i) ==
    /\ txn' = [t \in Thread |-> IF home[t] = i THEN Idle ELSE txn[t]]
    /\ owner' = [owner EXCEPT ![i] = NoThread]
    /\ writer' = IF writer # NoThread /\ home[writer] = i THEN NoThread ELSE writer
    /\ IF backend = "memory" THEN committed' = NewRow /\ kept' = [edits |-> 0, usage |-> 0]
       ELSE UNCHANGED <<committed, kept>>
    /\ UNCHANGED <<backend, home>>

StoreNext ==
    \/ \E t \in Thread :
          \/ Enter(t) \/ Begin(t) \/ Busy(t) \/ Load(t) \/ Save(t) \/ Commit(t) \/ Abort(t)
          \/ Expire(t) \/ \E n \in Usage : ReportUsage(t, n)
    \/ \E i \in Instance : (backend = "memory" => \A t \in Thread : home[t] = i) /\ Crash(i)

StoreSpec == StoreInit /\ [][StoreNext]_storeVars

-----------------------------------------------------------------------------
\* The row holds every save that was committed and every usage that was
\* reported, and nothing of a transaction that raised or died: threads and
\* processes never write back a row that is older than the one they replace
\* (store.py:333-346, 392-414).
NoUpdateIsLost ==
    committed.there => committed.edits = kept.edits /\ committed.usage = kept.usage

-----------------------------------------------------------------------------
\* The inductive invariant behind it.
Rows == [there : BOOLEAN, edits : Nat, usage : Nat]

Txns == [at : {"idle", "entered", "inside", "loaded", "saved"}, row : Rows]

StoreTypeOK ==
    /\ backend \in {"sqlite", "memory"} /\ home \in [Thread -> Instance]
    /\ committed \in Rows /\ kept \in [edits : Nat, usage : Nat]
    /\ owner \in [Instance -> Thread \cup {NoThread}] /\ writer \in Thread \cup {NoThread}
    /\ txn \in [Thread -> Txns]

\* A transaction holds its instance's lock, and the database's if there is one.
Locked ==
    /\ \A t \in Thread : InStore(t, "idle") \/ owner[home[t]] = t
    /\ backend = "sqlite" => \A t \in Thread : Inside(t) => writer = t
    /\ backend = "memory" => writer = NoThread /\ \A t, u \in Thread : home[t] = home[u]

\* What a transaction saw is still what is there.
Fresh ==
    \A t \in Thread :
        /\ InStore(t, "loaded") => committed.there /\ txn[t].row = committed
        /\ backend = "sqlite" /\ InStore(t, "inside") => txn[t].row = committed
        /\ backend = "sqlite" /\ InStore(t, "saved") =>
              committed.there /\ txn[t].row = [committed EXCEPT !.edits = @ + 1]

StoreInv == StoreTypeOK /\ Locked /\ Fresh /\ NoUpdateIsLost
=============================================================================
