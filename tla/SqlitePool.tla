------------------------------- MODULE SqlitePool -----------------------------
(***************************************************************************)
(* The pool of SQLite connections (backend/storage/sqlite/pool.py) and the *)
(* transactions of the session store that run on them                      *)
(* (backend/persistence/native/session_store.py): update_agent_run_status, *)
(* with two UPDATEs and a commit, and record_run_evidence, which begins    *)
(* its transaction and rolls it back when a statement raises.              *)
(*                                                                         *)
(* A task runs one operation.  Its positions:                              *)
(*   new                 before acquire()                                  *)
(*   entering, opening   at the pool's lock in open(), and inside it       *)
(*   trying              at get_nowait                                     *)
(*   slot, creating      at the pool's lock in acquire(), and inside it    *)
(*   waiting             at `await self._idle.get()'                       *)
(*   using               holds a connection                                *)
(*   over                                                                  *)
(*                                                                         *)
(* Abstractions.  Connections are numbered as they are made.  A database   *)
(* has one write lock; a statement that needs it waits, or raises after    *)
(* busy_timeout.  A statement whose task is cancelled runs to its end in   *)
(* the thread of the connection, so a cancellation falls between two       *)
(* statements; one that still waits for the lock is taken as not run.      *)
(* Reads are left out, and so is the lock per run of record_run_evidence.  *)
(***************************************************************************)
EXTENDS Integers, Sequences, FiniteSets

CONSTANTS
  Tasks,
  Guarded,     \* tasks that run record_run_evidence; the others the plain UPDATEs
  None,
  MinSize, MaxSize,
  MaxErrors,   \* bound on statements and connections that fail
  MaxCancels,  \* bound on cancelled tasks
  MaxCloses    \* bound on close()

ASSUME PoolSizes == MinSize \in Nat \ {0} /\ MaxSize \in Nat /\ MinSize <= MaxSize
ASSUME PoolBounds == {MaxErrors, MaxCancels, MaxCloses} \subseteq Nat
ASSUME PoolTasks == Guarded \subseteq Tasks /\ None \notin Tasks

VARIABLES
  opened, size, \* _opened, _size
  idle,         \* the queue _idle
  lock,         \* the task that holds _lock
  made,         \* connections made so far
  task,         \* position, connection, and how far open() or the operation is
  closing,      \* close() runs
  begun,        \* connections with an open transaction
  pending,      \* writes of the open transactions: connection, task, number
  writer,       \* the connection that holds the write lock
  stored,       \* committed writes: task, number
  spent         \* errors, cancellations and closes so far

pool == <<opened, size, idle, lock, made, closing>>
data == <<begun, pending, writer, stored>>
vars == <<pool, task, data, spent>>

Parts == {1, 2}
Conns == 1..made
Positions == {"new", "entering", "opening", "trying", "slot", "creating", "waiting",
              "using", "over"}
Holding == {t \in Tasks : task[t].at = "using"}

TypeOK ==
  /\ opened \in BOOLEAN /\ closing \in BOOLEAN
  /\ made \in Nat /\ size \in Nat
  /\ idle \in Seq(Conns) /\ Len(idle) <= MaxSize
  /\ lock \in Tasks \cup {None}
  /\ task \in [Tasks -> [at : Positions, conn : Nat, done : Nat]]
  /\ begun \subseteq Conns
  /\ pending \subseteq (Conns \X Tasks \X Parts)
  /\ writer \in Conns \cup {0}
  /\ stored \subseteq (Tasks \X Parts)
  /\ spent \in [errors : Nat, cancels : Nat, closes : Nat]

Init ==
  /\ opened = FALSE /\ closing = FALSE
  /\ size = 0 /\ made = 0
  /\ idle = <<>>
  /\ lock = None
  /\ task = [t \in Tasks |-> [at |-> "new", conn |-> 0, done |-> 0]]
  /\ begun = {} /\ pending = {} /\ writer = 0 /\ stored = {}
  /\ spent = [errors |-> 0, cancels |-> 0, closes |-> 0]

Error == spent.errors < MaxErrors /\ spent' = [spent EXCEPT !.errors = @ + 1]
Go(t, at) == task' = [task EXCEPT ![t].at = at]
Hold(t, c) == task' = [task EXCEPT ![t] = [at |-> "using", conn |-> c, done |-> 0]]

-----------------------------------------------------------------------------
(* open().                                                                 *)

Enter(t) ==
  /\ task[t].at = "new"
  /\ Go(t, IF opened THEN "trying" ELSE "entering")
  /\ UNCHANGED <<pool, data, spent>>

LockOpen(t) ==
  /\ task[t].at = "entering" /\ lock = None
  /\ IF opened THEN Go(t, "trying") /\ UNCHANGED lock
     ELSE task' = [task EXCEPT ![t].at = "opening", ![t].done = 0] /\ lock' = t
  /\ UNCHANGED <<opened, size, idle, made, closing, data, spent>>

\* One of the min_size connections; put_nowait raises when the queue is full.
OpenOne(t) ==
  /\ task[t].at = "opening"
  /\ made' = made + 1 /\ size' = size + 1
  /\ IF Len(idle) = MaxSize
     THEN Go(t, "over") /\ lock' = None /\ UNCHANGED <<idle, opened>>
     ELSE /\ idle' = Append(idle, made + 1)
          /\ IF task[t].done + 1 = MinSize
             THEN Go(t, "trying") /\ lock' = None /\ opened' = TRUE
             ELSE /\ task' = [task EXCEPT ![t].done = @ + 1]
                  /\ UNCHANGED <<lock, opened>>
  /\ UNCHANGED <<closing, data, spent>>

-----------------------------------------------------------------------------
(* acquire().                                                              *)

Take(t) ==
  /\ idle # <<>>
  /\ Hold(t, Head(idle))
  /\ idle' = Tail(idle)

Try(t) ==
  /\ task[t].at = "trying"
  /\ Take(t) \/ (idle = <<>> /\ Go(t, "slot") /\ UNCHANGED idle)
  /\ UNCHANGED <<opened, size, lock, made, closing, data, spent>>

\* A mutant: the size is read before the lock is taken.
SlotUnlocked(t) ==
  /\ task[t].at = "slot"
  /\ IF size < MaxSize THEN Go(t, "creating") ELSE Go(t, "waiting")
  /\ UNCHANGED <<opened, size, idle, lock, made, closing, data, spent>>

Slot(t) ==
  /\ task[t].at = "slot" /\ lock = None
  /\ IF size < MaxSize THEN Go(t, "creating") /\ lock' = t
     ELSE Go(t, "waiting") /\ UNCHANGED lock
  /\ UNCHANGED <<opened, size, idle, made, closing, data, spent>>

Create(t) ==
  /\ task[t].at = "creating"
  /\ made' = made + 1 /\ size' = size + 1
  /\ Hold(t, made + 1)
  /\ lock' = None
  /\ UNCHANGED <<opened, idle, closing, data, spent>>

\* aiosqlite.connect or the PRAGMAs raise.
ConnectFails(t) ==
  /\ task[t].at \in {"opening", "creating"} /\ Error
  /\ Go(t, "over") /\ lock' = None
  /\ UNCHANGED <<opened, size, idle, made, closing, data>>

Wait(t) ==
  /\ task[t].at = "waiting" /\ Take(t)
  /\ UNCHANGED <<opened, size, lock, made, closing, data, spent>>

\* The finally of acquire(); a connection too many is closed, which undoes its
\* transaction, and is still counted.
GiveBack(t) ==
  idle' = IF Len(idle) < MaxSize THEN Append(idle, task[t].conn) ELSE idle

Kept(t) == Len(idle) < MaxSize

\* The task leaves, with its transaction as it is.
Leave(t) ==
  /\ Go(t, "over") /\ GiveBack(t)
  /\ UNCHANGED <<opened, size, lock, made, closing>>

-----------------------------------------------------------------------------
(* Transactions.                                                           *)

Writes(c) == {<<p[2], p[3]>> : p \in {q \in pending : q[1] = c}}

\* A mutant: the transaction ends, and its writes stay for the next.
FinishLate(c) ==
  /\ begun' = begun \ {c}
  /\ writer' = IF writer = c THEN 0 ELSE writer
  /\ UNCHANGED pending

Finish(c) ==
  /\ begun' = begun \ {c}
  /\ pending' = {p \in pending : p[1] # c}
  /\ writer' = IF writer = c THEN 0 ELSE writer

Commit(c) == Finish(c) /\ stored' = stored \cup Writes(c)
Rollback(c) == Finish(c) /\ UNCHANGED stored

\* BEGIN IMMEDIATE; it raises inside a transaction that was left open, and after
\* busy_timeout.
Begin(t) ==
  LET c == task[t].conn IN
  /\ task[t].at = "using" /\ t \in Guarded /\ task[t].done = 0
  /\ \/ /\ c \notin begun /\ writer = 0
        /\ begun' = begun \cup {c} /\ writer' = c
        /\ task' = [task EXCEPT ![t].done = 1]
        /\ UNCHANGED <<pool, pending, stored>>
     \/ /\ c \in begun \/ writer # 0
        /\ Leave(t)
        /\ IF Kept(t) THEN UNCHANGED data ELSE Rollback(c)
  /\ UNCHANGED spent

\* How many steps an operation has before its commit.
Step(t) == IF t \in Guarded THEN task[t].done ELSE task[t].done + 1

\* An UPDATE, which begins a transaction where there is none.
Update(t) ==
  LET c == task[t].conn IN
  /\ task[t].at = "using" /\ Step(t) \in Parts
  /\ writer \in {0, c}
  /\ begun' = begun \cup {c} /\ writer' = c
  /\ pending' = pending \cup {<<c, t, Step(t)>>}
  /\ task' = [task EXCEPT ![t].done = @ + 1]
  /\ UNCHANGED <<pool, stored, spent>>

\* A statement raises, by an error or after busy_timeout: record_run_evidence rolls
\* back, update_agent_run_status leaves with what it wrote.
UpdateFails(t) ==
  LET c == task[t].conn IN
  /\ task[t].at = "using" /\ Step(t) \in Parts
  /\ (writer \notin {0, c} /\ UNCHANGED spent) \/ Error
  /\ Leave(t)
  /\ IF t \in Guarded \/ ~Kept(t) THEN Rollback(c) ELSE UNCHANGED data

CommitWrites(t) ==
  /\ task[t].at = "using" /\ Step(t) = 3
  /\ Leave(t) /\ Commit(task[t].conn)
  /\ UNCHANGED spent

-----------------------------------------------------------------------------
(* Cancellation, and close().                                              *)

\* CancelledError is no Exception: nothing is rolled back.
Cancel(t) ==
  /\ spent.cancels < MaxCancels /\ task[t].at \notin {"new", "over"}
  /\ spent' = [spent EXCEPT !.cancels = @ + 1]
  /\ IF task[t].at = "using"
     THEN Leave(t) /\ IF Kept(t) THEN UNCHANGED data ELSE Rollback(task[t].conn)
     ELSE /\ Go(t, "over")
          /\ lock' = IF lock = t THEN None ELSE lock
          /\ UNCHANGED <<opened, size, idle, made, closing, data>>

Close ==
  /\ ~closing /\ spent.closes < MaxCloses
  /\ spent' = [spent EXCEPT !.closes = @ + 1]
  /\ closing' = TRUE
  /\ UNCHANGED <<opened, size, idle, lock, made, task, data>>

CloseOne ==
  /\ closing /\ idle # <<>>
  /\ idle' = Tail(idle) /\ Rollback(Head(idle))
  /\ UNCHANGED <<opened, size, lock, made, closing, task, spent>>

CloseEnds ==
  /\ closing /\ idle = <<>>
  /\ opened' = FALSE /\ size' = 0 /\ closing' = FALSE
  /\ UNCHANGED <<idle, lock, made, task, data, spent>>

-----------------------------------------------------------------------------
Own(t) ==
  \/ Enter(t) \/ LockOpen(t) \/ OpenOne(t) \/ Try(t) \/ Slot(t) \/ Create(t) \/ Wait(t)
  \/ Begin(t) \/ Update(t) \/ CommitWrites(t)

Next ==
  \/ \E t \in Tasks : Own(t) \/ ConnectFails(t) \/ UpdateFails(t) \/ Cancel(t)
  \/ Close \/ CloseOne \/ CloseEnds

Spec == Init /\ [][Next]_vars

\* Tasks that can run do; a statement that waits for the write lock gets it or raises
\* by busy_timeout; close() goes on.
FairSpec ==
  /\ Spec
  /\ \A t \in Tasks : WF_vars(Own(t) \/ (UpdateFails(t) /\ UNCHANGED spent))
  /\ WF_vars(CloseOne \/ CloseEnds)

-----------------------------------------------------------------------------
(* Properties.                                                             *)

Distinct(s) == \A i, j \in DOMAIN s : i # j => s[i] # s[j]

\* A connection has one user: it is held by one task, or idle once, never both,
\* through cancellations, errors and close().
OneUser ==
  /\ Distinct(idle)
  /\ \A t \in Holding : \A i \in DOMAIN idle : idle[i] # task[t].conn
  /\ \A t, u \in Holding : t # u => task[t].conn # task[u].conn

\* The docstring of the pool: there are never more than max_size connections, in the
\* queue and in use.
WithinMaxSize == Len(idle) + Cardinality(Holding) <= MaxSize

\* At most one task creates connections, and it holds the lock.
OneCreator ==
  \A t \in Tasks : task[t].at \in {"opening", "creating"} => lock = t

\* A connection is used by one task, and made by one.
ConnectionsAreExclusive == OneUser /\ OneCreator

\* The docstrings of update_agent_run_status and record_run_evidence: an operation is
\* stored whole or not at all.
WholeOf(tasks) ==
  \A t \in tasks : \A p, q \in Parts : <<t, p>> \in stored => <<t, q>> \in stored

StoredWhole == WholeOf(Tasks)

\* No task was cancelled, and none left update_agent_run_status between its UPDATEs.
Undisturbed ==
  /\ spent.cancels = 0
  /\ \A t \in Tasks \ Guarded : task[t].at = "over" => task[t].done # 1

\* A connection comes back to the queue without a transaction, so nobody waits for a
\* lock that nobody will release.
IdleIsClean == \A i \in DOMAIN idle : idle[i] \notin begun

\* Every task that came got a connection and ended, in the end, however many wait, fail
\* or are cancelled, as long as nobody closes the pool: close() takes what a waiting
\* task waits for.
TasksOver == \A t \in Tasks : task[t].at \in {"new", "over"}

-----------------------------------------------------------------------------
(* What a comment or a docstring says and the code does not keep.  TLC     *)
(* finds these violated, so no configuration checks them (see the README). *)

\* The docstring of the pool: acquire() before open() raises, so a task that comes to a
\* pool that is not open goes no further.
OpenedFirst ==
  [][\A t \in Tasks :
       task[t].at = "new" /\ ~opened => task'[t].at \in {"new", "over"}]_vars

=============================================================================
