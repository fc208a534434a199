------------------------------- MODULE MCStorage -------------------------------
(***************************************************************************)
(* What is stored: the pool of connections (SqlitePool), the rows of the   *)
(* sidebar beside the sessions (ThreadRows) and the embedding queue        *)
(* (EmbeddingQueue).  They share no state in these models, so a behaviour  *)
(* of this instance runs one of them: part, chosen at the start, says      *)
(* which, and the variables of the others stay as they are.                *)
(***************************************************************************)
EXTENDS SqlitePool, TLC

CONSTANTS
  Threads, Coroutines, Kinds, Workspaces, Pins, Sweeper,
  MaxRequests, MaxFailures,                      \* of the sidebar
  Docs, MaxRetries, MaxParallel, BatchSize, Events, \* of the embedding queue
  th                                             \* a thread

VARIABLES
  part,
  rows, sessions, deleted, deletion, request, sweep, requests, failures,
  rec, vectors, work, loop, paused, retry

\* Any threads and requests, any records; and the queue of a service that has no rate
\* limit and whose writes of the queue succeed.
Rows == INSTANCE ThreadRows WITH lock <- deletion
Queue == INSTANCE EmbeddingQueue WITH stored <- vectors, task <- work
Unlimited == INSTANCE EmbeddingQueue WITH
  Events <- Events \ {"rate_limit", "db"}, stored <- vectors, task <- work

ASSUME RowParameters == Rows!Parameters
ASSUME QueueParameters == Queue!Parameters

-----------------------------------------------------------------------------
(* A behaviour of one of them.                                             *)

poolVars ==
  <<opened, size, idle, lock, made, closing, task, begun, pending, writer, stored, spent>>
rowVars == <<rows, sessions, deleted, deletion, request, sweep, requests, failures>>
queueVars == <<rec, vectors, work, loop, paused, retry>>
storageVars == <<part, poolVars, rowVars, queueVars>>

StorageInit ==
  /\ part \in {"pool", "deletions", "edits", "batch", "queue", "unlimited"}
  /\ Init /\ Rows!Init /\ Queue!Init

StorageNext ==
  /\ UNCHANGED part
  /\ \/ part = "pool" /\ Next /\ UNCHANGED <<rowVars, queueVars>>
     \/ part \in {"deletions", "edits", "batch"} /\ Rows!Next /\ UNCHANGED <<poolVars, queueVars>>
     \/ part = "queue" /\ Queue!Next /\ UNCHANGED <<poolVars, rowVars>>
     \/ part = "unlimited" /\ Unlimited!Next /\ UNCHANGED <<poolVars, rowVars>>

StorageSpec == StorageInit /\ [][StorageNext]_storageVars

-----------------------------------------------------------------------------
(* The instance that is checked.                                           *)

\* What the requests of a part are, and whether they or the sweep may fail: those that
\* make and delete one thread; that edit it; and turns in two.  Records grow old while
\* the worker is down: nobody asks whether they are, but its start.
Bounds ==
  /\ part \in {"queue", "unlimited"} /\ loop \notin {"down", "reconcile"} =>
       \A q \in Docs : ~rec[q].stalled
  /\ part \in {"edits", "batch"} => failures = 0
  /\ \A c \in Coroutines : request[c].at # "idle" =>
       /\ part = "deletions" => request[c].kind \in {"create", "turn", "delete"}
       /\ part = "edits" => request[c].kind \notin {"create", "delete"}
       /\ part = "batch" => request[c].kind = "turn"
       /\ part \in {"deletions", "edits"} => request[c].thread = th

Symmetry == Permutations(Docs)

-----------------------------------------------------------------------------
(* Properties: ConnectionsAreExclusive of SqlitePool, and those of the     *)
(* parts.                                                                  *)

\* The variables of the pool and of the sidebar have their types; while nobody closes
\* the pool it has no more connections than its size; an operation is stored whole or not
\* at all, the guarded ones while no task is cancelled and all while none is cut short,
\* and then a connection comes back to the queue without a transaction.
OperationsAreWhole ==
  /\ TypeOK /\ Rows!TypeOK
  /\ spent.closes = 0 => WithinMaxSize
  /\ spent.cancels = 0 => WholeOf(Guarded)
  /\ Undisturbed => StoredWhole /\ IdleIsClean

\* The sweep restores no deleted thread, takes no edit from a row, and cleans away no
\* conversation it listed, although it works on what it read before
\* (reconcile_vectora_sessions).
SweepsAreSafe ==
  [][Rows!RestoresNoDeleted /\ Rows!TakesNoEdit /\ Rows!CleansNoConversation]_rowVars

\* A record that reads success is in the vector store, costs no more calls than two
\* batches can spend, and without a rate limit is given up only after MaxRetries
\* (_process_record).
RecordsAreEmbedded ==
  /\ Queue!TypeOK /\ Queue!SuccessIsStored /\ Queue!AttemptsAreBounded
  /\ part = "unlimited" => Unlimited!DlqWasTried
=============================================================================
