---------------------------- MODULE EmbeddingQueue ----------------------------
(***************************************************************************)
(* The embedding queue (backend/embedding/queue.py, the SQLite backend)    *)
(* and the worker that drains it (backend/embedding/background.py): one    *)
(* loop that polls, and per record of a batch a task that retries, gives   *)
(* up, or trips the breaker of the whole worker.                           *)
(*                                                                         *)
(* Every UPDATE of the queue matches on queue_id alone; nothing fences a   *)
(* task whose record was archived or put back meanwhile.  Tasks interleave *)
(* at every await.  The position of a task:                                *)
(*   none      no task                                                     *)
(*   check     top of the retry loop: `paused' is read                     *)
(*   waiting   at the semaphore                                            *)
(*   marking   inside the semaphore, mark_processing is next               *)
(*   calling   waits for the rate limiter and the embedding API            *)
(*   writing   upserts the vector                                          *)
(*   marked    mark_success is next                                        *)
(*   backoff   sleeps between two attempts                                 *)
(*   dead      mark_dlq is next                                            *)
(*   tripping  set `paused', archive_pending is next                       *)
(*                                                                         *)
(* Abstractions.  updated_at is the boolean `stalled' (older than the two  *)
(* minutes of reconcile).  The rate limiter only delays.  mark_failed and  *)
(* cleanup_old_records have no caller in src/.                             *)
(***************************************************************************)
EXTENDS Naturals, FiniteSets

CONSTANTS
  Docs,          \* queue ids
  MaxRetries,    \* MAX_RETRIES, 3; also the literal 3 in get_pending
  MaxParallel,   \* MAX_PARALLEL, 5
  BatchSize,     \* BATCH_SIZE, 10
  Events         \* what the environment may do in an instance; see AllEvents

AllEvents ==
  {"error",        \* the API or the vector store fails
   "rate_limit",   \* the API answers 429
   "db",           \* a write of the queue raises, is logged and swallowed
   "retry",        \* retry_failed
   "crash"}        \* the process ends, and is started again later

\* The values of the constants a configuration may take.
Parameters ==
  /\ MaxRetries \in Nat \ {0}
  /\ MaxParallel \in Nat \ {0} /\ BatchSize \in Nat \ {0}
  /\ Events \subseteq AllEvents

VARIABLES
  rec,      \* the rows of embedding_queue
  stored,   \* the ids upserted in the vector store
  task,     \* _process_record per record: position and attempt
  loop,     \* _run_loop: down, reconcile, poll or gather
  paused,   \* the breaker
  retry     \* the ids retry_failed selected, not yet updated

vars == <<rec, stored, task, loop, paused, retry>>

Status == {"absent", "pending", "processing", "success", "dlq"}

Record == [status : Status, attempts : Nat, stalled : BOOLEAN]

Position ==
  {"none", "check", "waiting", "marking", "calling", "writing", "marked",
   "backoff", "dead", "tripping"}

Task == [pc : Position, attempt : 0..MaxRetries]

NoTask == [pc |-> "none", attempt |-> 0]

TypeOK ==
  /\ rec \in [Docs -> Record]
  /\ stored \subseteq Docs
  /\ task \in [Docs -> Task]
  /\ loop \in {"down", "reconcile", "poll", "gather"}
  /\ paused \in BOOLEAN
  /\ retry \subseteq Docs

Init ==
  /\ rec = [q \in Docs |-> [status |-> "absent", attempts |-> 0, stalled |-> FALSE]]
  /\ stored = {}
  /\ task = [q \in Docs |-> NoTask]
  /\ loop = "down"
  /\ paused = FALSE
  /\ retry = {}

-----------------------------------------------------------------------------
(* The queue.                                                              *)

Enqueue(q) ==
  /\ rec[q].status = "absent"
  /\ rec' = [rec EXCEPT ![q].status = "pending"]
  /\ UNCHANGED <<stored, task, loop, paused, retry>>

\* get_pending.
Pending == {q \in Docs : rec[q].status = "pending" /\ rec[q].attempts < MaxRetries}

\* A write of the column moves updated_at.
Marked(q, status) == [rec EXCEPT ![q].status = status, ![q].stalled = FALSE]

\* Every mark_* catches what its UPDATE raises: its caller goes on as if it
\* had been written.
Writes(new) == rec' = new \/ ("db" \in Events /\ UNCHANGED rec)

\* retry_failed: the SELECT of the ids, then the UPDATE of those ids.
RetryFailedRead ==
  /\ "retry" \in Events
  /\ retry = {}
  /\ retry' = {q \in Docs : rec[q].status = "dlq"}
  /\ retry' # {}
  /\ UNCHANGED <<rec, stored, task, loop, paused>>

RetryFailed ==
  /\ retry # {}
  /\ Writes([q \in Docs |-> IF q \in retry
       THEN [rec[q] EXCEPT !.status = "pending", !.stalled = FALSE] ELSE rec[q]])
  /\ retry' = {}
  /\ UNCHANGED <<stored, task, loop, paused>>

-----------------------------------------------------------------------------
(* The loop.                                                               *)

Start ==
  /\ loop = "down"
  /\ loop' = "reconcile"
  /\ UNCHANGED <<rec, stored, task, paused, retry>>

\* Only records that were untouched for two minutes, and only at the start.
Reconcile ==
  /\ loop = "reconcile"
  /\ Writes([q \in Docs |->
       IF rec[q].status = "processing" /\ rec[q].stalled
         THEN [rec[q] EXCEPT !.status = "pending", !.stalled = FALSE] ELSE rec[q]])
  /\ loop' = "poll"
  /\ UNCHANGED <<stored, task, paused, retry>>

\* get_pending returns at most BatchSize records; gather waits for all of them.
Poll ==
  /\ loop = "poll"
  /\ ~paused
  /\ \E batch \in SUBSET Pending :
       /\ batch # {}
       /\ Cardinality(batch) <= BatchSize
       /\ batch = Pending \/ Cardinality(batch) = BatchSize
       /\ task' = [q \in Docs |-> IF q \in batch
                                  THEN [pc |-> "check", attempt |-> 0] ELSE NoTask]
  /\ loop' = "gather"
  /\ UNCHANGED <<rec, stored, paused, retry>>

GatherReturns ==
  /\ loop = "gather"
  /\ \A q \in Docs : task[q] = NoTask
  /\ loop' = "poll"
  /\ UNCHANGED <<rec, stored, task, paused, retry>>

-----------------------------------------------------------------------------
(* _process_record.                                                        *)

At(q, pc) == task[q].pc = pc

Goto(q, pc) == task' = [task EXCEPT ![q].pc = pc]

Return(q) == task' = [task EXCEPT ![q] = NoTask]

InSemaphore == {q \in Docs : task[q].pc \in {"marking", "calling", "writing", "marked"}}

CheckPaused(q) ==
  /\ At(q, "check")
  /\ IF paused THEN Return(q) ELSE Goto(q, "waiting")
  /\ UNCHANGED <<rec, stored, loop, paused, retry>>

Acquire(q) ==
  /\ At(q, "waiting")
  /\ Cardinality(InSemaphore) < MaxParallel
  /\ Goto(q, "marking")
  /\ UNCHANGED <<rec, stored, loop, paused, retry>>

MarkProcessing(q) ==
  /\ At(q, "marking")
  /\ Writes([Marked(q, "processing") EXCEPT ![q].attempts = @ + 1])
  /\ Goto(q, "calling")
  /\ UNCHANGED <<stored, loop, paused, retry>>

Embedded(q) ==
  /\ At(q, "calling")
  /\ Goto(q, "writing")
  /\ UNCHANGED <<rec, stored, loop, paused, retry>>

\* Mutant: the record is marked before the vector is stored.
StoreLater(q) ==
  /\ At(q, "writing")
  /\ Goto(q, "marked")
  /\ UNCHANGED <<rec, stored, loop, paused, retry>>

WriteVector(q) ==
  /\ At(q, "writing")
  /\ stored' = stored \cup {q}
  /\ Goto(q, "marked")
  /\ UNCHANGED <<rec, loop, paused, retry>>

MarkSuccess(q) ==
  /\ At(q, "marked")
  /\ Writes(Marked(q, "success"))
  /\ Return(q)
  /\ UNCHANGED <<stored, loop, paused, retry>>

\* Any error but a rate limit; the semaphore is released.
Fails(q) ==
  /\ "error" \in Events
  /\ task[q].pc \in {"calling", "writing"}
  /\ task' = [task EXCEPT ![q] =
       [pc |-> IF @.attempt + 1 < MaxRetries THEN "backoff" ELSE "dead",
        attempt |-> @.attempt + 1]]
  /\ UNCHANGED <<rec, stored, loop, paused, retry>>

BackoffEnds(q) ==
  /\ At(q, "backoff")
  /\ Goto(q, "check")
  /\ UNCHANGED <<rec, stored, loop, paused, retry>>

MarkDlq(q) ==
  /\ At(q, "dead")
  /\ Writes(Marked(q, "dlq"))
  /\ Return(q)
  /\ UNCHANGED <<stored, loop, paused, retry>>

\* 429, of the API or of the vector store: the first task pauses the worker and
\* archives, the others return.
RateLimited(q) ==
  /\ "rate_limit" \in Events
  /\ task[q].pc \in {"calling", "writing"}
  /\ IF paused THEN Return(q) ELSE Goto(q, "tripping")
  /\ paused' = TRUE
  /\ UNCHANGED <<rec, stored, loop, retry>>

ArchivePending(q) ==
  /\ At(q, "tripping")
  /\ Writes([d \in Docs |-> IF rec[d].status \in {"pending", "processing"}
       THEN [rec[d] EXCEPT !.status = "dlq", !.stalled = FALSE] ELSE rec[d]])
  /\ Return(q)
  /\ UNCHANGED <<stored, loop, paused, retry>>

-----------------------------------------------------------------------------
(* Time and crashes.                                                       *)

Stalls(q) ==
  /\ rec[q].status = "processing"
  /\ ~rec[q].stalled
  /\ rec' = [rec EXCEPT ![q].stalled = TRUE]
  /\ UNCHANGED <<stored, task, loop, paused, retry>>

\* The process ends, or stop() cancels the loop; retry_failed may be lost too.
Crash ==
  /\ "crash" \in Events
  /\ loop # "down"
  /\ loop' = "down"
  /\ task' = [q \in Docs |-> NoTask]
  /\ paused' = FALSE
  /\ retry' = {}
  /\ UNCHANGED <<rec, stored>>

TaskStep(q) ==
  \/ CheckPaused(q) \/ Acquire(q) \/ MarkProcessing(q) \/ Embedded(q)
  \/ WriteVector(q) \/ MarkSuccess(q) \/ Fails(q) \/ BackoffEnds(q)
  \/ MarkDlq(q) \/ RateLimited(q) \/ ArchivePending(q)

LoopStep == Start \/ Reconcile \/ Poll \/ GatherReturns

Next ==
  \/ LoopStep
  \/ \E q \in Docs : TaskStep(q) \/ Enqueue(q) \/ Stalls(q)
  \/ RetryFailedRead \/ RetryFailed
  \/ Crash

Spec == Init /\ [][Next]_vars

\* The loop, its tasks and retry_failed are coroutines of one event loop; the
\* API answers or fails, and the semaphore serves its waiters in order.
Fairness ==
  /\ WF_vars(LoopStep)
  /\ \A q \in Docs : SF_vars(TaskStep(q))
  /\ WF_vars(RetryFailed)
  /\ \A q \in Docs : WF_vars(Stalls(q))

FairSpec == Spec /\ Fairness

-----------------------------------------------------------------------------
(* Properties.                                                             *)

\* A record that reads success has its vector in the store, through crashes
\* between the two writes, lost marks, archives and retries.
SuccessIsStored == \A q \in Docs : rec[q].status = "success" => q \in stored

\* What a record can cost: get_pending looks at attempt_count once per batch,
\* and the batch spends up to MaxRetries more on it.
AttemptsAreBounded == \A q \in Docs : rec[q].attempts <= 2 * MaxRetries - 1

\* Without a rate limit, a record is given up only after MaxRetries calls were
\* made for it: the count of the row and that of the task agree.
DlqWasTried == \A q \in Docs : rec[q].status = "dlq" => rec[q].attempts >= MaxRetries

\* Every record that was enqueued is embedded or given up.  Failures are counted, so
\* this holds from some point on, however the calls fail and the tasks interleave,
\* unless somebody retries for ever.
QueueDrained == \A q \in Docs : rec[q].status \in {"absent", "success", "dlq"}

-----------------------------------------------------------------------------
(* What a comment or a docstring says and the code does not keep.  TLC     *)
(* finds these violated, so no configuration checks them (see the README). *)

\* "nao faz mais nenhuma chamada": once the breaker tripped, no task of the
\* batch starts another call.
NoCallWhilePaused ==
  [][\A q \in Docs : ~At(q, "calling") /\ task'[q].pc = "calling" => ~paused]_vars

=============================================================================
