# A TLA+ model of Vectora

Vectora is a local-first agent platform: a Python backend with a conversation
engine, background tasks on a Kanban board, plans of subagent stages, a RAG
indexer, a gateway through which a remote service reaches the machine, and
clients that talk to it over HTTP. This directory models the parts where several
actors write the same rows, wait for each other, or are cut short between two
writes: coroutines of one event loop that interleave at every `await`, workers
with connections of their own, requests that are cancelled, and processes that
crash. TLC checks the modules on small instances; TLAPS proves what is listed
under [Proofs](#proofs) for every instance.

## Inventory

The state and the operations are those of `src/backend`.

| Part | State | Operations | What is hard | What makes it correct |
|---|---|---|---|---|
| Kanban board (`scheduling/kanban.py`) | cards with status, claim and TTL, block counter, version; links | create, claim, heartbeat, complete, block, unblock, move, review, link, promote, release stale claims | every write is one UPDATE, but most are chosen from what an earlier SELECT said; some name the run that must hold the claim and some name nobody | a card that shows running is claimed; only its owner or the TTL ends a claim; links stay acyclic; three blocks escalate |
| Background runs (`scheduling/background_tasks.py`) | run rows, coroutines, heartbeat watchdogs | run, pause for approval, resume, cancel, complete, fail, report | coroutines interleave at every await; a crash ends all of them and leaves the rows; run and card are two tables | one execution per task; a final row stays final; a resumed run settles |
| Scheduler (`BackgroundScheduler`) | the list of due tasks of a tick | release, recompute, dispatch, disable once tasks | runs inline; its list is stale by the time it is served | a once task starts once, is retired after its run; each tick ends |
| Budget (`scheduling/budget.py`) | cost of past runs | check before a run | acts on a card somebody else may hold | runs in progress are spared |
| Goal loop (`engine/goal_mode.py`) | turns used, streaks of failing gates, failures of the judge | turn, gates, judge, pause, resume | three ways to stop count different streaks | done only with gates and judge of one turn; a stuck agent is stopped, and only that |
| DAG plans (`scheduling/dag.py`) | plans with hash and approval, executions with key, stages with lease and attempts | create, approve, start, claim, heartbeat, finish, cancel, recover | workers on connections of their own; leases lost and recovered; failure of a sibling | only what was approved runs, in order, once per key; every execution ends with the status its stages say |
| Embedding queue and worker (`embedding/queue.py`, `embedding/background.py`) | queue rows, breaker, tasks of a batch | enqueue, poll, embed, upsert, mark, retry, archive, reconcile | updates match on the id alone; marks swallow exceptions; crash between vector store and queue | success means stored; bounded attempts; the queue drains |
| Stream of a run (`api/native_stream.py`) | the lock of a workspace, generator, runner task, queue, rows of the run | start, stream, cancel, disconnect, drain, persist the outcome, sweep of stale runs | generator and runner are two tasks that cancel each other; the client leaves; late writes | one engine per workspace; the row tells how the run ended; a verdict is final |
| Conversation (`engine/conversation_loop.py`, `tool_batch.py`, `hitl.py`, `api/handlers/chat.py`) | the tree of messages, its head, the pending approval | send, edit, branch, think, run a batch, ask, decide, resume | what a run appends to was read long before; a decision meets a conversation that went on | a call runs once and only as decided; histories keep calls and results together |
| Context plan (`services/context_planner.py`, `context_compaction.py`) | units, selection, marker | cut, select, drop, mark | the budget is checked several times with different reserves | exchanges stay whole, in order; the marker tells of omitted messages |
| Model fallback (`llm/fallback_chat_client.py`, `provider_fallback.py`) | chain, last model | stream, generate, switch | errors of several classes; an answer that has begun | no model twice; no second answer after a first has begun; the cost is booked on the model that answered |
| Delegation (`tools/subagent_delegate.py`, `engine/subagents.py`, `tool_batch.py`) | children in flight by intent, their rows, the turn's spawns | delegate, follow, watch, steer, stop | followers share the leader's future; a stop and the end of a child race | one child per intent; all followers hear the same; the cap holds |
| Questions (`services/structured_questions.py`, `tools/questions.py`) | questions in memory and in a file | ask, wait, answer, cancel, expire, restart | writes happen in threads that outlive a cancelled caller | what the client was told is kept; all hear one answer |
| Media quota (`services/media_quota.py`, `tools/media.py`) | reservations with their debits, in two stores | reserve, deliver, refund, settle | crash between the call and the commit; the store changes between two calls | units agree with rows; a delivery is charged; a verdict settles once |
| Gateway (`services/gateway/__init__.py`) | WebSocket, workers, queues, remembered deliveries | register, read, forward, answer, review, reject, stop | full queues, reconnects, a cancellation during the drain, a deadline | no accepted request is lost; a review is told one verdict |
| Sidebar (`api/handlers/threads.py`, `api/server.py`) | rows of threads beside the sessions of the engine, tombstones | create, turn, title, rename, pin, remember, delete, hourly sweep | a row is read, awaited upon, and written back whole | the sweep restores nothing deleted and cleans no conversation |
| Connection pool (`storage/sqlite/pool.py`) | connections, idle queue, lock | open, acquire, create, release, roll back, close | cancellations and errors with a connection in hand | one user per connection; an operation is stored whole |
| Local models (`api/handlers/provider_routing.py`, `services/docker_model_runner.py`) | partial files with notes and manifests; jobs, their tasks and a file of snapshots | download, resume, cancel, install; create, retry, cancel, run, save, restore jobs | a revision moves between two requests; publication is several steps; a cancellation meets a task anywhere; threads write after their task is gone | what a manifest describes is whole; a cancelled download leaves nothing; one task per job, and unfinished means worked on |
| Restore of a backup (`services/maintenance.py`, `api/handlers/backup.py`, `storage/backup_manifest.py`) | the window, counted operations, the store's pool, files and their snapshot | count, wait, open, use; announce, close, promote, reopen, roll back | some coroutines are not counted; the window waits for operations that may wait for it; the log of the database | nobody uses the files in the window; a restore leaves the backup or what there was |
| Everything else | | | I/O, parsing, wording, pure decisions | listed in `PROJECT.json` with the reason it is left out |

How they interact. `tick()` calls the board (release, recompute), the DAG store
(recover) and, inline, `run_task`; runs write their card and their row, in one
transaction when they complete or are cancelled and in two otherwise; HTTP
handlers and the tool `kanban_update_status` write the board between any two
steps of a run; external executors call the DAG store. A turn enters through
`StreamChat` or through the tunnel, which forwards to the same routes; it waits
for the lock of its workspace, runs the conversation loop as a task, and the
loop plans the context, calls the fallback client, executes batches of tools
(delegations, questions and media among them) and stops at approvals. All of
them store through the pool. Ingest handlers fill the embedding queue and one
worker drains it.

Two joins are modelled as compositions: `BackgroundRuns` extends `Kanban`, and
`DagStore` extends `DagGraph`. Between the other components only what a caller
can observe is shared (a run is a position of the goal loop, a turn of a batch,
a connection of an operation); they have no variable in common, and each module
has its neighbour as a nondeterministic step. Where that step is narrower than
the neighbour, the module says so.

## Modules

| Module | Models | Lines up with |
|---|---|---|
| `Kanban` | the rows of the board; each SET list is a row transform, each WHERE clause a predicate, each transaction an operator | `scheduling/kanban.py` |
| `BackgroundRuns` (extends `Kanban`) | runs as coroutines with a program counter, the scheduler's tick, HTTP handlers between two transactions, agents moving their own card, disturbances, crashes | `scheduling/background_tasks.py`, `budget.py`, `api/handlers/background.py`, `tools/kanban.py` |
| `RunLease` | the abstract promise of a claim: at most one holder per task, handed over only through nobody, a run is done only together with its own release | stated from `claim_task` and `complete_run_and_set_status` |
| `BackgroundRunsLease` | the refinement mapping: `claim_lock` is the holder, the run row the outcome | |
| `BackgroundRuns_proofs` | type correctness; links, cards, runs; the refinement of `RunLease`; one execution per task; by whom claims end; what starts once | |
| `DagGraph` | what an acceptable dependency graph is | `validate_stages` |
| `DagValidation` (extends `DagGraph`) | the depth-first search with its recursion as a stack | `validate_stages` |
| `DagStore` (extends `DagGraph`) | plans, executions, stages, workers, clients, and SQLite's write lock | `scheduling/dag.py` |
| `DagStore_proofs` | order, status, results and authorisation of executions, and who earns a result | |
| `EmbeddingQueue` | queue rows, the worker's loop, one task per record of a batch | `embedding/queue.py`, `embedding/background.py` |
| `GoalLoop` | turns, gates, judge and their streaks | `engine/goal_mode.py` |
| `RunStream` | generator and runner of each run, the lock of the workspace, the rows | `api/native_stream.py`, `persistence/native/session_store.py` |
| `Conversation` | the tree of messages, approvals, and the runs that extend it | `engine/conversation_loop.py`, `tool_batch.py`, `hitl.py`, `api/handlers/chat.py` |
| `ContextPlan` | units, selection, marker of one plan | `services/context_planner.py`, `context_compaction.py` |
| `ModelFallback` | the loop over the candidates | `llm/fallback_chat_client.py`, `provider_fallback.py` |
| `Delegation` | delegating calls, children, the watchdog, batches | `tools/subagent_delegate.py`, `engine/subagents.py`, `guardrails.py`, `tool_batch.py` |
| `Questions` | the store of questions, its file, calls and requests | `services/structured_questions.py`, `tools/questions.py` |
| `MediaQuota` | reservations in two stores, attempts of tools | `services/media_quota.py`, `tools/media.py` |
| `GatewayTunnel`, `GatewayReviews` | the connection with its workers; reviews with queue, verdicts and deadline | `services/gateway/__init__.py` |
| `ThreadRows` | rows, sessions, tombstones, requests and the sweep | `api/handlers/threads.py`, `api/server.py` |
| `SqlitePool` | the pool, and operations of two statements on it | `storage/sqlite/pool.py` |
| `ModelDownloads` | downloads with their lock, partial file, note, manifest; cancellations and installations; pushes to the repository | `api/handlers/provider_routing.py` |
| `ModelJobs` | jobs in memory and on disk, their tasks, requests and writing threads | `services/docker_model_runner.py` |
| `StateRestore` | the barrier, restores step by step, requests and coroutines nobody counts, the files | `services/maintenance.py`, `api/handlers/backup.py`, `storage/backup_manifest.py` |
| `MCBackgroundRuns`, `MCBoard`, `MCDagStore`, `MCRestore` | instances of one component, a configuration per question | |
| `MCStreams`, `MCLoop`, `MCTools`, `MCStorage`, `MCLive` | instances of several components that share no state | |
| `LocalFiles` | downloads, jobs and restores together, whatever their constants: each of the three may move in a step | the three above |
| `MCStreams_proofs` | the streams, the tunnel and the reviews | |
| `MCLive_proofs` (extends `DagValidation` and `LocalFiles`) | the verdict of the search; the files of models, of their jobs and of restores | |
| `MCLoop_proofs`, `MCLoop_histories` | the goal loop and the models; the calls of a thread; its histories and the plans of what is sent of them | |
| `MediaQuota_proofs` (extends `MCTools`) | quota, questions and delegations | |
| `SqlitePool_proofs` (extends `MCStorage`) | pool, sidebar and embedding queue | |

The five after `MCRestore` are sums, and so is `MCBoard`, of two instances of `BackgroundRuns`. The components they instantiate have no state in common,
so an interleaving of them would show nothing but a product: the variable `part`,
chosen at the start, says which component moves, the others stand still, and a
property of the sum is the conjunction of the properties of the parts, each
for the behaviours in which its part moves. A module takes its instances with
`INSTANCE ... WITH`; what it assumes of its constants is its definition
`Parameters`, which the sum asserts for each instance. `MCStreams`, `MCTools` and
`MCStorage` leave every constant of their components open, and so does `MCLoop`
(but for the habits of its two conversations), while `MCLive` does for the three
of `LocalFiles`, so that theorems about them hold for all
instances. What TLC
explores of them is narrower for each part than the constants of the
configuration allow; `Bounds`, a CONSTRAINT, says how.

`PROJECT.json` ("map") gives the lines of every definition that models code.
Definitions marked "Mutant" are plausible bugs of the code; putting one in the
place of the definition it mutates makes TLC refute the property paired with it
("mutants").

### Correspondence and abstractions

**Board.** `claim_expires_at` is the boolean `expired`, `next_run_at` its
position relative to now (none, future, due, late). The `version` column is
left out: `manual_transition` compares it in its WHERE clause, so it acts
exactly when nothing changed since its read, and is one step. A block keeps the
two steps it has in the code (SELECT of `block_count`, then UPDATE) where an
unfenced caller can be overtaken: `check_budget` and a chat session; in the
fenced calls the UPDATE itself tests the claim. The three block kinds that wait for
a person are one. A card that was deleted is not created again.

**Runs.** A run is its row and its coroutine; `pc` names the await at which the
coroutine is. The engine is one step that completes, fails or pauses; the
heartbeat watchdog is an action that may renew the claim while the engine runs.
`ClaimExpires` fires for a claim without a live coroutine, and for a live one
only under the event `late_heartbeat`. `run_task` that returns before its row
exists frees its identifier for another run, since nobody saw it. A crash ends
every coroutine and handler at once and keeps cards, links and rows. One HTTP
request per card may be between its two transactions. `kanban_decompose`,
triage proposals, `_mark_kanban_after_success` and `_reopen_cancelled_run` (the
last two without a caller) are not modelled.

**Environment.** `Events` says what an instance lets people, agents and
failures do. It exists to keep instances small and to state under which
disturbances a property holds: `background_all` has those that write a card
beside its run.

**DAG.** An execution is identified by its idempotency key, a plan hash is the
graph it was computed from, a claim token is the number of its attempt. SELECTs are steps of
their own unless what they read can no longer change (a stage that failed or
passed stays so). Every worker has a connection; `writer` is the one that holds
an open write transaction. An UPDATE that matches no row opens one too, and
`claim_ready_stage` then neither commits nor rolls back: `ClaimLost` keeps the lock until
the worker writes again or dies. Executors of stages are not in `src/`; they are assumed to
poll, to run the watchdog, and to finish or die. Events other than
`execution_finished` are left out.

**Embedding.** The SQLite queue only. `updated_at` is the boolean `stalled`
(older than the two minutes of `reconcile`), the rate limiter only delays, and
`stop()` that runs out of patience is a crash. `db` makes a write of the queue raise, which
every `mark_*` logs and swallows. `mark_failed` and `cleanup_old_records` have
no caller; `retry_failed` has none in `src/` either but is what the breaker's message and
docstring send an operator to, so it is an event.

**Goal loop.** A turn of the engine is one step with its stopped reason, gates
are the set of those that failed, the judge a disposition. An agent that is
stuck shows as the same signature of failing gates three times.

**Stream.** The generator and the runner are two program counters. The runner's
whole loop of model calls and tools is `thinking`; what follows, from the answer
to the persisted outcome, has a position per await. `call_soon`, the queue and
its sentinel are a sequence. A lock is named by the run that created it, because
`_workspace_run_lock` makes a new one when the registry has none.

**Conversation.** Messages are a tree with a head; a call is named by its
message and its place, an approval by the call it asks about. What clients do
beyond sending is in `Habits` (overlapping requests, messages while an approval
is pending, rewinds, edits, selection of a branch). The system prompt, compaction
and the grants of a background run are left out.

**Context.** One plan of a history. Texts are sizes; a cut text has the size the
budget leaves. The loop over units is kept with its index, because the reserves
of its passes differ.

**Fallback.** Errors are known by class (quota, transient, schema, vision,
other), as `is_quota_error` and its siblings tell them apart.

**Delegation.** A call with an intent that leads is the one in flight for it
(`Registered`), so there is one; a follower has a leader whose future is a
promise (`Promised`), and who followed to the end heard what its leader was told
(`Heard`). A conversation that goes on has a call that waits for it, or was left
behind by a cancelled one (`Accompanied`). The spawns of a turn count the children
that have a row and those to come (`Counted`).

**Questions.** `Decided`: the event of a question is set once it is decided, and a
request that saves has decided it. While nothing is stopped and no write fails, the
holder of the lock is the only one with a writing thread, and writes the state
that is (`Locked`); the file agrees with the memory, or is behind it by the one change
that the holder writes (`FileFollows`); so what was told is in both (`TellsAre`).
Without a restart, that all hear the same needs the memory only (`HeardIsKept`).
That they do without either condition is false: the proof failed, and TLC
found why on an instance with three calls for one question. If a stop or a failing
write keeps the creation of a question from the file, it is answered, and the process
restarts, then a later call asks it again, and two calls have heard
different answers. `QuestionsAreKept` says so.

**Quota.** A transaction on a store is one step and its answer another. PostgreSQL
and SQLite are two stores of which one is in use at a time; `storage` is where a
reservation lives. A user's limit does not change.

**Gateway.** The remote side is external: it sends each request once and may
deliver a review again. The tunnel and the reviews share the reading task; each
module has the other's work as a step of that task.

**Sidebar.** `Locked` says who holds the lock of deletions. `Restoring` is what a sweep
may still rely on of what it read before: what it has to restore is not deleted,
and each conversation it listed and nobody deleted is to be restored or has a
row that the cleanup will leave.

**Local models.** A file is a revision, a version and how much of it there is; what
is on disk is what a request finds there. A job's thread is a snapshot that lands
some time after it was taken, also when its task is gone.

**Restore.** Of the categories there are the threads, in a database with a log, and
the artifacts, a tree of files. A message is named by who writes it. What SQLite
makes of a file that is replaced under an open connection is not followed: `mixed`
says that it happened.

**Pool.** `IInv` is types, `OneUser`, `OneCreator` and `HeldIsMade`: whoever uses a
connection uses one that was made, so the number of the next is in no queue and
nobody's hand. The steps are of six kinds (`PoolSteps`): they move nothing, take
the head of the queue, give back, add a new connection, make one for a task, or
close the head. Errors, cancellations and `close()` are among them, without a
bound. `Fits` counts the queue and the hands against `size`. `TaskWrites`: what a task
wrote and has not committed is on the connection it uses, and what it committed is
all of it; this holds of the tasks nothing cut short (`Spared`), and then a
transaction belongs to a task that has its connection still (`Clean`).

## Runs

Every passing run is exhausted. Deadlock is checked in the runs of the board and
of the DAG store. It is not in the sums: their components end (a run is over, a
search has its verdict, a queue is drained), and what must not remain unfinished
is said by `MCLive`.

| Run | Instance | Shows |
|---|---|---|
| `board` | linked: three cards, one of a `once` task, with links added and removed while cards are reviewed and imported, and a resumed run. recurrent: one task with two runs; people moving, toggling, archiving and deleting the card, approval pauses, resumes, cancellations, crashes | type; no two executions of a task; links acyclic; `tick()` executes the `once` task a single time; a claim ends only by its run, its TTL or deletion; final rows stay |
| `background_all` | one manual task, a limit of two blocks, two runs; unfenced blocks, the agent moving its own card, budget, exceptions of `claim_task`, missed heartbeats, toggles, deletions, cancellations, crashes; nothing is resumed | a running card is claimed, the holder is a run of that card that is not finished, blocks in a row escalate (`BoardIsSound`); the claim implements `RunLease` |
| `background_live` | a `once` task that is reviewed and a recurrent one, with a link, one run, approval pauses, resumes, deletions, exceptions of `claim_task`, a report that fails, crashes; fair | orphaned claims are released; a child whose parents are done is promoted although the promotion was lost; ticks end (`BoardMovesOn`) |
| `dag_stages` | three stages (a join, a line, a rejected cycle), two clients with one key, two workers, two attempts; edits of `stages_json`, cancellation, deaths, lost leases | order, attempts, status, results, events; what runs is what was approved; a plan that started can go on |
| `streams` | serial: three runs of one workspace that answer without chunks, with a cancellation. outcomes: one run with three chunks, two cancellations, two failing writes, a crash and the sweep. tunnel: four requests, two workers, two failing connections, two cancellations. verdicts: four messages, of which one repeats a delivery, one has no id and one is malformed, two workers and three attempts. window: five messages of three deliveries through a window of two | engines of a workspace take turns; the row tells how the run ended and stays; the tunnel leaves nothing behind; a review is told one verdict |
| `loop` | `Conversation`: clients that wait for each other and decide twice; clients that do not. `ContextPlan`: every history of up to four pieces at four budgets. `ModelFallback`: every call over three models, six orders. `GoalLoop`: two gates, four turns, the code's limits | calls run once and as decided; histories and plans keep calls and results together; fallback is orderly; goals stop when they should |
| `tools` | accounts: three attempts, two keys, a limit of two units, two months, crashes, cancellations, errors, outages, changes of store; retries and leaks: one month, in which keys do not overlap or nothing is cut short. store: three calls and two requests on two questions, a restart; failing: one question with a stop, a failing write and a restart. intents: three calls of two turns with one intent; capped: three calls of one watched turn above its cap | units agree with rows; deliveries are charged once; answers are kept; an intent runs once; a verdict settles |
| `storage` | pool: three tasks, two of them guarded, on two connections, with cancellations, errors and a close. deletions, edits, batch: creation, turns and deletion of a thread; edits of one; turns in two. queue: three records, batches of two, one place in the semaphore, every event; unlimited: without a rate limit and failing writes | a connection has one user; operations are whole; the sweep takes nothing; success means stored |
| `live` | a small instance of each of eleven components; of `LocalFiles`, files: a download that is tried again, beside another of a second revision, a cancellation and an installation; pushed: a revision that is pushed to, beside an installation; unhashed: two downloads of a file without a hash, and a cancellation; jobs: two of one kind, a retry and a restart; cancelled: two jobs, a cancellation and a failing write; restores: two, of all and of the threads, beside two requests; unnamed: one that names no category, beside a request and a stream; fair | what has begun ends; what was accepted is served; conversations come to be seen; files of models, of jobs and of a restored backup are whole (`FilesAreKept`); `validate_stages` refuses exactly the cyclic graphs over three stages and an unknown id |

Three runs find the code in disagreement with what its own docs say. Each is a
shortest counterexample by TLC; `PROJECT.json` ("findings") quotes the lines.

| Run | What happens |
|---|---|
| `self_blocked` | a run blocks its own card, which frees the claim while its engine goes on; after an unblock a second run executes beside it |
| `resume_stranded` | a resumed run whose completion is refused leaves its row in `running` |
| `failed_restore` | a restore that names no category fails, and removes every artifact: they are cleaned and were never captured |

### Known deviations

These were met while modelling. The models do what the code does, and the
properties that hold are stated so that they allow it. Paths are below
`src/backend`. First those of the board, the plans and the queue:

- A `once` card that completed is put back to `todo` by the tick that disables
  the task (`scheduling/background_tasks.py:2253`), while
  `scheduling/kanban.py:79-80` calls the way back from `done` manual,
  "nunca automático".
- A `once` task whose run is refused (card moved, budget spent) is disabled
  without having run (`background_tasks.py:2251-2253`; 2205 speaks of a single
  execution).
- The budget check of a second run blocks the card without a run id
  (`budget.py:221`) and so clears the claim of a run in progress, which
  `budget.py:9` promises to spare.
- When reporting a completed run fails (`_touch_last_run`), the handler of
  `run_task` overwrites `done` with `error`: the event `report_error`.
- `claim_ready_stage` takes a stage of an execution in which another stage has
  failed between its SELECT and its UPDATE (`dag.py:309`), against the comment
  at `dag.py:491-492`.
- A claim that matches no row leaves its connection with an open write
  transaction (`dag.py:311-324`); until that worker writes again or dies, the
  recovery in the tick is locked out.
- `reconcile` runs at start only, for records older than two minutes
  (`embedding/queue.py:511-522`): after a quick restart a record stays in
  `processing`.
- `retry_failed` keeps the attempt counter (`queue.py:611-616`) and
  `get_pending` skips records whose attempts are spent (`queue.py:200`): such a
  record is pending for ever.

The others are stated as definitions in the last section of their module, "What
a comment or a docstring says and the code does not keep": checked instead of a
property of the run that has their part, each is refuted by TLC, mostly within a
few hundred states. Some are properties of a run too, which has the instances in
which they hold: `CallsRunOnce` where no message is sent while an approval is
pending, `ToldIsKept` where no turn is stopped, `SpawnsWithinCap` with the budget
that no caller passes, `StoredWhole` without cancellations, `TurnIsSeen` for
clients that wait.

`EmbeddingQueue`

- `NoCallWhilePaused` (embedding/background.py:356): `paused' is read before
  the task waits for the semaphore and not after: a task that waited there
  while another tripped the breaker marks its archived record as processing and
  calls the API. embedding/background.py:351-352 says "Outra task do batch pode
  ter disparado o breaker enquanto este registro esperava o semáforo — não faz
  mais nenhuma chamada."

`MediaQuota`

- `KeyChargedOnce` (services/media_quota.py:192): When no connection to
  Postgres can be had, reserve writes the reservation in SQLite, whose table
  does not know the key: a retry of a call that Postgres holds as reserved or
  unknown is charged again and calls the provider again. tools/media.py:93-95
  says of the stable id of a call that failing closed "evita uma segunda
  cobrança acidental".

`RunStream`

- `SentinelIsSent` (api/native_stream.py:588): CancelRun cancels every runner
  that is not done, also one that is already in its finally, awaiting the files
  of the turn or the store: the CancelledError leaves the finally, the outcome
  is not persisted and the sentinel is not queued. The stream waits for it, and
  holds the lock of the workspace, until the client goes away; the task that
  drains the queue then holds the lock for ever, and no run of the workspace
  starts again. api/native_stream.py:835-836 says "`_runner` sempre injeta o
  sentinel no `finally` dele".
- `PassedWasVerified` (api/native_stream.py:553): When storing the evidence of
  the verification fails, the loop logs it and returns "stop" with the row in
  verifying; the runner then stores completed, which is passed, whatever the
  verdict was. engine/conversation_loop.py:1317-1319 says the verification
  engine "é a única fonte do desfecho terminal".
- `StatusParity` (persistence/native/session_store.py:1460): The append of the
  final message sets session_runs to completed before the verification runs; a
  verification that fails sets agent_runs to failed, and the guarded update
  leaves session_runs completed. persistence/native/session_store.py:403 says
  "Mantém paridade com session_runs legado".
- `CancelledBeforeAnswer` (api/native_stream.py:535): A cancellation during the
  verification appends the cancelled outcome behind the answer and adds
  run_cancelled to run_completed. The message that is stored says
  (api/native_stream.py:535) "A execução foi cancelada antes de produzir uma
  resposta."
- `AbandonedIsOver` (persistence/native/session_store.py:1218): updated_at of
  session_runs moves only when the status is written, which a long tool or a
  long turn does not do; the hourly sweep then marks a run that is at work as
  failed with RUN_ABANDONED. persistence/native/session_store.py:1210 says
  "Move stale non-terminal runs to an explicit failed state." and the detail it
  writes says "A execução foi encerrada sem confirmação do processo."

`Conversation`

- `CallsRunOnce` (engine/conversation_loop.py:2328): A resumption replays the
  last batch of the active branch, whatever batch the approval belongs to. A
  message sent while the approval was pending has had its own batch executed
  meanwhile: the approval runs the calls of that batch a second time, and the
  call that was approved never. engine/conversation_loop.py:2167 says it
  "Executa o lote de tool calls que ``run_conversation`` pausou".
- `NothingIncompleteReplayed` (engine/conversation_loop.py:1733): The message
  with the calls is stored before the batch runs, and the results after the
  whole batch: a cancellation or a crash between the two leaves calls without
  results, which the next run sends to the model.
  engine/conversation_loop.py:1140-1143 avoids for its own case what "would
  leave pending calls in the session history without matching tool results,
  causing the next run to replay an incomplete turn".
- `ResultsFollowTheirCall` (api/native_stream.py:206): The outcome of a run
  that failed goes behind the head, also when the head is a message whose calls
  wait for an approval: a resumption that fails before its claim leaves the
  approval, and the next decision stores the results behind the outcome.
  _conversation_units then takes each of them for a unit of its own, and
  compaction can drop the message with the call.
  services/context_compaction.py:75-76 says "Providers reject histories that
  contain a tool result without the assistant call that requested it, so
  compaction must never split that pair."
- `TurnIsSeen` (api/handlers/chat.py:1149): The message of a turn is stored
  before the request waits for the workspace. The run before it goes on to
  append its results to its own parent_id, and the new message leaves the
  active branch: the history its run reads does not have it.
  api/handlers/chat.py:1110-1111 says "a mensagem do usuário precisa estar
  gravada ANTES de `run_conversation` começar".
- `TurnRunsOnce` (api/handlers/chat.py:1136): Whether the turn is stored is
  read before its message is appended; the append of the second request finds
  the row and returns its id, and both requests go on to run the turn.
  api/handlers/chat.py:801 says "Confirma um turno já persistido sem executar o
  agente novamente."
- `ForksWhereAsked` (api/handlers/chat.py:1122): set_branch_head accepts only a
  leaf unless allow_internal is set, which StreamChat does not: an edit that
  names an earlier message is refused, the refusal is logged, and the message
  is appended to the end of the active branch. api/handlers/chat.py:1117-1118
  says "ramifica a partir de uma mensagem anterior em vez de continuar do fim
  da branch atual".

`GatewayTunnel`

- `PingNotBehindForward` (services/gateway/__init__.py:391): _dispatch awaits
  queue.put in the task that reads the socket: when the queue is full, no
  message is read until a forward ends, and a ping that comes next is answered
  after it. services/gateway/__init__.py:371-374 says the full queue pauses the
  reading "mas nunca um único `ping` por trás de um forward lento".
- `CancelSkipsDrain` (services/gateway/__init__.py:339): A cancellation leaves
  ws_connect through the inner finally, which puts the sentinels and awaits the
  workers before the outer `except CancelledError' is reached: after stop() the
  queued requests are still forwarded, with nobody to send their answers to.
  Only a second cancellation cancels the workers.
  services/gateway/__init__.py:342-343 says "Cancelamento externo (`stop()`)
  não pode esperar o dreno gracioso — cancela os workers direto."
- `LoopsUntilCancelled` (services/gateway/__init__.py:266): _register is
  awaited before the loop, outside its try: when the first registration fails,
  for instance because the machine is not online yet, the task ends with the
  exception and nothing starts it again. services/gateway/__init__.py:264 says
  "Loop infinito com backoff exponencial até cancelamento."

`GatewayReviews`

- `StopResolves` (services/gateway/__init__.py:199): The workers are cancelled
  when the deadline has passed; the callbacks they schedule are then awaited up
  to the same deadline, so they are cancelled before a request can be answered,
  and the service is not told of a review that was running.
  services/gateway/__init__.py:164 says "Cancela o loop de conexão e resolve
  reviews pendentes."; the test that covers it
  (src/tests/unit/test_gateway_client.py:932) replaces the POST by one that
  ends at once.
- `RetryIsServed` (services/gateway/__init__.py:426): The id of a delivery is
  remembered before there is room for its job: when the queue is full the job
  is answered "review queue capacity exceeded; retry later"
  (services/gateway/__init__.py:446), and the same delivery sent later is
  dropped as a duplicate, without an answer.

`Delegation`

- `SpawnsWithinCap` (api/handlers/chat.py:1172): SubagentDeps is built without
  a turn_budget by every caller (chat.py:1172 and :1457,
  background_tasks.py:1169 and :1652, connect/runner.py:108,
  cli/run_task.py:122), and run_conversation makes a TurnBudget of its own:
  record_subagent_spawn is never called, and the cap on spawns of a turn never
  applies. engine/guardrails.py:51-54 says "um objeto por chamada a
  ``run_conversation``, compartilhado entre o loop principal e qualquer
  subagente que ele dispare (mesmo teto vale pro turno inteiro, não por
  instância do motor)".
- `RunningIsRegistered` (engine/subagents.py:594): _ACTIVE_CONVERSATION_TASKS
  is keyed by the correlation id alone, while _IN_FLIGHT_BY_CORRELATION is
  keyed by identity too: of two identities with one id the second replaces the
  first, and the end of either removes the entry of the other.
  engine/subagents.py:54-56 says "cada ``conversation_task`` de um subagente
  delegado com ``correlation_id`` fica registrada em
  ``_ACTIVE_CONVERSATION_TASKS`` enquanto roda".
- `InterruptsWereAsked` (engine/subagents.py:567): The CancelledError at `await
  conversation_task' is also the one of the task that waits: when the turn is
  stopped, the child is recorded as cancelled by an explicit hard interrupt and
  the call returns a text. In a sequential batch the stop is lost there, and
  the next tools of the turn run. engine/subagents.py:571-572 says "Chegar aqui
  significa cancelamento sob pedido explícito, a qualquer momento da execução."
- `OnlyOwnStop` (engine/subagents.py:272): A follower awaits the leader's
  future itself: when its turn is stopped, the future is cancelled and every
  other follower gets the CancelledError, and so does each follower of a leader
  that is stopped before its child runs. `except Exception' of
  delegate_to_subagent lets it through and it ends the other turn.
  tools/subagent_delegate.py:148-150 says "nunca propaga exceção crua pro
  loop".

`SqlitePool`

- `StoredWhole` (persistence/native/session_store.py:647): The `except
  Exception' that rolls back does not catch CancelledError,
  update_agent_run_status has no handler at all, and acquire() gives the
  connection back with its transaction open: the next operation on that
  connection commits half of the cancelled one (or fails at BEGIN IMMEDIATE),
  and until then the write lock is held. session_store.py:517 says "Transiciona
  o status de uma run atomicamente.", and record_run_evidence (:597) "de forma
  atômica".
- `OpenedFirst` (storage/sqlite/pool.py:183): acquire() opens a pool that is
  not open, one that was closed included. storage/sqlite/pool.py:71 says
  "RuntimeError: Se ``acquire()`` for chamado antes de ``open()``."

`Questions`

- `ToldIsKept` (services/structured_questions.py:107): _save writes a snapshot
  in a thread and keeps the lock by awaiting it: when the turn of the call is
  stopped there, the lock is released while the thread still writes, to the
  same temporary file. An answer saved in between is overwritten by the older
  snapshot, and a restart expires the question that the client was told is
  answered. structured_questions.py:39 says "Store durável com timeout,
  cancelamento e criação idempotente."
- `TimeoutIsTrue` (services/structured_questions.py:193): wait() returns None
  after the timeout whatever it finds under the lock: an answer accepted
  between the timeout and the lock leaves the question answered and the client
  told so, while the tool reports a timeout, and another call with the same key
  gets the answer. structured_questions.py:22 says "Pergunta pendente e seu
  resultado idempotente."

`ModelFallback`

- `ExhaustedIsQuota` (llm/fallback_chat_client.py:427): After the last
  candidate QuotaExhaustedError is raised whatever the errors were: a timeout
  of a single model, with no fallback configured, is reported as quota that is
  spent, by a class that is_quota_error then takes for quota.
  llm/provider_fallback.py:60 says "Todos os providers da cadeia esgotaram a
  quota."
- `OtherErrorsPropagate` (llm/provider_fallback.py:265): Only the first error
  is examined: an error of any class at a later model goes on to the next, and
  is reported as spent quota in the end. llm/provider_fallback.py:243 says
  "Erros não-quota propagam de imediato. Esgotada a cadeia →
  QuotaExhaustedError."

`ContextPlan`

- `LatestRequestIsSent` (services/context_planner.py:480): The newest request
  is only kept when it is the very last unit. While a turn works on it the last
  unit is an exchange with tools: one that leaves no room drops the request,
  and one that does not fit by itself leaves nothing but instructions and
  marker (with 8000 tokens, three results of the 12000 characters they are
  bounded to). services/context_planner.py:470 says "A solicitação mais recente
  é obrigatória"; src/tests/unit/test_context_planner.py:621 "A mensagem mais
  recente do usuário deve obrigatoriamente estar presente".
- `ErrorsArePreserved` (services/context_planner.py:586): The lists of
  decisions, errors and approvals are gathered before units are dropped to make
  room for the marker, and not again: the count of omitted messages is updated,
  the errors of the dropped units are in neither the marker nor the projection.
  services/context_planner.py:443 says "Compactação causal via conversation
  units preservando decisões e erros".
- `FitsWhenItCan` (services/context_planner.py:578): Selection, and the cut of
  the newest request, reserve one token for the marker; the marker costs more,
  and with one unit left nothing makes room for it, so the payload exceeds the
  budget although a shorter cut would fit. services/context_planner.py:574-576
  says of that very cost: "discard the oldest selected messages and fit it
  again until the complete payload fits".

`ThreadRows`

- `DeletedIsOneWay` (api/handlers/threads.py:1926): Only the sweep and the
  creation of a task look at the tombstones. A title whose generation was
  waiting for the model, or a turn between its session and its row, inserts the
  row of a thread that was deleted meanwhile; a turn restores the session as
  well. The sweep then skips the thread, so its counts and workspace are not
  repaired either. api/handlers/background.py:392 says the lock and the
  tombstones are there for "making deleted IDs one-way".
- `PinsAreKept` (api/handlers/threads.py:520): Title, workspace, pins and
  counter live in one JSON column that each writer reads, changes and writes
  back whole, with awaits between: pins (or a title, or the counter) set
  between the reading and the writing of another are lost.
  api/handlers/threads.py:476 says the others are written "preservando os
  demais dados já gravados", 583 "mesclando com o extra existente".
- `TitleIsStable` (api/handlers/threads.py:1926): Whether a thread has a title
  is read before the model is asked and not when the answer is written: a title
  the user gave meanwhile is overwritten. api/handlers/threads.py:1898 says "Já
  tem título? Não regenera (título é estável após o 1º turno)".

`GoalLoop`

- `BudgetIsKept` (scheduling/background_tasks.py:1451): resume_goal() enters
  the loop with the whole max_goal_turns, and with the failures of gates and
  judge at zero: turns_used is not kept between a pause and its approval. A
  goal that asks for an approval now and then never runs out of turns.
  engine/goal_mode.py:522-524 says it enters the loop "pelos turnos restantes"
  and goes on "até max_goal_turns ou um novo HITL".

`ModelDownloads`

- `ManifestIsVerified` (api/handlers/provider_routing.py:2924): A download
  publishes its file, and says where it came from, before it compares hashes;
  install_huggingface_model takes no lock. An installation that looks in
  between, or after a crash there, writes a manifest for bytes that do not
  match the published hash. provider_routing.py:3008-3010 says "Assim o
  manifesto nunca aponta para um download parcial"; what it can point to is a
  download that is then refused and removed.
- `ResumedIsOneVersion` (api/handlers/provider_routing.py:2821): A file without
  a published hash (one that is not in LFS) is resumed whenever its note names
  the same revision: after a push to the branch, the rest of the new version is
  appended to the beginning of the old one, and nothing compares them.
- `CancelIsTrue` (api/handlers/provider_routing.py:3204): DELETE answers
  "cancelled" whatever became of the download it marked: one that is past its
  last chunk is published and answers "downloaded".
- `InstalledIsThere` (api/handlers/provider_routing.py:2955): Any failure of a
  download but a lost connection removes the published file too, which may be
  that of an earlier, installed download: a 404, a full disk, or a host that
  refuses the range of a partial file that is complete.

`ModelJobs`

- `NoDuplicates` (services/docker_model_runner.py:715): retry_model_job does
  not look for another job of the same kind: a retry of an interrupted job
  beside a new one pulls the model twice. Its docstring says "Retoma somente
  uma operação interrompida, sem duplicar processos." A client that cancels a
  job between its insertion and its task gets it interrupted, and a retry then
  gives one job two tasks.
- `CancellationIsSeen` (services/docker_model_runner.py:609): _run_job sets
  running and saves it before its try: a cancellation there, or before the task
  has begun, or while the cleanup of a first one stops the model, ends the task
  with the job queued or running. Until another DELETE or a restart,
  create_model_job returns this job for every request of its kind. The
  docstring of _run_job says "Executa um job e converte cancelamento em estado
  consultável."
- `EndIsKept` (services/docker_model_runner.py:243): A task cancelled while it
  saves leaves the thread writing and releases the lock: the older snapshot may
  land after the one that says cancelled, and a restart calls the job
  interrupted. The docstring of _persist_jobs says "Grava jobs de forma atômica
  para permitir recuperação após restart."

`StateRestore`

- `PromotedAlone` (api/handlers/backup.py:107): The middleware counts a request
  until call_next returns, which for a stream is when its headers are sent, and
  background runs are not counted at all: their coroutines keep connections of
  the pool that aclose() closes, and the file is replaced under them. The
  middleware's docstring says "Keep the restore barrier active for the full
  HTTP operation".
- `NobodyWaitsForEachOther` (services/maintenance.py:60): maintenance_window()
  announces itself and waits for the counted operations; a counted request that
  then asks for the session store waits in wait_until_available() for the
  window. Both wait for ever, and so does every later request.
  api/server.py:733-734 knows of the restore's own request only.

### Bounds

Two runs are the least for which two executions, a hand-over of the claim and a
resume against a claim exist; a third adds a repetition of the same pairs.
`background_live` has one run: what it asks is whether a claim, a promotion and
a tick get on when the only coroutine is paused or dead. `BlockRecurrenceLimit`
has the code's value, three, but in `background_all`, where two keep the instance small
and still leave a block below the limit and one that reaches it; `MaxBlocks` stops the counter there: above the limit
every block goes to triage alike. Three cards are the least with an indirect
cycle. Three stages are the least with a join, and with a sibling that runs
while another fails and a third waits; two attempts are the least with a retry
and an exhaustion. `MaxRetries` is 2 in the embedding parts: a first, a retry
and the boundary between them. Batches of two with one place in the semaphore
make tasks wait both there and for the next batch. `TickOutOfRuns` lets
`tick()` pass over a task when the instance has no run left; without it a bound
of the instance would look like a hang of the program. The theorems below hold
without these bounds, except `MaxBlocks`, where only `BlockRecurrenceLimit <=
MaxBlocks` is assumed.

The bounds of the sums follow one rule: one more than fits. Three runs, so that
one holds the lock of the workspace, one waits and one comes when the registry
is being emptied. Four requests for two workers and a queue of as many as
workers; a fault more than a reconnect needs, and a second cancellation, since
the first changes what the drain does. Three deliveries for a window that
remembers two. A limit of two units with an image of one and a video of two, so
that the last unit is disputed. Three tasks for two connections. Three records
for batches of two. The histories of `ContextPlan` have every piece that units
distinguish (a short and a long request, an answer, an exchange with one result,
with an error, and with two of which one is long), and the budgets are none, one
below a marker, one that a marker and a unit fill, and one in which nearly all
fits. In `ModelFallback` the six orders repeat models, name the primary and
cross providers; the managed sidecar, which depends on the machine, is out.
`MaxGoalTurns` is one above the limits of the streaks. `MaxFaults`,
`MaxCancels`, `MaxErrors`, `MaxCrashes`, `MaxStops`, `MaxCloses`, `MaxFailures`,
`MaxVersion` and `MaxResumes` count disturbances; a property that holds for two in every
order is not shown to hold for three. The instances of `MCLive` are smaller than
the others because liveness costs more; each still has the crash or the
cancellation its question is about. The constants of `LocalFiles` are those of the
seven parts together; `FileStep`, `JobStep` and `RestoringStep` say which requests
come in which part, and leave out the disturbances that are not its question.
Their steps are steps of `KeptNext`, so what is proved of `KeptSpec` holds of
`LiveSpec`.

### Fairness

`BackgroundRuns`: asyncio runs a ready coroutine again, the engine leaves its
loop (`LoopConfig.max_iterations`), `tick()` is called every minute, and a TTL
nobody renews runs out. Nothing is assumed of people, agents and disturbances.
A process that crashes at the same point of every tick never promotes a child,
so the promotion part of `BoardMovesOn` excludes crashing for ever between the
two steps of the tick.

`MCLive` states the fairness of each component for the part that moves:

- `DagStore`: workers poll and finish (they are external), leases expire,
  `tick()` recovers.
- `EmbeddingQueue`: coroutines of one event loop; a record in `processing` grows
  older than two minutes.
- `RunStream`: generator and runner go on. The engine leaves its loop, and a
  client reads the stream or leaves it, which the server notices.
- `GatewayTunnel`: the loop and the workers go on, since forwards have a timeout;
  nothing is assumed of the remote side. `GatewayReviews`: workers, rejections
  and `stop()` go on, POSTs end by their timeout.
- `Delegation`: calls go on; a child that is not silent ends, a silent one is
  ended by the watchdog.
- `Questions`: calls, handlers and writing threads go on, a timeout fires.
- `SqlitePool`: tasks go on, and a statement that waits for the write lock gets
  it or raises after `busy_timeout`. Nobody closes the pool: `close()` leaves
  waiting tasks without a connection, which is why it is excluded.
- `ThreadRows`: requests and the hourly loop go on.
- `GoalLoop`: turns, gates and judge go on; a pause for an approval may last for
  ever.

- `ModelDownloads`: downloads and deletions go on. `ModelJobs`: requests, tasks and
  writing threads go on.
- `StateRestore`: requests, coroutines and restores go on. `RestoreOver` leaves
  out the restore that waits for an operation that waits for it.

Disturbances are bounded and nothing is assumed of them. Work being finite in
these instances, the properties are stated as `<>[]`: from some moment on all
is over, which is stronger than that each thing that begins ends.

## Proofs

TLAPS checks every proof, with SMT, Zenon and LS4 as backends. The assumptions
are the ones on the constants: `ASSUME` in `Kanban`, `BackgroundRuns`,
`DagGraph`, `DagStore`, `MediaQuota` and `SqlitePool`, and `Parameters` of the
other components, which the sums assert of their instances. They say what sets
the constants are of, that sets of actors do not overlap, that a limit is a
number; TLC evaluates them in every run. Where a theorem needs more, it says so
in its own `ASSUME` or as the hypothesis of an implication.

| Theorem | Module | Property | Also assumes |
|---|---|---|---|
| `TypeCorrect` | `BackgroundRuns_proofs` | `TypeOK` | |
| `LinksStayAcyclic` | `BackgroundRuns_proofs` | `LinksAcyclic` | |
| `RunningStaysClaimed`, `HoldersAreUnfinished`, `BlockedStaysBelowLimit`, together `BoardStaysSound` | `BackgroundRuns_proofs` | `BoardIsSound` | |
| `FinalRowsAreKept` | `BackgroundRuns_proofs` | `FinalRowsStay` | no `report_error` |
| `ClaimsImplementLease` | `BackgroundRuns_proofs` | `ImplementsLease` | no `report_error` |
| `ExclusiveExecution` | `BackgroundRuns_proofs` | `NoConcurrentExecution` | none of `ClaimBreakers` |
| `ClaimsEndByOwner` | `BackgroundRuns_proofs` | `ClaimEndsByOwner` | no `chat_block`, `budget`, `self_move` |
| `OnceTasksStartOnce` | `BackgroundRuns_proofs` | `OnceStartsOnce` | no `run`, `toggle`, `crash` |
| `VerdictIsCorrect` | `MCLive_proofs` | `VerdictIsRight` | |
| `TypeCorrect`, `OnlyApprovedIsExecuted`, `DependenciesFirst`, `ResultsStay` | `DagStore_proofs` | `TypeOK`, `ExecutedAsApproved`, `StartsAfterDependencies`, `ResultsAreFinal` | |
| `PendingIsClaimable`, `ExecutionCanGoOn`, together `ExecutionsStayAlive` | `DagStore_proofs` | `ExecutionsGoOn` | |
| `StatusIsDerived`, `EndIsPublishedOnce`, together `EndsStaySound` | `DagStore_proofs` | `EndsAreSound` | |
| `ResultsAreEarned` | `DagStore_proofs` | `ResultComesFromOwner` | |
| `KeyIsBound` | `DagStore_proofs` | `KeyServesOnePlan`, which no configuration checks | |
| `OneEngineAWorkspace`, `RunsTellTheirOutcome`, `VerdictsAreFinal` | `MCStreams_proofs` | `RunsSerialized`, `OutcomeIsTold`, `VerdictIsFinal` | |
| `TunnelLosesNothing` | `MCStreams_proofs` | `TunnelKeepsWork` | |
| `JobsAreToldOnce` | `MCStreams_proofs` | `ReviewsAreToldOnce` | |
| `GoalLoopStops` | `MCLoop_proofs` | `GoalStops` | |
| `ToolsRunOnce` | `MCLoop_proofs` | `CallsRunOnce` | |
| `HistoriesAreWhole` | `MCLoop_histories` | `HistoryIsCausal` | |
| `PlansStayWhole` | `MCLoop_histories` | `PlansAreWhole` | results follow their calls in the histories |
| `FallbacksAreOrderly` | `MCLoop_proofs` | `FallbackIsOrderly` | |
| `Typed`, `LimitHolds`, `SettledForGood`, `UsageIsCharged`, `RefundIsExact` | `MediaQuota_proofs` | parts of the next two | |
| `AccountsAlwaysAgree`, `VerdictsAlwaysSettle` | `MediaQuota_proofs` | `AccountsAgree`, `VerdictsSettle` | |
| `DeliveriesStayCharged` | `MediaQuota_proofs` | `DeliveriesAreCharged` | |
| `QuestionsStayKept` | `MediaQuota_proofs` | `QuestionsAreKept` | |
| `IntentsStaySingle` | `MediaQuota_proofs` | `IntentsRunOnce` | |
| `Typed`, `ConnectionHasOneUser`, `CreatorHoldsLock`, together `ConnectionsStayExclusive` | `SqlitePool_proofs` | `ConnectionsAreExclusive` | |
| `OperationsStayWhole` | `SqlitePool_proofs` | `OperationsAreWhole` | |
| `SweepsStaySafe` | `SqlitePool_proofs` | `SweepsAreSafe` | |
| `RecordsStayEmbedded` | `SqlitePool_proofs` | `RecordsAreEmbedded` | |
| `DownloadsAreWhole`, `JobsAreWorkedOn`, `RestoresLoseLittle`, together `FilesStayKept` | `MCLive_proofs` | `FilesAreKept` | |

A property of a sum that is stated for some parts only (`Retries!DeliveredOnce`
while attempts with one key do not overlap) has its condition in the property.
The conditions in the last column are events the code can meet, and with them
the property is false or rests on timing; `self_blocked` shows it for one of the
`ClaimBreakers`.

**Types of the board.** `TypeInv` adds to `TypeOK` that a coroutine past its
start has a task, and the scheduler one while it waits or retires a task:
without it the rows that `card[run[r].task]` names need not exist.

**Links.** `LinksAcyclic` is inductive by itself. `_depende_de` returns a set
closed under parents (`DependeDeClosed`); a set of cards that meets it has its
sink inside, and any other keeps the sink it had (`AddKeepsAcyclic`).

**Claims.** `BoardInv` is inductive: types; a running card is claimed and a
blocked one counts below the limit; the row of a live coroutine follows from its
position; and the holder of a claim is a run of that card, past its claim, that
is neither done nor cancelled. That a run cannot be discarded, or finished, with
its claim left behind needs the last two together. `StepKinds` puts every step
into a class: quiet (no claim acquired, no run ended) or one of the five actions
`ClaimTask`, `EnsureTaskClaim`, `CompleteRun`, `CancelRun`, `FinishError`, which
acquire, end or fail. The invariant, `FinalRowsStay` and the refinement are
proved from the classes: quiet steps release a set of leases, the others are
`Acquire`, `Finish`, `Cancel` and `Fail`, or stutter.

**Exclusion.** `ExclusiveInv` adds that a run which is about to execute, or
executes, owns its card (an unexpired claim, or a card deleted for good) and
that no two such runs have one task. Ownership is what makes it inductive: a
claim is only given when nobody has it. The `ClaimBreakers` are exactly the
events that end or bypass a claim under a live run; with each the property is
wrong or rests on timing, `self_blocked` being the shortest.

**Validation.** `Inv`: the stack is a path of the graph whose nodes are those
being visited; what a frame no longer has to look at was visited or is the frame
above it; visited nodes are closed and acyclic (`Search`). An edge to a node on
the stack closes a cycle (`CycleFound`); an empty stack with nothing left means
every stage was visited.

**Executions.** `IInv` gives every execution the predicate `Good`: its graph is
acyclic; a stage that runs or passed has its dependencies passed; attempts are
within bounds; the status matches the stages, an execution that runs is
undecided, and its end was published once. It adds that an execution has the
graph that was approved, and what every call still knows when it takes its next
step (`CallOK`, `WorkOK`): an approved plan stays approved under the same hash,
whatever a list says of stages may be stale. `Live` is `Good` with the refresh
of the status still to come, which is where the statements of one transaction
meet; each statement is shown to lead from `Good` through `Live` to `Good`.
`Advances` is what no step does to an execution; `ResultsAreFinal` follows from
it, and that what other calls have read stays true.

**Ends of claims.** `ClaimGoes` is the property for one step and one card: a claim that
goes was expired, or its run or its row went with it. It is shown of each row
transform first, then of each writer; a card without a row has no claim.

**Once.** `OnceRetired`: nothing will start the task of a run again, since it is not in
the list of the tick and it is disabled, or the tick waits for that very run or
is about to disable it. `OnceApart`, that two runs have two tasks, follows at each
start. `SchedOK` and `DeletedOff` (a deleted row does not come back enabled) keep
this true while cards are deleted, moved and imported.

**Results.** `Earned` says of a step that a stage passes by its worker, whose claim has
not expired; `ResultsAreEarned` shows it of the two ways of `finish_stage`, and
of every other statement that it makes no stage pass (`NoneEarned`, `NonePasses`).

**Streams.** A step of a stream moves one run, but for a cancellation and a crash, so
`RunOK` speaks of one run: the positions of generator and runner, the queue
between them and its row. It is a table, with what the row must hold when the
runner has ended by itself (`ToldOf`) and before it has persisted that
(`Foretold`). What two runs share is the lock: who is in holds the lock the
registry names, and who waits waits at it (`LocksOK`); without the second half a
waiter could enter at a lock that the registry forgot.

**Tunnel.** A sentinel is put only when nothing else will be, so a queue is
requests and then sentinels (`QueueOK`); a worker that took a sentinel saw every
request before it leave. Nothing is counted, so the proof holds for every number
of workers.

**Reviews.** A job is in one place: the queue, a worker, the POST of a rejection or a
callback that `stop()` scheduled (`PlaceOK`), and what it was told follows from
the place. The window holds deliveries that came, without repetition; while it
was never full it holds all that entered the queue, so a repetition means that
more came than it holds (`WindowOK`, by the pigeonhole principle for sequences).

**Goal.** The loop decides by two counters, and `GoalStops` speaks of the turns that
were. The invariant says what the counters count, from the latest turn backwards
(`StreakCounts`, `FailuresCount`).

**Threads.** `Path` walks from the head to the root by a recursive function. The proofs
do not compute it: `LineTo` is the set of the messages that every set has which
has the head and the parents of its own, and the two are equal on every tree
(`PathIsLine`, by the least message for which they would differ), so a step that
adds a message makes a line one longer (`LineGrows`) and leaves the others.
`SharedInv` holds whoever waits for whom: an approval is pending for a batch that
nobody decided about, and a call that asks has run only after it was approved.
Where clients wait, `OneAtWork` says that one run is, with no approval pending;
so a batch that waits for its decision stays the last of the history, but for
the outcome of a run that failed (`WaitInv`), and none of its calls has run
(`OnceInv`): a resumption replays the batch it was asked about, and no other.
The histories need an invariant on the whole tree, since a branch may be selected
and the head moves: on every line results follow their calls (`CausalInv`); the
line to a leaf has all results but those of batches that were cut or are open,
and an open batch is on one line (`CompleteInv`). The message of a turn is on the
way to the head while its run is at work (`TurnInv`): no branch is selected then.

**Plans.** `Divided`: every message of the conversation is in one unit, in its order,
a call with all its results, and equal to what it was but for the size it was cut
to. That is a statement about recursive functions over histories of any length
(`Size`, `Joined`, `Units`). `Recursion` gives their equations and `Induction`, by
the least number without a property, what follows from them: an induction for one
set of numbers at a time, since the provers take no operator as a parameter.
`Shape`: what is chosen are the newest units up to some point, and at most the one with
the latest result besides; dropping takes the oldest and leaves that form.
`SentOf`: what is sent are the instructions, a marker and the chosen units. The evidence was
gathered from units that were not chosen then (`OfOmitted`) and nothing is chosen
afterwards. The theorem asks of a history that its messages are numbered and that the results
of a call come next after it (`Causal`). `CausalInv` above is that of the thread
where clients wait; of one whose clients do not wait the code does not promise it. TLC evaluates it
of the histories of the configuration.

**Fallback.** The chain is what is kept of the configured order, and the candidates
what is kept of the chain without repetition. `Kept` is the last value of a
function that follows its equation (`KeptIs`, by the least length without one),
so the result is a part of the sequence in its order (`KeptIsPicked`), and the
candidates are configured models, each once (`CandidatesAre`). `FallbackInv` then
says where in them a call is: one failure for each candidate before the one at
work, no voice but that one's, a switch for each step, and the client's note of
the model where nobody else uses it.

**Quota.** `UsedIsCharged` counts a set of units, so its proof follows the one row a
transaction changes: the units of that row join the set (a reservation, a
retry), leave it (a refund) or stay. `QuotaInv` adds `RowsFit`: no row is dearer
than its user's limit, so the set holds all the units of a row, and the floor of
the refund (`GREATEST(0, ...)`) is unreachable. `SettledForGood` needs only
types: every transaction reads the status it replaces under the store's lock.

**Deliveries.** Where attempts with one key do not overlap, an attempt that is
`Working` is `Alone` with its key, and one that may still deliver (`Holding`) has a
row that is reserved, which nobody else can settle; so what was delivered is
finalized, and final by `SettledForGood`. `OpenIsWorkedOn` is inductive by itself.

**Questions.** `Decided` says of each question where its answer is while it is being
saved; `Locked`, that the state the holder of the lock writes is the state that
is; `FileFollows`, that the file agrees with the memory but for that question.
From these follow that what was told is in both. `HeardIsKept`, for the
executions without a restart, needs only the memory. That all hear one answer
does not hold without the condition of `QuestionsAreKept`: the proof failed, and
TLC found why on an instance with three calls for one question. If
the creation of a question is not stored (its write fails or is stopped), is
answered, and the process restarts, the file has no trace of it, a later call asks again,
and two calls have heard different answers.

**Delegation.** A call with an intent that leads is the one in flight for it
(`Registered`), so there is one; a follower has a leader whose future is a
promise (`Promised`), and what it heard is what the future was given (`Heard`).
A child at work has a call that watches it (`Accompanied`). A turn has spawned
at least the children it has rows for (`Counted`): the spawns are counted before
the row is written and are never given back.

**Pool.** `IInv` is types, `OneUser`, `OneCreator` and `HeldIsMade`: whoever uses a
connection uses one that was made, so the number of the next is in no queue and
nobody's hand. The steps are of six kinds (`PoolSteps`): they move nothing, take
the head of the queue, give back, add a new connection, make one for a task, or
close the head. Errors, cancellations and `close()` are among them, without a
bound. `Fits` bounds the size by who may still make a connection; `TaskWrites` says what
an open transaction holds of its task, and `Spared` of which tasks that is said
(not of one that was cancelled between two UPDATEs, whose connection goes back with a
transaction begun).

**Sidebar.** `Locked` says who holds the lock of deletions. `Restoring` is what a sweep
may still rely on of what it read before: of a thread it is about to insert, that
it is not deleted; of a row it is about to patch, that who patched it in the
meantime is seen, since the row is read under the same lock.

**Embedding.** `Counts`: a record was embedded, or is in the hands of a task that counts
its calls. It is kept by whatever a step may do to one record (`Processes`). A queue
without a rate limit takes steps of the queue (`UnlimitedSteps`), and there the
row has counted every call (`Agrees`).

**Downloads.** A download holds the lock from its inspection to its end, so the disk
is described from its position (`DownOK`): its note, the partial file, which is
what it hashed so far and with what is to come a whole file, and what it still
has to remove. Every list of files to remove goes through stages in which a note
outlives what it describes (`Lists`, `ListsShrink`), which is why a crash at any
step leaves no partial file without a note that fits. A download may be resumed
after a push, so `InOrder` does not say that all of a file is of one version:
that it is (`ResumedIsOneVersion`) is refuted for files without a hash. A
cancellation that has answered stands for the download it marked (`QuietFor`):
the mark keeps it from its last chunk on.

A download that fails while it publishes may have renamed the file and not
described it: it then still has to remove it (`WithFinal`).

**Jobs.** The proof walks through the starters, not through the jobs: one at work
is alone on its job and the job's task is its own (`Alone`, `AtWork`), an
unfinished job has one (`Worked`). That asks that clients cancel only jobs they
were told of (`Patient`): a DELETE between the insertion of a job and its task marks it
interrupted, and a retry then gives it a second task. `Filed` is about the lock of the
snapshots: while nothing was cancelled, no write failed and the file could be read, the
last of the queue carries what memory says, or the queue is empty and the file does.
A file that cannot be read counts as one without jobs (`Unreadable`), which the next
write makes true.

**Restores.** `Counted`: the barrier counts the requests inside; with the owner of the
window (`Owns`) nobody else is in. `Holds` says for each position what the files
hold: what was there (`Same`), the backup (`Replaced`) or the snapshot
(`Undone`). All three only while no coroutine outside the barrier wrote in
between (`mixed`), which the code cannot prevent and the properties allow.

**Only model-checked.** Liveness (`BoardMovesOn`, `WorkEnds`, `AcceptedIsServed`,
`ConversationsAreSeen`), which is out of this prover's reach, as is `ENABLED`.
Every safety invariant a run checks has a theorem. The definitions that runs refute have none.

## Plan

The order was that of what goes wrong most expensively: two agents on one task,
a plan nobody approved, lost documents; then what a person sees of a turn, from
the request to its stored outcome; then what a turn's tools do beside it, and the
storage beneath.

What is left, in this order:

1. `Conversation` inside `RunStream`: the runner's `thinking` refined by the loop,
   so that a cancellation of the stream falls between a call and its result.
2. The sidecars and runtimes of local models (`llamacpp_sidecar.py`).
3. `MemoryStore` and the consolidation of memories.

## Not modelled

`PROJECT.json` lists every component with its reason. Most of the repository's
lines are outside a model checker's reach or have no protocol to check:

- extraction and detection of the context graph, chunking, parsers and
  similarity: transformations of data over libraries;
- the handlers of workspaces, files, skills, profiles and assets, and the
  contracts generated for them: validation, one statement, a response;
- adapters of providers, messengers, PostgreSQL, LanceDB, Qdrant, browsers,
  sandboxes and operating systems: I/O whose behaviour is somebody else's;
- the frontend, the desktop shell, builds, migrations and assets.

Inside the modelled parts the following is left out: `kanban_decompose`, triage
proposals, comments and attachments (no claim or status changes), the report
texts, cron arithmetic, recorded costs, PostgreSQL's queue, the curator, media
paid with the user's own key, evidence lists and projections of runs, the
messengers behind the gateway, and functions without a caller.

Some steps are coarser than the code, or leave out an exception of it. No
property is stated of what they hide:

- `BackgroundRuns`: `_touch_last_run` may fail after `_mark_run_awaiting`
  (`background_tasks.py:1259`), and the handler then writes over
  `awaiting_approval`. `SelfBlock` and `CancelRun` read the block count
  (`kanban.py:917-923`, `1002-1013`) in the step of their UPDATE.
- `DagStore.Finish` is one transaction: a heartbeat on the same connection
  (`dag.py:390`) could commit the UPDATE (`:456`) before the refresh (`:476`).
- `EmbeddingQueue`: the emission of `_maybe_emit_job_event` after `mark_success`
  (`background.py:377-382`) does not fail.
- `ThreadRows.Delete`: the rollback at `threads.py:1283`, which ends a read.
- `MediaQuota.SettleInterrupted`: a thread that goes on after the cancellation of
  its caller (`media_quota.py:572`) has committed by then, or never does.
- `ModelDownloads`: a cancellation in the steps that publish a file comes from a
  DELETE, or is a crash.
- `StateRestore`: a cancellation in a restore (`backup.py:113` catches
  `Exception` only) or in the wait of its window (`maintenance.py:60`). A server
  that ends cancels its handlers, and a crash stands for that.
- `ModelFallback`: `switches` is kept for each call, while `record_switch`
  (`provider_fallback.py:206-216`) keeps one list for each context.
