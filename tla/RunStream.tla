------------------------------ MODULE RunStream ------------------------------
(***************************************************************************)
(* A turn of the agent from the request to its recorded outcome: the lock  *)
(* that serialises the runs of a workspace, the generator that streams the *)
(* events and the task that runs the engine                                *)
(* (backend/api/native_stream.py), the cancel button                       *)
(* (backend/api/handlers/chat.py), the steps of the conversation loop that *)
(* decide how a run ends (backend/engine/conversation_loop.py), and the    *)
(* rows of a run in session_runs, agent_runs, messages and thread_events   *)
(* (backend/persistence/native/session_store.py).                          *)
(*                                                                         *)
(* Positions of the generator of a run:                                    *)
(*   idle       the request has not come                                   *)
(*   waiting    queued at the lock of its workspace                        *)
(*   starting, registered, announced   start_run, upsert_agent_run and the *)
(*              ThreadEvent, still without a runner task                   *)
(*   streaming  in the consumer loop                                       *)
(*   leaving    the sentinel was read                                      *)
(*   aborting   left the loop otherwise: cancels the runner and awaits it  *)
(*   draining   the client is gone: _consume_remainder reads the queue     *)
(*   over       the lock is released and the generator has ended           *)
(* and of its runner task:                                                 *)
(*   scheduled, thinking, answered, verifying   in run(on_event)           *)
(*   returning  the loop is over, the accounting of the turn is not        *)
(*   ending, settled   in the finally, before and after the outcome is     *)
(*              persisted                                                  *)
(*   ended                                                                 *)
(*                                                                         *)
(* Abstractions.  `thinking' is the whole loop of model calls and tools.   *)
(* The queue carries chunks of the answer and the sentinel; other events   *)
(* change no row.  A lock object is named by the run that created it.      *)
(* `streaming' in session_runs lasts until the second update of the same   *)
(* call and is not told from `running'.  Terminal output, the files of the *)
(* turn, the preview in the key-value store, the rewind checkpoint and the *)
(* trigger of Remember are left out.                                       *)
(***************************************************************************)
EXTENDS Integers, Sequences, FiniteSets, SequencesExt

CONSTANTS
  Runs, Threads, Workspaces,
  None,          \* no workspace (chat mode), no run, no verdict
  InThread, InWorkspace,
  MaxChunks,     \* bound on the chunks of an answer
  MaxCancels,    \* bound on the cancellations, of the button and of the server
  MaxFaults,     \* bound on the writes that fail
  MaxCrashes,    \* bound on the crashes of the process
  Sweeps         \* whether the hourly sweep finds rows older than 15 minutes

Verdicts == {"passed", "degraded", "failed"}
Reasons ==
  {"stop", "error", "cancelled", "loop_cap_exceeded", "max_iterations",
   "interrupted", "noop"}

\* The values of the constants a configuration may take.
Parameters ==
  /\ InThread \in [Runs -> Threads]
  /\ InWorkspace \in [Runs -> Workspaces \cup {None}]
  /\ None \notin Runs \cup Workspaces \cup Verdicts \cup Reasons
  /\ /\ {MaxChunks, MaxCancels, MaxFaults, MaxCrashes} \subseteq Nat
     /\ Sweeps \in BOOLEAN

VARIABLES
  stream,     \* the generator of each run
  runner,     \* the runner task: position, how it ended, what it told
  queue,      \* the asyncio.Queue between them
  first,      \* content_started; in a drain, the value captured of
              \* empty_model_response
  registry,   \* _workspace_run_locks
  lockOf,     \* run_lock of each generator
  holder,     \* the owner of each lock object
  waiters,    \* and those that wait at it
  row,        \* what the store holds of each run
  spent       \* cancellations, faults and crashes so far

locks == <<registry, lockOf, holder, waiters>>
vars == <<stream, runner, queue, first, locks, row, spent>>

Positions ==
  {"idle", "waiting", "starting", "registered", "announced", "streaming",
   "leaving", "aborting", "draining", "over"}
Starting == {"starting", "registered", "announced"}
Body == {"thinking", "answered", "verifying", "returning"}
Closing == {"ending", "settled"}
Live == {"scheduled"} \cup Body \cup Closing
TerminalAgent == {"passed", "degraded", "failed", "cancelled"}
TerminalSession == {"completed", "failed", "cancelled"}

Runner ==
  [at : {"none", "ended"} \cup Live,
   reason : Reasons \cup {None},
   chunks : 0..MaxChunks,       \* emitted so far
   empty : BOOLEAN,             \* empty_model_response
   verdict : Verdicts \cup {None},
   sent : BOOLEAN,              \* the sentinel was queued
   cut : BOOLEAN]               \* a cancellation left the task from its finally

Row ==
  [session : {"none", "running"} \cup TerminalSession,
   agent : {"none", "running", "waiting_approval", "verifying"} \cup TerminalAgent,
   abandoned : BOOLEAN,         \* error_code RUN_ABANDONED
   messages : SUBSET {"answer", "failed", "cancelled"},
   events : SUBSET {"run_completed", "run_failed", "run_cancelled"},
   lost : BOOLEAN]              \* a write of this run failed and was only logged

TypeOK ==
  /\ stream \in [Runs -> Positions]
  /\ runner \in [Runs -> Runner]
  /\ queue \in [Runs -> Seq({"chunk", "sentinel"})]
  /\ first \in [Runs -> [started : BOOLEAN, empty : BOOLEAN]]
  /\ registry \in [Workspaces -> Runs \cup {None}]
  /\ lockOf \in [Runs -> Runs \cup {None}]
  /\ holder \in [Runs -> Runs \cup {None}]
  /\ waiters \in [Runs -> Seq(Runs)]
  /\ row \in [Runs -> Row]
  /\ spent \in [cancels : Nat, faults : Nat, crashes : Nat]

Init ==
  /\ stream = [s \in Runs |-> "idle"]
  /\ runner = [s \in Runs |-> [at |-> "none", reason |-> None, chunks |-> 0,
                               empty |-> FALSE, verdict |-> None, sent |-> FALSE,
                               cut |-> FALSE]]
  /\ queue = [s \in Runs |-> <<>>]
  /\ first = [s \in Runs |-> [started |-> FALSE, empty |-> FALSE]]
  /\ registry = [w \in Workspaces |-> None]
  /\ lockOf = [s \in Runs |-> None]
  /\ holder = [s \in Runs |-> None]
  /\ waiters = [s \in Runs |-> <<>>]
  /\ row = [s \in Runs |-> [session |-> "none", agent |-> "none",
                            abandoned |-> FALSE, messages |-> {}, events |-> {},
                            lost |-> FALSE]]
  /\ spent = [cancels |-> 0, faults |-> 0, crashes |-> 0]

-----------------------------------------------------------------------------
(* Writes to the rows of a run.                                            *)

Canonical(status) == IF status = "completed" THEN "passed" ELSE status

Legacy(status) ==
  CASE status \in {"running", "waiting_approval", "verifying"} -> "running"
    [] status \in {"passed", "degraded", "completed"} -> "completed"
    [] OTHER -> status

\* A mutant: an update without the guard on a terminal status.
UpdatedAnyway(r, status) ==
  [r EXCEPT !.agent = IF @ = "none" THEN @ ELSE Canonical(status),
            !.session = IF @ = "none" THEN @ ELSE Legacy(status)]

\* update_agent_run_status, and update_run followed by it: one guarded UPDATE
\* for each of the two tables.
Updated(r, status) ==
  [r EXCEPT
    !.agent = IF @ \in TerminalAgent \cup {"none"} THEN @ ELSE Canonical(status),
    !.session = IF @ \in TerminalSession \cup {"none"} THEN @ ELSE Legacy(status)]

\* append_terminal_outcome: the message, its event and both rows.
WithOutcome(r, status) ==
  [Updated(r, status) EXCEPT
    !.messages = @ \cup {status},
    !.events = @ \cup {IF status = "failed" THEN "run_failed" ELSE "run_cancelled"}]

\* append_message of an assistant message without tool calls: session_runs is
\* written whatever it held.
WithAnswer(r) ==
  [r EXCEPT !.messages = @ \cup {"answer"},
            !.session = IF @ = "none" THEN @ ELSE "completed"]

\* The loop gives the run up: the event and both rows.
GivenUp(r) == [Updated(r, "failed") EXCEPT !.events = @ \cup {"run_failed"}]

\* A write of s is made, or fails within the bound and is only logged.
Write(s, new) ==
  \/ row' = [row EXCEPT ![s] = new] /\ UNCHANGED spent
  \/ /\ spent.faults < MaxFaults
     /\ row' = [row EXCEPT ![s].lost = TRUE]
     /\ spent' = [spent EXCEPT !.faults = @ + 1]

-----------------------------------------------------------------------------
(* The lock of a workspace.                                                *)

Move(s, to) == stream' = [stream EXCEPT ![s] = to]

\* _workspace_run_lock and the call of acquire.
Enter(s) ==
  /\ stream[s] = "idle"
  /\ LET w == InWorkspace[s]
         l == IF w # None /\ registry[w] # None THEN registry[w] ELSE s
     IN IF w = None
        THEN Move(s, "starting") /\ UNCHANGED locks
        ELSE /\ registry' = [registry EXCEPT ![w] = l]
             /\ lockOf' = [lockOf EXCEPT ![s] = l]
             /\ IF holder[l] = None /\ waiters[l] = <<>>
                THEN /\ Move(s, "starting")
                     /\ holder' = [holder EXCEPT ![l] = s]
                     /\ UNCHANGED waiters
                ELSE /\ Move(s, "waiting")
                     /\ waiters' = [waiters EXCEPT ![l] = Append(@, s)]
                     /\ UNCHANGED holder
  /\ UNCHANGED <<runner, queue, first, row, spent>>

Acquire(s) ==
  LET l == lockOf[s] IN
  /\ stream[s] = "waiting"
  /\ holder[l] = None
  /\ Head(waiters[l]) = s
  /\ holder' = [holder EXCEPT ![l] = s]
  /\ waiters' = [waiters EXCEPT ![l] = Tail(@)]
  /\ Move(s, "starting")
  /\ UNCHANGED <<runner, queue, first, registry, lockOf, row, spent>>

\* The request is cancelled in acquire.
LeaveQueue(s) ==
  /\ stream[s] = "waiting"
  /\ \E i \in DOMAIN waiters[lockOf[s]] :
       /\ waiters[lockOf[s]][i] = s
       /\ waiters' = [waiters EXCEPT ![lockOf[s]] = RemoveAt(@, i)]
  /\ Move(s, "over")
  /\ UNCHANGED <<runner, queue, first, registry, lockOf, holder, row, spent>>

\* A mutant: the lock is dropped while runs wait at it.
UnregisteredAlways(w, l) == IF registry[w] = l THEN None ELSE registry[w]

\* What becomes of the registry when lock l is released.
Unregistered(w, l) ==
  IF registry[w] = l /\ waiters[l] = <<>> THEN None ELSE registry[w]

Release(s) ==
  /\ IF lockOf[s] = None
     THEN UNCHANGED <<registry, holder>>
     ELSE /\ holder' = [holder EXCEPT ![lockOf[s]] = None]
          /\ registry' = [registry EXCEPT
                            ![InWorkspace[s]] = Unregistered(InWorkspace[s], lockOf[s])]
  /\ UNCHANGED <<lockOf, waiters>>

-----------------------------------------------------------------------------
(* The generator.                                                          *)

StartRun(s) ==
  /\ stream[s] = "starting"
  /\ row' = [row EXCEPT ![s].session = "running"]
  /\ Move(s, "registered")
  /\ UNCHANGED <<runner, queue, first, locks, spent>>

UpsertRun(s) ==
  /\ stream[s] = "registered"
  /\ row' = [row EXCEPT ![s].agent = "running"]
  /\ Move(s, "announced")
  /\ UNCHANGED <<runner, queue, first, locks, spent>>

\* The store or the snapshot fails, or the request goes away at an await or at
\* the yield of the ThreadEvent: the except branch releases the lock.
FailToStart(s) ==
  /\ stream[s] \in Starting
  /\ Release(s)
  /\ Move(s, "over")
  /\ UNCHANGED <<runner, queue, first, row, spent>>

Spawn(s) ==
  /\ stream[s] = "announced"
  /\ runner' = [runner EXCEPT ![s].at = "scheduled"]
  /\ Move(s, "streaming")
  /\ UNCHANGED <<queue, first, locks, row, spent>>

\* The consumer loop: the first chunk writes the rows, the sentinel ends it.
Consume(s) ==
  /\ stream[s] = "streaming"
  /\ queue[s] # <<>>
  /\ queue' = [queue EXCEPT ![s] = Tail(@)]
  /\ IF Head(queue[s]) = "sentinel"
     THEN Move(s, "leaving") /\ UNCHANGED <<first, row, spent>>
     ELSE /\ first' = [first EXCEPT ![s].started = TRUE]
          /\ IF first[s].started
             THEN UNCHANGED <<row, spent>>
             ELSE Write(s, Updated(row[s], "running"))
          /\ UNCHANGED stream
  /\ UNCHANGED <<runner, locks>>

\* is_disconnected, confirmed: the lock goes to the task that drains the queue.
Disconnect(s) ==
  /\ stream[s] = "streaming"
  /\ first' = [first EXCEPT ![s].empty = runner[s].empty]
  /\ Move(s, "draining")
  /\ UNCHANGED <<runner, queue, locks, row, spent>>

DrainChunk(s) ==
  /\ stream[s] = "draining"
  /\ queue[s] # <<>> /\ Head(queue[s]) = "chunk"
  /\ queue' = [queue EXCEPT ![s] = Tail(@)]
  /\ Write(s, Updated(row[s], "running"))
  /\ UNCHANGED <<stream, runner, first, locks>>

DrainSentinel(s) ==
  /\ stream[s] = "draining"
  /\ queue[s] # <<>> /\ Head(queue[s]) = "sentinel"
  /\ queue' = [queue EXCEPT ![s] = Tail(@)]
  /\ IF runner[s].reason = "stop" /\ ~first[s].empty
     THEN Write(s, Updated(row[s], "completed"))
     ELSE UNCHANGED <<row, spent>>
  /\ Release(s)
  /\ Move(s, "over")
  /\ UNCHANGED <<runner, first>>

\* The end of the generator's finally: nothing of the runner is left.
Finish(s) ==
  /\ stream[s] \in {"leaving", "aborting"}
  /\ runner[s].at = "ended"
  /\ Release(s)
  /\ Move(s, "over")
  /\ UNCHANGED <<runner, queue, first, row, spent>>

-----------------------------------------------------------------------------
(* The runner task.                                                        *)

Step(s, at, reason) ==
  runner' = [runner EXCEPT ![s].at = at, ![s].reason = reason]

Begin(s) ==
  /\ runner[s].at = "scheduled"
  /\ runner' = [runner EXCEPT ![s].at = "thinking"]
  /\ UNCHANGED <<stream, queue, first, locks, row, spent>>

Chunk(s) ==
  /\ runner[s].at = "thinking"
  /\ runner[s].chunks < MaxChunks
  /\ runner' = [runner EXCEPT ![s].chunks = @ + 1]
  /\ queue' = [queue EXCEPT ![s] = Append(@, "chunk")]
  /\ UNCHANGED <<stream, first, locks, row, spent>>

\* A call of the batch needs an approval.
AskApproval(s) ==
  /\ runner[s].at = "thinking"
  /\ Write(s, Updated(row[s], "waiting_approval"))
  /\ Step(s, "returning", "interrupted")
  /\ UNCHANGED <<stream, queue, first, locks>>

\* The model returned neither text nor calls.
EmptyResponse(s) ==
  /\ runner[s].at = "thinking"
  /\ Write(s, GivenUp(row[s]))
  /\ runner' = [runner EXCEPT ![s].at = "returning", ![s].reason = "stop",
                              ![s].empty = TRUE]
  /\ UNCHANGED <<stream, queue, first, locks>>

\* The guard against repeated calls, the caps of the turn, the last iteration.
GiveUp(s) ==
  /\ runner[s].at = "thinking"
  /\ Write(s, GivenUp(row[s]))
  /\ \E reason \in {"loop_cap_exceeded", "max_iterations"} :
       Step(s, "returning", reason)
  /\ UNCHANGED <<stream, queue, first, locks>>

\* The engine raises, or a resume finds nothing pending.
Leave(s) ==
  /\ runner[s].at = "thinking"
  /\ \E reason \in {"error", "noop"} : Step(s, "ending", reason)
  /\ UNCHANGED <<stream, queue, first, locks, row, spent>>

\* A message without tool calls is appended.
Answer(s) ==
  /\ runner[s].at = "thinking"
  /\ row' = [row EXCEPT ![s] = WithAnswer(@)]
  /\ runner' = [runner EXCEPT ![s].at = "answered"]
  /\ UNCHANGED <<stream, queue, first, locks, spent>>

\* run_completed is recorded and the row moves to `verifying'.
Complete(s) ==
  /\ runner[s].at = "answered"
  /\ Write(s, [Updated(row[s], "verifying") EXCEPT
                 !.events = @ \cup {"run_completed"}])
  /\ runner' = [runner EXCEPT ![s].at = "verifying"]
  /\ UNCHANGED <<stream, queue, first, locks>>

\* run_verification answers, or raises, and its verdict is persisted.
Judge(s) ==
  /\ runner[s].at = "verifying"
  /\ \E v \in Verdicts :
       /\ runner' = [runner EXCEPT ![s].at = "returning", ![s].reason = "stop",
                                   ![s].verdict = v]
       /\ Write(s, Updated(row[s], v))
  /\ UNCHANGED <<stream, queue, first, locks>>

Return(s) ==
  /\ runner[s].at = "returning"
  /\ runner' = [runner EXCEPT ![s].at = "ending"]
  /\ UNCHANGED <<stream, queue, first, locks, row, spent>>

\* A mutant: a cancellation is not persisted.
OutcomeUncancelled(s) ==
  LET r == runner[s] IN
  CASE r.reason \in {"error", "loop_cap_exceeded"} -> WithOutcome(row[s], "failed")
    [] r.reason = "stop" /\ r.empty -> WithOutcome(row[s], "failed")
    [] r.reason = "stop" /\ ~r.empty -> Updated(row[s], "completed")
    [] OTHER -> row[s]

\* The outcome the runner persists for each way of ending.
Outcome(s) ==
  LET r == runner[s] IN
  CASE r.reason \in {"error", "loop_cap_exceeded"} -> WithOutcome(row[s], "failed")
    [] r.reason = "cancelled" -> WithOutcome(row[s], "cancelled")
    [] r.reason = "stop" /\ r.empty -> WithOutcome(row[s], "failed")
    [] r.reason = "stop" /\ ~r.empty -> Updated(row[s], "completed")
    [] OTHER -> row[s]

Settle(s) ==
  /\ runner[s].at = "ending"
  /\ Write(s, Outcome(s))
  /\ runner' = [runner EXCEPT ![s].at = "settled"]
  /\ UNCHANGED <<stream, queue, first, locks>>

PutSentinel(s) ==
  /\ runner[s].at = "settled"
  /\ runner' = [runner EXCEPT ![s].at = "ended", ![s].sent = TRUE]
  /\ queue' = [queue EXCEPT ![s] = Append(@, "sentinel")]
  /\ UNCHANGED <<stream, first, locks, row, spent>>

-----------------------------------------------------------------------------
(* Cancellation, crash, sweep.                                             *)

\* What CancelledError does to a runner: before its first step, and in the
\* finally, nothing catches it.
Interrupted(r) ==
  IF r.at \in Body THEN [r EXCEPT !.at = "ending", !.reason = "cancelled"]
  ELSE IF r.at \in Live THEN [r EXCEPT !.at = "ended", !.cut = TRUE]
  ELSE r

\* cancel_active_runs.  The media tools return an error instead of letting the
\* cancellation through; then the loop goes on.
CancelRuns(t) ==
  /\ spent.cancels < MaxCancels
  /\ \E s \in Runs : InThread[s] = t /\ runner[s].at \in Live
  /\ \E swallowed \in SUBSET {s \in Runs : runner[s].at = "thinking"} :
       runner' = [s \in Runs |-> IF InThread[s] = t /\ s \notin swallowed
                                 THEN Interrupted(runner[s]) ELSE runner[s]]
  /\ spent' = [spent EXCEPT !.cancels = @ + 1]
  /\ UNCHANGED <<stream, queue, first, locks, row>>

\* The server cancels or closes the generator, or the bridge raises.  A second
\* cancellation reaches the runner through the await.
Abort(s) ==
  /\ stream[s] \in {"streaming", "aborting"}
  /\ spent.cancels < MaxCancels
  /\ runner' = [runner EXCEPT ![s] = Interrupted(@)]
  /\ Move(s, "aborting")
  /\ spent' = [spent EXCEPT !.cancels = @ + 1]
  /\ UNCHANGED <<queue, first, locks, row>>

Crash ==
  /\ spent.crashes < MaxCrashes
  /\ \E s \in Runs : stream[s] \notin {"idle", "over"}
  /\ stream' = [s \in Runs |-> IF stream[s] = "idle" THEN "idle" ELSE "over"]
  /\ runner' = [s \in Runs |-> IF runner[s].at \in Live
                               THEN [runner[s] EXCEPT !.at = "ended", !.cut = TRUE]
                               ELSE runner[s]]
  /\ queue' = [s \in Runs |-> <<>>]
  /\ registry' = [w \in Workspaces |-> None]
  /\ lockOf' = [s \in Runs |-> None]
  /\ holder' = [s \in Runs |-> None]
  /\ waiters' = [s \in Runs |-> <<>>]
  /\ spent' = [spent EXCEPT !.crashes = @ + 1]
  /\ UNCHANGED <<first, row>>

\* reconcile_abandoned_runs, for a row that was last written 15 minutes ago.
Reconcile(s) ==
  /\ Sweeps
  /\ row[s].session = "running"
  /\ row' = [row EXCEPT ![s].session = "failed", ![s].abandoned = TRUE]
  /\ UNCHANGED <<stream, runner, queue, first, locks, spent>>

Generator(s) ==
  \/ Acquire(s) \/ StartRun(s) \/ UpsertRun(s) \/ Spawn(s) \/ Consume(s)
  \/ DrainChunk(s) \/ DrainSentinel(s) \/ Finish(s)

Task(s) ==
  \/ Begin(s) \/ Chunk(s) \/ AskApproval(s) \/ EmptyResponse(s) \/ GiveUp(s)
  \/ Leave(s) \/ Answer(s) \/ Complete(s) \/ Judge(s) \/ Return(s)
  \/ Settle(s) \/ PutSentinel(s)

Next ==
  \/ \E s \in Runs : \/ Generator(s) \/ Task(s)
                     \/ Enter(s) \/ LeaveQueue(s) \/ FailToStart(s)
                     \/ Disconnect(s) \/ Abort(s) \/ Reconcile(s)
  \/ \E t \in Threads : CancelRuns(t)
  \/ Crash

Spec == Init /\ [][Next]_vars

\* The event loop runs what is ready, the client of a stream reads it or goes
\* away, a turn is bounded by its iterations and by the timeouts of the
\* providers, and the sweep runs every hour.
Fairness ==
  \A s \in Runs : /\ WF_vars(Generator(s)) /\ WF_vars(Task(s))
                  /\ WF_vars(Reconcile(s))

FairSpec == Spec /\ Fairness

-----------------------------------------------------------------------------
(* Properties.                                                             *)

\* _workspace_run_lock "serializes runs in one workspace": no two engines work
\* in one workspace, through waiting, leaving, disconnecting, aborting and the
\* removal of a lock from the registry.
RunsSerialized ==
  \A s, t \in Runs :
    /\ s # t
    /\ InWorkspace[s] = InWorkspace[t] /\ InWorkspace[s] # None
    /\ runner[s].at \in Live
    => runner[t].at \notin Live

\* What agent_runs must hold when the runner of s has ended by itself.
Told(s) ==
  LET r == runner[s] IN
  CASE r.reason = "stop" -> {IF r.empty THEN "failed" ELSE r.verdict}
    [] r.reason = "cancelled" ->
         {IF r.verdict # None THEN r.verdict
          ELSE IF "run_failed" \in row[s].events THEN "failed" ELSE "cancelled"}
    [] r.reason = "interrupted" -> {"waiting_approval", "running"}
    [] r.reason = "noop" -> {"running"}
    [] OTHER -> {"failed"}

\* When a run is over its row tells how it ended, whatever the late writes of
\* the consumer (`streaming' for an old chunk, `completed' after a drain) and
\* whenever the cancellation came; unless the store refused a write.
OutcomeIsTold ==
  \A s \in Runs :
    runner[s].sent /\ ~row[s].lost => row[s].agent \in Told(s)

\* A run that was announced completed is not announced failed, and one that
\* gave up has no answer.
EventsAgree ==
  \A s \in Runs :
    ~({"run_completed", "run_failed"} \subseteq row[s].events)

\* A verdict in agent_runs is final: no later write, crash or retry of the
\* sweep takes it back.
KeepsVerdicts ==
  \A s \in Runs : row[s].agent \in TerminalAgent => row'[s].agent = row[s].agent

\* The runner of s was cut in its finally and the consumer of s waits for a
\* sentinel that does not come.
Stuck(s) ==
  stream[s] \in {"streaming", "draining"} /\ runner[s].cut

\* A run that waits for its workspace is served, and every run that started
\* ends and gives the lock back, unless the runner of one was cut.
RunsOver ==
  \A s \in Runs : stream[s] \in {"idle", "over"} \/ \E t \in Runs : Stuck(t)

-----------------------------------------------------------------------------
(* What a comment or a docstring says and the code does not keep.  TLC     *)
(* finds these violated, so no configuration checks them (see the README). *)

\* The comment in the generator: `_runner' always puts the sentinel in its
\* finally.
SentinelIsSent ==
  \A s \in Runs :
    stream[s] \in {"streaming", "draining"} /\ runner[s].at = "ended"
    => runner[s].sent

\* The comment in the loop: the verification is the only source of the
\* terminal outcome.
PassedWasVerified ==
  \A s \in Runs : row[s].agent = "passed" => runner[s].verdict = "passed"

\* The comments in the store: session_runs is kept in parity with agent_runs.
StatusParity ==
  \A s \in Runs :
    stream[s] = "over" /\ row[s].agent \in TerminalAgent
    => row[s].session = Legacy(row[s].agent)

\* The detail of the outcome: the run was cancelled before it produced a
\* response.
CancelledBeforeAnswer ==
  \A s \in Runs : ~({"answer", "cancelled"} \subseteq row[s].messages)

\* The docstring of the sweep: it moves stale runs to failed, "encerrada sem
\* confirmacao do processo".
AbandonedIsOver ==
  \A s \in Runs : row[s].abandoned => runner[s].at \notin Live

=============================================================================
