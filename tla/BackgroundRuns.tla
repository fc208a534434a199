--------------------------- MODULE BackgroundRuns ---------------------------
(***************************************************************************)
(* Background runs (backend/scheduling/background_tasks.py) over the       *)
(* Kanban board: run_task and resume_background_run as coroutines that     *)
(* interleave at every await, the scheduler's tick, which runs due tasks   *)
(* inline, and the people, chat agents and webhooks that move cards        *)
(* meanwhile.  A crash ends every coroutine and leaves the rows.           *)
(*                                                                         *)
(* A run is a row of vectora_background_runs and the coroutine that        *)
(* executes it, the program counter `pc':                                  *)
(*   idle      no coroutine, the uuid is not in use                        *)
(*   starting  run_task was called; check_budget, then claim_task          *)
(*   budget    check_budget found the budget spent and reads the card      *)
(*   inserting claim_task returned, the row is not written yet             *)
(*   engine    the conversation or goal loop runs, with the heartbeat      *)
(*   promoting the completion is committed, recompute_ready is next        *)
(*   reporting cost, last_run_at, event, message to the parent session     *)
(*   failing   an exception or an error outcome reached the handler        *)
(*   blocking  the run is finished as an error, block_task is next         *)
(*   reserving the run went awaiting -> running, ensure_task_claim is next *)
(*   releasing ensure_task_claim refused, the reservation is undone next   *)
(*   ended     the coroutine returned or was lost in a crash               *)
(***************************************************************************)
EXTENDS Kanban

CONSTANTS
  NoTask,    \* the task of a run whose uuid is not in use
  Events     \* what the environment may do in an instance; see AllEvents

AllEvents ==
  {\* people, chat agents and webhooks that write the board
   "create", "move", "unblock", "review", "archive", "toggle", "delete",
   "link", "issue", "chat_block",
   \* requests about runs
   "run", "resume", "cancel",
   \* what an agent does to its own card through kanban_update_status
   "self_move",
   \* disturbances
   "budget", "claim_error", "late_heartbeat", "report_error", "crash"}

ASSUME NoTaskAssumption == NoTask \notin Tasks
ASSUME EventsAssumption == Events \subseteq AllEvents

VARIABLES
  run,      \* row and coroutine of each run
  sched,    \* BackgroundScheduler: its position in tick()
  handler,  \* per task, what an HTTP handler between two transactions has left
  chat      \* one kanban_update_status("blocked") call from a chat session

vars == <<card, links, run, sched, handler, chat>>

RunRow == {"none", "running", "awaiting_approval", "done", "error", "cancelled"}

RunPC ==
  {"idle", "starting", "budget", "inserting", "engine", "promoting",
   "reporting", "failing", "blocking", "reserving", "releasing", "ended"}

Run ==
  [row     : RunRow,
   task    : Tasks \cup {NoTask},
   pc      : RunPC,
   resumed : BOOLEAN,
   seen    : 0..MaxBlocks]    \* block_count read by block_task's SELECT

FreshRun ==
  [row |-> "none", task |-> NoTask, pc |-> "idle", resumed |-> FALSE, seen |-> 0]

Scheduler ==
  [pc    : {"sleep", "recompute", "list", "dispatch", "waiting", "disable", "todo"},
   queue : SUBSET Tasks,      \* listed by _list_due_interval_tasks, not yet served
   late  : SUBSET Tasks,      \* of those, the recurrent ones past the grace
   cur   : Tasks \cup {NoTask},
   run   : Runs \cup {NoRun}]

Asleep == [pc |-> "sleep", queue |-> {}, late |-> {}, cur |-> NoTask, run |-> NoRun]

Chat == [task : Tasks \cup {NoTask}, kind : BlockKinds, seen : 0..MaxBlocks]

NoChat == [task |-> NoTask, kind |-> "none", seen |-> 0]

TypeOK ==
  /\ card \in [Tasks -> Card]
  /\ links \subseteq Tasks \X Tasks
  /\ run \in [Runs -> Run]
  /\ sched \in Scheduler
  /\ handler \in [Tasks -> {"none", "disable", "enable", "ready", "recompute"}]
  /\ chat \in Chat

Init ==
  /\ card = [t \in Tasks |-> AbsentCard]
  /\ links = {}
  /\ run = [r \in Runs |-> FreshRun]
  /\ sched = Asleep
  /\ handler = [t \in Tasks |-> "none"]
  /\ chat = NoChat

-----------------------------------------------------------------------------
(* Program counters.                                                       *)

Live(r) == run[r].pc \notin {"idle", "ended"}

At(r, pc) == run[r].pc = pc

Goto(r, pc) == run' = [run EXCEPT ![r].pc = pc]

\* A coroutine returns.  When the scheduler awaits it, tick() goes on: after
\* a `once' task it disables it, whatever run_task did.
WakeScheduler(r) ==
  sched' = IF sched.pc = "waiting" /\ sched.run = r
             THEN [sched EXCEPT !.run = NoRun,
                                !.pc  = IF Trigger[sched.cur] = "once"
                                        THEN "disable" ELSE "dispatch"]
             ELSE sched

\* run_task returns before its row exists: the uuid was never seen outside.
Discard(r) == run' = [run EXCEPT ![r] = FreshRun] /\ WakeScheduler(r)

End(r, row) ==
  /\ run' = [run EXCEPT ![r].pc = "ended", ![r].row = row]
  /\ WakeScheduler(r)

HandlersIdle == UNCHANGED <<handler, chat>>

-----------------------------------------------------------------------------
(* run_task and resume_background_run.                                     *)

Start(r, t) ==
  /\ run[r] = FreshRun
  /\ run' = [run EXCEPT ![r] = [FreshRun EXCEPT !.task = t, !.pc = "starting"]]

\* check_budget: the sum of the costs reached the ceiling; the row is read...
BudgetSpent(r) ==
  /\ "budget" \in Events
  /\ At(r, "starting")
  /\ run' = [run EXCEPT ![r].pc = "budget", ![r].seen = card[run[r].task].count]
  /\ UNCHANGED <<card, links, sched>> /\ HandlersIdle

\* ... and blocked, without a run id: whoever holds the claim loses it.
BudgetBlocks(r) ==
  /\ At(r, "budget")
  /\ LET t == run[r].task IN WriteIfExists(t, Blocked(card[t], "person", run[r].seen))
  /\ Discard(r)
  /\ HandlersIdle

ClaimTask(r) ==
  /\ At(r, "starting")
  /\ LET t == run[r].task IN
       /\ Claimable(t)
       /\ Write(t, Claimed(card[t], r))
  /\ Goto(r, "inserting")
  /\ UNCHANGED sched /\ HandlersIdle

ClaimRefused(r) ==
  /\ At(r, "starting")
  /\ ~Claimable(run[r].task)
  /\ Discard(r)
  /\ UNCHANGED cardVars /\ HandlersIdle

\* An exception of claim_task is logged and the run goes on without a claim.
ClaimRaises(r) ==
  /\ "claim_error" \in Events
  /\ At(r, "starting")
  /\ Goto(r, "inserting")
  /\ UNCHANGED <<card, links, sched>> /\ HandlersIdle

InsertRun(r) ==
  /\ At(r, "inserting")
  /\ run' = [run EXCEPT ![r].pc = "engine", ![r].row = "running"]
  /\ UNCHANGED <<card, links, sched>> /\ HandlersIdle

\* _mark_run_awaiting: the claim is kept, the heartbeat stops.
Interrupted(r) ==
  /\ At(r, "engine")
  /\ End(r, "awaiting_approval")
  /\ UNCHANGED cardVars /\ HandlersIdle

EngineFails(r) ==
  /\ At(r, "engine")
  /\ Goto(r, "failing")
  /\ UNCHANGED <<card, links, sched>> /\ HandlersIdle

\* Mutant: the completion checks the run's row only.
MayCompleteUnclaimed(r) == run[r].row = "running" /\ Exists(run[r].task)

\* complete_run_and_set_status: both rows or none.  The lock may have expired.
MayComplete(r) == run[r].row = "running" /\ HoldsClaim(run[r].task, r)

CompleteRun(r) ==
  /\ At(r, "engine")
  /\ MayComplete(r)
  /\ LET t == run[r].task IN Write(t, Completed(card[t], t))
  /\ run' = [run EXCEPT ![r].pc = "promoting", ![r].row = "done"]
  /\ UNCHANGED sched /\ HandlersIdle

\* run_task turns a refused completion into an exception...
CompletionRaises(r) ==
  /\ At(r, "engine")
  /\ ~MayComplete(r)
  /\ ~run[r].resumed
  /\ Goto(r, "failing")
  /\ UNCHANGED <<card, links, sched>> /\ HandlersIdle

\* ... and the resumed paths return None and leave the row as it is.
CompletionDropped(r) ==
  /\ At(r, "engine")
  /\ ~MayComplete(r)
  /\ run[r].resumed
  /\ End(r, run[r].row)
  /\ UNCHANGED cardVars /\ HandlersIdle

PromoteChildren(r) ==
  /\ At(r, "promoting")
  /\ RecomputeReady
  /\ Goto(r, "reporting")
  /\ UNCHANGED sched /\ HandlersIdle

Report(r) ==
  /\ At(r, "reporting")
  /\ End(r, run[r].row)
  /\ UNCHANGED cardVars /\ HandlersIdle

\* _touch_last_run raises after the completion was committed.
ReportFails(r) ==
  /\ "report_error" \in Events
  /\ At(r, "reporting")
  /\ ~run[r].resumed
  /\ Goto(r, "failing")
  /\ UNCHANGED <<card, links, sched>> /\ HandlersIdle

\* _finish_run(error): only resumed runs expect the row to be running.  The
\* SELECT of block_task comes next and is taken in the same step.
FinishError(r) ==
  /\ At(r, "failing")
  /\ run' = [run EXCEPT
       ![r].pc   = "blocking",
       ![r].row  = IF run[r].resumed /\ run[r].row # "running" THEN @ ELSE "error",
       ![r].seen = card[run[r].task].count]
  /\ UNCHANGED <<card, links, sched>> /\ HandlersIdle

\* block_task under the run's claim; a lost claim raises and is suppressed.
BlockOwnCard(r) ==
  /\ At(r, "blocking")
  /\ LET t == run[r].task IN
       IF HoldsLiveClaim(t, r)
         THEN Write(t, Blocked(card[t], "person", run[r].seen))
         ELSE UNCHANGED cardVars
  /\ End(r, run[r].row)
  /\ HandlersIdle

\* Mutant: the reservation does not expect awaiting_approval.
ResumeAnyRow(r) ==
  /\ "resume" \in Events
  /\ At(r, "ended")
  /\ run[r].row \in {"awaiting_approval", "cancelled"}
  /\ Exists(run[r].task)
  /\ run' = [run EXCEPT ![r].pc = "reserving", ![r].row = "running",
                        ![r].resumed = TRUE]
  /\ UNCHANGED <<card, links, sched>> /\ HandlersIdle

\* resume_background_run: the CAS awaiting -> running reserves the run.
ResumeRun(r) ==
  /\ "resume" \in Events
  /\ At(r, "ended")
  /\ run[r].row = "awaiting_approval"
  /\ Exists(run[r].task)
  /\ run' = [run EXCEPT ![r].pc = "reserving", ![r].row = "running",
                        ![r].resumed = TRUE]
  /\ UNCHANGED <<card, links, sched>> /\ HandlersIdle

EnsureTaskClaim(r) ==
  /\ At(r, "reserving")
  /\ LET t == run[r].task IN
       /\ OwnOrFree(t, r, {"ready", "scheduled"})
       /\ Write(t, Claimed(card[t], r))
  /\ Goto(r, "engine")
  /\ UNCHANGED sched /\ HandlersIdle

EnsureRefused(r) ==
  /\ At(r, "reserving")
  /\ ~OwnOrFree(run[r].task, r, {"ready", "scheduled"})
  /\ Goto(r, "releasing")
  /\ UNCHANGED <<card, links, sched>> /\ HandlersIdle

\* An exception while reserving: the run and its card take the error path.
ReserveRaises(r) ==
  /\ "claim_error" \in Events
  /\ At(r, "reserving")
  /\ Goto(r, "failing")
  /\ UNCHANGED <<card, links, sched>> /\ HandlersIdle

UndoReservation(r) ==
  /\ At(r, "releasing")
  /\ End(r, "awaiting_approval")
  /\ UNCHANGED cardVars /\ HandlersIdle

\* heartbeat_claim, when the previous beats were late.
HeartbeatClaim(r) ==
  /\ run[r].pc \in {"engine", "promoting", "reporting", "failing", "blocking"}
  /\ LET t == run[r].task IN
       /\ HoldsClaim(t, r)
       /\ card[t].expired
       /\ Write(t, [card[t] EXCEPT !.expired = FALSE])
  /\ UNCHANGED <<run, sched>> /\ HandlersIdle

\* cancel_background_run: the run and its card in one transaction.
CancelRun(r) ==
  /\ "cancel" \in Events
  /\ At(r, "ended")
  /\ run[r].row = "awaiting_approval"
  /\ LET t == run[r].task IN
       /\ OwnOrFree(t, r, {"ready", "running", "scheduled"})
       /\ Write(t, Blocked(card[t], "person", card[t].count))
  /\ run' = [run EXCEPT ![r].row = "cancelled"]
  /\ UNCHANGED sched /\ HandlersIdle

\* kanban_update_status called by the run on its own card, under its claim.
SelfBlock(r, kind) ==
  /\ "self_move" \in Events
  /\ At(r, "engine")
  /\ LET t == run[r].task IN
       /\ HoldsLiveClaim(t, r)
       /\ Write(t, Blocked(card[t], kind, card[t].count))
  /\ UNCHANGED <<run, sched>> /\ HandlersIdle

SelfMove(r, s) ==
  /\ "self_move" \in Events
  /\ At(r, "engine")
  /\ LET t == run[r].task IN
       /\ HoldsLiveClaim(t, r)
       /\ <<card[t].status, s>> \in ManualTransitions
       /\ Write(t, IF card[t].status = "blocked" THEN Unblocked(card[t])
                                                 ELSE FencedStatus(card[t], t, s))
  /\ UNCHANGED <<run, sched>> /\ HandlersIdle

-----------------------------------------------------------------------------
(* BackgroundScheduler.tick: one coroutine, every 60 s.                    *)

TickRelease ==
  /\ sched.pc = "sleep"
  /\ ReleaseStaleClaims
  /\ sched' = [sched EXCEPT !.pc = "recompute"]
  /\ UNCHANGED run /\ HandlersIdle

TickRecompute ==
  /\ sched.pc = "recompute"
  /\ RecomputeReady
  /\ sched' = [sched EXCEPT !.pc = "list"]
  /\ UNCHANGED run /\ HandlersIdle

DueTasks ==
  {t \in Tasks : /\ Exists(t) /\ card[t].enabled
                 /\ Trigger[t] \in {"interval", "once"}
                 /\ card[t].due \in {"due", "late"}}

\* The list is a snapshot: what is served later was due now.
TickList ==
  /\ sched.pc = "list"
  /\ sched' = [sched EXCEPT
       !.pc    = "dispatch",
       !.queue = DueTasks,
       !.late  = {t \in DueTasks : Trigger[t] = "interval" /\ card[t].due = "late"}]
  /\ UNCHANGED <<card, links, run>> /\ HandlersIdle

Served(t) == [sched EXCEPT !.queue = @ \ {t}, !.late = @ \ {t}]

\* A recurrent task past CATCH_UP_GRACE moves to its next date without a run.
TickSkip(t) ==
  /\ sched.pc = "dispatch"
  /\ t \in sched.late
  /\ WriteIfExists(t, [card[t] EXCEPT !.due = "future"])
  /\ sched' = Served(t)
  /\ UNCHANGED run /\ HandlersIdle

TickRun(t, r) ==
  /\ sched.pc = "dispatch"
  /\ t \in sched.queue \ sched.late
  /\ Start(r, t)
  /\ sched' = [Served(t) EXCEPT !.pc = "waiting", !.cur = t, !.run = r]
  /\ UNCHANGED cardVars /\ HandlersIdle

\* The bound on Runs: with every uuid of the instance in use, nothing starts.
TickOutOfRuns(t) ==
  /\ sched.pc = "dispatch"
  /\ t \in sched.queue \ sched.late
  /\ \A r \in Runs : run[r] # FreshRun
  /\ sched' = Served(t)
  /\ UNCHANGED <<card, links, run>> /\ HandlersIdle

\* Mutant: the flag of a `once' task stays on.
TickKeepsEnabled ==
  /\ sched.pc = "disable"
  /\ sched' = [sched EXCEPT !.pc = "todo"]
  /\ UNCHANGED <<card, links, run>> /\ HandlersIdle

\* update_task(enabled = False) of a `once' task, then _sync_status_with_enabled.
TickDisable ==
  /\ sched.pc = "disable"
  /\ WriteIfExists(sched.cur, [card[sched.cur] EXCEPT !.enabled = FALSE])
  /\ sched' = [sched EXCEPT !.pc = "todo"]
  /\ UNCHANGED run /\ HandlersIdle

TickSetTodo ==
  /\ sched.pc = "todo"
  /\ SetStatus(sched.cur, "todo")
  /\ sched' = [sched EXCEPT !.pc = "dispatch"]
  /\ UNCHANGED run /\ HandlersIdle

TickEnd ==
  /\ sched.pc = "dispatch"
  /\ sched.queue = {}
  /\ sched' = Asleep
  /\ UNCHANGED <<card, links, run>> /\ HandlersIdle

-----------------------------------------------------------------------------
(* People, chat agents, webhooks.                                          *)

\* PATCH enabled: the flag first, then _sync_status_with_enabled reads
\* block_kind and writes the status, each in its own transaction.
SetEnabled(t, on) ==
  /\ "toggle" \in Events
  /\ Exists(t)
  /\ handler[t] = "none"
  /\ Write(t, [card[t] EXCEPT !.enabled = on])
  /\ handler' = [handler EXCEPT ![t] = IF on THEN "enable" ELSE "disable"]
  /\ UNCHANGED <<run, sched, chat>>

SyncDisabled(t) ==
  /\ handler[t] = "disable"
  /\ SetStatus(t, "todo")
  /\ handler' = [handler EXCEPT ![t] = "none"]
  /\ UNCHANGED <<run, sched, chat>>

SyncRead(t) ==
  /\ handler[t] = "enable"
  /\ handler' = [handler EXCEPT ![t] =
       IF Exists(t) /\ card[t].kind = "none" THEN "ready" ELSE "none"]
  /\ UNCHANGED <<card, links, run, sched, chat>>

SyncEnabled(t) ==
  /\ handler[t] = "ready"
  /\ SetStatus(t, "ready")
  /\ handler' = [handler EXCEPT ![t] = "none"]
  /\ UNCHANGED <<run, sched, chat>>

\* kanban_update_status("blocked") outside a run: no run id, no fencing.
ChatBlockRead(t, kind) ==
  /\ "chat_block" \in Events
  /\ chat = NoChat
  /\ Exists(t)
  /\ chat' = [task |-> t, kind |-> kind, seen |-> card[t].count]
  /\ UNCHANGED <<card, links, run, sched, handler>>

ChatBlockWrite ==
  /\ chat.task # NoTask
  /\ WriteIfExists(chat.task, Blocked(card[chat.task], chat.kind, chat.seen))
  /\ chat' = NoChat
  /\ UNCHANGED <<run, sched, handler>>

BoardOp(t) ==
  \/ "create" \in Events /\ \E dated \in BOOLEAN : CreateTask(t, dated)
  \/ "move" \in Events /\ \E s \in KanbanStatuses : ManualTransition(t, s)
  \/ "unblock" \in Events /\ UnblockTask(t)
  \/ "archive" \in Events /\ Exists(t) /\ SetStatus(t, "archived")
  \/ "delete" \in Events /\ DeleteTask(t)
  \* sync_github_issue_to_kanban, sync_observability_alert_to_kanban
  \/ /\ "issue" \in Events /\ Exists(t) /\ Trigger[t] = "manual"
     /\ \E s \in {"done", "ready", "triage", "todo"} : SetStatus(t, s)
  \/ /\ "link" \in Events /\ Exists(t)
     /\ \E p \in Tasks : Exists(p) /\ (AddDependency(p, t) \/ RemoveDependency(p, t))

Board(t) == BoardOp(t) /\ UNCHANGED <<run, sched>> /\ HandlersIdle

\* The approve endpoint: review -> done, then recompute_ready on its own.
Approve(t) ==
  /\ "review" \in Events
  /\ handler[t] = "none"
  /\ ApproveReview(t)
  /\ handler' = [handler EXCEPT ![t] = "recompute"]
  /\ UNCHANGED <<run, sched, chat>>

ApproveRecompute(t) ==
  /\ handler[t] = "recompute"
  /\ RecomputeReady
  /\ handler' = [handler EXCEPT ![t] = "none"]
  /\ UNCHANGED <<run, sched, chat>>

\* POST /tasks/{id}/run, run_background_task_now, dispatch_webhook_event.
RunNow(r, t) ==
  /\ "run" \in Events
  /\ Exists(t)
  /\ Start(r, t)
  /\ UNCHANGED <<card, links, sched>> /\ HandlersIdle

-----------------------------------------------------------------------------
(* Time and crashes.                                                       *)

\* next_run_at is reached, then falls behind the grace.
ClockReaches(t) ==
  /\ card[t].due \in {"future", "due"}
  /\ Write(t, [card[t] EXCEPT !.due = IF @ = "future" THEN "due" ELSE "late"])
  /\ UNCHANGED <<run, sched>> /\ HandlersIdle

\* The TTL (900 s) runs out.  A coroutine that is alive renews it every 60 s;
\* "late_heartbeat" lets it miss them all (suspended host, database down).
ClaimExpires(t) ==
  /\ card[t].claim # NoRun
  /\ ~card[t].expired
  /\ "late_heartbeat" \in Events \/ ~Live(card[t].claim)
  /\ Write(t, [card[t] EXCEPT !.expired = TRUE])
  /\ UNCHANGED <<run, sched>> /\ HandlersIdle

\* The process dies and is started again: rows survive, coroutines do not.
Crash ==
  /\ "crash" \in Events
  /\ run' = [r \in Runs |->
       IF run[r].pc \in {"starting", "budget"} THEN FreshRun
       ELSE IF Live(r) THEN [run[r] EXCEPT !.pc = "ended"] ELSE run[r]]
  /\ sched' = Asleep
  /\ handler' = [t \in Tasks |-> "none"]
  /\ chat' = NoChat
  /\ UNCHANGED cardVars

-----------------------------------------------------------------------------

\* The steps a coroutine takes by itself once it is scheduled.
RunStep(r) ==
  \/ BudgetSpent(r) \/ BudgetBlocks(r) \/ ClaimTask(r) \/ ClaimRefused(r)
  \/ ClaimRaises(r) \/ InsertRun(r) \/ Interrupted(r) \/ EngineFails(r)
  \/ CompleteRun(r) \/ CompletionRaises(r) \/ CompletionDropped(r)
  \/ PromoteChildren(r) \/ Report(r) \/ ReportFails(r) \/ FinishError(r)
  \/ BlockOwnCard(r) \/ EnsureTaskClaim(r) \/ EnsureRefused(r)
  \/ ReserveRaises(r) \/ UndoReservation(r)

TickStep ==
  \/ TickRelease \/ TickRecompute \/ TickList \/ TickDisable \/ TickSetTodo
  \/ TickEnd
  \/ \E t \in Tasks : TickSkip(t) \/ TickOutOfRuns(t) \/ \E r \in Runs : TickRun(t, r)

HandlerStep ==
  \/ ChatBlockWrite
  \/ \E t \in Tasks :
       SyncDisabled(t) \/ SyncRead(t) \/ SyncEnabled(t) \/ ApproveRecompute(t)

Requests ==
  \/ \E t \in Tasks : Board(t) \/ Approve(t) \/ \E on \in BOOLEAN : SetEnabled(t, on)
  \/ \E t \in Tasks, kind \in BlockKinds \ {"none"} : ChatBlockRead(t, kind)
  \/ \E r \in Runs, t \in Tasks : RunNow(r, t)
  \/ \E r \in Runs : ResumeRun(r) \/ CancelRun(r)

AgentStep(r) ==
  \/ HeartbeatClaim(r)
  \/ \E kind \in BlockKinds \ {"none"} : SelfBlock(r, kind)
  \/ \E s \in KanbanStatuses : SelfMove(r, s)

Next ==
  \/ \E r \in Runs : RunStep(r) \/ AgentStep(r)
  \/ TickStep
  \/ HandlerStep
  \/ Requests
  \/ \E t \in Tasks : ClockReaches(t) \/ ClaimExpires(t)
  \/ Crash

Spec == Init /\ [][Next]_vars

\* What asyncio and the clock guarantee.  A coroutine that is ready is run
\* again; the engine leaves its loop (LoopConfig.max_iterations = 50); tick()
\* runs every 60 s; the TTL of a claim nobody renews runs out.  Nothing is
\* assumed of people, agents, disturbances or crashes.
Fairness ==
  /\ \A r \in Runs : WF_vars(RunStep(r))
  /\ WF_vars(TickStep)
  /\ WF_vars(HandlerStep)
  /\ \A t \in Tasks : WF_vars(ClaimExpires(t))

FairSpec == Spec /\ Fairness

-----------------------------------------------------------------------------
(* Safety.                                                                 *)

\* The agent of the run is at work.
Executing(r) == At(r, "engine")

\* What ends or bypasses a claim while its run is alive and not deleted.
ClaimBreakers == {"chat_block", "budget", "claim_error", "late_heartbeat", "self_move"}

\* Two agents never work on one task at the same time: the promise of the
\* claim (run_task, "evita duas execucoes concorrentes da mesma task"), across
\* ticks, manual runs, approval pauses, resumes, moves of the card and crashes.
NoConcurrentExecution ==
  \A r1, r2 \in Runs :
    r1 # r2 /\ Executing(r1) /\ Executing(r2) => run[r1].task # run[r2].task

\* A card shown as running can always be recovered: somebody holds its claim,
\* so release_stale_claims will find it.  No write of a status may drop the
\* lock of a running card and leave it running.
RunningIsClaimed == \A t \in Tasks : card[t].status = "running" => card[t].claim # NoRun

\* The holder of a claim is a run of that very task which is neither done nor
\* cancelled: run rows and cards are completed and cancelled together.
HolderIsUnfinished ==
  \A t \in Tasks : card[t].claim # NoRun =>
    /\ run[card[t].claim].task = t
    /\ run[card[t].claim].row \notin {"done", "cancelled"}

\* A card that was blocked BLOCK_RECURRENCE_LIMIT times in a row does not sit
\* in the blocked column, whoever blocked it and whatever reset it in between.
BlockedIsBelowLimit ==
  \A t \in Tasks : card[t].status = "blocked" => card[t].count \in 1..(BlockRecurrenceLimit - 1)

\* The three together: what the two rows of a card and its run say of each other.
BoardIsSound == RunningIsClaimed /\ HolderIsUnfinished /\ BlockedIsBelowLimit

\* add_dependency never closes a cycle: every non-empty set of cards has one
\* that waits for none of the others, so some card can always be promoted.
LinksAcyclic ==
  \A S \in (SUBSET Tasks) \ {{}} : \E t \in S : Parents(t) \cap S = {}

\* A claim is never taken from the run that holds it: it goes back to NULL
\* first, and only by the run's own step, by its TTL, or with the row.
ClaimEndsByOwner ==
  [][\A t \in Tasks : card[t].claim # NoRun /\ card'[t].claim # card[t].claim =>
       /\ card'[t].claim = NoRun
       /\ \/ card[t].expired
          \/ run'[card[t].claim] # run[card[t].claim]
          \/ card'[t].status = "deleted"]_vars

\* A row that reached done, error or cancelled keeps it: a late completion, a
\* second resume or a cancellation never writes over it.
FinalRowsStay ==
  [][\A r \in Runs : run[r].row \in {"done", "error", "cancelled"} =>
       run'[r].row = run[r].row]_vars

\* "nunca refira sozinha": while no process dies and nobody runs or enables it
\* by hand, tick() executes a `once' task a single time, whatever happens to
\* its card between the listing, the run and the update that disables it.
OnceStartsOnce ==
  \A r1, r2 \in Runs :
    /\ r1 # r2 /\ run[r1].task # NoTask /\ Trigger[run[r1].task] = "once"
    /\ run[r1].row # "none" /\ run[r2].row # "none"
    => run[r1].task # run[r2].task

-----------------------------------------------------------------------------
(* Liveness.                                                               *)

\* The claim of a coroutine that is gone is released, or the run resumed.
OrphanClaimReleased ==
  \A t \in Tasks, r \in Runs :
    (card[t].claim = r /\ ~Live(r)) ~> (card[t].claim # r \/ Live(r))

\* A child whose parents are all done does not wait in todo for ever, even if
\* the completion that should have promoted it was lost in a crash: the tick
\* promotes it, unless the process goes on crashing before it gets there.
ChildrenPromoted ==
  \/ \A t \in Tasks : Promotable(t) ~> ~Promotable(t)
  \/ []<><<Crash /\ sched.pc = "recompute">>_vars

\* One pass of tick() ends, whatever becomes of the runs it waits for in line.
TickReturns == (sched.pc # "sleep") ~> (sched.pc = "sleep")

\* The board moves on: orphans are released, children promoted, and ticks return.
BoardMovesOn == OrphanClaimReleased /\ ChildrenPromoted /\ TickReturns

\* A resumed run is not left in `running': it ends, or waits for approval again.
ResumeSettles ==
  \A r \in Runs : (run[r].resumed /\ run[r].row = "running") ~> (run[r].row # "running")

=============================================================================
