----------------------- MODULE BackgroundRuns_proofs ------------------------
(***************************************************************************)
(* Proofs about BackgroundRuns, for every set of tasks and runs, every     *)
(* assignment of triggers, every limit and every choice of Events.         *)
(*                                                                         *)
(* Types: the row transforms stay within the columns' domains.             *)
(* Links: only add_dependency adds one, and it refuses a cycle.            *)
(* Cards and claims: every step is put into one of two classes.  A quiet   *)
(* step acquires no claim and ends no run; five actions do one of the two. *)
(* The invariant, and the refinement of RunLease, then follow from the     *)
(* classes alone.  What the claim of a run promises comes last: two agents *)
(* never work on one task, a claim ends by its owner, and the tick runs a  *)
(* `once' task once.                                                       *)
(***************************************************************************)
EXTENDS BackgroundRunsLease, TLAPS

-----------------------------------------------------------------------------
(* The row transforms stay within the columns' domains.                    *)

LEMMA ZeroBlocks == 0 \in 0..MaxBlocks
  BY LimitAssumption

LEMMA AbsentCardType == AbsentCard \in Card
  BY ZeroBlocks DEF AbsentCard, Card, BlockKinds, KanbanStatuses, NoRow

LEMMA DeletedCardType == [AbsentCard EXCEPT !.status = "deleted"] \in Card
  BY AbsentCardType DEF Card, NoRow

LEMMA CreatedCardType ==
  ASSUME NEW s \in {"scheduled", "ready"}, NEW d \in {"future", "none"}
  PROVE  [AbsentCard EXCEPT !.status = s, !.enabled = TRUE, !.due = d] \in Card
  BY AbsentCardType DEF Card, KanbanStatuses

LEMMA WithStatusType ==
  ASSUME NEW c \in Card, NEW s \in KanbanStatuses
  PROVE  WithStatus(c, s) \in Card
<1>1. CASE s \in {"ready", "done"}
  BY <1>1, ZeroBlocks DEF WithStatus, Card
<1>2. CASE s \notin {"ready", "done"}
  BY <1>2 DEF WithStatus, Card
<1> QED
  BY <1>1, <1>2

LEMMA WithoutClaimType ==
  ASSUME NEW c \in Card
  PROVE  WithoutClaim(c) \in Card
  BY DEF WithoutClaim, Card

LEMMA FencedStatusType ==
  ASSUME NEW c \in Card, NEW t \in Tasks, NEW s \in KanbanStatuses
  PROVE  FencedStatus(c, t, s) \in Card
<1>1. WithoutClaim(WithStatus(c, s)) \in Card
  BY WithStatusType, WithoutClaimType
<1> QED
  BY <1>1 DEF FencedStatus, Card

LEMMA CompletedType ==
  ASSUME NEW c \in Card, NEW t \in Tasks
  PROVE  Completed(c, t) \in Card
<1>1. Target(t) \in KanbanStatuses
  BY DEF Target, KanbanStatuses
<1>2. FencedStatus(c, t, Target(t)) \in Card
  BY <1>1, FencedStatusType
<1> QED
  BY <1>2, ZeroBlocks DEF Completed, Card

LEMMA ClaimedType ==
  ASSUME NEW c \in Card, NEW r \in Runs
  PROVE  Claimed(c, r) \in Card
  BY DEF Claimed, Card, KanbanStatuses

LEMMA StaleReleasedType ==
  ASSUME NEW c \in Card
  PROVE  StaleReleased(c) \in Card
<1>1. WithoutClaim(c) \in Card
  BY WithoutClaimType
<1> QED
  BY <1>1 DEF StaleReleased, Card, KanbanStatuses

LEMMA BlockedType ==
  ASSUME NEW c \in Card, NEW kind \in BlockKinds, NEW seen \in 0..MaxBlocks
  PROVE  Blocked(c, kind, seen) \in Card
<1>1. WithoutClaim(c) \in Card
  BY WithoutClaimType
<1>2. (IF seen < MaxBlocks THEN seen + 1 ELSE seen) \in 0..MaxBlocks
  BY LimitAssumption
<1>3. (IF seen + 1 >= BlockRecurrenceLimit THEN "triage" ELSE "blocked") \in KanbanStatuses
  BY DEF KanbanStatuses
<1>4. CASE kind = "dependency"
  BY <1>1, <1>4 DEF Blocked, Card, KanbanStatuses
<1>5. CASE kind # "dependency"
  BY <1>1, <1>2, <1>3, <1>5 DEF Blocked, Card
<1> QED
  BY <1>4, <1>5

LEMMA UnblockedType ==
  ASSUME NEW c \in Card
  PROVE  Unblocked(c) \in Card
<1> DEFINE d == [c EXCEPT !.status = "ready", !.kind = "none"]
<1>1. d \in Card
  BY DEF Card, KanbanStatuses, BlockKinds
<1>2. [d EXCEPT !.count = 0] \in Card
  BY <1>1, ZeroBlocks DEF Card
<1>3. Unblocked(c) = [d EXCEPT !.count = 0]
  BY DEF Unblocked, Card
<1> QED
  BY <1>2, <1>3

LEMMA PromotedType ==
  ASSUME NEW c \in Card
  PROVE  Promoted(c) \in Card
  BY DEF Promoted, Card, KanbanStatuses, BlockKinds

\* The columns that are written alone.
LEMMA FlagType ==
  ASSUME NEW c \in Card, NEW b \in BOOLEAN, NEW d \in {"none", "future", "due", "late"}
  PROVE  /\ [c EXCEPT !.enabled = b] \in Card
         /\ [c EXCEPT !.expired = b] \in Card
         /\ [c EXCEPT !.due = d] \in Card
<1>1. [c EXCEPT !.enabled = b] \in Card
  BY DEF Card
<1>2. [c EXCEPT !.expired = b] \in Card
  BY DEF Card
<1>3. [c EXCEPT !.due = d] \in Card
  BY DEF Card
<1> QED
  BY <1>1, <1>2, <1>3

-----------------------------------------------------------------------------
(* The operations of the board keep the types of its tables.               *)

BoardType == card \in [Tasks -> Card] /\ links \subseteq Tasks \X Tasks

LEMMA WriteType ==
  ASSUME BoardType, NEW t \in Tasks, NEW c \in Card, Write(t, c) \/ WriteIfExists(t, c)
  PROVE  BoardType'
  BY DEF BoardType, Write, WriteIfExists, cardVars

LEMMA UnchangedType ==
  ASSUME BoardType, UNCHANGED cardVars
  PROVE  BoardType'
  BY DEF BoardType, cardVars

LEMMA SetStatusType ==
  ASSUME BoardType, NEW t \in Tasks, NEW s \in KanbanStatuses, SetStatus(t, s)
  PROVE  BoardType'
<1>1. WithStatus(card[t], s) \in Card
  BY WithStatusType DEF BoardType
<1> QED
  BY <1>1, WriteType DEF SetStatus

LEMMA ManualTransitionType ==
  ASSUME BoardType, NEW t \in Tasks, NEW s \in KanbanStatuses, ManualTransition(t, s)
  PROVE  BoardType'
<1>1. WithStatus(card[t], s) \in Card /\ Unblocked(card[t]) \in Card
  BY WithStatusType, UnblockedType DEF BoardType
<1> QED
  BY <1>1, WriteType DEF ManualTransition

LEMMA SweepType ==
  ASSUME BoardType, ReleaseStaleClaims \/ RecomputeReady
  PROVE  BoardType'
<1>1. \A t \in Tasks : StaleReleased(card[t]) \in Card /\ Promoted(card[t]) \in Card
  BY StaleReleasedType, PromotedType DEF BoardType
<1> QED
  BY <1>1 DEF BoardType, ReleaseStaleClaims, RecomputeReady

LEMMA BoardOpType ==
  ASSUME BoardType, NEW t \in Tasks, BoardOp(t)
  PROVE  BoardType'
<1>1. ASSUME NEW dated \in BOOLEAN, CreateTask(t, dated)
      PROVE  BoardType'
  <2> DEFINE c == [AbsentCard EXCEPT !.status  = IF dated THEN "scheduled" ELSE "ready",
                                     !.enabled = TRUE,
                                     !.due     = IF dated THEN "future" ELSE "none"]
  <2>1. c \in Card
    BY CreatedCardType
  <2>2. Write(t, c)
    BY <1>1 DEF CreateTask
  <2> QED
    BY <2>1, <2>2, WriteType
<1>2. CASE DeleteTask(t)
  BY <1>2, DeletedCardType, WriteType DEF DeleteTask
<1>3. CASE UnblockTask(t)
  <2>1. Unblocked(card[t]) \in Card
    BY UnblockedType DEF BoardType
  <2> QED
    BY <1>3, <2>1, WriteType DEF UnblockTask
<1>4. ASSUME NEW p \in Tasks, AddDependency(p, t) \/ RemoveDependency(p, t)
      PROVE  BoardType'
  BY <1>4 DEF BoardType, AddDependency, RemoveDependency
<1>5. "archived" \in KanbanStatuses /\ {"done", "ready", "triage", "todo"} \subseteq KanbanStatuses
  BY DEF KanbanStatuses
<1> QED
  BY <1>1, <1>2, <1>3, <1>4, <1>5, SetStatusType, ManualTransitionType DEF BoardOp

-----------------------------------------------------------------------------
(* Runs and the scheduler.  A coroutine past its start has a task, and so  *)
(* has the scheduler while it waits for a run or retires a task.           *)

RunType ==
  /\ run \in [Runs -> Run]
  /\ \A r \in Runs : run[r].pc # "idle" => run[r].task \in Tasks

SchedType ==
  /\ sched \in Scheduler
  /\ sched.pc \in {"waiting", "disable", "todo"} => sched.cur \in Tasks

HandlerType ==
  /\ handler \in [Tasks -> {"none", "disable", "enable", "ready", "recompute"}]
  /\ chat \in Chat

TypeInv == BoardType /\ RunType /\ SchedType /\ HandlerType

LEMMA FreshRunType == FreshRun \in Run
  BY ZeroBlocks DEF FreshRun, Run, RunRow, RunPC

LEMMA GotoType ==
  ASSUME RunType, NEW r \in Runs, NEW pc \in RunPC, ~At(r, "idle"), Goto(r, pc)
  PROVE  RunType'
  BY DEF RunType, Goto, At, Run

LEMMA MarkType ==
  ASSUME RunType, NEW r \in Runs, NEW pc \in RunPC, NEW row \in RunRow, ~At(r, "idle"),
         run' = [run EXCEPT ![r].pc = pc, ![r].row = row]
  PROVE  RunType'
  BY DEF RunType, At, Run

LEMMA WakeType ==
  ASSUME SchedType, NEW r \in Runs, WakeScheduler(r)
  PROVE  SchedType'
  BY DEF SchedType, WakeScheduler, Scheduler

LEMMA DiscardType ==
  ASSUME RunType, SchedType, NEW r \in Runs, Discard(r)
  PROVE  RunType' /\ SchedType'
<1>1. RunType'
  BY FreshRunType DEF RunType, Discard, FreshRun
<1>2. SchedType'
  BY WakeType DEF Discard
<1> QED
  BY <1>1, <1>2

LEMMA EndType ==
  ASSUME RunType, SchedType, NEW r \in Runs, NEW row \in RunRow, ~At(r, "idle"), End(r, row)
  PROVE  RunType' /\ SchedType'
<1>1. RunType'
  BY DEF RunType, End, At, Run, RunPC
<1>2. SchedType'
  BY WakeType DEF End
<1> QED
  BY <1>1, <1>2

LEMMA StartType ==
  ASSUME RunType, NEW r \in Runs, NEW t \in Tasks, Start(r, t)
  PROVE  RunType'
<1>1. [FreshRun EXCEPT !.task = t, !.pc = "starting"] \in Run
  BY FreshRunType DEF Run, RunPC
<1>2. [FreshRun EXCEPT !.task = t, !.pc = "starting"].task = t
  BY FreshRunType DEF Run
<1> QED
  BY <1>1, <1>2 DEF RunType, Start

LEMMA RunStepType ==
  ASSUME TypeInv, NEW r \in Runs, RunStep(r) \/ AgentStep(r) \/ ResumeRun(r) \/ CancelRun(r)
  PROVE  TypeInv'
<1> USE DEF TypeInv
<1> DEFINE t == run[r].task
<1>0. ASSUME ~At(r, "idle")
      PROVE  t \in Tasks /\ card[t] \in Card
  BY <1>0 DEF At, RunType, BoardType
<1>a. run[r] \in Run /\ run[r].row \in RunRow /\ run[r].seen \in 0..MaxBlocks
  BY DEF RunType, Run
<1>b. UNCHANGED <<handler, chat>> => HandlerType'
  BY DEF HandlerType
<1>c. UNCHANGED sched => SchedType'
  BY DEF SchedType
<1>d. UNCHANGED run => RunType'
  BY DEF RunType
<1>e. "person" \in BlockKinds /\ BlockKinds \ {"none"} \subseteq BlockKinds
  BY DEF BlockKinds
<1>1. CASE BudgetSpent(r)
  <2>1. ~At(r, "idle")
    BY <1>1 DEF BudgetSpent, At
  <2>2. card[t].count \in 0..MaxBlocks
    BY <1>0, <2>1 DEF Card
  <2>3. RunType'
    BY <1>1, <2>1, <2>2 DEF BudgetSpent, RunType, At, Run, RunPC
  <2> QED
    BY <1>1, <2>3, <1>b, <1>c, UnchangedType DEF BudgetSpent, HandlersIdle, cardVars
<1>2. CASE BudgetBlocks(r)
  <2>1. ~At(r, "idle")
    BY <1>2 DEF BudgetBlocks, At
  <2>2. BoardType'
    BY <1>2, <2>1, <1>0, <1>a, <1>e, BlockedType, WriteType DEF BudgetBlocks
  <2> QED
    BY <1>2, <2>2, <1>b, DiscardType DEF BudgetBlocks, HandlersIdle
<1>3. CASE ClaimTask(r)
  <2>1. ~At(r, "idle")
    BY <1>3 DEF ClaimTask, At
  <2>2. BoardType'
    BY <1>3, <2>1, <1>0, ClaimedType, WriteType DEF ClaimTask
  <2>3. RunType'
    BY <1>3, <2>1, GotoType DEF ClaimTask, RunPC
  <2> QED
    BY <1>3, <2>2, <2>3, <1>b, <1>c DEF ClaimTask, HandlersIdle
<1>4. CASE ClaimRefused(r)
  BY <1>4, <1>b, DiscardType, UnchangedType DEF ClaimRefused, HandlersIdle
<1>5. CASE ClaimRaises(r) \/ EngineFails(r) \/ CompletionRaises(r) \/ ReportFails(r)
           \/ EnsureRefused(r) \/ ReserveRaises(r)
  <2>1. ~At(r, "idle")
    BY <1>5 DEF ClaimRaises, EngineFails, CompletionRaises, ReportFails, EnsureRefused,
                ReserveRaises, At
  <2>2. \E pc \in RunPC : Goto(r, pc)
    BY <1>5 DEF ClaimRaises, EngineFails, CompletionRaises, ReportFails, EnsureRefused,
                ReserveRaises, RunPC
  <2>3. RunType'
    <3>1. PICK pc \in RunPC : Goto(r, pc)
      BY <2>2
    <3> QED
      BY <2>1, <3>1, GotoType
  <2>4. UNCHANGED <<card, links, sched, handler, chat>>
    BY <1>5 DEF ClaimRaises, EngineFails, CompletionRaises, ReportFails, EnsureRefused,
                ReserveRaises, HandlersIdle
  <2> QED
    BY <2>3, <2>4, <1>b, <1>c, UnchangedType DEF cardVars
<1>6. CASE InsertRun(r)
  <2>1. RunType'
    BY <1>6, MarkType DEF InsertRun, At, RunPC, RunRow
  <2> QED
    BY <1>6, <2>1, <1>b, <1>c, UnchangedType DEF InsertRun, HandlersIdle, cardVars
<1>7. CASE Interrupted(r) \/ CompletionDropped(r) \/ Report(r) \/ UndoReservation(r)
  <2>1. ~At(r, "idle")
    BY <1>7 DEF Interrupted, CompletionDropped, Report, UndoReservation, At
  <2>2. PICK row \in RunRow : End(r, row)
    BY <1>7, <1>a DEF Interrupted, CompletionDropped, Report, UndoReservation, RunRow
  <2>3. UNCHANGED cardVars /\ UNCHANGED <<handler, chat>>
    BY <1>7 DEF Interrupted, CompletionDropped, Report, UndoReservation, HandlersIdle
  <2> QED
    BY <2>1, <2>2, <2>3, <1>b, EndType, UnchangedType
<1>8. CASE CompleteRun(r)
  <2>1. ~At(r, "idle")
    BY <1>8 DEF CompleteRun, At
  <2>2. BoardType'
    BY <1>8, <2>1, <1>0, CompletedType, WriteType DEF CompleteRun
  <2>3. RunType'
    BY <1>8, <2>1, MarkType DEF CompleteRun, RunPC, RunRow
  <2> QED
    BY <1>8, <2>2, <2>3, <1>b, <1>c DEF CompleteRun, HandlersIdle
<1>9. CASE PromoteChildren(r)
  <2>1. ~At(r, "idle")
    BY <1>9 DEF PromoteChildren, At
  <2>2. RunType'
    BY <1>9, <2>1, GotoType DEF PromoteChildren, RunPC
  <2> QED
    BY <1>9, <2>2, <1>b, <1>c, SweepType DEF PromoteChildren, HandlersIdle
<1>10. CASE FinishError(r)
  <2>1. ~At(r, "idle")
    BY <1>10 DEF FinishError, At
  <2>2. card[t].count \in 0..MaxBlocks
    BY <1>0, <2>1 DEF Card
  <2>3. RunType'
    BY <1>10, <2>1, <2>2, <1>a DEF FinishError, RunType, At, Run, RunPC, RunRow
  <2> QED
    BY <1>10, <2>3, <1>b, <1>c, UnchangedType DEF FinishError, HandlersIdle, cardVars
<1>11. CASE BlockOwnCard(r)
  <2>1. ~At(r, "idle")
    BY <1>11 DEF BlockOwnCard, At
  <2>2. Blocked(card[t], "person", run[r].seen) \in Card
    BY <2>1, <1>0, <1>a, <1>e, BlockedType
  <2>3. BoardType'
    BY <1>11, <2>1, <2>2, <1>0, WriteType, UnchangedType DEF BlockOwnCard
  <2> QED
    BY <1>11, <2>1, <2>3, <1>a, <1>b, EndType DEF BlockOwnCard, HandlersIdle
<1>12. CASE EnsureTaskClaim(r)
  <2>1. ~At(r, "idle")
    BY <1>12 DEF EnsureTaskClaim, At
  <2>2. BoardType'
    BY <1>12, <2>1, <1>0, ClaimedType, WriteType DEF EnsureTaskClaim
  <2>3. RunType'
    BY <1>12, <2>1, GotoType DEF EnsureTaskClaim, RunPC
  <2> QED
    BY <1>12, <2>2, <2>3, <1>b, <1>c DEF EnsureTaskClaim, HandlersIdle
<1>13. CASE ResumeRun(r)
  <2>1. RunType'
    BY <1>13 DEF ResumeRun, RunType, At, Run, RunPC, RunRow
  <2> QED
    BY <1>13, <2>1, <1>b, <1>c, UnchangedType DEF ResumeRun, HandlersIdle, cardVars
<1>14. CASE CancelRun(r)
  <2>1. ~At(r, "idle")
    BY <1>14 DEF CancelRun, At
  <2>2. card[t].count \in 0..MaxBlocks
    BY <1>0, <2>1 DEF Card
  <2>3. BoardType'
    BY <1>14, <2>1, <2>2, <1>0, <1>e, BlockedType, WriteType DEF CancelRun
  <2>4. RunType'
    BY <1>14 DEF CancelRun, RunType, At, Run, RunRow
  <2> QED
    BY <1>14, <2>3, <2>4, <1>b, <1>c DEF CancelRun, HandlersIdle
<1>15. CASE HeartbeatClaim(r)
  <2>1. t \in Tasks /\ card[t] \in Card
    BY <1>15, <1>0 DEF HeartbeatClaim, At
  <2>2. BoardType'
    BY <1>15, <2>1, FlagType, WriteType DEF HeartbeatClaim
  <2> QED
    BY <1>15, <2>2, <1>b, <1>c, <1>d DEF HeartbeatClaim, HandlersIdle
<1>16. ASSUME NEW kind \in BlockKinds \ {"none"}, SelfBlock(r, kind)
       PROVE  TypeInv'
  <2>1. ~At(r, "idle")
    BY <1>16 DEF SelfBlock, At
  <2>2. card[t].count \in 0..MaxBlocks
    BY <1>0, <2>1 DEF Card
  <2>3. BoardType'
    BY <1>16, <2>1, <2>2, <1>0, <1>e, BlockedType, WriteType DEF SelfBlock
  <2> QED
    BY <1>16, <2>3, <1>b, <1>c, <1>d DEF SelfBlock, HandlersIdle
<1>17. ASSUME NEW s \in KanbanStatuses, SelfMove(r, s)
       PROVE  TypeInv'
  <2>1. ~At(r, "idle")
    BY <1>17 DEF SelfMove, At
  <2>2. Unblocked(card[t]) \in Card /\ FencedStatus(card[t], t, s) \in Card
    BY <2>1, <1>0, UnblockedType, FencedStatusType
  <2>3. BoardType'
    BY <1>17, <2>1, <2>2, <1>0, WriteType DEF SelfMove
  <2> QED
    BY <1>17, <2>3, <1>b, <1>c, <1>d DEF SelfMove, HandlersIdle
<1> QED
  BY <1>1, <1>2, <1>3, <1>4, <1>5, <1>6, <1>7, <1>8, <1>9, <1>10, <1>11, <1>12, <1>13,
     <1>14, <1>15, <1>16, <1>17 DEF RunStep, AgentStep

-----------------------------------------------------------------------------
(* The scheduler, the handlers, the requests, time and crashes.            *)

LEMMA TickStepType ==
  ASSUME TypeInv, TickStep
  PROVE  TypeInv'
<1> USE DEF TypeInv
<1>a. UNCHANGED <<handler, chat>> => HandlerType'
  BY DEF HandlerType
<1>b. UNCHANGED run => RunType'
  BY DEF RunType
<1>1. CASE TickRelease \/ TickRecompute
  <2>1. SchedType'
    BY <1>1 DEF TickRelease, TickRecompute, SchedType, Scheduler
  <2> QED
    BY <1>1, <2>1, <1>a, <1>b, SweepType DEF TickRelease, TickRecompute, HandlersIdle
<1>2. CASE TickList \/ TickEnd
  <2>1. CASE TickList
    <3>1. DueTasks \in SUBSET Tasks
      BY DEF DueTasks
    <3>2. {t \in DueTasks : Trigger[t] = "interval" /\ card[t].due = "late"} \in SUBSET Tasks
      BY <3>1
    <3> QED
      BY <2>1, <3>1, <3>2, <1>a, <1>b, UnchangedType
         DEF TickList, HandlersIdle, cardVars, SchedType, Scheduler
  <2>2. CASE TickEnd
    BY <2>2, <1>a, <1>b, UnchangedType
       DEF TickEnd, HandlersIdle, cardVars, SchedType, Scheduler, Asleep
  <2> QED
    BY <1>2, <2>1, <2>2
<1>3. CASE TickDisable
  <2>1. sched.cur \in Tasks
    BY <1>3 DEF TickDisable, SchedType
  <2>2. BoardType'
    BY <1>3, <2>1, FlagType, WriteType DEF TickDisable, BoardType
  <2>3. SchedType'
    BY <1>3, <2>1 DEF TickDisable, SchedType, Scheduler
  <2> QED
    BY <1>3, <2>2, <2>3, <1>a, <1>b DEF TickDisable, HandlersIdle
<1>4. CASE TickSetTodo
  <2>1. sched.cur \in Tasks /\ "todo" \in KanbanStatuses
    BY <1>4 DEF TickSetTodo, SchedType, KanbanStatuses
  <2>2. BoardType'
    BY <1>4, <2>1, SetStatusType DEF TickSetTodo
  <2>3. SchedType'
    BY <1>4 DEF TickSetTodo, SchedType, Scheduler
  <2> QED
    BY <1>4, <2>2, <2>3, <1>a, <1>b DEF TickSetTodo, HandlersIdle
<1>5. ASSUME NEW t \in Tasks, TickSkip(t)
      PROVE  TypeInv'
  <2>1. BoardType'
    BY <1>5, FlagType, WriteType DEF TickSkip, BoardType
  <2>2. SchedType'
    BY <1>5 DEF TickSkip, Served, SchedType, Scheduler
  <2> QED
    BY <1>5, <2>1, <2>2, <1>a, <1>b DEF TickSkip, HandlersIdle
<1>6. ASSUME NEW t \in Tasks, TickOutOfRuns(t)
      PROVE  TypeInv'
  <2>1. SchedType'
    BY <1>6 DEF TickOutOfRuns, Served, SchedType, Scheduler
  <2> QED
    BY <1>6, <2>1, <1>a, <1>b, UnchangedType DEF TickOutOfRuns, HandlersIdle, cardVars
<1>7. ASSUME NEW t \in Tasks, NEW r \in Runs, TickRun(t, r)
      PROVE  TypeInv'
  <2>1. SchedType'
    BY <1>7 DEF TickRun, Served, SchedType, Scheduler
  <2>2. RunType'
    BY <1>7, StartType DEF TickRun
  <2> QED
    BY <1>7, <2>1, <2>2, <1>a, UnchangedType DEF TickRun, HandlersIdle
<1> QED
  BY <1>1, <1>2, <1>3, <1>4, <1>5, <1>6, <1>7 DEF TickStep

LEMMA HandlerStepType ==
  ASSUME TypeInv, HandlerStep
  PROVE  TypeInv'
<1> USE DEF TypeInv
<1>a. UNCHANGED run => RunType'
  BY DEF RunType
<1>b. UNCHANGED sched => SchedType'
  BY DEF SchedType
<1>c. NoChat \in Chat
  BY ZeroBlocks DEF NoChat, Chat, BlockKinds
<1>1. CASE ChatBlockWrite
  <2>1. chat.task \in Tasks /\ chat.kind \in BlockKinds /\ chat.seen \in 0..MaxBlocks
    BY <1>1 DEF ChatBlockWrite, HandlerType, Chat
  <2>2. BoardType'
    BY <1>1, <2>1, BlockedType, WriteType DEF ChatBlockWrite, BoardType
  <2>3. HandlerType'
    BY <1>1, <1>c DEF ChatBlockWrite, HandlerType
  <2> QED
    BY <1>1, <2>2, <2>3, <1>a, <1>b DEF ChatBlockWrite
<1>2. ASSUME NEW t \in Tasks,
             SyncDisabled(t) \/ SyncRead(t) \/ SyncEnabled(t) \/ ApproveRecompute(t)
      PROVE  TypeInv'
  <2>1. HandlerType' /\ UNCHANGED <<run, sched>>
    BY <1>2 DEF SyncDisabled, SyncRead, SyncEnabled, ApproveRecompute, HandlerType
  <2>2. "todo" \in KanbanStatuses /\ "ready" \in KanbanStatuses
    BY DEF KanbanStatuses
  <2>3. BoardType'
    BY <1>2, <2>2, SetStatusType, SweepType, UnchangedType
       DEF SyncDisabled, SyncRead, SyncEnabled, ApproveRecompute, cardVars
  <2> QED
    BY <2>1, <2>3, <1>a, <1>b
<1> QED
  BY <1>1, <1>2 DEF HandlerStep

LEMMA RequestsType ==
  ASSUME TypeInv, Requests
  PROVE  TypeInv'
<1> USE DEF TypeInv
<1>a. UNCHANGED run => RunType'
  BY DEF RunType
<1>b. UNCHANGED sched => SchedType'
  BY DEF SchedType
<1>c. UNCHANGED <<handler, chat>> => HandlerType'
  BY DEF HandlerType
<1>1. ASSUME NEW t \in Tasks, Board(t)
      PROVE  TypeInv'
  BY <1>1, <1>a, <1>b, <1>c, BoardOpType DEF Board, HandlersIdle
<1>2. ASSUME NEW t \in Tasks, Approve(t)
      PROVE  TypeInv'
  <2>1. WithStatus(card[t], "done") \in Card
    BY WithStatusType DEF BoardType, KanbanStatuses
  <2>2. BoardType'
    BY <1>2, <2>1, WriteType DEF Approve, ApproveReview
  <2>3. HandlerType'
    BY <1>2 DEF Approve, HandlerType
  <2> QED
    BY <1>2, <2>2, <2>3, <1>a, <1>b DEF Approve
<1>3. ASSUME NEW t \in Tasks, NEW on \in BOOLEAN, SetEnabled(t, on)
      PROVE  TypeInv'
  <2>1. BoardType'
    BY <1>3, FlagType, WriteType DEF SetEnabled, BoardType
  <2>2. HandlerType'
    BY <1>3 DEF SetEnabled, HandlerType
  <2> QED
    BY <1>3, <2>1, <2>2, <1>a, <1>b DEF SetEnabled
<1>4. ASSUME NEW t \in Tasks, NEW kind \in BlockKinds \ {"none"}, ChatBlockRead(t, kind)
      PROVE  TypeInv'
  <2>1. card[t].count \in 0..MaxBlocks
    BY DEF BoardType, Card
  <2>2. HandlerType'
    BY <1>4, <2>1 DEF ChatBlockRead, HandlerType, Chat
  <2> QED
    BY <1>4, <2>2, <1>a, <1>b, UnchangedType DEF ChatBlockRead, cardVars
<1>5. ASSUME NEW r \in Runs, NEW t \in Tasks, RunNow(r, t)
      PROVE  TypeInv'
  BY <1>5, <1>b, <1>c, StartType, UnchangedType DEF RunNow, HandlersIdle, cardVars
<1>6. ASSUME NEW r \in Runs, ResumeRun(r) \/ CancelRun(r)
      PROVE  TypeInv'
  BY <1>6, RunStepType
<1> QED
  BY <1>1, <1>2, <1>3, <1>4, <1>5, <1>6 DEF Requests

LEMMA ClockType ==
  ASSUME TypeInv, NEW t \in Tasks, ClockReaches(t) \/ ClaimExpires(t)
  PROVE  TypeInv'
<1> USE DEF TypeInv
<1>1. UNCHANGED <<run, sched, handler, chat>>
  BY DEF ClockReaches, ClaimExpires, HandlersIdle
<1>a. card[t] \in Card
  BY DEF BoardType
<1>2. ASSUME ClockReaches(t)
      PROVE  BoardType'
  <2> DEFINE d == IF card[t].due = "future" THEN "due" ELSE "late"
  <2>1. [card[t] EXCEPT !.due = d] \in Card
    BY <1>a DEF Card
  <2>2. Write(t, [card[t] EXCEPT !.due = d])
    BY <1>2 DEF ClockReaches
  <2> QED
    BY <2>1, <2>2, WriteType
<1>3. ASSUME ClaimExpires(t)
      PROVE  BoardType'
  <2>1. [card[t] EXCEPT !.expired = TRUE] \in Card
    BY <1>a DEF Card
  <2> QED
    BY <1>3, <2>1, WriteType DEF ClaimExpires
<1> QED
  BY <1>1, <1>2, <1>3 DEF RunType, SchedType, HandlerType

LEMMA CrashType ==
  ASSUME TypeInv, Crash
  PROVE  TypeInv'
<1> USE DEF TypeInv
<1>1. BoardType'
  BY UnchangedType DEF Crash
<1>2. RunType'
  BY FreshRunType DEF Crash, RunType, Run, RunPC, Live, FreshRun
<1>3. SchedType'
  BY DEF Crash, SchedType, Scheduler, Asleep
<1>4. HandlerType'
  BY ZeroBlocks DEF Crash, HandlerType, Chat, NoChat, BlockKinds
<1> QED
  BY <1>1, <1>2, <1>3, <1>4

LEMMA InitType == Init => TypeInv
<1> SUFFICES ASSUME Init
             PROVE  TypeInv
  OBVIOUS
<1>1. BoardType
  BY AbsentCardType DEF Init, BoardType
<1>2. RunType
  BY FreshRunType DEF Init, RunType, FreshRun
<1>3. SchedType
  BY DEF Init, SchedType, Scheduler, Asleep
<1>4. HandlerType
  BY ZeroBlocks DEF Init, HandlerType, Chat, NoChat, BlockKinds
<1> QED
  BY <1>1, <1>2, <1>3, <1>4 DEF TypeInv

LEMMA NextType == TypeInv /\ [Next]_vars => TypeInv'
<1> SUFFICES ASSUME TypeInv, [Next]_vars
             PROVE  TypeInv'
  OBVIOUS
<1>1. CASE UNCHANGED vars
  BY <1>1, UnchangedType DEF TypeInv, RunType, SchedType, HandlerType, vars, cardVars
<1>2. CASE Next
  BY <1>2, RunStepType, TickStepType, HandlerStepType, RequestsType, ClockType, CrashType
     DEF Next
<1> QED
  BY <1>1, <1>2

LEMMA TypeInvariant == Spec => []TypeInv
  BY InitType, NextType, PTL DEF Spec

\* Every row of the four tables, and every local of a coroutine, keeps its
\* domain in every execution of the scheduler, the runs and the handlers.
THEOREM TypeCorrect == Spec => []TypeOK
<1>1. TypeInv => TypeOK
  BY DEF TypeInv, BoardType, RunType, SchedType, HandlerType, TypeOK
<1> QED
  BY <1>1, TypeInvariant, PTL

-----------------------------------------------------------------------------
(* Links.                                                                  *)

\* _depende_de returns the parents and is closed under parents.
LEMMA DependeDeClosed ==
  ASSUME NEW p \in Tasks
  PROVE  /\ DependeDe(p) \subseteq Tasks
         /\ Parents(p) \subseteq DependeDe(p)
         /\ \A a \in DependeDe(p) : Parents(a) \subseteq DependeDe(p)
PROOF
  <1>1. \A t : Parents(t) \subseteq Tasks
    BY DEF Parents
  <1>2. DependeDe(p) \subseteq Tasks /\ Parents(p) \subseteq DependeDe(p)
    BY <1>1 DEF DependeDe
  <1>3. ASSUME NEW a \in DependeDe(p), NEW b \in Parents(a)
        PROVE  b \in DependeDe(p)
    <2>1. b \in Tasks
      BY <1>1, <1>3
    <2>2. ASSUME NEW S \in SUBSET Tasks, Parents(p) \subseteq S,
                 \A s \in S : Parents(s) \subseteq S
          PROVE  b \in S
      <3>1. a \in S
        BY <1>3, <2>2 DEF DependeDe
      <3> QED
        BY <1>3, <2>2, <3>1
    <2> QED
      BY <2>1, <2>2 DEF DependeDe
  <1> QED
    BY <1>2, <1>3

\* A set that meets what p depends on has its sink there; one that does not
\* has the sink it had without the new link.
LEMMA AddKeepsAcyclic ==
  ASSUME LinksAcyclic, NEW p \in Tasks, NEW c \in Tasks, AddDependency(p, c)
  PROVE  LinksAcyclic'
PROOF
  <1> DEFINE D == DependeDe(p) \cup {p}
             After(t) == {q \in Tasks : <<q, t>> \in links'}
  <1>1. /\ D \subseteq Tasks /\ c \notin D
        /\ \A a \in D : Parents(a) \subseteq D
    BY DependeDeClosed DEF AddDependency
  <1>2. /\ \A t \in Tasks : t # c => After(t) = Parents(t)
        /\ After(c) \subseteq Parents(c) \cup {p}
    BY DEF AddDependency, Parents
  <1> HIDE DEF D, After
  <1>3. ASSUME NEW S \in (SUBSET Tasks) \ {{}}
        PROVE  \E t \in S : After(t) \cap S = {}
    <2>1. CASE S \cap D # {}
      <3>1. PICK t \in S \cap D : Parents(t) \cap (S \cap D) = {}
        BY <1>1, <2>1 DEF LinksAcyclic
      <3>2. t # c /\ Parents(t) \subseteq D /\ t \in Tasks
        BY <1>1, <3>1
      <3> QED
        BY <1>2, <3>1, <3>2
    <2>2. CASE S \cap D = {}
      <3>1. PICK t \in S : Parents(t) \cap S = {}
        BY DEF LinksAcyclic
      <3>2. p \notin S
        BY <2>2 DEF D
      <3>3. t \in Tasks
        BY <3>1
      <3> QED
        BY <1>2, <3>1, <3>2, <3>3
    <2> QED
      BY <2>1, <2>2
  <1>4. \A t : Parents(t)' = After(t)
    BY DEF Parents, After
  <1> QED
    BY <1>3, <1>4 DEF LinksAcyclic

LEMMA RemoveKeepsAcyclic ==
  ASSUME LinksAcyclic, links' \subseteq links
  PROVE  LinksAcyclic'
PROOF
  <1>1. \A t : Parents(t)' \subseteq Parents(t)
    BY DEF Parents
  <1>2. ASSUME NEW S \in (SUBSET Tasks) \ {{}}
        PROVE  \E t \in S : Parents(t)' \cap S = {}
    <2>1. PICK t \in S : Parents(t) \cap S = {}
      BY DEF LinksAcyclic
    <2> QED
      BY <1>1, <2>1
  <1> QED
    BY <1>2 DEF LinksAcyclic

\* Only the handlers of links write links.
LEMMA LinksWritten ==
  ASSUME [Next]_vars
  PROVE  \/ links' = links
         \/ \E p, t \in Tasks : AddDependency(p, t) \/ RemoveDependency(p, t)
PROOF
  <1> USE DEF Write, WriteIfExists, SetStatus, cardVars
  <1>1. ASSUME NEW r \in Runs, RunStep(r) \/ AgentStep(r) \/ ResumeRun(r) \/ CancelRun(r)
        PROVE  links' = links
    <2>1. CASE RunStep(r)
      BY <2>1 DEF RunStep, BudgetSpent, BudgetBlocks, ClaimTask, ClaimRefused,
         ClaimRaises, InsertRun, Interrupted, EngineFails, CompleteRun,
         CompletionRaises, CompletionDropped, PromoteChildren, RecomputeReady, Report,
         ReportFails, FinishError, BlockOwnCard, EnsureTaskClaim, EnsureRefused,
         ReserveRaises, UndoReservation
    <2>2. CASE AgentStep(r) \/ ResumeRun(r) \/ CancelRun(r)
      BY <2>2 DEF AgentStep, HeartbeatClaim, SelfBlock, SelfMove, ResumeRun, CancelRun
    <2> QED
      BY <1>1, <2>1, <2>2
  <1>2. TickStep => links' = links
    BY DEF TickStep, TickRelease, TickRecompute, ReleaseStaleClaims, RecomputeReady,
       TickList, TickDisable, TickSetTodo, TickEnd, TickSkip, TickOutOfRuns, TickRun
  <1>3. HandlerStep => links' = links
    BY DEF HandlerStep, ChatBlockWrite, SyncDisabled, SyncRead, SyncEnabled,
       ApproveRecompute, RecomputeReady
  <1>4. ASSUME NEW t \in Tasks, BoardOp(t)
        PROVE  \/ links' = links
               \/ \E p \in Tasks : AddDependency(p, t) \/ RemoveDependency(p, t)
    BY <1>4 DEF BoardOp, CreateTask, ManualTransition, UnblockTask, DeleteTask
  <1>5. ASSUME NEW t \in Tasks, \/ Approve(t)
                                \/ \E on \in BOOLEAN : SetEnabled(t, on)
                                \/ \E kind \in BlockKinds \ {"none"} : ChatBlockRead(t, kind)
                                \/ \E r \in Runs : RunNow(r, t)
                                \/ ClockReaches(t) \/ ClaimExpires(t)
        PROVE  links' = links
    BY <1>5 DEF Approve, ApproveReview, SetEnabled, ChatBlockRead, RunNow,
       ClockReaches, ClaimExpires
  <1>6. Crash => links' = links
    BY DEF Crash
  <1>7. UNCHANGED vars => links' = links
    BY DEF vars
  <1> QED
    BY <1>1, <1>2, <1>3, <1>4, <1>5, <1>6, <1>7 DEF Next, Requests, Board

\* The dependency graph of the board stays acyclic: the cycle check and the
\* insert of add_dependency are one transaction, and it looks through any
\* number of intermediate cards.
THEOREM LinksStayAcyclic == Spec => []LinksAcyclic
PROOF
  <1>1. Init => LinksAcyclic
    BY DEF Init, LinksAcyclic, Parents
  <1>2. LinksAcyclic /\ [Next]_vars => LinksAcyclic'
    <2> SUFFICES ASSUME LinksAcyclic, [Next]_vars PROVE LinksAcyclic'
      OBVIOUS
    <2>1. CASE links' = links
      BY <2>1, RemoveKeepsAcyclic
    <2>2. ASSUME NEW p \in Tasks, NEW t \in Tasks, AddDependency(p, t)
          PROVE  LinksAcyclic'
      BY <2>2, AddKeepsAcyclic
    <2>3. ASSUME NEW p \in Tasks, NEW t \in Tasks, RemoveDependency(p, t)
          PROVE  LinksAcyclic'
      BY <2>3, RemoveKeepsAcyclic DEF RemoveDependency
    <2> QED
      BY <2>1, <2>2, <2>3, LinksWritten
  <1> QED
    BY <1>1, <1>2, PTL DEF Spec

-----------------------------------------------------------------------------
(* Cards.  A running card is claimed, a blocked one is below the limit.    *)

CardOK(c) ==
  /\ c.status = "running" => c.claim # NoRun
  /\ c.status = "blocked" => c.count \in 1..(BlockRecurrenceLimit - 1)

\* A write that acquires no claim.
Kept(c, d) == CardOK(d) /\ d.claim \in {c.claim, NoRun}

CardsOK == \A t \in Tasks : CardOK(card[t])

CardsKept == \A t \in Tasks : Kept(card[t], card'[t])

LEMMA WithStatusKept ==
  ASSUME NEW c \in Card, CardOK(c), NEW s \in KanbanStatuses \ {"running", "blocked"}
  PROVE  Kept(c, WithStatus(c, s))
PROOF
  <1>1. WithStatus(c, s).status = s /\ WithStatus(c, s).claim = c.claim
    BY DEF WithStatus, Card
  <1> QED
    BY <1>1 DEF Kept, CardOK

LEMMA WithoutClaimFields ==
  ASSUME NEW c \in Card
  PROVE  /\ WithoutClaim(c) \in Card
         /\ WithoutClaim(c).claim = NoRun
         /\ WithoutClaim(c).status = c.status
         /\ WithoutClaim(c).count = c.count
  BY DEF WithoutClaim, Card

LEMMA FencedStatusKept ==
  ASSUME NEW c \in Card, NEW t \in Tasks,
         NEW s \in KanbanStatuses \ {"running", "blocked"}
  PROVE  /\ FencedStatus(c, t, s) \in Card
         /\ Kept(c, FencedStatus(c, t, s))
         /\ FencedStatus(c, t, s).claim = NoRun
         /\ FencedStatus(c, t, s).status = s
PROOF
  <1>1. WithStatus(c, s) \in Card /\ WithStatus(c, s).status = s
    BY WithStatusType DEF WithStatus, Card
  <1>2. FencedStatus(c, t, s).status = s /\ FencedStatus(c, t, s).claim = NoRun
    BY <1>1, WithoutClaimFields DEF FencedStatus, Card
  <1> QED
    BY <1>2, FencedStatusType DEF Kept, CardOK

LEMMA CompletedKept ==
  ASSUME NEW c \in Card, NEW t \in Tasks
  PROVE  Kept(c, Completed(c, t)) /\ Completed(c, t).claim = NoRun
PROOF
  <1>1. Target(t) \in KanbanStatuses \ {"running", "blocked"}
    BY DEF Target, KanbanStatuses
  <1>2. FencedStatus(c, t, Target(t)) \in Card
        /\ FencedStatus(c, t, Target(t)).status = Target(t)
        /\ FencedStatus(c, t, Target(t)).claim = NoRun
    BY <1>1, FencedStatusKept
  <1>3. Completed(c, t).status = Target(t) /\ Completed(c, t).claim = NoRun
    BY <1>2 DEF Completed, Card
  <1> QED
    BY <1>1, <1>3 DEF Kept, CardOK

LEMMA ClaimedOK ==
  ASSUME NEW c \in Card, NEW r \in Runs
  PROVE  CardOK(Claimed(c, r)) /\ Claimed(c, r).claim = r
  BY NoRunAssumption DEF Claimed, Card, CardOK

LEMMA StaleReleasedKept ==
  ASSUME NEW c \in Card
  PROVE  Kept(c, StaleReleased(c))
PROOF
  <1>1. StaleReleased(c).status = "ready" /\ StaleReleased(c).claim = NoRun
    BY WithoutClaimFields DEF StaleReleased, Card
  <1> QED
    BY <1>1 DEF Kept, CardOK

\* block_task escalates as soon as the count would reach the limit.
LEMMA BlockedKept ==
  ASSUME NEW c \in Card, NEW kind \in BlockKinds, NEW seen \in 0..MaxBlocks
  PROVE  Kept(c, Blocked(c, kind, seen)) /\ Blocked(c, kind, seen).claim = NoRun
PROOF
  <1> DEFINE w == WithoutClaim(c)
             n == IF seen < MaxBlocks THEN seen + 1 ELSE seen
             s == IF seen + 1 >= BlockRecurrenceLimit THEN "triage" ELSE "blocked"
  <1>1. w \in Card /\ w.claim = NoRun
    BY WithoutClaimFields
  <1> HIDE DEF w
  <1>2. CASE kind = "dependency"
    <2>1. Blocked(c, kind, seen) = [w EXCEPT !.status = "todo", !.kind = kind]
      BY <1>2 DEF Blocked, w
    <2>2. Blocked(c, kind, seen).status = "todo" /\ Blocked(c, kind, seen).claim = NoRun
      BY <1>1, <2>1 DEF Card
    <2> QED
      BY <2>2 DEF Kept, CardOK
  <1>3. CASE kind # "dependency"
    <2>1. Blocked(c, kind, seen) = [w EXCEPT !.status = s, !.kind = kind, !.count = n]
      BY <1>3 DEF Blocked, w
    <2>2. s = "blocked" => n \in 1..(BlockRecurrenceLimit - 1)
      BY LimitAssumption
    <2>3. s # "running"
      OBVIOUS
    <2> HIDE DEF s, n
    <2>4. /\ Blocked(c, kind, seen).status = s
          /\ Blocked(c, kind, seen).count = n
          /\ Blocked(c, kind, seen).claim = NoRun
      BY <1>1, <2>1 DEF Card
    <2> QED
      BY <2>2, <2>3, <2>4 DEF Kept, CardOK
  <1> QED
    BY <1>2, <1>3

LEMMA ReadyKept ==
  ASSUME NEW c \in Card
  PROVE  Kept(c, Unblocked(c)) /\ Kept(c, Promoted(c))
PROOF
  <1>1. Unblocked(c).status = "ready" /\ Unblocked(c).claim = c.claim
    BY DEF Unblocked, Card
  <1>2. Promoted(c).status = "ready" /\ Promoted(c).claim = c.claim
    BY DEF Promoted, Card
  <1> QED
    BY <1>1, <1>2 DEF Kept, CardOK

LEMMA FlagKept ==
  ASSUME NEW c \in Card, CardOK(c), NEW b, NEW d
  PROVE  /\ Kept(c, [c EXCEPT !.enabled = b])
         /\ Kept(c, [c EXCEPT !.expired = b])
         /\ Kept(c, [c EXCEPT !.due = d])
  BY DEF Card, Kept, CardOK

-----------------------------------------------------------------------------
(* The operations of the board acquire no claim.                           *)

LEMMA WriteKept ==
  ASSUME BoardType, CardsOK, NEW t \in Tasks, NEW c, Kept(card[t], c),
         Write(t, c) \/ WriteIfExists(t, c)
  PROVE  CardsKept
PROOF
  <1>1. \A u \in Tasks : Kept(card[u], card[u])
    BY DEF CardsOK, Kept
  <1>2. card' = card \/ card' = [card EXCEPT ![t] = c]
    BY DEF Write, WriteIfExists, cardVars
  <1> QED
    BY <1>1, <1>2 DEF CardsKept, BoardType

LEMMA SameCardsKept ==
  ASSUME CardsOK, card' = card
  PROVE  CardsKept
  BY DEF CardsOK, CardsKept, Kept

LEMMA SetStatusKept ==
  ASSUME BoardType, CardsOK, NEW t \in Tasks,
         NEW s \in KanbanStatuses \ {"running", "blocked"}, SetStatus(t, s)
  PROVE  CardsKept
PROOF
  <1>1. Kept(card[t], WithStatus(card[t], s))
    BY WithStatusKept DEF BoardType, CardsOK
  <1> QED
    BY <1>1, WriteKept DEF SetStatus

LEMMA SweepKept ==
  ASSUME BoardType, CardsOK, ReleaseStaleClaims \/ RecomputeReady
  PROVE  CardsKept
PROOF
  <1>1. \A t \in Tasks : /\ Kept(card[t], StaleReleased(card[t]))
                         /\ Kept(card[t], Promoted(card[t]))
                         /\ Kept(card[t], card[t])
    BY StaleReleasedKept, ReadyKept DEF BoardType, CardsOK, Kept
  <1> QED
    BY <1>1 DEF CardsKept, ReleaseStaleClaims, RecomputeReady

\* No manual transition leads to the running or the blocked column.
LEMMA ManualTargets ==
  ASSUME NEW t \in Tasks, NEW s \in KanbanStatuses, <<card[t].status, s>> \in ManualTransitions
  PROVE  s \in KanbanStatuses \ {"running", "blocked"}
  BY DEF ManualTransitions

LEMMA BoardOpKept ==
  ASSUME BoardType, CardsOK, NEW t \in Tasks, BoardOp(t)
  PROVE  CardsKept
PROOF
  <1>a. card[t] \in Card /\ CardOK(card[t])
    BY DEF BoardType, CardsOK
  <1>1. ASSUME NEW dated \in BOOLEAN, CreateTask(t, dated)
        PROVE  CardsKept
    <2> DEFINE s == IF dated THEN "scheduled" ELSE "ready"
               d == IF dated THEN "future" ELSE "none"
               c == [AbsentCard EXCEPT !.status = s, !.enabled = TRUE, !.due = d]
    <2>1. c.status = s /\ c.claim = NoRun
      BY DEF AbsentCard
    <2>2. s \notin {"running", "blocked"}
      OBVIOUS
    <2>3. Write(t, c)
      BY <1>1 DEF CreateTask
    <2> HIDE DEF s, d, c
    <2>4. Kept(card[t], c)
      BY <2>1, <2>2 DEF Kept, CardOK
    <2> QED
      BY <2>3, <2>4, WriteKept
  <1>2. CASE DeleteTask(t)
    <2> DEFINE c == [AbsentCard EXCEPT !.status = "deleted"]
    <2>1. Kept(card[t], c)
      BY DEF AbsentCard, Kept, CardOK
    <2>2. Write(t, c)
      BY <1>2 DEF DeleteTask
    <2> HIDE DEF c
    <2> QED
      BY <2>1, <2>2, WriteKept
  <1>3. CASE UnblockTask(t)
    BY <1>3, <1>a, ReadyKept, WriteKept DEF UnblockTask
  <1>4. ASSUME NEW s \in KanbanStatuses, ManualTransition(t, s)
        PROVE  CardsKept
    <2>1. Kept(card[t], Unblocked(card[t])) /\ Kept(card[t], WithStatus(card[t], s))
      BY <1>4, <1>a, ReadyKept, WithStatusKept, ManualTargets DEF ManualTransition
    <2> QED
      BY <1>4, <2>1, WriteKept DEF ManualTransition
  <1>5. ASSUME NEW p \in Tasks, AddDependency(p, t) \/ RemoveDependency(p, t)
        PROVE  CardsKept
    BY <1>5, SameCardsKept DEF AddDependency, RemoveDependency
  <1>6. {"archived", "done", "ready", "triage", "todo"}
          \subseteq KanbanStatuses \ {"running", "blocked"}
    BY DEF KanbanStatuses
  <1> QED
    BY <1>1, <1>2, <1>3, <1>4, <1>5, <1>6, SetStatusKept DEF BoardOp

-----------------------------------------------------------------------------
(* Runs.  The row of a live coroutine follows from where it is, and a run  *)
(* that may hold a claim is neither finished nor still without one.        *)

RunOK(x) ==
  /\ x.pc \in {"starting", "budget", "inserting"} => x.row = "none"
  /\ x.pc \in {"engine", "reserving", "releasing"} => x.row = "running"
  /\ x.pc \in {"promoting", "reporting"} => x.row = "done"
  /\ x.pc = "failing" => \/ x.row = "running"
                         \/ x.row = "done" /\ "report_error" \in Events

HolderOK(x, t) ==
  x.task = t /\ x.row \notin {"done", "cancelled"} /\ x.pc \notin {"starting", "budget"}

Outcome(x) == IF x.row \in {"done", "error", "cancelled"} THEN x.row ELSE "open"

\* A step of a run that ends nothing: whoever it may hold, it may still hold.
RunKept(x, y) ==
  /\ RunOK(y)
  /\ \A t \in Tasks : HolderOK(x, t) => HolderOK(y, t)
  /\ Outcome(y) = Outcome(x)

RunsOK == \A r \in Runs : RunOK(run[r])

RunsKept == \A r \in Runs : RunKept(run[r], run'[r])

HoldersOK == \A t \in Tasks : card[t].claim # NoRun => HolderOK(run[card[t].claim], t)

BoardInv == TypeInv /\ CardsOK /\ RunsOK /\ HoldersOK

LEMMA SameRunsKept ==
  ASSUME RunsOK, run' = run
  PROVE  RunsKept
  BY DEF RunsOK, RunsKept, RunKept

LEMMA OneRunKept ==
  ASSUME RunsOK, NEW r \in Runs, RunKept(run[r], run'[r]),
         \A q \in Runs \ {r} : run'[q] = run[q]
  PROVE  RunsKept
  BY DEF RunsOK, RunsKept, RunKept

LEMMA GotoFields ==
  ASSUME RunType, NEW r \in Runs, NEW pc, Goto(r, pc)
  PROVE  /\ run'[r].pc = pc /\ run'[r].row = run[r].row /\ run'[r].task = run[r].task
         /\ \A q \in Runs \ {r} : run'[q] = run[q]
  BY DEF RunType, Goto, Run

LEMMA MarkFields ==
  ASSUME RunType, NEW r \in Runs, NEW pc, NEW row,
         run' = [run EXCEPT ![r].pc = pc, ![r].row = row]
  PROVE  /\ run'[r].pc = pc /\ run'[r].row = row /\ run'[r].task = run[r].task
         /\ \A q \in Runs \ {r} : run'[q] = run[q]
  BY DEF RunType, Run

\* Nobody held the run that a discarded coroutine, or a new one, writes.
LEMMA FreshKept ==
  ASSUME RunType, RunsOK, NEW r \in Runs,
         \/ Discard(r) /\ run[r].pc \in {"starting", "budget"}
         \/ \E t \in Tasks : Start(r, t)
  PROVE  RunsKept
PROOF
  <1>1. CASE Discard(r) /\ run[r].pc \in {"starting", "budget"}
    <2>1. run'[r] = FreshRun /\ \A q \in Runs \ {r} : run'[q] = run[q]
      BY <1>1 DEF Discard, RunType
    <2>2. RunKept(run[r], FreshRun)
      BY <1>1 DEF RunKept, RunsOK, RunOK, HolderOK, Outcome, FreshRun
    <2> QED
      BY <2>1, <2>2, OneRunKept
  <1>2. ASSUME NEW t \in Tasks, Start(r, t)
        PROVE  RunsKept
    <2> DEFINE y == [FreshRun EXCEPT !.task = t, !.pc = "starting"]
    <2>1. run[r] = FreshRun /\ run'[r] = y /\ \A q \in Runs \ {r} : run'[q] = run[q]
      BY <1>2 DEF Start, RunType
    <2>2. RunKept(FreshRun, y)
      BY NoTaskAssumption DEF RunKept, RunOK, HolderOK, Outcome, FreshRun
    <2> QED
      BY <2>1, <2>2, OneRunKept
  <1> QED
    BY <1>1, <1>2

\* The steps of a coroutine that neither acquire a claim nor end a run.
LEMMA RunStepQuiet ==
  ASSUME BoardInv, NEW r \in Runs, RunStep(r) \/ AgentStep(r) \/ ResumeRun(r)
  PROVE  \/ CardsKept /\ RunsKept
         \/ ClaimTask(r) \/ EnsureTaskClaim(r) \/ CompleteRun(r) \/ FinishError(r)
PROOF
  <1> DEFINE t == run[r].task
  <1>a. BoardType /\ RunType /\ CardsOK /\ RunsOK
    BY DEF BoardInv, TypeInv
  <1>b. RunOK(run[r]) /\ run[r].seen \in 0..MaxBlocks
    BY <1>a DEF RunsOK, RunType, Run
  <1>c. ASSUME ~At(r, "idle")
        PROVE  t \in Tasks /\ card[t] \in Card /\ CardOK(card[t])
    BY <1>c, <1>a DEF At, RunType, BoardType, CardsOK
  <1>d. "person" \in BlockKinds /\ BlockKinds \ {"none"} \subseteq BlockKinds
    BY DEF BlockKinds
  <1> USE DEF At
  <1>1. CASE BudgetSpent(r)
    <2>1. /\ run'[r].pc = "budget" /\ run'[r].row = run[r].row /\ run'[r].task = t
          /\ \A q \in Runs \ {r} : run'[q] = run[q]
      BY <1>1, <1>a DEF BudgetSpent, RunType, Run
    <2>2. RunKept(run[r], run'[r])
      BY <1>1, <1>b, <2>1 DEF BudgetSpent, RunKept, RunOK, HolderOK, Outcome
    <2>3. card' = card
      BY <1>1 DEF BudgetSpent
    <2> QED
      BY <2>1, <2>2, <2>3, <1>a, OneRunKept, SameCardsKept
  <1>2. CASE BudgetBlocks(r)
    <2>1. t \in Tasks /\ Kept(card[t], Blocked(card[t], "person", run[r].seen))
      BY <1>2, <1>b, <1>c, <1>d, BlockedKept DEF BudgetBlocks
    <2>2. CardsKept
      BY <1>2, <2>1, <1>a, WriteKept DEF BudgetBlocks
    <2> QED
      BY <1>2, <2>2, <1>a, FreshKept DEF BudgetBlocks
  <1>3. CASE ClaimRefused(r)
    BY <1>3, <1>a, FreshKept, SameCardsKept DEF ClaimRefused, cardVars
  <1>4. CASE ClaimRaises(r) \/ EngineFails(r) \/ CompletionRaises(r) \/ ReportFails(r)
             \/ EnsureRefused(r) \/ ReserveRaises(r)
    <2>1. PICK pc : /\ Goto(r, pc)
                    /\ \/ run[r].pc = "starting" /\ pc = "inserting"
                       \/ run[r].pc \in {"engine", "reserving"} /\ pc = "failing"
                       \/ /\ run[r].pc = "reporting" /\ pc = "failing"
                          /\ "report_error" \in Events
                       \/ run[r].pc = "reserving" /\ pc = "releasing"
      BY <1>4 DEF ClaimRaises, EngineFails, CompletionRaises, ReportFails, EnsureRefused,
                  ReserveRaises
    <2>2. /\ run'[r].pc = pc /\ run'[r].row = run[r].row /\ run'[r].task = t
          /\ \A q \in Runs \ {r} : run'[q] = run[q]
      BY <2>1, <1>a, GotoFields
    <2>3. RunKept(run[r], run'[r])
      BY <2>1, <2>2, <1>b DEF RunKept, RunOK, HolderOK, Outcome
    <2>4. card' = card
      BY <1>4 DEF ClaimRaises, EngineFails, CompletionRaises, ReportFails, EnsureRefused,
                  ReserveRaises
    <2> QED
      BY <2>2, <2>3, <2>4, <1>a, OneRunKept, SameCardsKept
  <1>5. CASE InsertRun(r) \/ ResumeRun(r)
    <2>1. /\ run'[r].pc \in {"engine", "reserving"} /\ run'[r].row = "running"
          /\ run'[r].task = t /\ \A q \in Runs \ {r} : run'[q] = run[q]
      BY <1>5, <1>a DEF InsertRun, ResumeRun, RunType, Run
    <2>2. RunKept(run[r], run'[r])
      BY <1>5, <2>1, <1>b DEF InsertRun, ResumeRun, RunKept, RunOK, HolderOK, Outcome
    <2>3. card' = card
      BY <1>5 DEF InsertRun, ResumeRun
    <2> QED
      BY <2>1, <2>2, <2>3, <1>a, OneRunKept, SameCardsKept
  <1>6. CASE Interrupted(r) \/ CompletionDropped(r) \/ Report(r) \/ UndoReservation(r)
             \/ BlockOwnCard(r)
    <2>1. PICK row : /\ End(r, row)
                     /\ \/ row = run[r].row
                        \/ row = "awaiting_approval" /\ run[r].row = "running"
      BY <1>6, <1>b DEF Interrupted, CompletionDropped, Report, UndoReservation,
                        BlockOwnCard, RunOK
    <2>2. /\ run'[r].pc = "ended" /\ run'[r].row = row /\ run'[r].task = t
          /\ \A q \in Runs \ {r} : run'[q] = run[q]
      BY <2>1, <1>a, MarkFields DEF End
    <2>3. RunKept(run[r], run'[r])
      BY <2>1, <2>2 DEF RunKept, RunOK, HolderOK, Outcome
    <2>4. CASE ~BlockOwnCard(r)
      <3>1. card' = card
        BY <1>6, <2>4 DEF Interrupted, CompletionDropped, Report, UndoReservation, cardVars
      <3> QED
        BY <2>2, <2>3, <3>1, <1>a, OneRunKept, SameCardsKept
    <2>5. CASE BlockOwnCard(r)
      <3>1. t \in Tasks /\ Kept(card[t], Blocked(card[t], "person", run[r].seen))
        BY <2>5, <1>b, <1>c, <1>d, BlockedKept DEF BlockOwnCard
      <3>2. CardsKept
        BY <2>5, <3>1, <1>a, WriteKept, SameCardsKept DEF BlockOwnCard, cardVars
      <3> QED
        BY <2>2, <2>3, <3>2, <1>a, OneRunKept
    <2> QED
      BY <2>4, <2>5
  <1>7. CASE PromoteChildren(r)
    <2>1. /\ run'[r].pc = "reporting" /\ run'[r].row = run[r].row /\ run'[r].task = t
          /\ \A q \in Runs \ {r} : run'[q] = run[q]
      BY <1>7, <1>a, GotoFields DEF PromoteChildren
    <2>2. RunKept(run[r], run'[r])
      BY <1>7, <1>b, <2>1 DEF PromoteChildren, RunKept, RunOK, HolderOK, Outcome
    <2> QED
      BY <1>7, <2>1, <2>2, <1>a, OneRunKept, SweepKept DEF PromoteChildren
  <1>8. CASE HeartbeatClaim(r)
    <2>1. t \in Tasks /\ Kept(card[t], [card[t] EXCEPT !.expired = FALSE])
      BY <1>8, <1>c, FlagKept DEF HeartbeatClaim
    <2> QED
      BY <1>8, <2>1, <1>a, WriteKept, SameRunsKept DEF HeartbeatClaim
  <1>9. ASSUME NEW kind \in BlockKinds \ {"none"}, SelfBlock(r, kind)
        PROVE  CardsKept /\ RunsKept
    <2>1. t \in Tasks /\ card[t] \in Card
      BY <1>9, <1>c DEF SelfBlock
    <2>2. card[t].count \in 0..MaxBlocks
      BY <2>1 DEF Card
    <2>3. Kept(card[t], Blocked(card[t], kind, card[t].count))
      BY <2>1, <2>2, <1>d, BlockedKept
    <2> QED
      BY <1>9, <2>1, <2>3, <1>a, WriteKept, SameRunsKept DEF SelfBlock
  <1>10. ASSUME NEW s \in KanbanStatuses, SelfMove(r, s)
         PROVE  CardsKept /\ RunsKept
    <2>1. t \in Tasks /\ card[t] \in Card
      BY <1>10, <1>c DEF SelfMove
    <2>2. Kept(card[t], Unblocked(card[t])) /\ Kept(card[t], FencedStatus(card[t], t, s))
      BY <1>10, <2>1, ReadyKept, FencedStatusKept, ManualTargets DEF SelfMove
    <2> QED
      BY <1>10, <2>1, <2>2, <1>a, WriteKept, SameRunsKept DEF SelfMove
  <1> QED
    BY <1>1, <1>2, <1>3, <1>4, <1>5, <1>6, <1>7, <1>8, <1>9, <1>10 DEF RunStep, AgentStep

LEMMA TickStepQuiet ==
  ASSUME BoardInv, TickStep
  PROVE  CardsKept /\ RunsKept
PROOF
  <1>a. BoardType /\ RunType /\ SchedType /\ CardsOK /\ RunsOK
    BY DEF BoardInv, TypeInv
  <1>b. \A t \in Tasks : card[t] \in Card /\ CardOK(card[t])
    BY <1>a DEF BoardType, CardsOK
  <1>1. CASE TickRelease \/ TickRecompute
    BY <1>1, <1>a, SweepKept, SameRunsKept DEF TickRelease, TickRecompute
  <1>2. CASE TickList \/ TickEnd
    BY <1>2, <1>a, SameCardsKept, SameRunsKept DEF TickList, TickEnd
  <1>3. CASE TickDisable
    <2>1. sched.cur \in Tasks
      BY <1>3, <1>a DEF TickDisable, SchedType
    <2>2. Kept(card[sched.cur], [card[sched.cur] EXCEPT !.enabled = FALSE])
      BY <2>1, <1>b, FlagKept
    <2> QED
      BY <1>3, <2>1, <2>2, <1>a, WriteKept, SameRunsKept DEF TickDisable
  <1>4. CASE TickSetTodo
    <2>1. sched.cur \in Tasks /\ "todo" \in KanbanStatuses \ {"running", "blocked"}
      BY <1>4, <1>a DEF TickSetTodo, SchedType, KanbanStatuses
    <2> QED
      BY <1>4, <2>1, <1>a, SetStatusKept, SameRunsKept DEF TickSetTodo
  <1>5. ASSUME NEW t \in Tasks, TickSkip(t)
        PROVE  CardsKept /\ RunsKept
    <2>1. Kept(card[t], [card[t] EXCEPT !.due = "future"])
      BY <1>b, FlagKept
    <2> QED
      BY <1>5, <2>1, <1>a, WriteKept, SameRunsKept DEF TickSkip
  <1>6. ASSUME NEW t \in Tasks, TickOutOfRuns(t)
        PROVE  CardsKept /\ RunsKept
    BY <1>6, <1>a, SameCardsKept, SameRunsKept DEF TickOutOfRuns
  <1>7. ASSUME NEW t \in Tasks, NEW r \in Runs, TickRun(t, r)
        PROVE  CardsKept /\ RunsKept
    BY <1>7, <1>a, SameCardsKept, FreshKept DEF TickRun, cardVars
  <1> QED
    BY <1>1, <1>2, <1>3, <1>4, <1>5, <1>6, <1>7 DEF TickStep

LEMMA HandlerStepQuiet ==
  ASSUME BoardInv, HandlerStep
  PROVE  CardsKept /\ RunsKept
PROOF
  <1>a. BoardType /\ RunType /\ HandlerType /\ CardsOK /\ RunsOK
    BY DEF BoardInv, TypeInv
  <1>1. CASE ChatBlockWrite
    <2>1. chat.task \in Tasks /\ chat.kind \in BlockKinds /\ chat.seen \in 0..MaxBlocks
      BY <1>1, <1>a DEF ChatBlockWrite, HandlerType, Chat
    <2>2. Kept(card[chat.task], Blocked(card[chat.task], chat.kind, chat.seen))
      BY <2>1, <1>a, BlockedKept DEF BoardType
    <2> QED
      BY <1>1, <2>1, <2>2, <1>a, WriteKept, SameRunsKept DEF ChatBlockWrite
  <1>2. ASSUME NEW t \in Tasks,
               SyncDisabled(t) \/ SyncRead(t) \/ SyncEnabled(t) \/ ApproveRecompute(t)
        PROVE  CardsKept /\ RunsKept
    <2>1. run' = run /\ {"todo", "ready"} \subseteq KanbanStatuses \ {"running", "blocked"}
      BY <1>2 DEF SyncDisabled, SyncRead, SyncEnabled, ApproveRecompute, KanbanStatuses
    <2>2. \/ SetStatus(t, "todo") \/ SetStatus(t, "ready") \/ RecomputeReady \/ card' = card
      BY <1>2 DEF SyncDisabled, SyncRead, SyncEnabled, ApproveRecompute
    <2> QED
      BY <2>1, <2>2, <1>a, SetStatusKept, SweepKept, SameCardsKept, SameRunsKept
  <1> QED
    BY <1>1, <1>2 DEF HandlerStep

LEMMA RequestsQuiet ==
  ASSUME BoardInv, Requests
  PROVE  \/ CardsKept /\ RunsKept
         \/ \E r \in Runs : CancelRun(r)
PROOF
  <1>a. BoardType /\ RunType /\ CardsOK /\ RunsOK
    BY DEF BoardInv, TypeInv
  <1>b. \A t \in Tasks : card[t] \in Card /\ CardOK(card[t])
    BY <1>a DEF BoardType, CardsOK
  <1>1. ASSUME NEW t \in Tasks, Board(t)
        PROVE  CardsKept /\ RunsKept
    BY <1>1, <1>a, BoardOpKept, SameRunsKept DEF Board
  <1>2. ASSUME NEW t \in Tasks, Approve(t)
        PROVE  CardsKept /\ RunsKept
    <2>1. Kept(card[t], WithStatus(card[t], "done"))
      BY <1>b, WithStatusKept DEF KanbanStatuses
    <2> QED
      BY <1>2, <2>1, <1>a, WriteKept, SameRunsKept DEF Approve, ApproveReview
  <1>3. ASSUME NEW t \in Tasks, NEW on \in BOOLEAN, SetEnabled(t, on)
        PROVE  CardsKept /\ RunsKept
    <2>1. Kept(card[t], [card[t] EXCEPT !.enabled = on])
      BY <1>b, FlagKept
    <2> QED
      BY <1>3, <2>1, <1>a, WriteKept, SameRunsKept DEF SetEnabled
  <1>4. ASSUME NEW t \in Tasks, NEW kind \in BlockKinds \ {"none"}, ChatBlockRead(t, kind)
        PROVE  CardsKept /\ RunsKept
    BY <1>4, <1>a, SameCardsKept, SameRunsKept DEF ChatBlockRead
  <1>5. ASSUME NEW r \in Runs, NEW t \in Tasks, RunNow(r, t)
        PROVE  CardsKept /\ RunsKept
    BY <1>5, <1>a, SameCardsKept, FreshKept DEF RunNow
  <1>6. ASSUME NEW r \in Runs, ResumeRun(r)
        PROVE  CardsKept /\ RunsKept
    <2>1. ~(ClaimTask(r) \/ EnsureTaskClaim(r) \/ CompleteRun(r) \/ FinishError(r))
      BY <1>6 DEF ResumeRun, ClaimTask, EnsureTaskClaim, CompleteRun, FinishError, At
    <2> QED
      BY <1>6, <2>1, RunStepQuiet
  <1> QED
    BY <1>1, <1>2, <1>3, <1>4, <1>5, <1>6 DEF Requests

LEMMA ClockQuiet ==
  ASSUME BoardInv, NEW t \in Tasks, ClockReaches(t) \/ ClaimExpires(t)
  PROVE  CardsKept /\ RunsKept
PROOF
  <1>a. BoardType /\ CardsOK /\ RunsOK /\ card[t] \in Card /\ CardOK(card[t])
    BY DEF BoardInv, TypeInv, BoardType, CardsOK
  <1>1. PICK c : Write(t, c) /\ Kept(card[t], c)
    <2>1. CASE ClockReaches(t)
      BY <2>1, <1>a, FlagKept DEF ClockReaches
    <2>2. CASE ClaimExpires(t)
      BY <2>2, <1>a, FlagKept DEF ClaimExpires
    <2> QED
      BY <2>1, <2>2
  <1>2. run' = run
    BY DEF ClockReaches, ClaimExpires
  <1> QED
    BY <1>1, <1>2, <1>a, WriteKept, SameRunsKept

\* A crash keeps every row; what it frees had no row and no claim.
LEMMA CrashQuiet ==
  ASSUME BoardInv, Crash
  PROVE  CardsKept /\ RunsKept
PROOF
  <1>a. RunType /\ CardsOK /\ RunsOK
    BY DEF BoardInv, TypeInv
  <1>1. ASSUME NEW r \in Runs
        PROVE  RunKept(run[r], run'[r])
    <2>1. RunOK(run[r])
      BY <1>a DEF RunsOK
    <2>2. CASE run[r].pc \in {"starting", "budget"}
      <3>1. run'[r] = FreshRun
        BY <2>2 DEF Crash
      <3> QED
        BY <2>1, <2>2, <3>1 DEF RunKept, RunOK, HolderOK, Outcome, FreshRun
    <2>3. CASE run[r].pc \notin {"starting", "budget"} /\ Live(r)
      <3>1. run'[r] = [run[r] EXCEPT !.pc = "ended"]
        BY <2>3 DEF Crash
      <3>2. run'[r].pc = "ended" /\ run'[r].row = run[r].row /\ run'[r].task = run[r].task
        BY <3>1, <1>a DEF RunType, Run
      <3> QED
        BY <3>2 DEF RunKept, RunOK, HolderOK, Outcome
    <2>4. CASE run[r].pc \notin {"starting", "budget"} /\ ~Live(r)
      <3>1. run'[r] = run[r]
        BY <2>4 DEF Crash
      <3> QED
        BY <2>1, <3>1 DEF RunKept
    <2> QED
      BY <2>2, <2>3, <2>4
  <1> QED
    BY <1>1, <1>a, SameCardsKept DEF RunsKept, Crash, cardVars

\* The classes.
LEMMA StepKinds ==
  ASSUME BoardInv, [Next]_vars
  PROVE  \/ CardsKept /\ RunsKept
         \/ \E r \in Runs : \/ ClaimTask(r) \/ EnsureTaskClaim(r)
                            \/ CompleteRun(r) \/ CancelRun(r) \/ FinishError(r)
PROOF
  <1>1. CASE UNCHANGED vars
    BY <1>1, SameCardsKept, SameRunsKept DEF vars, BoardInv
  <1>2. CASE Next
    BY <1>2, RunStepQuiet, TickStepQuiet, HandlerStepQuiet, RequestsQuiet, ClockQuiet,
       CrashQuiet DEF Next
  <1> QED
    BY <1>1, <1>2

-----------------------------------------------------------------------------
(* The five other actions: a claim is acquired, a run ends, a run fails.   *)

Acquires(r, t) ==
  /\ card[t].claim \in {r, NoRun}
  /\ card' = [card EXCEPT ![t] = Claimed(card[t], r)]
  /\ RunsKept
  /\ HolderOK(run'[r], t)
  /\ Outcome(run[r]) = "open"

Ends(r, t) ==
  /\ card[t].claim \in {r, NoRun}
  /\ run[r].task = t
  /\ \E c : Kept(card[t], c) /\ c.claim = NoRun /\ card' = [card EXCEPT ![t] = c]
  /\ RunOK(run'[r])
  /\ \A q \in Runs \ {r} : run'[q] = run[q]
  /\ Outcome(run[r]) = "open"
  /\ \/ Outcome(run'[r]) = "done" /\ card[t].claim = r
     \/ Outcome(run'[r]) = "cancelled"

Fails(r) ==
  /\ card' = card
  /\ RunOK(run'[r])
  /\ \A t \in Tasks : HolderOK(run[r], t) => HolderOK(run'[r], t)
  /\ \A q \in Runs \ {r} : run'[q] = run[q]
  /\ Outcome(run'[r]) \in {Outcome(run[r]), "error"}
  /\ Outcome(run[r]) = "open" \/ "report_error" \in Events

LEMMA ClaimAcquires ==
  ASSUME BoardInv, NEW r \in Runs, ClaimTask(r) \/ EnsureTaskClaim(r)
  PROVE  \E t \in Tasks : Acquires(r, t)
PROOF
  <1> DEFINE t == run[r].task
  <1>a. RunType /\ RunsOK /\ RunOK(run[r])
    BY DEF BoardInv, TypeInv, RunsOK
  <1>1. t \in Tasks
    BY <1>a DEF ClaimTask, EnsureTaskClaim, At, RunType
  <1>2. /\ card[t].claim \in {r, NoRun}
        /\ card' = [card EXCEPT ![t] = Claimed(card[t], r)]
    BY DEF ClaimTask, EnsureTaskClaim, Claimable, OwnOrFree, HoldsClaim, Write
  <1>3. PICK pc : /\ Goto(r, pc)
                  /\ \/ run[r].pc = "starting" /\ pc = "inserting"
                     \/ run[r].pc = "reserving" /\ pc = "engine"
    BY DEF ClaimTask, EnsureTaskClaim, At
  <1>4. /\ run'[r].pc = pc /\ run'[r].row = run[r].row /\ run'[r].task = t
        /\ \A q \in Runs \ {r} : run'[q] = run[q]
    BY <1>a, <1>3, GotoFields
  <1>5. /\ RunKept(run[r], run'[r]) /\ HolderOK(run'[r], t)
        /\ Outcome(run[r]) = "open"
    BY <1>a, <1>3, <1>4 DEF RunKept, RunOK, HolderOK, Outcome
  <1>6. RunsKept
    BY <1>a, <1>4, <1>5, OneRunKept
  <1> QED
    BY <1>1, <1>2, <1>5, <1>6 DEF Acquires

LEMMA CompletionEnds ==
  ASSUME BoardInv, NEW r \in Runs, CompleteRun(r) \/ CancelRun(r)
  PROVE  \E t \in Tasks : Ends(r, t)
PROOF
  <1> DEFINE t == run[r].task
  <1>a. BoardType /\ RunType /\ RunOK(run[r])
    BY DEF BoardInv, TypeInv, RunsOK
  <1>1. t \in Tasks
    BY <1>a DEF CompleteRun, CancelRun, At, RunType
  <1>2. card[t] \in Card /\ card[t].count \in 0..MaxBlocks /\ "person" \in BlockKinds
    BY <1>1, <1>a DEF BoardType, Card, BlockKinds
  <1>3. CASE CompleteRun(r)
    <2>1. /\ run[r].row = "running" /\ card[t].claim = r
          /\ card' = [card EXCEPT ![t] = Completed(card[t], t)]
          /\ run' = [run EXCEPT ![r].pc = "promoting", ![r].row = "done"]
      BY <1>3 DEF CompleteRun, MayComplete, HoldsClaim, Write
    <2>2. Kept(card[t], Completed(card[t], t)) /\ Completed(card[t], t).claim = NoRun
      BY <1>1, <1>2, CompletedKept
    <2>3. /\ run'[r].pc = "promoting" /\ run'[r].row = "done"
          /\ \A q \in Runs \ {r} : run'[q] = run[q]
      BY <2>1, <1>a, MarkFields
    <2>4. RunOK(run'[r]) /\ Outcome(run[r]) = "open" /\ Outcome(run'[r]) = "done"
      BY <2>1, <2>3 DEF RunOK, Outcome
    <2> QED
      BY <1>1, <2>1, <2>2, <2>3, <2>4 DEF Ends
  <1>4. CASE CancelRun(r)
    <2>1. /\ run[r].pc = "ended" /\ run[r].row = "awaiting_approval"
          /\ card[t].claim \in {r, NoRun}
          /\ card' = [card EXCEPT ![t] = Blocked(card[t], "person", card[t].count)]
          /\ run' = [run EXCEPT ![r].row = "cancelled"]
      BY <1>4 DEF CancelRun, At, OwnOrFree, HoldsClaim, Write
    <2>2. /\ Kept(card[t], Blocked(card[t], "person", card[t].count))
          /\ Blocked(card[t], "person", card[t].count).claim = NoRun
      BY <1>2, BlockedKept
    <2>3. /\ run'[r].pc = "ended" /\ run'[r].row = "cancelled"
          /\ \A q \in Runs \ {r} : run'[q] = run[q]
      BY <2>1, <1>a DEF RunType, Run
    <2>4. RunOK(run'[r]) /\ Outcome(run[r]) = "open" /\ Outcome(run'[r]) = "cancelled"
      BY <2>1, <2>3 DEF RunOK, Outcome
    <2> QED
      BY <1>1, <2>1, <2>2, <2>3, <2>4 DEF Ends
  <1> QED
    BY <1>3, <1>4

LEMMA ErrorFails ==
  ASSUME BoardInv, NEW r \in Runs, FinishError(r)
  PROVE  Fails(r)
PROOF
  <1>a. RunType /\ RunOK(run[r])
    BY DEF BoardInv, TypeInv, RunsOK
  <1>1. /\ run'[r].pc = "blocking" /\ run'[r].row \in {run[r].row, "error"}
        /\ run'[r].task = run[r].task
        /\ \A q \in Runs \ {r} : run'[q] = run[q]
    BY <1>a DEF FinishError, RunType, Run
  <1>2. run[r].pc = "failing" /\ card' = card
    BY DEF FinishError, At
  <1> QED
    BY <1>a, <1>1, <1>2 DEF Fails, RunOK, HolderOK, Outcome

-----------------------------------------------------------------------------
(* The invariant.                                                          *)

LEMMA BoardInvInit == Init => BoardInv
PROOF
  <1> SUFFICES ASSUME Init PROVE BoardInv
    OBVIOUS
  <1>1. CardsOK /\ HoldersOK
    BY DEF Init, CardsOK, HoldersOK, CardOK, AbsentCard
  <1>2. RunsOK
    BY DEF Init, RunsOK, RunOK, FreshRun
  <1> QED
    BY <1>1, <1>2, InitType DEF BoardInv

LEMMA BoardInvNext == BoardInv /\ [Next]_vars => BoardInv'
PROOF
  <1> SUFFICES ASSUME BoardInv, [Next]_vars PROVE BoardInv'
    OBVIOUS
  <1>a. TypeInv' /\ BoardType /\ BoardType'
    BY NextType DEF BoardInv, TypeInv
  <1>b. \A t \in Tasks : card[t].claim \in Runs \cup {NoRun} /\ card'[t].claim \in Runs \cup {NoRun}
    BY <1>a DEF BoardType, Card
  <1>c. CardsOK /\ RunsOK /\ HoldersOK
    BY DEF BoardInv
  <1>1. CASE CardsKept /\ RunsKept
    <2>1. CardsOK'
      BY <1>1 DEF CardsKept, CardsOK, Kept
    <2>2. RunsOK'
      BY <1>1 DEF RunsKept, RunsOK, RunKept
    <2>3. HoldersOK'
      BY <1>1, <1>b, <1>c DEF CardsKept, Kept, RunsKept, RunKept, HoldersOK
    <2> QED
      BY <1>a, <2>1, <2>2, <2>3 DEF BoardInv
  <1>2. ASSUME NEW r \in Runs, NEW t \in Tasks, Acquires(r, t)
        PROVE  BoardInv'
    <2>1. /\ card'[t] = Claimed(card[t], r)
          /\ \A u \in Tasks \ {t} : card'[u] = card[u]
      BY <1>2, <1>a DEF Acquires, BoardType
    <2>2. CardOK(card'[t]) /\ card'[t].claim = r
      BY <2>1, <1>a, ClaimedOK DEF BoardType
    <2>3. CardsOK'
      BY <2>1, <2>2, <1>c DEF CardsOK
    <2>4. RunsOK'
      BY <1>2 DEF Acquires, RunsKept, RunsOK, RunKept
    <2>5. HoldersOK'
      BY <1>2, <2>1, <2>2, <1>b, <1>c DEF Acquires, RunsKept, RunKept, HoldersOK
    <2> QED
      BY <1>a, <2>3, <2>4, <2>5 DEF BoardInv
  <1>3. ASSUME NEW r \in Runs, NEW t \in Tasks, Ends(r, t)
        PROVE  BoardInv'
    <2>1. /\ CardOK(card'[t]) /\ card'[t].claim = NoRun
          /\ \A u \in Tasks \ {t} : card'[u] = card[u]
      BY <1>3, <1>a DEF Ends, BoardType, Kept
    <2>2. CardsOK'
      BY <2>1, <1>c DEF CardsOK
    <2>3. RunsOK'
      BY <1>3, <1>c DEF Ends, RunsOK
    <2>4. ASSUME NEW u \in Tasks, card'[u].claim # NoRun
          PROVE  HolderOK(run'[card'[u].claim], u)
      <3>1. u # t /\ card'[u] = card[u] /\ HolderOK(run[card[u].claim], u)
        BY <2>1, <2>4, <1>c DEF HoldersOK
      <3>2. card[u].claim \in Runs \ {r}
        BY <3>1, <2>4, <1>3, <1>b DEF HolderOK, Ends
      <3> QED
        BY <3>1, <3>2, <1>3 DEF Ends
    <2> QED
      BY <1>a, <2>2, <2>3, <2>4 DEF BoardInv, HoldersOK
  <1>4. ASSUME NEW r \in Runs, Fails(r)
        PROVE  BoardInv'
    <2>1. CardsOK' /\ RunsOK'
      BY <1>4, <1>c DEF Fails, CardsOK, RunsOK
    <2>2. HoldersOK'
      BY <1>4, <1>b, <1>c DEF Fails, HoldersOK
    <2> QED
      BY <1>a, <2>1, <2>2 DEF BoardInv
  <1> QED
    BY <1>1, <1>2, <1>3, <1>4, StepKinds, ClaimAcquires, CompletionEnds, ErrorFails

LEMMA BoardInvariant == Spec => []BoardInv
  BY BoardInvInit, BoardInvNext, PTL DEF Spec

\* A card shown as running is claimed, so that release_stale_claims finds it:
\* no status write drops the lock of a running card and leaves it running.
THEOREM RunningStaysClaimed == Spec => []RunningIsClaimed
PROOF
  <1>1. BoardInv => RunningIsClaimed
    BY DEF BoardInv, CardsOK, CardOK, RunningIsClaimed
  <1> QED
    BY <1>1, BoardInvariant, PTL

\* A claim is always that of a run of that very card which is neither done nor
\* cancelled: claim, completion, cancellation and resume keep the two rows in
\* step, whatever is deleted, expires or crashes in between.
THEOREM HoldersAreUnfinished == Spec => []HolderIsUnfinished
PROOF
  <1>1. BoardInv => HolderIsUnfinished
    BY DEF BoardInv, HoldersOK, HolderOK, HolderIsUnfinished
  <1> QED
    BY <1>1, BoardInvariant, PTL

\* For every limit: a card in the blocked column was blocked fewer times than
\* BLOCK_RECURRENCE_LIMIT, even when a stale block_count is written back.
THEOREM BlockedStaysBelowLimit == Spec => []BlockedIsBelowLimit
PROOF
  <1>1. BoardInv => BlockedIsBelowLimit
    BY DEF BoardInv, CardsOK, CardOK, BlockedIsBelowLimit
  <1> QED
    BY <1>1, BoardInvariant, PTL

\* In every state the cards and the rows of their runs agree.
THEOREM BoardStaysSound == Spec => []BoardIsSound
PROOF
  <1>1. RunningIsClaimed /\ HolderIsUnfinished /\ BlockedIsBelowLimit => BoardIsSound
    BY DEF BoardIsSound
  <1> QED
    BY <1>1, RunningStaysClaimed, HoldersAreUnfinished, BlockedStaysBelowLimit, PTL

\* While reporting a completed run does not fail, a row that is done, failed
\* or cancelled is never written again.
THEOREM FinalRowsAreKept ==
  ASSUME "report_error" \notin Events
  PROVE  Spec => FinalRowsStay
PROOF
  <1>1. ASSUME BoardInv, [Next]_vars
        PROVE  [\A r \in Runs : run[r].row \in {"done", "error", "cancelled"} =>
                  run'[r].row = run[r].row]_vars
    <2>1. CASE CardsKept /\ RunsKept
      BY <2>1 DEF RunsKept, RunKept, Outcome
    <2>2. ASSUME NEW r \in Runs, NEW t \in Tasks, Acquires(r, t)
          PROVE  \A q \in Runs : run[q].row \in {"done", "error", "cancelled"} =>
                   run'[q].row = run[q].row
      BY <2>2 DEF Acquires, RunsKept, RunKept, Outcome
    <2>3. ASSUME NEW r \in Runs, NEW t \in Tasks, Ends(r, t)
          PROVE  \A q \in Runs : run[q].row \in {"done", "error", "cancelled"} =>
                   run'[q].row = run[q].row
      BY <2>3 DEF Ends, Outcome
    <2>4. ASSUME NEW r \in Runs, Fails(r)
          PROVE  \A q \in Runs : run[q].row \in {"done", "error", "cancelled"} =>
                   run'[q].row = run[q].row
      BY <2>4 DEF Fails, Outcome
    <2> QED
      BY <1>1, <2>1, <2>2, <2>3, <2>4, StepKinds, ClaimAcquires, CompletionEnds, ErrorFails
  <1> QED
    BY <1>1, BoardInvariant, PTL DEF Spec, FinalRowsStay

-----------------------------------------------------------------------------
(***************************************************************************)
(* BackgroundRuns implements RunLease whenever reporting a completed run   *)
(* does not fail (if it does, the code overwrites done with error).        *)
(* Each class of steps maps to one action of the lease: quiet steps        *)
(* release a set of leases, possibly none.                                 *)
(***************************************************************************)

LEMMA BarValues ==
  /\ \A t \in Tasks : holderBar[t] = card[t].claim
  /\ \A r \in Runs : outcomeBar[r] = Outcome(run[r])
  /\ holderBar \in [Tasks -> {card[t].claim : t \in Tasks}]
  /\ outcomeBar = [r \in Runs |-> Outcome(run[r])]
  /\ \A t \in Tasks : holderBar'[t] = card'[t].claim
  /\ holderBar' = [t \in Tasks |-> card'[t].claim]
  /\ \A r \in Runs : outcomeBar'[r] = Outcome(run'[r])
  /\ outcomeBar' = [r \in Runs |-> Outcome(run'[r])]
  BY DEF holderBar, outcomeBar, Outcome

LEMMA QuietReleases ==
  ASSUME CardsKept, RunsKept
  PROVE  \E S \in SUBSET Tasks : Lease!Release(S)
PROOF
  <1> DEFINE S == {t \in Tasks : card'[t].claim # card[t].claim}
  <1>1. \A t \in Tasks : holderBar'[t] = IF t \in S THEN NoRun ELSE holderBar[t]
    BY BarValues DEF CardsKept, Kept
  <1>2. holderBar' = [t \in Tasks |-> IF t \in S THEN NoRun ELSE holderBar[t]]
    BY <1>1, BarValues
  <1>3. outcomeBar' = outcomeBar
    BY BarValues DEF RunsKept, RunKept
  <1> QED
    BY <1>2, <1>3 DEF Lease!Release

\* Acquiring again what one holds already changes nothing.
LEMMA AcquiresLease ==
  ASSUME BoardInv, NEW r \in Runs, NEW t \in Tasks, Acquires(r, t)
  PROVE  Lease!Acquire(t, r) \/ UNCHANGED Lease!vars
PROOF
  <1>1. /\ card'[t] = Claimed(card[t], r) /\ card[t] \in Card
        /\ \A u \in Tasks \ {t} : card'[u] = card[u]
    BY DEF Acquires, BoardInv, TypeInv, BoardType
  <1>2. card'[t].claim = r
    BY <1>1, ClaimedOK
  <1>3. outcomeBar' = outcomeBar /\ outcomeBar[r] = "open"
    BY BarValues DEF Acquires, RunsKept, RunKept
  <1>4. holderBar' = [holderBar EXCEPT ![t] = r]
    BY <1>1, <1>2, BarValues
  <1>5. CASE card[t].claim = NoRun
    <2>1. holderBar[t] = NoRun
      BY <1>5, BarValues
    <2> QED
      BY <2>1, <1>3, <1>4 DEF Lease!Acquire
  <1>6. CASE card[t].claim = r
    <2>1. holderBar' = holderBar
      BY <1>1, <1>2, <1>6, BarValues
    <2> QED
      BY <2>1, <1>3 DEF Lease!vars
  <1> QED
    BY <1>5, <1>6 DEF Acquires

LEMMA EndsLease ==
  ASSUME BoardInv, NEW r \in Runs, NEW t \in Tasks, Ends(r, t)
  PROVE  Lease!Finish(t, r) \/ Lease!Cancel(t, r)
PROOF
  <1>1. card'[t].claim = NoRun /\ \A u \in Tasks \ {t} : card'[u] = card[u]
    BY DEF Ends, BoardInv, TypeInv, BoardType
  <1>2. holderBar' = [holderBar EXCEPT ![t] = NoRun]
    BY <1>1, BarValues
  <1>3. outcomeBar' = [outcomeBar EXCEPT ![r] = Outcome(run'[r])]
    BY BarValues DEF Ends
  <1>4. holderBar[t] = card[t].claim /\ outcomeBar[r] = "open"
    BY BarValues DEF Ends
  <1> QED
    BY <1>2, <1>3, <1>4 DEF Ends, Lease!Finish, Lease!Cancel

LEMMA FailsLease ==
  ASSUME NEW r \in Runs, Fails(r), "report_error" \notin Events
  PROVE  Lease!Fail(r) \/ UNCHANGED Lease!vars
PROOF
  <1>1. holderBar' = holderBar
    BY BarValues DEF Fails
  <1>2. outcomeBar[r] = "open"
    BY BarValues DEF Fails
  <1>3. outcomeBar' = [outcomeBar EXCEPT ![r] = Outcome(run'[r])]
    BY BarValues DEF Fails
  <1>4. CASE Outcome(run'[r]) = "error"
    BY <1>1, <1>2, <1>3, <1>4 DEF Lease!Fail
  <1>5. CASE Outcome(run'[r]) = Outcome(run[r])
    <2>1. outcomeBar' = outcomeBar
      BY <1>3, <1>5, BarValues
    <2> QED
      BY <1>1, <2>1 DEF Lease!vars
  <1> QED
    BY <1>4, <1>5 DEF Fails

LEMMA InitLease == Init => Lease!Init
PROOF
  <1> SUFFICES ASSUME Init PROVE Lease!Init
    OBVIOUS
  <1>1. holderBar = [t \in Tasks |-> NoRun]
    BY DEF Init, holderBar, AbsentCard
  <1>2. outcomeBar = [r \in Runs |-> "open"]
    BY DEF Init, outcomeBar, FreshRun
  <1> QED
    BY <1>1, <1>2 DEF Lease!Init

LEMMA NextLease ==
  ASSUME BoardInv, [Next]_vars, "report_error" \notin Events
  PROVE  [Lease!Next]_(Lease!vars)
PROOF
  <1>1. CASE CardsKept /\ RunsKept
    BY <1>1, QuietReleases DEF Lease!Next
  <1>2. ASSUME NEW r \in Runs, NEW t \in Tasks, Acquires(r, t)
        PROVE  Lease!Next \/ UNCHANGED Lease!vars
    BY <1>2, AcquiresLease DEF Lease!Next
  <1>3. ASSUME NEW r \in Runs, NEW t \in Tasks, Ends(r, t)
        PROVE  Lease!Next
    BY <1>3, EndsLease DEF Lease!Next
  <1>4. ASSUME NEW r \in Runs, Fails(r)
        PROVE  Lease!Next \/ UNCHANGED Lease!vars
    BY <1>4, FailsLease DEF Lease!Next
  <1> QED
    BY <1>1, <1>2, <1>3, <1>4, StepKinds, ClaimAcquires, CompletionEnds, ErrorFails

\* claim_lock and the status of the run rows behave as the lease promises: no
\* run takes over the claim of another, none acquires one after it ended, and
\* a row becomes done only together with the release of its own claim.
THEOREM ClaimsImplementLease ==
  ASSUME "report_error" \notin Events
  PROVE  Spec => ImplementsLease
PROOF
  <1>1. BoardInv /\ [Next]_vars => [Lease!Next]_(Lease!vars)
    BY NextLease
  <1> QED
    BY <1>1, InitLease, BoardInvariant, PTL DEF Spec, ImplementsLease, Lease!Spec

-----------------------------------------------------------------------------
(***************************************************************************)
(* No two agents work on one task, for every set of tasks and runs, as     *)
(* long as none of the ClaimBreakers happens: whatever people do with the  *)
(* cards, and whenever the process crashes.                                *)
(*                                                                         *)
(* A run about to execute, or executing, owns its card: it holds a claim   *)
(* that has not expired, or the card is gone for good.  Only the two steps *)
(* that write a claim make a run active; no other step takes a card away   *)
(* from a run that stays active.                                           *)
(***************************************************************************)

Undisturbed == Events \cap ClaimBreakers = {}

Active(x) == x.pc \in {"inserting", "engine"}

Owned(c, r) ==
  \/ c.status = "deleted" /\ c.claim = NoRun
  \/ c.status # "absent" /\ c.claim = r /\ ~c.expired

OwnersOK == \A r \in Runs : Active(run[r]) => Owned(card[run[r].task], r)

Apart ==
  \A r1, r2 \in Runs :
    r1 # r2 /\ Active(run[r1]) /\ Active(run[r2]) => run[r1].task # run[r2].task

Quiescent == chat = NoChat /\ \A r \in Runs : run[r].pc # "budget"

ExclusiveInv == BoardInv /\ Quiescent /\ OwnersOK /\ Apart

-----------------------------------------------------------------------------
(* Writes of a card that leave it to its owner.                            *)

Steady(c, d) == \A q \in Runs : Owned(c, q) => Owned(d, q)

ClaimsSteady ==
  \A t \in Tasks, q \in Runs : Owned(card[t], q) /\ Active(run'[q]) => Owned(card'[t], q)

LEMMA PresentSteady ==
  ASSUME NEW c \in Card, c.status \notin NoRow, NEW s \in KanbanStatuses
  PROVE  Steady(c, WithStatus(c, s)) /\ Steady(c, Unblocked(c)) /\ Steady(c, Promoted(c))
PROOF
  <1>1. ASSUME NEW d, d.status \in KanbanStatuses, d.claim = c.claim, d.expired = c.expired
        PROVE  Steady(c, d)
    BY <1>1 DEF Steady, Owned, NoRow, KanbanStatuses
  <1>2. /\ WithStatus(c, s).status = s
        /\ WithStatus(c, s).claim = c.claim /\ WithStatus(c, s).expired = c.expired
    BY DEF WithStatus, Card
  <1>3. /\ Unblocked(c).status = "ready"
        /\ Unblocked(c).claim = c.claim /\ Unblocked(c).expired = c.expired
    BY DEF Unblocked, Card
  <1>4. /\ Promoted(c).status = "ready"
        /\ Promoted(c).claim = c.claim /\ Promoted(c).expired = c.expired
    BY DEF Promoted, Card
  <1>5. "ready" \in KanbanStatuses
    BY DEF KanbanStatuses
  <1> QED
    BY <1>1, <1>2, <1>3, <1>4, <1>5

LEMMA FlagSteady ==
  ASSUME NEW c \in Card, NEW b
  PROVE  /\ Steady(c, [c EXCEPT !.enabled = b])
         /\ Steady(c, [c EXCEPT !.due = b])
         /\ Steady(c, [c EXCEPT !.expired = FALSE])
  BY DEF Card, Steady, Owned

LEMMA WriteSteady ==
  ASSUME BoardType, NEW t \in Tasks, NEW c,
         \/ Write(t, c) /\ Steady(card[t], c)
         \/ WriteIfExists(t, c) /\ (Exists(t) => Steady(card[t], c))
  PROVE  ClaimsSteady
PROOF
  <1>1. card' = card \/ (card' = [card EXCEPT ![t] = c] /\ Steady(card[t], c))
    BY DEF Write, WriteIfExists, cardVars
  <1> QED
    BY <1>1 DEF ClaimsSteady, Steady, BoardType

LEMMA SameCardsSteady ==
  ASSUME card' = card
  PROVE  ClaimsSteady
  BY DEF ClaimsSteady

LEMMA SetStatusSteady ==
  ASSUME BoardType, NEW t \in Tasks, NEW s \in KanbanStatuses, SetStatus(t, s)
  PROVE  ClaimsSteady
PROOF
  <1>1. Exists(t) => Steady(card[t], WithStatus(card[t], s))
    BY PresentSteady DEF BoardType, Exists
  <1> QED
    BY <1>1, WriteSteady DEF SetStatus

LEMMA SweepSteady ==
  ASSUME BoardType, ReleaseStaleClaims \/ RecomputeReady
  PROVE  ClaimsSteady
PROOF
  <1>1. ASSUME NEW t \in Tasks, card[t].claim # NoRun, card[t].expired
        PROVE  \A q \in Runs : ~Owned(card[t], q)
    BY <1>1 DEF Owned
  <1>2. ASSUME NEW t \in Tasks, Promotable(t)
        PROVE  Steady(card[t], Promoted(card[t]))
    <2>1. card[t] \in Card /\ card[t].status \notin NoRow /\ "todo" \in KanbanStatuses
      BY <1>2 DEF Promotable, BoardType, NoRow, KanbanStatuses
    <2> QED
      BY <2>1, PresentSteady
  <1>3. CASE ReleaseStaleClaims
    BY <1>1, <1>3 DEF ReleaseStaleClaims, ClaimsSteady
  <1>4. CASE RecomputeReady
    BY <1>2, <1>4 DEF RecomputeReady, ClaimsSteady, Steady
  <1> QED
    BY <1>3, <1>4

\* A write under the claim of r, or of a free card, disturbs only r.
LEMMA OwnWriteSteady ==
  ASSUME BoardType, NEW t \in Tasks, NEW r \in Runs, NEW c, Write(t, c),
         card[t].claim \in {r, NoRun}, card[t].status # "deleted", ~Active(run'[r])
  PROVE  ClaimsSteady
PROOF
  <1>1. \A q \in Runs \ {r} : ~Owned(card[t], q)
    BY NoRunAssumption DEF Owned
  <1>2. \A u \in Tasks \ {t} : card'[u] = card[u]
    BY DEF Write, BoardType
  <1> QED
    BY <1>1, <1>2 DEF ClaimsSteady

LEMMA BoardOpSteady ==
  ASSUME BoardType, NEW t \in Tasks, BoardOp(t)
  PROVE  ClaimsSteady
PROOF
  <1>a. card[t] \in Card
    BY DEF BoardType
  <1>b. Exists(t) => card[t].status \notin NoRow
    BY DEF Exists
  <1>1. ASSUME NEW dated \in BOOLEAN, CreateTask(t, dated)
        PROVE  ClaimsSteady
    <2>1. \A c : Steady(card[t], c)
      BY <1>1 DEF CreateTask, Steady, Owned
    <2> QED
      BY <1>1, <2>1, WriteSteady DEF CreateTask
  <1>2. CASE DeleteTask(t)
    <2>1. Steady(card[t], [AbsentCard EXCEPT !.status = "deleted"])
      BY DEF AbsentCard, Steady, Owned
    <2> QED
      BY <1>2, <2>1, WriteSteady DEF DeleteTask
  <1>3. CASE UnblockTask(t)
    <2>1. Steady(card[t], Unblocked(card[t]))
      BY <1>3, <1>a, <1>b, PresentSteady DEF UnblockTask, KanbanStatuses
    <2> QED
      BY <1>3, <2>1, WriteSteady DEF UnblockTask
  <1>4. ASSUME NEW s \in KanbanStatuses, ManualTransition(t, s)
        PROVE  ClaimsSteady
    <2>1. card[t].status \notin NoRow
      BY <1>4 DEF ManualTransition, ManualTransitions, NoRow
    <2>2. Steady(card[t], Unblocked(card[t])) /\ Steady(card[t], WithStatus(card[t], s))
      BY <2>1, <1>a, PresentSteady
    <2> QED
      BY <1>4, <2>2, WriteSteady DEF ManualTransition
  <1>5. ASSUME NEW p \in Tasks, AddDependency(p, t) \/ RemoveDependency(p, t)
        PROVE  ClaimsSteady
    BY <1>5, SameCardsSteady DEF AddDependency, RemoveDependency
  <1>6. {"archived", "done", "ready", "triage", "todo"} \subseteq KanbanStatuses
    BY DEF KanbanStatuses
  <1> QED
    BY <1>1, <1>2, <1>3, <1>4, <1>5, <1>6, SetStatusSteady DEF BoardOp

-----------------------------------------------------------------------------
(* Steps of runs that make none active.                                    *)

RunsSteady ==
  \A q \in Runs :
    /\ run'[q].pc # "budget"
    /\ Active(run'[q]) => Active(run[q]) /\ run'[q].task = run[q].task

LEMMA SameRunsSteady ==
  ASSUME Quiescent, run' = run
  PROVE  RunsSteady
  BY DEF RunsSteady, Quiescent

LEMMA OneRunSteady ==
  ASSUME Quiescent, NEW r \in Runs, \A q \in Runs \ {r} : run'[q] = run[q],
         run'[r].pc # "budget",
         Active(run'[r]) => Active(run[r]) /\ run'[r].task = run[r].task
  PROVE  RunsSteady
  BY DEF RunsSteady, Quiescent

LEMMA GotoSteady ==
  ASSUME Quiescent, RunType, NEW r \in Runs,
         NEW pc \in RunPC \ {"budget", "inserting", "engine"}, Goto(r, pc)
  PROVE  RunsSteady /\ ~Active(run'[r])
PROOF
  <1>1. run'[r].pc = pc /\ \A q \in Runs \ {r} : run'[q] = run[q]
    BY GotoFields
  <1>2. ~Active(run'[r]) /\ run'[r].pc # "budget"
    BY <1>1 DEF Active
  <1> QED
    BY <1>1, <1>2, OneRunSteady

LEMMA EndSteady ==
  ASSUME Quiescent, RunType, NEW r \in Runs, NEW row, End(r, row)
  PROVE  RunsSteady /\ ~Active(run'[r])
PROOF
  <1>1. run'[r].pc = "ended" /\ \A q \in Runs \ {r} : run'[q] = run[q]
    BY MarkFields DEF End
  <1>2. ~Active(run'[r]) /\ run'[r].pc # "budget"
    BY <1>1 DEF Active
  <1> QED
    BY <1>1, <1>2, OneRunSteady

LEMMA FreshSteady ==
  ASSUME Quiescent, RunType, NEW r \in Runs, Discard(r) \/ \E t \in Tasks : Start(r, t)
  PROVE  RunsSteady
PROOF
  <1>1. run'[r].pc \in {"idle", "starting"} /\ \A q \in Runs \ {r} : run'[q] = run[q]
    <2>1. CASE Discard(r)
      BY <2>1 DEF Discard, RunType, FreshRun
    <2>2. ASSUME NEW t \in Tasks, Start(r, t)
          PROVE  run'[r].pc = "starting" /\ \A q \in Runs \ {r} : run'[q] = run[q]
      <3>1. /\ run'[r] = [FreshRun EXCEPT !.task = t, !.pc = "starting"]
            /\ \A q \in Runs \ {r} : run'[q] = run[q]
        BY <2>2 DEF Start, RunType
      <3> QED
        BY <3>1 DEF FreshRun
    <2> QED
      BY <2>1, <2>2
  <1>2. ~Active(run'[r]) /\ run'[r].pc # "budget"
    BY <1>1 DEF Active
  <1> QED
    BY <1>1, <1>2, OneRunSteady

-----------------------------------------------------------------------------
(* Every step but the two that write a claim leaves claims to their        *)
(* owners and makes no run active.                                         *)

LEMMA RunStepSteady ==
  ASSUME BoardInv, Quiescent, Undisturbed, NEW r \in Runs,
         RunStep(r) \/ AgentStep(r) \/ ResumeRun(r) \/ CancelRun(r)
  PROVE  \/ ClaimsSteady /\ RunsSteady /\ chat' = chat
         \/ ClaimTask(r) \/ EnsureTaskClaim(r)
PROOF
  <1> DEFINE t == run[r].task
  <1>a. BoardType /\ RunType
    BY DEF BoardInv, TypeInv
  <1>b. ASSUME ~At(r, "idle")
        PROVE  t \in Tasks /\ card[t] \in Card
    BY <1>b, <1>a DEF At, RunType, BoardType
  <1>c. /\ ~BudgetSpent(r) /\ ~BudgetBlocks(r) /\ ~ClaimRaises(r)
        /\ \A kind : ~SelfBlock(r, kind)
        /\ \A s : ~SelfMove(r, s)
    BY DEF Undisturbed, ClaimBreakers, Quiescent, BudgetSpent, BudgetBlocks, ClaimRaises,
           SelfBlock, SelfMove, At
  <1>1. CASE ClaimRefused(r)
    BY <1>1, <1>a, FreshSteady, SameCardsSteady DEF ClaimRefused, cardVars, HandlersIdle
  <1>2. CASE EngineFails(r) \/ CompletionRaises(r) \/ ReportFails(r) \/ EnsureRefused(r)
             \/ ReserveRaises(r)
    <2>1. PICK pc \in RunPC \ {"budget", "inserting", "engine"} : Goto(r, pc)
      BY <1>2 DEF EngineFails, CompletionRaises, ReportFails, EnsureRefused, ReserveRaises,
                  RunPC
    <2>2. card' = card /\ chat' = chat
      BY <1>2 DEF EngineFails, CompletionRaises, ReportFails, EnsureRefused, ReserveRaises,
                  HandlersIdle
    <2> QED
      BY <2>1, <2>2, <1>a, GotoSteady, SameCardsSteady
  <1>3. CASE InsertRun(r) \/ ResumeRun(r) \/ FinishError(r)
    <2>1. /\ run'[r].task = t /\ \A q \in Runs \ {r} : run'[q] = run[q]
          /\ \/ run[r].pc = "inserting" /\ run'[r].pc = "engine"
             \/ run'[r].pc \in {"reserving", "blocking"}
      BY <1>3, <1>a DEF InsertRun, ResumeRun, FinishError, RunType, Run, At
    <2>2. RunsSteady
      BY <2>1, OneRunSteady DEF Active
    <2>3. card' = card /\ chat' = chat
      BY <1>3 DEF InsertRun, ResumeRun, FinishError, HandlersIdle
    <2> QED
      BY <2>2, <2>3, SameCardsSteady
  <1>4. CASE Interrupted(r) \/ CompletionDropped(r) \/ Report(r) \/ UndoReservation(r)
    <2>1. /\ \E row : End(r, row)
          /\ card' = card /\ chat' = chat
      BY <1>4 DEF Interrupted, CompletionDropped, Report, UndoReservation, cardVars,
                  HandlersIdle
    <2> QED
      BY <2>1, <1>a, EndSteady, SameCardsSteady
  <1>5. CASE BlockOwnCard(r)
    <2>1. t \in Tasks
      BY <1>5, <1>b DEF BlockOwnCard, At
    <2>2. RunsSteady /\ ~Active(run'[r]) /\ chat' = chat
      BY <1>5, <1>a, EndSteady DEF BlockOwnCard, HandlersIdle
    <2>3. CASE HoldsLiveClaim(t, r)
      <3>1. card[t].claim = r /\ card[t].status # "deleted"
        BY <2>3 DEF HoldsLiveClaim, HoldsClaim, Exists, NoRow
      <3>2. Write(t, Blocked(card[t], "person", run[r].seen))
        BY <1>5, <2>3 DEF BlockOwnCard
      <3> QED
        BY <2>1, <2>2, <3>1, <3>2, <1>a, OwnWriteSteady
    <2>4. CASE ~HoldsLiveClaim(t, r)
      BY <1>5, <2>2, <2>4, SameCardsSteady DEF BlockOwnCard, cardVars
    <2> QED
      BY <2>3, <2>4
  <1>6. CASE CompleteRun(r)
    <2>1. /\ t \in Tasks /\ card[t].claim = r /\ card[t].status # "deleted"
          /\ Write(t, Completed(card[t], t)) /\ chat' = chat
      BY <1>6, <1>b DEF CompleteRun, MayComplete, HoldsClaim, Exists, NoRow, At, HandlersIdle
    <2>2. run'[r].pc = "promoting" /\ \A q \in Runs \ {r} : run'[q] = run[q]
      BY <1>6, <1>a, MarkFields DEF CompleteRun
    <2>3. ~Active(run'[r]) /\ RunsSteady
      BY <2>2, OneRunSteady DEF Active
    <2> QED
      BY <2>1, <2>3, <1>a, OwnWriteSteady
  <1>7. CASE PromoteChildren(r)
    <2>1. RunsSteady
      BY <1>7, <1>a, GotoSteady DEF PromoteChildren, RunPC
    <2> QED
      BY <1>7, <2>1, <1>a, SweepSteady DEF PromoteChildren, HandlersIdle
  <1>8. CASE HeartbeatClaim(r)
    <2>1. t \in Tasks /\ card[t] \in Card
      BY <1>8, <1>b DEF HeartbeatClaim, At
    <2>2. Write(t, [card[t] EXCEPT !.expired = FALSE]) /\ run' = run /\ chat' = chat
      BY <1>8 DEF HeartbeatClaim, HandlersIdle
    <2> QED
      BY <2>1, <2>2, <1>a, FlagSteady, WriteSteady, SameRunsSteady
  <1>9. CASE CancelRun(r)
    <2>1. /\ t \in Tasks /\ card[t].claim \in {r, NoRun} /\ card[t].status # "deleted"
          /\ Write(t, Blocked(card[t], "person", card[t].count)) /\ chat' = chat
      BY <1>9, <1>b DEF CancelRun, OwnOrFree, HoldsClaim, Exists, NoRow, At, HandlersIdle
    <2>2. run'[r].pc = "ended" /\ \A q \in Runs \ {r} : run'[q] = run[q]
      BY <1>9, <1>a DEF CancelRun, RunType, Run, At
    <2>3. ~Active(run'[r]) /\ RunsSteady
      BY <2>2, OneRunSteady DEF Active
    <2> QED
      BY <2>1, <2>3, <1>a, OwnWriteSteady
  <1> QED
    BY <1>c, <1>1, <1>2, <1>3, <1>4, <1>5, <1>6, <1>7, <1>8, <1>9 DEF RunStep, AgentStep

LEMMA TickStepSteady ==
  ASSUME BoardInv, Quiescent, TickStep
  PROVE  ClaimsSteady /\ RunsSteady /\ chat' = chat
PROOF
  <1>a. BoardType /\ RunType /\ SchedType
    BY DEF BoardInv, TypeInv
  <1>b. \A t \in Tasks : card[t] \in Card
    BY <1>a DEF BoardType
  <1> USE DEF HandlersIdle
  <1>1. CASE TickRelease \/ TickRecompute
    BY <1>1, <1>a, SweepSteady, SameRunsSteady DEF TickRelease, TickRecompute
  <1>2. CASE TickList \/ TickEnd
    BY <1>2, SameCardsSteady, SameRunsSteady DEF TickList, TickEnd
  <1>3. CASE TickDisable
    <2>1. sched.cur \in Tasks
      BY <1>3, <1>a DEF TickDisable, SchedType
    <2>2. Steady(card[sched.cur], [card[sched.cur] EXCEPT !.enabled = FALSE])
      BY <2>1, <1>b, FlagSteady
    <2> QED
      BY <1>3, <2>1, <2>2, <1>a, WriteSteady, SameRunsSteady DEF TickDisable
  <1>4. CASE TickSetTodo
    <2>1. sched.cur \in Tasks /\ "todo" \in KanbanStatuses
      BY <1>4, <1>a DEF TickSetTodo, SchedType, KanbanStatuses
    <2> QED
      BY <1>4, <2>1, <1>a, SetStatusSteady, SameRunsSteady DEF TickSetTodo
  <1>5. ASSUME NEW t \in Tasks, TickSkip(t)
        PROVE  ClaimsSteady /\ RunsSteady /\ chat' = chat
    <2>1. Steady(card[t], [card[t] EXCEPT !.due = "future"])
      BY <1>b, FlagSteady
    <2> QED
      BY <1>5, <2>1, <1>a, WriteSteady, SameRunsSteady DEF TickSkip
  <1>6. ASSUME NEW t \in Tasks, TickOutOfRuns(t)
        PROVE  ClaimsSteady /\ RunsSteady /\ chat' = chat
    BY <1>6, SameCardsSteady, SameRunsSteady DEF TickOutOfRuns
  <1>7. ASSUME NEW t \in Tasks, NEW r \in Runs, TickRun(t, r)
        PROVE  ClaimsSteady /\ RunsSteady /\ chat' = chat
    BY <1>7, <1>a, SameCardsSteady, FreshSteady DEF TickRun, cardVars
  <1> QED
    BY <1>1, <1>2, <1>3, <1>4, <1>5, <1>6, <1>7 DEF TickStep

LEMMA HandlerStepSteady ==
  ASSUME BoardInv, Quiescent, HandlerStep
  PROVE  ClaimsSteady /\ RunsSteady /\ chat' = chat
PROOF
  <1>a. BoardType
    BY DEF BoardInv, TypeInv
  <1>1. ~ChatBlockWrite
    BY DEF Quiescent, NoChat, ChatBlockWrite
  <1>2. ASSUME NEW t \in Tasks,
               SyncDisabled(t) \/ SyncRead(t) \/ SyncEnabled(t) \/ ApproveRecompute(t)
        PROVE  ClaimsSteady /\ RunsSteady /\ chat' = chat
    <2>1. run' = run /\ chat' = chat /\ {"todo", "ready"} \subseteq KanbanStatuses
      BY <1>2 DEF SyncDisabled, SyncRead, SyncEnabled, ApproveRecompute, KanbanStatuses
    <2>2. \/ SetStatus(t, "todo") \/ SetStatus(t, "ready") \/ RecomputeReady \/ card' = card
      BY <1>2 DEF SyncDisabled, SyncRead, SyncEnabled, ApproveRecompute
    <2> QED
      BY <2>1, <2>2, <1>a, SetStatusSteady, SweepSteady, SameCardsSteady, SameRunsSteady
  <1> QED
    BY <1>1, <1>2 DEF HandlerStep

LEMMA RequestsSteady ==
  ASSUME BoardInv, Quiescent, Undisturbed, Requests
  PROVE  ClaimsSteady /\ RunsSteady /\ chat' = chat
PROOF
  <1>a. BoardType /\ RunType
    BY DEF BoardInv, TypeInv
  <1>b. \A t \in Tasks : card[t] \in Card
    BY <1>a DEF BoardType
  <1>1. ASSUME NEW t \in Tasks, Board(t)
        PROVE  ClaimsSteady /\ RunsSteady /\ chat' = chat
    BY <1>1, <1>a, BoardOpSteady, SameRunsSteady DEF Board, HandlersIdle
  <1>2. ASSUME NEW t \in Tasks, Approve(t)
        PROVE  ClaimsSteady /\ RunsSteady /\ chat' = chat
    <2>1. Write(t, WithStatus(card[t], "done")) /\ card[t].status \notin NoRow
      BY <1>2 DEF Approve, ApproveReview, NoRow
    <2>2. Steady(card[t], WithStatus(card[t], "done"))
      BY <2>1, <1>b, PresentSteady DEF KanbanStatuses
    <2> QED
      BY <1>2, <2>1, <2>2, <1>a, WriteSteady, SameRunsSteady DEF Approve
  <1>3. ASSUME NEW t \in Tasks, NEW on \in BOOLEAN, SetEnabled(t, on)
        PROVE  ClaimsSteady /\ RunsSteady /\ chat' = chat
    <2>1. Steady(card[t], [card[t] EXCEPT !.enabled = on])
      BY <1>b, FlagSteady
    <2> QED
      BY <1>3, <2>1, <1>a, WriteSteady, SameRunsSteady DEF SetEnabled
  <1>4. ASSUME NEW t \in Tasks, NEW kind
        PROVE  ~ChatBlockRead(t, kind)
    BY DEF ChatBlockRead, Undisturbed, ClaimBreakers
  <1>5. ASSUME NEW r \in Runs, NEW t \in Tasks, RunNow(r, t)
        PROVE  ClaimsSteady /\ RunsSteady /\ chat' = chat
    BY <1>5, <1>a, SameCardsSteady, FreshSteady DEF RunNow, HandlersIdle
  <1>6. ASSUME NEW r \in Runs, ResumeRun(r) \/ CancelRun(r)
        PROVE  ClaimsSteady /\ RunsSteady /\ chat' = chat
    <2>1. ~ClaimTask(r) /\ ~EnsureTaskClaim(r)
      BY <1>6 DEF ResumeRun, CancelRun, ClaimTask, EnsureTaskClaim, At
    <2> QED
      BY <1>6, <2>1, RunStepSteady
  <1> QED
    BY <1>1, <1>2, <1>3, <1>4, <1>5, <1>6 DEF Requests

\* The TTL of a live run does not run out: its heartbeat renews it.
LEMMA ClockSteady ==
  ASSUME BoardInv, Quiescent, Undisturbed, NEW t \in Tasks, ClockReaches(t) \/ ClaimExpires(t)
  PROVE  ClaimsSteady /\ RunsSteady /\ chat' = chat
PROOF
  <1>a. BoardType /\ card[t] \in Card
    BY DEF BoardInv, TypeInv, BoardType
  <1>1. RunsSteady /\ chat' = chat /\ run' = run
    BY SameRunsSteady DEF ClockReaches, ClaimExpires, HandlersIdle
  <1>2. CASE ClockReaches(t)
    BY <1>2, <1>1, <1>a, FlagSteady, WriteSteady DEF ClockReaches
  <1>3. CASE ClaimExpires(t)
    <2>1. /\ card[t].claim # NoRun /\ ~Live(card[t].claim)
          /\ \A u \in Tasks \ {t} : card'[u] = card[u]
      BY <1>3, <1>a DEF ClaimExpires, Undisturbed, ClaimBreakers, Write, BoardType
    <2>2. \A q \in Runs : ~(Owned(card[t], q) /\ Active(run'[q]))
      BY <2>1, <1>1 DEF Owned, Active, Live
    <2> QED
      BY <2>1, <2>2, <1>1 DEF ClaimsSteady
  <1> QED
    BY <1>2, <1>3

LEMMA CrashSteady ==
  ASSUME RunType, Quiescent, Crash
  PROVE  ClaimsSteady /\ RunsSteady /\ chat' = chat
PROOF
  <1>1. ASSUME NEW q \in Runs
        PROVE  run'[q].pc # "budget" /\ ~Active(run'[q])
    <2>1. \/ run'[q] = FreshRun
          \/ run'[q] = [run[q] EXCEPT !.pc = "ended"]
          \/ run'[q] = run[q] /\ ~Live(q)
      BY DEF Crash
    <2>2. run[q] \in Run
      BY DEF RunType
    <2> QED
      BY <2>1, <2>2 DEF FreshRun, Run, Live, Active
  <1>2. ClaimsSteady /\ chat' = chat
    BY SameCardsSteady DEF Crash, cardVars, Quiescent
  <1> QED
    BY <1>1, <1>2 DEF RunsSteady

LEMMA SteadyOrClaims ==
  ASSUME BoardInv, Quiescent, Undisturbed, [Next]_vars
  PROVE  \/ ClaimsSteady /\ RunsSteady /\ chat' = chat
         \/ \E r \in Runs : ClaimTask(r) \/ EnsureTaskClaim(r)
PROOF
  <1>1. CASE UNCHANGED vars
    BY <1>1, SameCardsSteady, SameRunsSteady DEF vars
  <1>2. CASE Next
    <2>1. RunType
      BY DEF BoardInv, TypeInv
    <2> QED
      BY <1>2, <2>1, RunStepSteady, TickStepSteady, HandlerStepSteady, RequestsSteady,
         ClockSteady, CrashSteady DEF Next
  <1> QED
    BY <1>1, <1>2

-----------------------------------------------------------------------------
(* The invariant.                                                          *)

LEMMA ClaimStepExclusive ==
  ASSUME ExclusiveInv, BoardInv', NEW r \in Runs, ClaimTask(r) \/ EnsureTaskClaim(r)
  PROVE  ExclusiveInv'
PROOF
  <1> DEFINE t == run[r].task
  <1>a. BoardType /\ RunType /\ OwnersOK /\ Apart /\ Quiescent
    BY DEF ExclusiveInv, BoardInv, TypeInv
  <1>1. t \in Tasks /\ card[t] \in Card
    BY <1>a DEF ClaimTask, EnsureTaskClaim, At, RunType, BoardType
  <1>2. /\ card[t].claim \in {r, NoRun} /\ card[t].status # "deleted"
        /\ card'[t] = Claimed(card[t], r) /\ chat' = chat
        /\ \A u \in Tasks \ {t} : card'[u] = card[u]
    BY <1>1, <1>a DEF ClaimTask, EnsureTaskClaim, Claimable, OwnOrFree, HoldsClaim, Exists,
                      NoRow, Write, BoardType, HandlersIdle
  <1>3. PICK pc \in {"inserting", "engine"} : Goto(r, pc)
    BY DEF ClaimTask, EnsureTaskClaim
  <1>4. run'[r].pc = pc /\ run'[r].task = t /\ \A q \in Runs \ {r} : run'[q] = run[q]
    BY <1>3, <1>a, GotoFields
  <1>5. ASSUME NEW q \in Runs \ {r}, Active(run[q])
        PROVE  run[q].task \in Tasks \ {t}
    <2>1. Owned(card[run[q].task], q) /\ run[q].task \in Tasks
      BY <1>5, <1>a DEF OwnersOK, Active, RunType
    <2>2. ~Owned(card[t], q)
      BY <1>2, NoRunAssumption DEF Owned
    <2> QED
      BY <2>1, <2>2
  <1>6. Owned(card'[t], r)
    BY <1>1, <1>2 DEF Claimed, Card, Owned
  <1>7. OwnersOK'
    BY <1>2, <1>4, <1>5, <1>6, <1>a DEF OwnersOK
  <1>8. Apart'
    BY <1>4, <1>5, <1>a DEF Apart
  <1>9. Quiescent'
    BY <1>2, <1>4, <1>a DEF Quiescent, NoChat
  <1> QED
    BY <1>7, <1>8, <1>9 DEF ExclusiveInv

LEMMA ExclusiveNext ==
  ASSUME Undisturbed, ExclusiveInv, [Next]_vars
  PROVE  ExclusiveInv'
PROOF
  <1>1. BoardInv' /\ BoardInv /\ Quiescent /\ RunType
    BY BoardInvNext DEF ExclusiveInv, BoardInv, TypeInv
  <1>2. CASE ClaimsSteady /\ RunsSteady /\ chat' = chat
    <2>1. ASSUME NEW r \in Runs, Active(run'[r])
          PROVE  Active(run[r]) /\ run'[r].task = run[r].task /\ run[r].task \in Tasks
      BY <1>1, <1>2, <2>1 DEF RunsSteady, Active, RunType
    <2>2. OwnersOK'
      BY <1>2, <2>1 DEF ClaimsSteady, ExclusiveInv, OwnersOK
    <2>3. Apart'
      BY <2>1 DEF ExclusiveInv, Apart
    <2>4. Quiescent'
      BY <1>1, <1>2 DEF RunsSteady, Quiescent, NoChat
    <2> QED
      BY <1>1, <2>2, <2>3, <2>4 DEF ExclusiveInv
  <1> QED
    BY <1>1, <1>2, SteadyOrClaims, ClaimStepExclusive

LEMMA ExclusiveInit == Init => ExclusiveInv
PROOF
  <1> SUFFICES ASSUME Init PROVE ExclusiveInv
    OBVIOUS
  <1>1. Quiescent /\ OwnersOK /\ Apart
    BY DEF Init, Quiescent, OwnersOK, Apart, Active, FreshRun
  <1> QED
    BY <1>1, BoardInvInit DEF ExclusiveInv

\* The promise of the claim, for any number of triggers of any number of tasks:
\* unless one of the ClaimBreakers happens, two agents never work on one task.
\* People may move, archive, delete and re-enable cards, approve, resume and
\* cancel runs, and the process may crash, at any moment.
THEOREM ExclusiveExecution ==
  ASSUME Undisturbed
  PROVE  Spec => []NoConcurrentExecution
PROOF
  <1>1. ExclusiveInv => NoConcurrentExecution
    BY DEF ExclusiveInv, Apart, Active, NoConcurrentExecution, Executing, At
  <1>2. ExclusiveInv /\ [Next]_vars => ExclusiveInv'
    BY ExclusiveNext
  <1> QED
    BY <1>1, <1>2, ExclusiveInit, PTL DEF Spec

-----------------------------------------------------------------------------
(***************************************************************************)
(* Two properties that follow what one card goes through: how a claim      *)
(* ends, and that the scheduler runs a `once' task a single time.          *)
(*                                                                         *)
(* Both rest on what any step may do to a card.  A card that was created   *)
(* is never enabled again, unless somebody enables it; and its claim       *)
(* changes only as ClaimGoes says, unless a chat agent, the budget or the  *)
(* agent of the run itself moves it.                                       *)
(***************************************************************************)

Untoggled == "toggle" \notin Events

Unforced == Events \cap {"chat_block", "budget", "self_move"} = {}

\* What a step leaves of a card: it stays created, and as disabled as it was;
\* deleted, it has neither a flag nor a claim.
Tame(c, d) ==
  /\ c.status # "absent" => d.status # "absent"
  /\ Untoggled =>
       /\ c.status # "absent" /\ d.enabled => c.enabled
       /\ d.status = "deleted" => c.status = "deleted" \/ ~d.enabled
  /\ d.status \in NoRow => \/ d.claim = NoRun
                           \/ c.status \in NoRow /\ d.claim = c.claim

CardsTame == \A t \in Tasks : Tame(card[t], card'[t])

ClaimGoes(t) ==
  card[t].claim # NoRun /\ card'[t].claim # card[t].claim =>
    /\ card'[t].claim = NoRun
    /\ \/ card[t].expired
       \/ run'[card[t].claim] # run[card[t].claim]
       \/ card'[t].status = "deleted"

ClaimsGo == \A t \in Tasks : ClaimGoes(t)

\* A card without a row has no claim.
Unclaimed == \A t \in Tasks : card[t].status \in NoRow => card[t].claim = NoRun

StepOK == CardsTame /\ (Unforced => ClaimsGo)

-----------------------------------------------------------------------------
(* Row transforms.                                                         *)

LEMMA WithStatusTame ==
  ASSUME NEW c \in Card, NEW s \in KanbanStatuses
  PROVE  Tame(c, WithStatus(c, s)) /\ WithStatus(c, s).claim = c.claim
PROOF
  <1>1. /\ WithStatus(c, s).status = s /\ WithStatus(c, s).enabled = c.enabled
        /\ WithStatus(c, s).claim = c.claim
    BY DEF WithStatus, Card
  <1> QED
    BY <1>1 DEF Tame, KanbanStatuses, NoRow

LEMMA FencedStatusTame ==
  ASSUME NEW c \in Card, NEW t \in Tasks, NEW s \in KanbanStatuses
  PROVE  /\ FencedStatus(c, t, s).status = s
         /\ FencedStatus(c, t, s).enabled = c.enabled
PROOF
  <1>1. /\ WithStatus(c, s) \in Card
        /\ WithStatus(c, s).status = s /\ WithStatus(c, s).enabled = c.enabled
    BY WithStatusType DEF WithStatus, Card
  <1>2. /\ WithoutClaim(WithStatus(c, s)) \in Card
        /\ WithoutClaim(WithStatus(c, s)).status = s
        /\ WithoutClaim(WithStatus(c, s)).enabled = c.enabled
    BY <1>1 DEF WithoutClaim, Card
  <1> QED
    BY <1>2 DEF FencedStatus, Card

LEMMA CompletedTame ==
  ASSUME NEW c \in Card, NEW t \in Tasks
  PROVE  Tame(c, Completed(c, t)) /\ Completed(c, t).claim = NoRun
PROOF
  <1>1. Target(t) \in KanbanStatuses
    BY DEF Target, KanbanStatuses
  <1>2. FencedStatus(c, t, Target(t)) \in Card
        /\ FencedStatus(c, t, Target(t)).status = Target(t)
        /\ FencedStatus(c, t, Target(t)).enabled = c.enabled
    BY <1>1, FencedStatusTame, FencedStatusType
  <1>3. Completed(c, t).status = Target(t) /\ Completed(c, t).enabled = c.enabled
    BY <1>2 DEF Completed, Card
  <1> QED
    BY <1>1, <1>3, CompletedKept DEF Tame, KanbanStatuses, NoRow

LEMMA BlockedTame ==
  ASSUME NEW c \in Card, NEW kind \in BlockKinds, NEW seen \in 0..MaxBlocks
  PROVE  Tame(c, Blocked(c, kind, seen)) /\ Blocked(c, kind, seen).claim = NoRun
PROOF
  <1>1. WithoutClaim(c) \in Card /\ WithoutClaim(c).enabled = c.enabled
    BY DEF WithoutClaim, Card
  <1>2. /\ Blocked(c, kind, seen).status \in {"todo", "triage", "blocked"}
        /\ Blocked(c, kind, seen).enabled = c.enabled
    <2>1. CASE kind = "dependency"
      BY <1>1, <2>1 DEF Blocked, Card
    <2>2. CASE kind # "dependency"
      <3> DEFINE n == IF seen < MaxBlocks THEN seen + 1 ELSE seen
                 s == IF seen + 1 >= BlockRecurrenceLimit THEN "triage" ELSE "blocked"
      <3>1. Blocked(c, kind, seen)
              = [WithoutClaim(c) EXCEPT !.status = s, !.kind = kind, !.count = n]
        BY <2>2 DEF Blocked
      <3>2. s \in {"triage", "blocked"}
        OBVIOUS
      <3> HIDE DEF s, n
      <3> QED
        BY <1>1, <3>1, <3>2 DEF Card
    <2> QED
      BY <2>1, <2>2
  <1> QED
    BY <1>2, BlockedKept DEF Tame, NoRow

LEMMA ReadyTame ==
  ASSUME NEW c \in Card
  PROVE  /\ Tame(c, Unblocked(c)) /\ Unblocked(c).claim = c.claim
         /\ Tame(c, Promoted(c)) /\ Promoted(c).claim = c.claim
         /\ Tame(c, StaleReleased(c)) /\ StaleReleased(c).claim = NoRun
PROOF
  <1>1. /\ Unblocked(c).status = "ready" /\ Unblocked(c).enabled = c.enabled
        /\ Unblocked(c).claim = c.claim
    BY DEF Unblocked, Card
  <1>2. /\ Promoted(c).status = "ready" /\ Promoted(c).enabled = c.enabled
        /\ Promoted(c).claim = c.claim
    BY DEF Promoted, Card
  <1>3. /\ StaleReleased(c).status = "ready" /\ StaleReleased(c).enabled = c.enabled
        /\ StaleReleased(c).claim = NoRun
    BY DEF StaleReleased, WithoutClaim, Card
  <1> QED
    BY <1>1, <1>2, <1>3 DEF Tame, NoRow

LEMMA ClaimedTame ==
  ASSUME NEW c \in Card, NEW r \in Runs
  PROVE  Tame(c, Claimed(c, r)) /\ Claimed(c, r).claim = r
PROOF
  <1>1. /\ Claimed(c, r).status = "running" /\ Claimed(c, r).enabled = c.enabled
        /\ Claimed(c, r).claim = r
    BY DEF Claimed, Card
  <1> QED
    BY <1>1 DEF Tame, NoRow

LEMMA FlagTame ==
  ASSUME NEW c \in Card, NEW b
  PROVE  /\ Tame(c, [c EXCEPT !.expired = b]) /\ [c EXCEPT !.expired = b].claim = c.claim
         /\ Tame(c, [c EXCEPT !.due = b]) /\ [c EXCEPT !.due = b].claim = c.claim
         /\ Tame(c, [c EXCEPT !.enabled = FALSE])
         /\ [c EXCEPT !.enabled = b].claim = c.claim
  BY DEF Card, Tame

-----------------------------------------------------------------------------
(* Writes.                                                                 *)

LEMMA SameCardsOK ==
  ASSUME card' = card
  PROVE  StepOK
  BY DEF StepOK, CardsTame, Tame, ClaimsGo, ClaimGoes

LEMMA WriteOK ==
  ASSUME BoardType, NEW t \in Tasks, NEW c, Write(t, c) \/ WriteIfExists(t, c),
         Write(t, c) \/ Exists(t) => Tame(card[t], c),
         \/ c.claim = card[t].claim
         \/ c.claim = NoRun /\ c.status = "deleted"
         \/ c.claim = NoRun /\ card[t].claim \in Runs
            /\ run'[card[t].claim] # run[card[t].claim]
         \/ card[t].claim = NoRun
  PROVE  StepOK
PROOF
  <1>1. CASE card' = card
    BY <1>1, SameCardsOK
  <1>2. CASE card' = [card EXCEPT ![t] = c] /\ Tame(card[t], c)
    <2>1. card'[t] = c /\ \A u \in Tasks \ {t} : card'[u] = card[u]
      BY <1>2 DEF BoardType
    <2>2. CardsTame
      BY <1>2, <2>1 DEF CardsTame, Tame
    <2>3. ClaimsGo
      BY <2>1 DEF ClaimsGo, ClaimGoes
    <2> QED
      BY <2>2, <2>3 DEF StepOK
  <1> QED
    BY <1>1, <1>2 DEF Write, WriteIfExists, cardVars

LEMMA SetStatusOK ==
  ASSUME BoardType, NEW t \in Tasks, NEW s \in KanbanStatuses, SetStatus(t, s)
  PROVE  StepOK
PROOF
  <1>1. Tame(card[t], WithStatus(card[t], s)) /\ WithStatus(card[t], s).claim = card[t].claim
    BY WithStatusTame DEF BoardType
  <1> QED
    BY <1>1, WriteOK DEF SetStatus

LEMMA SweepOK ==
  ASSUME BoardType, ReleaseStaleClaims \/ RecomputeReady
  PROVE  StepOK
PROOF
  <1>1. \A t \in Tasks : /\ Tame(card[t], Promoted(card[t]))
                         /\ Promoted(card[t]).claim = card[t].claim
                         /\ Tame(card[t], StaleReleased(card[t]))
                         /\ StaleReleased(card[t]).claim = NoRun
                         /\ Tame(card[t], card[t])
    BY ReadyTame DEF BoardType, Tame
  <1>2. CardsTame
    BY <1>1 DEF CardsTame, ReleaseStaleClaims, RecomputeReady
  <1>3. ClaimsGo
    BY <1>1 DEF ClaimsGo, ClaimGoes, ReleaseStaleClaims, RecomputeReady
  <1> QED
    BY <1>2, <1>3 DEF StepOK

LEMMA BoardOpOK ==
  ASSUME BoardType, Unclaimed, NEW t \in Tasks, BoardOp(t)
  PROVE  StepOK
PROOF
  <1>a. card[t] \in Card
    BY DEF BoardType
  <1>1. ASSUME NEW dated \in BOOLEAN, CreateTask(t, dated)
        PROVE  StepOK
    <2> DEFINE s == IF dated THEN "scheduled" ELSE "ready"
               d == IF dated THEN "future" ELSE "none"
               c == [AbsentCard EXCEPT !.status = s, !.enabled = TRUE, !.due = d]
    <2>1. Write(t, c) /\ card[t].status = "absent"
      BY <1>1 DEF CreateTask
    <2>2. c.status = s /\ s # "deleted"
      BY DEF AbsentCard
    <2>9. c.claim = NoRun
      BY DEF AbsentCard
    <2> HIDE DEF c, s, d
    <2>3. card' = [card EXCEPT ![t] = c]
      BY <2>1 DEF Write
    <2>4. card'[t] = c /\ \A u \in Tasks \ {t} : card'[u] = card[u]
      BY <2>3 DEF BoardType
    <2>5. Tame(card[t], c)
      BY <2>1, <2>2, <2>9 DEF Tame
    <2>6. CardsTame
      BY <2>4, <2>5 DEF CardsTame, Tame
    <2>7. card'[t].claim = NoRun
      BY <2>4 DEF c, AbsentCard
    <2>8. ClaimsGo
      BY <2>1, <2>4, <2>7 DEF ClaimsGo, ClaimGoes, Unclaimed, NoRow
    <2> QED
      BY <2>6, <2>8 DEF StepOK
  <1>2. CASE DeleteTask(t)
    <2> DEFINE c == [AbsentCard EXCEPT !.status = "deleted"]
    <2>1. Tame(card[t], c) /\ c.claim = NoRun /\ c.status = "deleted"
      BY DEF AbsentCard, Tame
    <2>2. Write(t, c)
      BY <1>2 DEF DeleteTask
    <2> HIDE DEF c
    <2> QED
      BY <2>1, <2>2, WriteOK
  <1>3. CASE UnblockTask(t)
    BY <1>3, <1>a, ReadyTame, WriteOK DEF UnblockTask
  <1>4. ASSUME NEW s \in KanbanStatuses, ManualTransition(t, s)
        PROVE  StepOK
    <2>1. /\ Tame(card[t], Unblocked(card[t])) /\ Unblocked(card[t]).claim = card[t].claim
          /\ Tame(card[t], WithStatus(card[t], s))
          /\ WithStatus(card[t], s).claim = card[t].claim
      BY <1>a, ReadyTame, WithStatusTame
    <2> QED
      BY <1>4, <2>1, WriteOK DEF ManualTransition
  <1>5. ASSUME NEW p \in Tasks, AddDependency(p, t) \/ RemoveDependency(p, t)
        PROVE  StepOK
    BY <1>5, SameCardsOK DEF AddDependency, RemoveDependency
  <1>6. {"archived", "done", "ready", "triage", "todo"} \subseteq KanbanStatuses
    BY DEF KanbanStatuses
  <1> QED
    BY <1>1, <1>2, <1>3, <1>4, <1>5, <1>6, SetStatusOK DEF BoardOp

-----------------------------------------------------------------------------
(* Steps of the runs.  A coroutine that ends wakes the scheduler that      *)
(* waits for it; none takes a task but by Start.                           *)

\* No chat agent, and no run that found the budget spent, is about to write.
Calm == Unforced => chat = NoChat /\ \A r \in Runs : run[r].pc # "budget"

RunMoves(r) ==
  /\ \A q \in Runs \ {r} : run'[q] = run[q]
  /\ \/ run'[r].task = run[r].task /\ sched' = sched
     \/ run'[r].task \in {run[r].task, NoTask} /\ WakeScheduler(r)
  /\ run'[r].pc = "budget" => run[r].pc = "budget" \/ ~Unforced
  /\ chat' = chat

LEMMA RunStepOK ==
  ASSUME BoardInv, Calm, NEW r \in Runs, RunStep(r) \/ AgentStep(r) \/ ResumeRun(r) \/ CancelRun(r)
  PROVE  StepOK /\ RunMoves(r)
PROOF
  <1> DEFINE t == run[r].task
  <1>a. BoardType /\ RunType
    BY DEF BoardInv, TypeInv
  <1>b. ASSUME ~At(r, "idle")
        PROVE  t \in Tasks /\ card[t] \in Card
    BY <1>b, <1>a DEF At, RunType, BoardType
  <1>c. run[r] \in Run /\ run[r].seen \in 0..MaxBlocks /\ "person" \in BlockKinds
    BY <1>a DEF RunType, Run, BlockKinds
  <1>d. ASSUME NEW pc \in RunPC \ {"budget"}, Goto(r, pc), sched' = sched, chat' = chat
        PROVE  RunMoves(r)
    BY <1>d, <1>a, GotoFields DEF RunMoves
  <1>e. ASSUME NEW row, End(r, row), chat' = chat
        PROVE  RunMoves(r) /\ run'[r].pc = "ended"
    <2>1. /\ run'[r].pc = "ended" /\ run'[r].task = run[r].task
          /\ \A q \in Runs \ {r} : run'[q] = run[q]
      BY <1>e, <1>a, MarkFields DEF End
    <2> QED
      BY <1>e, <2>1 DEF RunMoves, End
  <1>f. ASSUME Discard(r), chat' = chat
        PROVE  RunMoves(r)
    BY <1>f, <1>a DEF RunMoves, Discard, FreshRun, RunType
  <1>g. ASSUME run' = run, sched' = sched, chat' = chat
        PROVE  RunMoves(r)
    BY <1>g DEF RunMoves
  <1>h. ASSUME NEW pc \in RunPC \ {"budget"}, NEW row, sched' = sched, chat' = chat,
               run' = [run EXCEPT ![r].pc = pc, ![r].row = row]
        PROVE  RunMoves(r) /\ run'[r].pc = pc
    BY <1>h, <1>a, MarkFields DEF RunMoves
  <1> USE DEF HandlersIdle
  <1>1. CASE BudgetSpent(r) \/ FinishError(r) \/ ResumeRun(r)
    <2>1. RunMoves(r)
      BY <1>1, <1>a DEF BudgetSpent, FinishError, ResumeRun, RunMoves, RunType, Run,
                         Unforced
    <2>2. card' = card
      BY <1>1 DEF BudgetSpent, FinishError, ResumeRun
    <2> QED
      BY <2>1, <2>2, SameCardsOK
  <1>2. CASE BudgetBlocks(r)
    <2>1. t \in Tasks /\ Tame(card[t], Blocked(card[t], "person", run[r].seen))
      BY <1>2, <1>b, <1>c, BlockedTame DEF BudgetBlocks, At
    <2>2. WriteIfExists(t, Blocked(card[t], "person", run[r].seen))
      BY <1>2 DEF BudgetBlocks
    <2>3. CardsTame
      BY <2>1, <2>2, <1>a, SameCardsOK DEF WriteIfExists, Write, CardsTame, BoardType, cardVars,
                                           StepOK, Tame
    <2> QED
      BY <1>2, <2>3, <1>f DEF BudgetBlocks, StepOK, Calm, At
  <1>3. CASE ClaimTask(r) \/ EnsureTaskClaim(r)
    <2>1. /\ t \in Tasks /\ Write(t, Claimed(card[t], r)) /\ card[t].claim \in {r, NoRun}
          /\ sched' = sched /\ chat' = chat
          /\ \E pc \in RunPC \ {"budget"} : Goto(r, pc)
      BY <1>3, <1>b DEF ClaimTask, EnsureTaskClaim, Claimable, OwnOrFree, HoldsClaim, At, RunPC
    <2>2. Tame(card[t], Claimed(card[t], r)) /\ Claimed(card[t], r).claim = r
      BY <2>1, <1>a, ClaimedTame DEF BoardType
    <2>3. StepOK
      BY <2>1, <2>2, <1>a, WriteOK
    <2> QED
      BY <2>1, <2>3, <1>d
  <1>4. CASE ClaimRefused(r)
    BY <1>4, <1>f, SameCardsOK DEF ClaimRefused, cardVars
  <1>5. CASE ClaimRaises(r) \/ EngineFails(r) \/ CompletionRaises(r) \/ ReportFails(r)
             \/ EnsureRefused(r) \/ ReserveRaises(r)
    <2>1. card' = card /\ sched' = sched /\ chat' = chat
          /\ \E pc \in RunPC \ {"budget"} : Goto(r, pc)
      BY <1>5 DEF ClaimRaises, EngineFails, CompletionRaises, ReportFails, EnsureRefused,
                  ReserveRaises, RunPC
    <2> QED
      BY <2>1, <1>d, SameCardsOK
  <1>6. CASE InsertRun(r)
    BY <1>6, <1>h, SameCardsOK DEF InsertRun, RunPC
  <1>7. CASE Interrupted(r) \/ CompletionDropped(r) \/ Report(r) \/ UndoReservation(r)
    <2>1. card' = card /\ chat' = chat /\ \E row : End(r, row)
      BY <1>7 DEF Interrupted, CompletionDropped, Report, UndoReservation, cardVars
    <2> QED
      BY <2>1, <1>e, SameCardsOK
  <1>8. CASE CompleteRun(r)
    <2>1. /\ t \in Tasks /\ card[t].claim = r /\ run[r].pc = "engine"
          /\ Write(t, Completed(card[t], t)) /\ sched' = sched /\ chat' = chat
          /\ run' = [run EXCEPT ![r].pc = "promoting", ![r].row = "done"]
      BY <1>8, <1>b DEF CompleteRun, MayComplete, HoldsClaim, At
    <2>2. RunMoves(r) /\ run'[r].pc = "promoting"
      BY <2>1, <1>h DEF RunPC
    <2>3. Tame(card[t], Completed(card[t], t)) /\ Completed(card[t], t).claim = NoRun
      BY <2>1, <1>a, CompletedTame DEF BoardType
    <2>4. StepOK
      BY <2>1, <2>2, <2>3, <1>a, WriteOK
    <2> QED
      BY <2>2, <2>4
  <1>9. CASE PromoteChildren(r)
    BY <1>9, <1>a, <1>d, SweepOK DEF PromoteChildren, RunPC
  <1>10. CASE BlockOwnCard(r)
    <2>1. t \in Tasks /\ run[r].pc = "blocking" /\ End(r, run[r].row)
          /\ chat' = chat
      BY <1>10, <1>b DEF BlockOwnCard, At
    <2>2. RunMoves(r) /\ run'[r] # run[r]
      BY <2>1, <1>e
    <2>3. CASE HoldsLiveClaim(t, r)
      <3>1. /\ Tame(card[t], Blocked(card[t], "person", run[r].seen))
            /\ Blocked(card[t], "person", run[r].seen).claim = NoRun
        BY <2>1, <1>a, <1>c, BlockedTame DEF BoardType
      <3>2. card[t].claim = r /\ Write(t, Blocked(card[t], "person", run[r].seen))
        BY <1>10, <2>3 DEF BlockOwnCard, HoldsLiveClaim, HoldsClaim
      <3>3. StepOK
        BY <2>1, <2>2, <3>1, <3>2, <1>a, WriteOK
      <3> QED
        BY <2>2, <3>3
    <2>4. CASE ~HoldsLiveClaim(t, r)
      BY <1>10, <2>2, <2>4, SameCardsOK DEF BlockOwnCard, cardVars
    <2> QED
      BY <2>3, <2>4
  <1>11. CASE HeartbeatClaim(r)
    <2>1. t \in Tasks /\ Write(t, [card[t] EXCEPT !.expired = FALSE])
          /\ run' = run /\ sched' = sched /\ chat' = chat
      BY <1>11, <1>b DEF HeartbeatClaim, At
    <2>2. StepOK
      BY <2>1, <1>a, FlagTame, WriteOK DEF BoardType
    <2> QED
      BY <2>1, <2>2, <1>g
  <1>12. CASE CancelRun(r)
    <2>1. /\ t \in Tasks /\ card[t].claim \in {r, NoRun} /\ run[r].row = "awaiting_approval"
          /\ Write(t, Blocked(card[t], "person", card[t].count)) /\ sched' = sched
          /\ run' = [run EXCEPT ![r].row = "cancelled"] /\ chat' = chat
      BY <1>12, <1>b DEF CancelRun, OwnOrFree, HoldsClaim, At
    <2>2. RunMoves(r) /\ run'[r] # run[r]
      BY <2>1, <1>a DEF RunMoves, RunType, Run
    <2>3. card[t] \in Card /\ card[t].count \in 0..MaxBlocks
      BY <2>1, <1>a DEF BoardType, Card
    <2>4. /\ Tame(card[t], Blocked(card[t], "person", card[t].count))
          /\ Blocked(card[t], "person", card[t].count).claim = NoRun
      BY <2>3, <1>c, BlockedTame
    <2>5. StepOK
      BY <2>1, <2>2, <2>4, <1>a, WriteOK
    <2> QED
      BY <2>2, <2>5
  <1>13. ASSUME NEW kind \in BlockKinds \ {"none"}, SelfBlock(r, kind)
         PROVE  StepOK /\ RunMoves(r)
    <2>1. /\ t \in Tasks /\ Write(t, Blocked(card[t], kind, card[t].count)) /\ ~Unforced
          /\ run' = run /\ sched' = sched /\ chat' = chat
      BY <1>13, <1>b DEF SelfBlock, At, Unforced
    <2>2. card[t] \in Card /\ card[t].count \in 0..MaxBlocks
      BY <2>1, <1>a DEF BoardType, Card
    <2>3. Tame(card[t], Blocked(card[t], kind, card[t].count))
      BY <2>2, BlockedTame
    <2>4. CardsTame
      BY <2>1, <2>3, <1>a DEF Write, CardsTame, BoardType, Tame
    <2> QED
      BY <2>1, <2>4, <1>g DEF StepOK
  <1>14. ASSUME NEW s \in KanbanStatuses, SelfMove(r, s)
         PROVE  StepOK /\ RunMoves(r)
    <2>1. /\ t \in Tasks /\ run' = run /\ sched' = sched /\ chat' = chat /\ ~Unforced
          /\ \/ Write(t, Unblocked(card[t])) \/ Write(t, FencedStatus(card[t], t, s))
      BY <1>14, <1>b DEF SelfMove, At, Unforced
    <2>2. Tame(card[t], Unblocked(card[t])) /\ Tame(card[t], FencedStatus(card[t], t, s))
      BY <2>1, <1>a, ReadyTame, FencedStatusTame DEF BoardType, Tame, KanbanStatuses, NoRow
    <2>3. CardsTame
      BY <2>1, <2>2, <1>a DEF Write, CardsTame, BoardType, Tame
    <2> QED
      BY <2>1, <2>3, <1>g DEF StepOK
  <1> QED
    BY <1>1, <1>2, <1>3, <1>4, <1>5, <1>6, <1>7, <1>8, <1>9, <1>10, <1>11, <1>12, <1>13,
       <1>14 DEF RunStep, AgentStep

-----------------------------------------------------------------------------
(* The other steps.                                                        *)

LEMMA TickCards ==
  ASSUME BoardInv, TickStep
  PROVE  StepOK /\ chat' = chat
PROOF
  <1>a. BoardType /\ SchedType
    BY DEF BoardInv, TypeInv
  <1>b. \A t \in Tasks : card[t] \in Card
    BY <1>a DEF BoardType
  <1> USE DEF HandlersIdle
  <1>1. CASE TickRelease \/ TickRecompute
    BY <1>1, <1>a, SweepOK DEF TickRelease, TickRecompute
  <1>2. CASE TickList \/ TickEnd
    BY <1>2, SameCardsOK DEF TickList, TickEnd
  <1>3. CASE TickDisable
    <2>1. sched.cur \in Tasks
      BY <1>3, <1>a DEF TickDisable, SchedType
    <2>2. /\ Tame(card[sched.cur], [card[sched.cur] EXCEPT !.enabled = FALSE])
          /\ [card[sched.cur] EXCEPT !.enabled = FALSE].claim = card[sched.cur].claim
      BY <2>1, <1>b, FlagTame
    <2> QED
      BY <1>3, <2>1, <2>2, <1>a, WriteOK DEF TickDisable
  <1>4. CASE TickSetTodo
    BY <1>4, <1>a, SetStatusOK DEF TickSetTodo, SchedType, KanbanStatuses
  <1>5. ASSUME NEW t \in Tasks, TickSkip(t)
        PROVE  StepOK /\ chat' = chat
    <2>1. /\ Tame(card[t], [card[t] EXCEPT !.due = "future"])
          /\ [card[t] EXCEPT !.due = "future"].claim = card[t].claim
      BY <1>b, FlagTame
    <2> QED
      BY <1>5, <2>1, <1>a, WriteOK DEF TickSkip
  <1>6. ASSUME NEW t \in Tasks, TickOutOfRuns(t) \/ \E r \in Runs : TickRun(t, r)
        PROVE  StepOK /\ chat' = chat
    BY <1>6, SameCardsOK DEF TickOutOfRuns, TickRun, cardVars
  <1> QED
    BY <1>1, <1>2, <1>3, <1>4, <1>5, <1>6 DEF TickStep

LEMMA HandlerStepOK ==
  ASSUME BoardInv, Calm, HandlerStep
  PROVE  StepOK /\ run' = run /\ sched' = sched /\ (chat' = chat \/ ~Unforced)
PROOF
  <1>a. BoardType /\ HandlerType
    BY DEF BoardInv, TypeInv
  <1>1. CASE ChatBlockWrite
    <2>1. /\ chat.task \in Tasks /\ chat.kind \in BlockKinds /\ chat.seen \in 0..MaxBlocks
          /\ ~Unforced
      BY <1>1, <1>a DEF ChatBlockWrite, HandlerType, Chat, Calm, NoChat
    <2>2. Tame(card[chat.task], Blocked(card[chat.task], chat.kind, chat.seen))
      BY <2>1, <1>a, BlockedTame DEF BoardType
    <2>3. CardsTame
      BY <1>1, <2>1, <2>2, <1>a DEF ChatBlockWrite, WriteIfExists, Write, CardsTame, BoardType,
                                    cardVars, Tame
    <2> QED
      BY <1>1, <2>1, <2>3 DEF ChatBlockWrite, StepOK
  <1>2. ASSUME NEW t \in Tasks,
               SyncDisabled(t) \/ SyncRead(t) \/ SyncEnabled(t) \/ ApproveRecompute(t)
        PROVE  StepOK /\ run' = run /\ sched' = sched /\ chat' = chat
    <2>1. run' = run /\ sched' = sched /\ chat' = chat /\ {"todo", "ready"} \subseteq KanbanStatuses
      BY <1>2 DEF SyncDisabled, SyncRead, SyncEnabled, ApproveRecompute, KanbanStatuses
    <2>2. \/ SetStatus(t, "todo") \/ SetStatus(t, "ready") \/ RecomputeReady \/ card' = card
      BY <1>2 DEF SyncDisabled, SyncRead, SyncEnabled, ApproveRecompute
    <2> QED
      BY <2>1, <2>2, <1>a, SetStatusOK, SweepOK, SameCardsOK
  <1> QED
    BY <1>1, <1>2 DEF HandlerStep

LEMMA RequestsOK ==
  ASSUME BoardInv, Calm, Unclaimed, Requests
  PROVE  /\ StepOK
         /\ \/ run' = run /\ sched' = sched /\ (chat' = chat \/ ~Unforced)
            \/ \E r \in Runs : RunMoves(r)
            \/ \E r \in Runs, t \in Tasks : RunNow(r, t)
PROOF
  <1>a. BoardType
    BY DEF BoardInv, TypeInv
  <1>b. \A t \in Tasks : card[t] \in Card
    BY <1>a DEF BoardType
  <1>1. ASSUME NEW t \in Tasks, Board(t)
        PROVE  StepOK /\ run' = run /\ sched' = sched /\ chat' = chat
    BY <1>1, <1>a, BoardOpOK DEF Board, HandlersIdle
  <1>2. ASSUME NEW t \in Tasks, Approve(t)
        PROVE  StepOK /\ run' = run /\ sched' = sched /\ chat' = chat
    <2>1. /\ Tame(card[t], WithStatus(card[t], "done"))
          /\ WithStatus(card[t], "done").claim = card[t].claim
      BY <1>b, WithStatusTame DEF KanbanStatuses
    <2> QED
      BY <1>2, <2>1, <1>a, WriteOK DEF Approve, ApproveReview
  <1>3. ASSUME NEW t \in Tasks, NEW on \in BOOLEAN, SetEnabled(t, on)
        PROVE  StepOK /\ run' = run /\ sched' = sched /\ chat' = chat
    <2> DEFINE c == [card[t] EXCEPT !.enabled = on]
    <2>1. c.claim = card[t].claim /\ c.status = card[t].status
      BY <1>b DEF Card
    <2>2. Write(t, c) /\ ~Untoggled /\ Exists(t) /\ run' = run /\ sched' = sched /\ chat' = chat
      BY <1>3 DEF SetEnabled, Untoggled
    <2> HIDE DEF c
    <2>3. Tame(card[t], c)
      BY <2>1, <2>2 DEF Tame, Exists, NoRow
    <2> QED
      BY <2>1, <2>2, <2>3, <1>a, WriteOK
  <1>4. ASSUME NEW t \in Tasks, NEW kind \in BlockKinds \ {"none"}, ChatBlockRead(t, kind)
        PROVE  StepOK /\ run' = run /\ sched' = sched /\ ~Unforced
    BY <1>4, SameCardsOK DEF ChatBlockRead, Unforced
  <1>5. ASSUME NEW r \in Runs, NEW t \in Tasks, RunNow(r, t)
        PROVE  StepOK
    BY <1>5, SameCardsOK DEF RunNow
  <1>6. ASSUME NEW r \in Runs, ResumeRun(r) \/ CancelRun(r)
        PROVE  StepOK /\ RunMoves(r)
    BY <1>6, RunStepOK
  <1> QED
    BY <1>1, <1>2, <1>3, <1>4, <1>5, <1>6 DEF Requests

LEMMA ClockOK ==
  ASSUME BoardInv, NEW t \in Tasks, ClockReaches(t) \/ ClaimExpires(t)
  PROVE  StepOK /\ run' = run /\ sched' = sched /\ chat' = chat
PROOF
  <1>a. BoardType /\ card[t] \in Card
    BY DEF BoardInv, TypeInv, BoardType
  <1>1. PICK c : Write(t, c) /\ Tame(card[t], c) /\ c.claim = card[t].claim
    <2>1. CASE ClockReaches(t)
      BY <2>1, <1>a, FlagTame DEF ClockReaches
    <2>2. CASE ClaimExpires(t)
      BY <2>2, <1>a, FlagTame DEF ClaimExpires
    <2> QED
      BY <2>1, <2>2
  <1>2. StepOK
    BY <1>1, <1>a, WriteOK
  <1> QED
    BY <1>2 DEF ClockReaches, ClaimExpires, HandlersIdle

-----------------------------------------------------------------------------
(* How a claim ends.                                                       *)

CardInv == BoardInv /\ Unclaimed /\ Calm

\* The classes of steps.
LEMMA CardSteps ==
  ASSUME CardInv, [Next]_vars
  PROVE  /\ StepOK
         /\ \/ \E r \in Runs : RunMoves(r)
            \/ run' = run /\ sched' = sched /\ (chat' = chat \/ ~Unforced)
            \/ TickStep /\ chat' = chat
            \/ \E r \in Runs, t \in Tasks : RunNow(r, t)
            \/ Crash
PROOF
  <1>1. CASE UNCHANGED vars
    BY <1>1, SameCardsOK DEF vars
  <1>2. CASE Crash
    BY <1>2, SameCardsOK DEF Crash, cardVars
  <1>3. CASE Next /\ ~Crash
    BY <1>3, RunStepOK, TickCards, HandlerStepOK, RequestsOK, ClockOK DEF Next, CardInv
  <1> QED
    BY <1>1, <1>2, <1>3

LEMMA CardInvNext == CardInv /\ [Next]_vars => CardInv'
PROOF
  <1> SUFFICES ASSUME CardInv, [Next]_vars PROVE CardInv'
    OBVIOUS
  <1>a. BoardInv' /\ RunType /\ BoardType'
    BY BoardInvNext DEF CardInv, BoardInv, TypeInv
  <1>1. Unclaimed'
    BY CardSteps DEF CardInv, StepOK, CardsTame, Tame, Unclaimed
  <1>2. Calm'
    <2>1. ASSUME NEW r \in Runs, RunMoves(r)
          PROVE  Calm'
      BY <2>1 DEF CardInv, Calm, RunMoves, Unforced, NoChat
    <2>2. CASE run' = run /\ sched' = sched /\ (chat' = chat \/ ~Unforced)
      BY <2>2 DEF CardInv, Calm, Unforced, NoChat
    <2>3. ASSUME NEW r \in Runs, NEW t \in Tasks, Start(r, t), chat' = chat
          PROVE  Calm'
      <3>1. run'[r].pc = "starting" /\ \A q \in Runs \ {r} : run'[q] = run[q]
        BY <2>3, <1>a DEF Start, RunType, FreshRun
      <3> QED
        BY <2>3, <3>1 DEF CardInv, Calm, Unforced, NoChat
    <2>4. CASE TickStep /\ chat' = chat
      <3>1. run' = run \/ \E r \in Runs, t \in Tasks : Start(r, t)
        BY <2>4 DEF TickStep, TickRelease, TickRecompute, TickList, TickDisable, TickSetTodo,
                    TickEnd, TickSkip, TickOutOfRuns, TickRun
      <3> QED
        BY <2>3, <2>4, <3>1 DEF CardInv, Calm, Unforced, NoChat
    <2>5. ASSUME NEW r \in Runs, NEW t \in Tasks, RunNow(r, t)
          PROVE  Calm'
      BY <2>3, <2>5 DEF RunNow, HandlersIdle
    <2>6. CASE Crash
      <3>1. \A q \in Runs : run'[q].pc # "budget"
        BY <2>6, <1>a DEF Crash, FreshRun, Live, RunType, Run
      <3> QED
        BY <2>6, <3>1 DEF Crash, Calm, NoChat
    <2> QED
      BY <2>1, <2>2, <2>4, <2>5, <2>6, CardSteps
  <1> QED
    BY <1>a, <1>1, <1>2 DEF CardInv

LEMMA CardInvariant == Spec => []CardInv
PROOF
  <1>1. Init => CardInv
    BY BoardInvInit DEF Init, CardInv, Unclaimed, Calm, AbsentCard, FreshRun
  <1> QED
    BY <1>1, CardInvNext, PTL DEF Spec

\* Unless a chat agent, a spent budget or the agent of the run moves the card, a
\* claim is never taken from the run that holds it: it is released by a step of
\* that run, by its TTL or with the row, and only a free claim is taken.
THEOREM ClaimsEndByOwner ==
  ASSUME Unforced
  PROVE  Spec => ClaimEndsByOwner
PROOF
  <1>1. ASSUME CardInv, [Next]_vars
        PROVE  \A t \in Tasks : card[t].claim # NoRun /\ card'[t].claim # card[t].claim =>
                 /\ card'[t].claim = NoRun
                 /\ \/ card[t].expired
                    \/ run'[card[t].claim] # run[card[t].claim]
                    \/ card'[t].status = "deleted"
    BY <1>1, CardSteps DEF StepOK, ClaimsGo, ClaimGoes
  <1>2. CardInv /\ [Next]_vars =>
          [\A t \in Tasks : card[t].claim # NoRun /\ card'[t].claim # card[t].claim =>
             /\ card'[t].claim = NoRun
             /\ \/ card[t].expired
                \/ run'[card[t].claim] # run[card[t].claim]
                \/ card'[t].status = "deleted"]_vars
    BY <1>1
  <1> QED
    BY <1>2, CardInvariant, PTL DEF Spec, ClaimEndsByOwner

-----------------------------------------------------------------------------
(* A `once' task runs once.  From the moment its run starts the card is    *)
(* disabled, or the scheduler has not come to disable it yet: it still     *)
(* waits for that run, or is about to write the flag.                      *)

ByTickOnly == Events \cap {"run", "toggle", "crash"} = {}

InService(t, r) ==
  /\ sched.cur = t
  /\ \/ sched.pc = "disable"
     \/ sched.pc = "waiting" /\ sched.run = r

\* Nothing will start the task of r again.
Retired(t, r) ==
  /\ card[t].status # "absent" /\ t \notin sched.queue
  /\ ~card[t].enabled \/ InService(t, r)

OnceRetired ==
  \A r \in Runs, t \in Tasks : run[r].task = t /\ Trigger[t] = "once" => Retired(t, r)

OnceApart ==
  \A r1, r2 \in Runs, t \in Tasks :
    r1 # r2 /\ run[r1].task = t /\ Trigger[t] = "once" => run[r2].task # t

\* The scheduler waits for a run of the task it serves, and serves real cards.
SchedOK ==
  /\ sched.pc = "waiting" => sched.run \in Runs /\ run[sched.run].task = sched.cur
  /\ \A t \in sched.queue : card[t].status # "absent"

\* A row that was deleted does not come back enabled.
DeletedOff == \A t \in Tasks : card[t].status = "deleted" => ~card[t].enabled

OnceInv == CardInv /\ OnceRetired /\ OnceApart /\ SchedOK /\ DeletedOff

LEMMA DeletedStaysOff ==
  ASSUME CardsTame, DeletedOff, Untoggled
  PROVE  DeletedOff'
  BY DEF CardsTame, Tame, DeletedOff

\* A run steps, and perhaps ends: the scheduler that waits for it goes on.
LEMMA RunMovesOnce ==
  ASSUME OnceInv, CardsTame, Untoggled, NEW r \in Runs, RunMoves(r)
  PROVE  OnceRetired' /\ OnceApart' /\ SchedOK'
PROOF
  <1>a. SchedType /\ RunType
    BY DEF OnceInv, CardInv, BoardInv, TypeInv
  <1>1. \A q \in Runs : run'[q].task \in {run[q].task, NoTask}
    BY DEF RunMoves
  <1>2. /\ sched'.queue = sched.queue /\ sched'.cur = sched.cur
        /\ \/ sched' = sched /\ run'[r].task = run[r].task
           \/ sched' = sched /\ ~(sched.pc = "waiting" /\ sched.run = r)
           \/ /\ sched.pc = "waiting" /\ sched.run = r
              /\ sched'.pc = IF Trigger[sched.cur] = "once" THEN "disable" ELSE "dispatch"
    BY <1>a DEF RunMoves, WakeScheduler, SchedType, Scheduler
  <1>3. OnceApart'
    BY <1>1, NoTaskAssumption DEF OnceInv, OnceApart
  <1>4. SchedOK'
    <2>1. \A t \in sched'.queue : card'[t].status # "absent"
      <3>1. sched.queue \subseteq Tasks
        BY <1>a DEF SchedType, Scheduler
      <3> QED
        BY <1>2, <3>1 DEF OnceInv, SchedOK, CardsTame, Tame
    <2>2. sched'.pc = "waiting" => sched'.run \in Runs /\ run'[sched'.run].task = sched'.cur
      <3>1. CASE sched' = sched /\ run'[r].task = run[r].task
        <4>1. \A q \in Runs : run'[q].task = run[q].task
          BY <3>1 DEF RunMoves
        <4> QED
          BY <3>1, <4>1 DEF OnceInv, SchedOK
      <3>2. CASE sched' = sched /\ ~(sched.pc = "waiting" /\ sched.run = r)
        BY <3>2 DEF OnceInv, SchedOK, RunMoves
      <3> QED
        BY <1>2, <3>1, <3>2
    <2> QED
      BY <2>1, <2>2 DEF SchedOK
  <1>5. ASSUME NEW q \in Runs, NEW t \in Tasks, run'[q].task = t, Trigger[t] = "once"
        PROVE  Retired(t, q)'
    <2>1. run[q].task = t /\ Retired(t, q)
      BY <1>1, <1>5, NoTaskAssumption DEF OnceInv, OnceRetired
    <2>2. card'[t].status # "absent" /\ (card'[t].enabled => card[t].enabled)
      BY <2>1 DEF Retired, CardsTame, Tame
    <2>3. InService(t, q) => InService(t, q)'
      BY <1>2, <1>5 DEF InService
    <2> QED
      BY <1>2, <2>1, <2>2, <2>3 DEF Retired
  <1> QED
    BY <1>3, <1>4, <1>5 DEF OnceRetired

\* A step outside the scheduler that starts nothing.
LEMMA SameRunsOnce ==
  ASSUME OnceInv, CardsTame, Untoggled, run' = run, sched' = sched
  PROVE  OnceRetired' /\ OnceApart' /\ SchedOK'
PROOF
  <1>1. sched.queue \subseteq Tasks
    BY DEF OnceInv, CardInv, BoardInv, TypeInv, SchedType, Scheduler
  <1> QED
    BY <1>1 DEF OnceInv, OnceRetired, OnceApart, SchedOK, Retired, InService, CardsTame, Tame

LEMMA TickOnce ==
  ASSUME OnceInv, CardsTame, Untoggled, TickStep
  PROVE  OnceRetired' /\ OnceApart' /\ SchedOK'
PROOF
  <1>a. /\ SchedType /\ RunType /\ BoardType
        /\ OnceRetired /\ OnceApart /\ SchedOK /\ DeletedOff
    BY DEF OnceInv, CardInv, BoardInv, TypeInv
  <1>b. sched.queue \subseteq Tasks
    BY <1>a DEF SchedType, Scheduler
  <1>c. ASSUME NEW q \in Runs, NEW t \in Tasks, run[q].task = t, Trigger[t] = "once"
        PROVE  /\ Retired(t, q)
               /\ card'[t].status # "absent" /\ (card'[t].enabled => card[t].enabled)
    BY <1>a, <1>c DEF OnceRetired, Retired, CardsTame, Tame
  <1>d. \A t \in Tasks : card[t].status # "absent" => card'[t].status # "absent"
    BY DEF CardsTame, Tame
  \* The scheduler only moves on, and has not come to a task it must disable.
  <1>e. ASSUME run' = run, sched'.queue \subseteq sched.queue,
               sched.pc \notin {"waiting", "disable"}, sched'.pc # "waiting"
        PROVE  OnceRetired' /\ OnceApart' /\ SchedOK'
    <2>1. OnceApart' /\ SchedOK'
      BY <1>e, <1>a, <1>b, <1>d DEF OnceApart, SchedOK
    <2>2. OnceRetired'
      BY <1>e, <1>c DEF OnceRetired, Retired, InService
    <2> QED
      BY <2>1, <2>2
  <1>1. CASE TickRelease \/ TickRecompute \/ TickSetTodo \/ TickEnd
    BY <1>1, <1>a, <1>e DEF TickRelease, TickRecompute, TickSetTodo, TickEnd, SchedType,
                            Scheduler, Asleep
  <1>2. ASSUME NEW t \in Tasks, TickSkip(t) \/ TickOutOfRuns(t)
        PROVE  OnceRetired' /\ OnceApart' /\ SchedOK'
    <2>1. /\ run' = run /\ sched.pc = "dispatch" /\ sched'.pc = sched.pc
          /\ sched'.queue = sched.queue \ {t}
      BY <1>2, <1>a DEF TickSkip, TickOutOfRuns, Served, SchedType, Scheduler
    <2> QED
      BY <2>1, <1>e
  <1>3. CASE TickList
    <2>1. /\ run' = run /\ card' = card /\ sched.pc = "list"
          /\ sched'.pc = "dispatch" /\ sched'.queue = DueTasks
      BY <1>3, <1>a DEF TickList, SchedType, Scheduler
    <2>2. \A t \in DueTasks : card[t].enabled /\ card[t].status # "absent"
      BY DEF DueTasks, Exists, NoRow
    <2>3. OnceApart' /\ SchedOK'
      BY <2>1, <2>2, <1>a DEF OnceApart, SchedOK
    <2>4. OnceRetired'
      BY <2>1, <2>2, <1>c DEF OnceRetired, Retired, InService
    <2> QED
      BY <2>3, <2>4
  <1>4. CASE TickDisable
    <2>1. /\ run' = run /\ sched.pc = "disable" /\ sched'.pc = "todo"
          /\ sched'.queue = sched.queue /\ sched.cur \in Tasks
      BY <1>4, <1>a DEF TickDisable, SchedType, Scheduler
    <2>2. card[sched.cur].status # "absent" => ~card'[sched.cur].enabled
      BY <1>4, <1>a, <2>1 DEF TickDisable, WriteIfExists, Write, Exists, NoRow, BoardType, Card,
                              cardVars, DeletedOff
    <2>3. OnceApart' /\ SchedOK'
      BY <2>1, <1>a, <1>b, <1>d DEF OnceApart, SchedOK
    <2>4. OnceRetired'
      BY <2>1, <2>2, <1>c DEF OnceRetired, Retired, InService
    <2> QED
      BY <2>3, <2>4
  <1>5. ASSUME NEW t \in Tasks, NEW r \in Runs, TickRun(t, r)
        PROVE  OnceRetired' /\ OnceApart' /\ SchedOK'
    <2>1. /\ sched.pc = "dispatch" /\ t \in sched.queue /\ card' = card
          /\ sched'.queue = sched.queue \ {t} /\ sched'.pc = "waiting"
          /\ sched'.cur = t /\ sched'.run = r
      BY <1>5, <1>a DEF TickRun, Served, SchedType, Scheduler, cardVars
    <2>2. /\ run'[r].task = t /\ run[r].task = NoTask
          /\ \A q \in Runs \ {r} : run'[q] = run[q]
      BY <1>5, <1>a DEF TickRun, Start, RunType, FreshRun
    <2>3. \A q \in Runs : Trigger[t] = "once" => run[q].task # t
      BY <2>1, <1>c DEF Retired
    <2>4. card[t].status # "absent"
      BY <2>1, <1>a DEF SchedOK
    <2>5. OnceApart'
      BY <2>2, <2>3, <1>a DEF OnceApart
    <2>6. SchedOK'
      BY <2>1, <2>2, <1>a DEF SchedOK
    <2>7. ASSUME NEW q \in Runs, NEW u \in Tasks, run'[q].task = u, Trigger[u] = "once"
          PROVE  Retired(u, q)'
      <3>1. CASE q = r
        BY <2>1, <2>2, <2>4, <2>7, <3>1 DEF Retired, InService
      <3>2. CASE q # r
        <4>1. run[q].task = u
          BY <2>2, <2>7, <3>2
        <4>2. Retired(u, q)
          BY <4>1, <2>7, <1>c
        <4> QED
          BY <2>1, <4>2 DEF Retired, InService
      <3> QED
        BY <3>1, <3>2
    <2> QED
      BY <2>5, <2>6, <2>7 DEF OnceRetired
  <1> QED
    BY <1>1, <1>2, <1>3, <1>4, <1>5 DEF TickStep

\* "nunca refira sozinha": for any number of tasks, links and runs, tick()
\* starts a `once' task a single time, whatever happens to its card between the
\* listing, the run and the update that disables it; unless somebody runs it or
\* enables it by hand, or the process dies before the update.
THEOREM OnceTasksStartOnce ==
  ASSUME ByTickOnly
  PROVE  Spec => []OnceStartsOnce
PROOF
  <1>1. Init => OnceInv
    <2> SUFFICES ASSUME Init PROVE OnceInv
      OBVIOUS
    <2>1. CardInv
      BY BoardInvInit DEF Init, CardInv, Unclaimed, Calm, AbsentCard, FreshRun
    <2>2. \A r \in Runs : run[r].task = NoTask
      BY DEF Init, FreshRun
    <2>3. OnceRetired /\ OnceApart
      BY <2>2, NoTaskAssumption DEF OnceRetired, OnceApart
    <2>4. SchedOK /\ DeletedOff
      BY DEF Init, SchedOK, DeletedOff, Asleep, AbsentCard
    <2> QED
      BY <2>1, <2>3, <2>4 DEF OnceInv
  <1>2. OnceInv /\ [Next]_vars => OnceInv'
    <2> SUFFICES ASSUME OnceInv, [Next]_vars PROVE OnceInv'
      OBVIOUS
    <2>1. CardInv /\ CardInv' /\ CardsTame /\ Untoggled
      BY CardInvNext, CardSteps DEF OnceInv, StepOK, ByTickOnly, Untoggled
    <2>2. DeletedOff'
      BY <2>1, DeletedStaysOff DEF OnceInv
    <2>3. ~Crash /\ \A r \in Runs, t \in Tasks : ~RunNow(r, t)
      BY DEF ByTickOnly, Crash, RunNow
    <2>4. OnceRetired' /\ OnceApart' /\ SchedOK'
      BY <2>1, <2>3, CardSteps, RunMovesOnce, SameRunsOnce, TickOnce
    <2> QED
      BY <2>1, <2>2, <2>4 DEF OnceInv
  <1>3. OnceInv => OnceStartsOnce
    <2> SUFFICES ASSUME OnceInv, NEW r1 \in Runs, NEW r2 \in Runs, r1 # r2,
                        run[r1].task # NoTask, Trigger[run[r1].task] = "once"
                 PROVE  run[r1].task # run[r2].task
      BY DEF OnceStartsOnce
    <2>1. run[r1].task \in Tasks
      BY DEF OnceInv, CardInv, BoardInv, TypeInv, RunType, Run
    <2> QED
      BY <2>1 DEF OnceInv, OnceApart
  <1> QED
    BY <1>1, <1>2, <1>3, PTL DEF Spec

=============================================================================
