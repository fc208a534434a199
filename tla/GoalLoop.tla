-------------------------------- MODULE GoalLoop --------------------------------
(***************************************************************************)
(* The goal loop of a background run (backend/engine/goal_mode.py): turns  *)
(* of the engine until the gates pass and a judge says the goal is met,    *)
(* with a budget of turns and automatic stops when the same gates keep     *)
(* failing or the judge keeps failing.  A turn that waits for an approval  *)
(* leaves the loop; resume_goal() enters it again.                         *)
(*                                                                         *)
(* Positions: turn (the engine is about to run), gates, verdict, paused,   *)
(* ended.                                                                  *)
(*                                                                         *)
(* Abstractions.  A turn of the engine is one step with its stopped        *)
(* reason; the gates of a turn are the set of those that failed, whatever  *)
(* made them fail; System One is its disposition.  The texts of messages   *)
(* are left out.                                                           *)
(***************************************************************************)
EXTENDS Integers, Sequences

CONSTANTS
  Gates,
  MaxGoalTurns,
  GateLimit,    \* _SAME_GATE_FAILURE_THRESHOLD
  JudgeLimit,   \* _CONSECUTIVE_JUDGE_FAILURE_THRESHOLD
  MaxResumes    \* bound on approvals

\* The values of the constants a configuration may take.
Parameters ==
  /\ {MaxGoalTurns, GateLimit, JudgeLimit} \subseteq Nat \ {0} /\ MaxResumes \in Nat

VARIABLES
  at, turn, streak, signature, judgeFailures,
  failed,    \* the gates that failed in this turn
  outcome,   \* the status of the outcome
  recent,    \* history: the last turns since the loop was entered
  taken,     \* history: the turns taken since the goal was set
  resumes

counters == <<turn, streak, signature, judgeFailures>>
vars == <<at, counters, failed, outcome, recent, taken, resumes>>

Window == IF GateLimit > JudgeLimit THEN GateLimit ELSE JudgeLimit
Verdicts == {"completed", "not_completed", "yes", "no", "fails"}

TypeOK ==
  /\ at \in {"turn", "gates", "verdict", "paused", "ended"}
  /\ turn \in 0..MaxGoalTurns /\ taken \in 0..(MaxGoalTurns + 1)
  /\ streak \in 0..GateLimit /\ judgeFailures \in 0..JudgeLimit
  /\ {signature, failed} \subseteq SUBSET Gates
  /\ outcome \in {"none", "done", "error"}
  /\ Len(recent) <= Window
  /\ \A i \in DOMAIN recent : recent[i].failed \subseteq Gates /\ recent[i].verdict \in Verdicts
  /\ resumes \in 0..MaxResumes

\* The counters of _run_goal_loop().
Fresh ==
  /\ turn' = 0 /\ streak' = 0 /\ signature' = {} /\ judgeFailures' = 0
  /\ failed' = {} /\ recent' = <<>>

Init ==
  /\ at = "turn" /\ turn = 0 /\ streak = 0 /\ signature = {} /\ judgeFailures = 0
  /\ failed = {} /\ outcome = "none" /\ recent = <<>> /\ taken = 0 /\ resumes = 0

End(status) == at' = "ended" /\ outcome' = status

\* Counted up to one above the budget.
Taken == IF taken > MaxGoalTurns THEN taken ELSE taken + 1

Turn ==
  /\ at = "turn"
  /\ turn' = turn + 1 /\ taken' = Taken
  /\ \/ at' = "gates" /\ UNCHANGED outcome
     \/ at' = "paused" /\ UNCHANGED outcome
     \/ End("error")
  /\ UNCHANGED <<streak, signature, judgeFailures, failed, recent, resumes>>

\* A mutant: any failure counts.
StreakOfAny(f) == IF f # {} THEN streak + 1 ELSE 0

Streak(f) ==
  IF f = {} THEN 0 ELSE IF f = signature THEN streak + 1 ELSE 1

\* Without gates this criterion is met, and nothing is counted.
RunGates ==
  /\ at = "gates"
  /\ \E f \in SUBSET Gates :
       /\ failed' = f
       /\ IF Gates = {} THEN UNCHANGED <<streak, signature>>
          ELSE streak' = Streak(f) /\ signature' = f
       /\ IF streak' >= GateLimit THEN End("error")
          ELSE at' = "verdict" /\ UNCHANGED outcome
  /\ UNCHANGED <<turn, judgeFailures, recent, taken, resumes>>

\* System One decides only where it is sure, and a goal with failed gates is not met.
Decisions == IF failed = {} THEN {"completed", "not_completed"} ELSE {"not_completed"}
Answers == {"yes", "no", "fails"}

Remember(verdict) ==
  LET all == Append(recent, [failed |-> failed, verdict |-> verdict]) IN
    recent' = IF Len(all) > Window THEN Tail(all) ELSE all

\* The goal is met, or the next turn starts from a message that says what is missing;
\* the last one leaves its message behind.
Conclude(met) ==
  IF met /\ failed = {} THEN End("done")
  ELSE IF turn = MaxGoalTurns THEN End("error")
  ELSE at' = "turn" /\ UNCHANGED outcome

Decide ==
  /\ at = "verdict"
  /\ \E decision \in Decisions :
       Remember(decision) /\ judgeFailures' = 0 /\ Conclude(decision = "completed")
  /\ UNCHANGED <<turn, streak, signature, failed, taken, resumes>>

\* Where System One is off, fails or is not sure, the judge is asked.
Judge ==
  /\ at = "verdict"
  /\ \E answer \in Answers :
       /\ Remember(answer)
       /\ judgeFailures' = IF answer = "fails" THEN judgeFailures + 1 ELSE 0
       /\ IF judgeFailures' >= JudgeLimit THEN End("error") ELSE Conclude(answer = "yes")
  /\ UNCHANGED <<turn, streak, signature, failed, taken, resumes>>

\* run_goal() turns what nothing else catches into an outcome.
Raise ==
  /\ at \in {"turn", "gates", "verdict"} /\ End("error")
  /\ UNCHANGED <<counters, failed, recent, taken, resumes>>

\* resume_goal(): the approval is resolved, and the loop entered anew; or it cannot be.
Resume ==
  /\ at = "paused" /\ resumes < MaxResumes /\ resumes' = resumes + 1
  /\ \/ at' = "turn" /\ UNCHANGED outcome
     \/ End("error")
  /\ Fresh /\ UNCHANGED taken

Work == Turn \/ RunGates \/ Decide \/ Judge

Next == Work \/ Raise \/ Resume

Spec == Init /\ [][Next]_vars
FairSpec == Spec /\ WF_vars(Work)

-----------------------------------------------------------------------------
(* Properties.                                                             *)

Last == recent[Len(recent)]

\* A goal is done when one turn satisfied both: no gate failed in it, and System One or
\* the judge said so of it.
DoneIsVerified ==
  outcome = "done" =>
    recent # <<>> /\ Last.failed = {} /\ Last.verdict \in {"completed", "yes"}

Latest(n) == {recent[i] : i \in (Len(recent) - n + 1)..Len(recent)}

\* An agent that is stuck is stopped: no turn begins after the same gates failed in as
\* many turns as the limit.
StuckIsStopped ==
  at = "turn" /\ Len(recent) >= GateLimit =>
    \A f \in (SUBSET Gates) \ {{}} : \E r \in Latest(GateLimit) : r.failed # f

\* And only an agent that is stuck: while different gates fail it may go on.
OnlyStuckIsStopped ==
  streak >= GateLimit =>
    Len(recent) >= GateLimit - 1 /\ \A r \in Latest(GateLimit - 1) : r.failed = failed

\* A judge that fails is not asked for ever.
SilentJudgeStops ==
  at = "turn" /\ Len(recent) >= JudgeLimit =>
    \E r \in Latest(JudgeLimit) : r.verdict # "fails"

\* The loop has ended, or waits for a person: in the end it does.
LoopOver == at \in {"paused", "ended"}

-----------------------------------------------------------------------------
(* What a comment or a docstring says and the code does not keep.  TLC     *)
(* finds these violated, so no configuration checks them (see the README). *)

\* A goal takes no more turns than it was given, over all approvals.
BudgetIsKept == taken <= MaxGoalTurns

=============================================================================
