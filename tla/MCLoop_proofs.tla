---------------------------- MODULE MCLoop_proofs -----------------------------
(***************************************************************************)
(* Proofs about what a turn is made of: the loop of turns towards a goal   *)
(* (GoalLoop), for any gates, any budget of turns and any limits, the      *)
(* conversation of a thread (Conversation), for any runs, turns and        *)
(* batches, any number of messages and of faults, and the models that are  *)
(* tried (ModelFallback), for any models, configurations and calls.        *)
(*                                                                         *)
(* The loop decides by two counters, and GoalStops speaks of the turns     *)
(* that were: the invariant says what the counters count.  Seen from the   *)
(* latest turn backwards (Back), streak is the number of turns in which    *)
(* the same gates failed, and judgeFailures of those without an answer of  *)
(* the judge; the turn before those, where it is remembered, is another.   *)
(*                                                                         *)
(* A history is the path from the head to the root of a tree of messages.  *)
(* Path computes it by recursion; LineTo is the same set without it, of    *)
(* the messages that every set has which has the first and the parents of  *)
(* its own (PathIsLine).  SharedInv holds of any thread: an approval is    *)
(* pending for a batch that nobody decided about, and a call that asks     *)
(* runs after its approval was claimed.  Where the clients wait, one run   *)
(* is at work and no approval is pending beside it (OneAtWork), the batch  *)
(* that awaits a decision is the last of the history (WaitInv), and none   *)
(* of its calls has run (OnceInv).                                         *)
(*                                                                         *)
(* The candidates of a call are a part of what is configured, in its       *)
(* order; FallbackInv says where in them a call is, by what it tried, what *)
(* failed and what was shown so far.                                       *)
(***************************************************************************)
EXTENDS MCLoop, FiniteSetTheorems, TLAPS

Record == [failed : SUBSET Gates, verdict : Goal!Verdicts]

GoalTyped ==
  /\ goal \in {"turn", "gates", "verdict", "paused", "ended"}
  /\ turn \in 0..MaxGoalTurns /\ taken \in 0..(MaxGoalTurns + 1)
  /\ streak \in 0..GateLimit /\ judgeFailures \in 0..JudgeLimit
  /\ signature \in SUBSET Gates /\ failed \in SUBSET Gates
  /\ outcome \in {"none", "done", "error"}
  /\ recent \in Seq(Record) /\ Len(recent) <= Goal!Window
  /\ resumes \in 0..MaxResumes

\* The turn k turns before the latest.
Back(k) == recent[Len(recent) - k]

\* The last n turns failed at the gates of the signature, and not the one before.
Repeated(n) ==
  /\ n <= Len(recent)
  /\ \A k \in 0..(n - 1) : Back(k).failed = signature
  /\ signature # {} /\ n < Len(recent) => Back(n).failed # signature

\* What streak counts: at the verdict the turn that is under way is counted too.
StreakCounts ==
  /\ signature = {} => streak = 0
  /\ goal \in {"turn", "gates", "paused"} =>
       /\ Repeated(streak)
       /\ recent # <<>> => Back(0).failed = signature
  /\ goal = "verdict" =>
       /\ failed = signature
       /\ signature # {} => streak > 0 /\ Repeated(streak - 1)

\* What judgeFailures counts.
FailuresCount ==
  /\ judgeFailures <= Len(recent)
  /\ judgeFailures < Len(recent) => Back(judgeFailures).verdict # "fails"

\* A loop that goes on has not reached a limit.
Under ==
  /\ goal # "ended" =>
       streak < GateLimit /\ judgeFailures < JudgeLimit /\ outcome = "none"
  /\ goal = "turn" => turn < MaxGoalTurns

GoalInv ==
  /\ GoalTyped /\ Under
  /\ goal # "ended" => StreakCounts /\ FailuresCount
  /\ Goal!DoneIsVerified /\ Goal!OnlyStuckIsStopped

-----------------------------------------------------------------------------
(* The window of the last turns.                                           *)

LEMMA LimitsAreNumbers ==
  /\ MaxGoalTurns \in Nat /\ GateLimit \in Nat /\ JudgeLimit \in Nat /\ MaxResumes \in Nat
  /\ MaxGoalTurns > 0 /\ GateLimit > 0 /\ JudgeLimit > 0
  /\ Goal!Window \in Nat /\ Goal!Window >= GateLimit /\ Goal!Window >= JudgeLimit
BY GoalParameters DEF Goal!Parameters, Goal!Window

\* A turn that is remembered moves the others back by one.
LEMMA RememberMoves ==
  ASSUME GoalTyped, NEW v \in Goal!Verdicts, Goal!Remember(v)
  PROVE  /\ recent' \in Seq(Record) /\ Len(recent') <= Goal!Window
         /\ Len(recent') = (IF Len(recent) < Goal!Window THEN Len(recent) + 1
                            ELSE Goal!Window)
         /\ Len(recent') > 0
         /\ Back(0)' = [failed |-> failed, verdict |-> v]
         /\ \A k \in 1..(Len(recent') - 1) : Back(k)' = Back(k - 1)
<1> DEFINE new == [failed |-> failed, verdict |-> v]
           all == Append(recent, new)
<1>1. new \in Record /\ Goal!Window \in Nat /\ Goal!Window > 0
  BY LimitsAreNumbers DEF GoalTyped, Record
<1>2. /\ recent \in Seq(Record) /\ Len(recent) \in Nat /\ Len(recent) <= Goal!Window
      /\ Len(all) = Len(recent) + 1 /\ all \in Seq(Record)
      /\ all[Len(recent) + 1] = new
      /\ \A i \in 1..Len(recent) : all[i] = recent[i]
  BY <1>1 DEF GoalTyped
<1>3. recent' = IF Len(all) > Goal!Window THEN Tail(all) ELSE all
  BY DEF Goal!Remember
<1> HIDE DEF new, all
<1>4. CASE Len(all) > Goal!Window
  <2>1. /\ recent' = Tail(all) /\ recent' \in Seq(Record)
        /\ Len(recent') = Len(recent) /\ Len(recent) = Goal!Window
        /\ \A i \in 1..Len(recent) : recent'[i] = all[i + 1]
    BY <1>1, <1>2, <1>3, <1>4
  <2> QED BY <1>1, <1>2, <2>1 DEF Back, new
<1>5. CASE ~(Len(all) > Goal!Window)
  BY <1>1, <1>2, <1>3, <1>5 DEF Back, new
<1> QED BY <1>4, <1>5

-----------------------------------------------------------------------------
(* The steps.                                                              *)

LEMMA GoalStarts == ASSUME Goal!Init PROVE GoalInv
BY LimitsAreNumbers DEF Goal!Init, GoalInv, GoalTyped, Under, StreakCounts, FailuresCount, Repeated,
  Goal!DoneIsVerified, Goal!OnlyStuckIsStopped

LEMMA TurnKeeps == ASSUME GoalInv, Goal!Turn PROVE GoalInv'
BY LimitsAreNumbers DEF Goal!Turn, Goal!Taken, Goal!End, GoalInv, GoalTyped, Under, StreakCounts,
  FailuresCount, Repeated, Back, Goal!DoneIsVerified, Goal!OnlyStuckIsStopped, Goal!Latest,
  Goal!Last

LEMMA RaiseKeeps == ASSUME GoalInv, Goal!Raise PROVE GoalInv'
BY LimitsAreNumbers DEF Goal!Raise, Goal!counters, Goal!End, GoalInv, GoalTyped, Under,
  Goal!DoneIsVerified, Goal!OnlyStuckIsStopped, Goal!Latest, Goal!Last

LEMMA ResumeKeeps == ASSUME GoalInv, Goal!Resume PROVE GoalInv'
BY LimitsAreNumbers DEF Goal!Resume, Goal!Fresh, Goal!End, GoalInv, GoalTyped, Under, StreakCounts,
  FailuresCount, Repeated, Back, Goal!DoneIsVerified, Goal!OnlyStuckIsStopped, Goal!Latest,
  Goal!Last

\* Gates that fail as they did are counted on, others begin anew.
LEMMA RunGatesKeeps == ASSUME GoalInv, Goal!RunGates PROVE GoalInv'
<1>1. PICK broken \in SUBSET Gates :
        /\ failed' = broken
        /\ IF Gates = {} THEN UNCHANGED <<streak, signature>>
           ELSE streak' = Goal!Streak(broken) /\ signature' = broken
        /\ IF streak' >= GateLimit THEN Goal!End("error")
           ELSE goal' = "verdict" /\ UNCHANGED outcome
  BY DEF Goal!RunGates
<1>2. goal = "gates" /\ UNCHANGED <<turn, judgeFailures, recent, taken, resumes>>
  BY DEF Goal!RunGates
<1>3. /\ GoalTyped /\ Under /\ StreakCounts /\ FailuresCount /\ Repeated(streak)
      /\ recent # <<>> => Back(0).failed = signature
  BY <1>2 DEF GoalInv, StreakCounts
<1>4. /\ signature' = broken /\ failed' = broken
      /\ streak' = Goal!Streak(broken)
  BY <1>1, <1>3 DEF GoalTyped, StreakCounts, Goal!Streak
<1>5. streak' \in 0..GateLimit /\ (broken = {} => streak' = 0) /\ (broken # {} => streak' > 0)
  BY <1>2, <1>3, <1>4, LimitsAreNumbers DEF GoalTyped, Under, StreakCounts, Goal!Streak
<1>6. ASSUME broken # {} PROVE Repeated(streak - 1)'
  <2>1. CASE broken = signature
    BY <1>2, <1>3, <1>4, <1>6, <2>1, LimitsAreNumbers DEF GoalTyped, Goal!Streak, Repeated, Back
  <2>2. CASE broken # signature
    <3>1. streak' - 1 = 0
      BY <1>4, <1>6, <2>2 DEF Goal!Streak
    <3> QED BY <1>2, <1>3, <1>4, <2>2, <3>1 DEF GoalTyped, Repeated, Back
  <2> QED BY <2>1, <2>2
<1>7. goal' \in {"verdict", "ended"} /\ outcome' \in {"none", "error"}
  BY <1>1, <1>2, <1>3 DEF Under, Goal!End
<1>8. GoalTyped'
  BY <1>2, <1>3, <1>4, <1>5, <1>7 DEF GoalTyped
<1>9. Under'
  BY <1>1, <1>2, <1>3, <1>5, <1>7, LimitsAreNumbers DEF GoalTyped, Under, Goal!End
<1>10. goal' # "ended" => StreakCounts' /\ FailuresCount'
  <2>1. StreakCounts' \/ goal' = "ended"
    BY <1>4, <1>5, <1>6, <1>7 DEF StreakCounts
  <2>2. FailuresCount'
    BY <1>2, <1>3 DEF FailuresCount, Back
  <2> QED BY <2>1, <2>2
<1>11. Goal!DoneIsVerified'
  BY <1>7 DEF Goal!DoneIsVerified
<1>12. Goal!OnlyStuckIsStopped'
  <2>1. SUFFICES ASSUME streak' >= GateLimit
                 PROVE  /\ Len(recent) >= GateLimit - 1
                        /\ \A i \in (Len(recent) - (GateLimit - 1) + 1)..Len(recent) :
                             recent[i].failed = broken
    BY <1>2, <1>4, LimitsAreNumbers DEF Goal!OnlyStuckIsStopped, Goal!Latest
  <2>2. broken # {} /\ streak' - 1 = GateLimit - 1
    <3>1. streak' >= GateLimit /\ streak' \in 0..GateLimit
      BY <1>5, <2>1
    <3>2. broken # {}
      BY <1>5, <3>1, LimitsAreNumbers
    <3>3. streak' = GateLimit
      BY <3>1, LimitsAreNumbers
    <3> QED BY <3>2, <3>3
  <2>3. /\ GateLimit - 1 <= Len(recent)
        /\ \A k \in 0..(GateLimit - 2) : Back(k).failed = broken
    <3>1. /\ streak' - 1 <= Len(recent)'
          /\ \A k \in 0..((streak' - 1) - 1) : Back(k)'.failed = signature'
      BY <1>6, <2>2 DEF Repeated
    <3>2. Len(recent)' = Len(recent) /\ \A k : Back(k)' = Back(k)
      BY <1>2 DEF Back
    <3>3. (streak' - 1) - 1 = GateLimit - 2
      BY <2>2, LimitsAreNumbers
    <3> QED BY <1>4, <2>2, <3>1, <3>2, <3>3
  <2>4. ASSUME NEW i \in (Len(recent) - (GateLimit - 1) + 1)..Len(recent)
        PROVE  recent[i].failed = broken
    <3>1. Len(recent) - i \in 0..(GateLimit - 2) /\ Len(recent) - (Len(recent) - i) = i
      BY <1>3, <2>3, <2>4, LimitsAreNumbers DEF GoalTyped
    <3> QED BY <2>3, <3>1 DEF Back
  <2> QED BY <2>3, <2>4
<1> QED BY <1>8, <1>9, <1>10, <1>11, <1>12 DEF GoalInv

\* The turn is remembered, and the loop ends or takes another.
LEMMA VerdictKeeps ==
  ASSUME GoalInv, goal = "verdict", NEW v \in Goal!Verdicts, Goal!Remember(v),
         UNCHANGED <<turn, streak, signature, failed, taken, resumes>>,
         judgeFailures' = IF v = "fails" THEN judgeFailures + 1 ELSE 0,
         \/ judgeFailures' >= JudgeLimit /\ Goal!End("error")
         \/ judgeFailures' < JudgeLimit /\ Goal!Conclude(v \in {"completed", "yes"})
  PROVE  GoalInv'
<1>1. /\ GoalTyped /\ Under /\ StreakCounts /\ FailuresCount
      /\ failed = signature /\ (signature # {} => streak > 0 /\ Repeated(streak - 1))
  BY DEF GoalInv, StreakCounts
<1>2. /\ recent' \in Seq(Record) /\ Len(recent') <= Goal!Window
      /\ Len(recent') = (IF Len(recent) < Goal!Window THEN Len(recent) + 1
                         ELSE Goal!Window)
      /\ Len(recent') > 0
      /\ Back(0)' = [failed |-> failed, verdict |-> v]
      /\ \A k \in 1..(Len(recent') - 1) : Back(k)' = Back(k - 1)
  BY <1>1, RememberMoves
<1>3. /\ recent \in Seq(Record) /\ Len(recent) \in Nat /\ Len(recent') \in Nat
      /\ Len(recent) <= Goal!Window
      /\ streak \in Nat /\ streak < GateLimit
      /\ judgeFailures \in Nat /\ judgeFailures < JudgeLimit
  BY <1>1, <1>2, LimitsAreNumbers DEF GoalTyped, Under
<1>4. judgeFailures' \in 0..JudgeLimit
  BY <1>3, LimitsAreNumbers
<1>5. /\ goal' \in {"turn", "ended"}
      /\ goal' = "turn" => outcome' = "none" /\ turn # MaxGoalTurns /\ judgeFailures' < JudgeLimit
      /\ outcome' \in {"none", "done", "error"}
      /\ outcome' = "done" => failed = {} /\ v \in {"completed", "yes"}
  BY <1>1 DEF Under, Goal!End, Goal!Conclude
<1>6. GoalTyped'
  BY <1>1, <1>2, <1>4, <1>5 DEF GoalTyped
<1>7. Under'
  BY <1>1, <1>3, <1>4, <1>5, LimitsAreNumbers DEF Under, GoalTyped
<1>8. StreakCounts'
  <2>1. Back(0)'.failed = signature'
    BY <1>1, <1>2
  <2>2. Repeated(streak)'
    <3>1. CASE signature = {}
      <4>1. streak' = 0 /\ signature' = {}
        BY <1>1, <3>1 DEF StreakCounts
      <4> QED BY <1>3, <4>1 DEF Repeated
    <3>2. CASE signature # {}
      <4>1. /\ streak > 0 /\ streak - 1 <= Len(recent)
            /\ \A k \in 0..(streak - 2) : Back(k).failed = signature
            /\ streak - 1 < Len(recent) => Back(streak - 1).failed # signature
        BY <1>1, <1>3, <3>2 DEF Repeated
      <4>2. streak <= Len(recent')
        BY <1>2, <1>3, <4>1, LimitsAreNumbers
      <4>3. ASSUME NEW k \in 0..(streak - 1) PROVE Back(k)'.failed = signature
        <5>1. CASE k = 0
          BY <2>1, <5>1
        <5>2. CASE k # 0
          <6>1. k \in 1..(Len(recent') - 1) /\ k - 1 \in 0..(streak - 2)
            BY <1>3, <4>2, <5>2
          <6> QED BY <1>2, <4>1, <6>1
        <5> QED BY <5>1, <5>2
      <4>4. ASSUME streak < Len(recent') PROVE Back(streak)'.failed # signature
        <5>1. streak \in 1..(Len(recent') - 1) /\ streak - 1 < Len(recent)
          BY <1>2, <1>3, <4>1, <4>4, LimitsAreNumbers
        <5> QED BY <1>2, <4>1, <5>1
      <4> QED BY <4>2, <4>3, <4>4 DEF Repeated, Back
    <3> QED BY <3>1, <3>2
  <2>3. signature' = {} => streak' = 0
    BY <1>1 DEF StreakCounts
  <2> QED BY <1>5, <2>1, <2>2, <2>3 DEF StreakCounts
<1>9. FailuresCount'
  <2>1. CASE v # "fails"
    <3>1. judgeFailures' = 0 /\ Back(0)'.verdict # "fails"
      BY <1>2, <2>1
    <3> QED BY <1>3, <3>1 DEF FailuresCount, Back
  <2>2. CASE v = "fails"
    <3>1. judgeFailures' = judgeFailures + 1 /\ judgeFailures <= Len(recent)
      BY <1>1, <2>2 DEF FailuresCount
    <3>2. judgeFailures' <= Len(recent')
      BY <1>2, <1>3, <3>1, LimitsAreNumbers
    <3>3. ASSUME judgeFailures' < Len(recent') 
          PROVE  recent'[Len(recent') - judgeFailures'].verdict # "fails"
      <4>1. /\ judgeFailures' \in 1..(Len(recent') - 1)
            /\ judgeFailures' - 1 = judgeFailures /\ judgeFailures < Len(recent)
        BY <1>2, <1>3, <3>1, <3>3, LimitsAreNumbers
      <4>2. recent'[Len(recent') - judgeFailures'] = Back(judgeFailures)
        BY <1>2, <4>1 DEF Back
      <4> QED BY <1>1, <4>1, <4>2 DEF FailuresCount
    <3> QED BY <3>2, <3>3 DEF FailuresCount, Back
  <2> QED BY <2>1, <2>2
<1>10. Goal!DoneIsVerified'
  <2>1. recent'[Len(recent')] = [failed |-> failed, verdict |-> v]
    BY <1>2, <1>3 DEF Back
  <2> QED BY <1>2, <1>5, <2>1 DEF Goal!DoneIsVerified, Goal!Last
<1>11. Goal!OnlyStuckIsStopped'
  BY <1>3, LimitsAreNumbers DEF Goal!OnlyStuckIsStopped
<1> QED BY <1>6, <1>7, <1>8, <1>9, <1>10, <1>11 DEF GoalInv

LEMMA DecideKeeps == ASSUME GoalInv, Goal!Decide PROVE GoalInv'
<1>1. PICK decision \in Goal!Decisions :
        /\ Goal!Remember(decision) /\ judgeFailures' = 0
        /\ Goal!Conclude(decision = "completed")
  BY DEF Goal!Decide
<1>2. /\ goal = "verdict" /\ UNCHANGED <<turn, streak, signature, failed, taken, resumes>>
      /\ decision \in {"completed", "not_completed"}
  BY DEF Goal!Decide, Goal!Decisions
<1>3. Goal!Conclude(decision \in {"completed", "yes"}) /\ decision \in Goal!Verdicts
  BY <1>1, <1>2 DEF Goal!Conclude, Goal!Verdicts
<1> QED BY <1>1, <1>2, <1>3, LimitsAreNumbers, VerdictKeeps

LEMMA JudgeKeeps == ASSUME GoalInv, Goal!Judge PROVE GoalInv'
<1>1. PICK answer \in Goal!Answers :
        /\ Goal!Remember(answer)
        /\ judgeFailures' = IF answer = "fails" THEN judgeFailures + 1 ELSE 0
        /\ IF judgeFailures' >= JudgeLimit THEN Goal!End("error")
           ELSE Goal!Conclude(answer = "yes")
  BY DEF Goal!Judge
<1>2. /\ goal = "verdict" /\ UNCHANGED <<turn, streak, signature, failed, taken, resumes>>
      /\ answer \in {"yes", "no", "fails"}
  BY DEF Goal!Judge, Goal!Answers
<1>3. answer \in Goal!Verdicts
  BY <1>2 DEF Goal!Verdicts
<1>4. judgeFailures' >= JudgeLimit \/ judgeFailures' < JudgeLimit
  BY <1>1, LimitsAreNumbers DEF GoalInv, GoalTyped
<1>5. Goal!Conclude(answer = "yes") => Goal!Conclude(answer \in {"completed", "yes"})
  BY <1>2 DEF Goal!Conclude
<1> QED BY <1>1, <1>2, <1>3, <1>4, <1>5, LimitsAreNumbers, VerdictKeeps

LEMMA GoalStepKeeps == ASSUME GoalInv, Goal!Next PROVE GoalInv'
BY TurnKeeps, RunGatesKeeps, DecideKeeps, JudgeKeeps, RaiseKeeps, ResumeKeeps
   DEF Goal!Next, Goal!Work

LEMMA GoalStutters == ASSUME GoalInv, UNCHANGED goalVars PROVE GoalInv'
BY DEF goalVars, GoalInv, GoalTyped, Under, StreakCounts, FailuresCount, Repeated, Back,
  Goal!DoneIsVerified, Goal!OnlyStuckIsStopped, Goal!Latest, Goal!Last

-----------------------------------------------------------------------------
(* What the invariant says of a turn that begins.                          *)

LEMMA GoalInvIsEnough ==
  ASSUME GoalInv
  PROVE  /\ Goal!TypeOK /\ Goal!DoneIsVerified /\ Goal!StuckIsStopped
         /\ Goal!OnlyStuckIsStopped /\ Goal!SilentJudgeStops
<1>1. Goal!TypeOK
  <2>1. \A i \in DOMAIN recent : recent[i] \in Record
    BY DEF GoalInv, GoalTyped
  <2> QED BY <2>1 DEF GoalInv, GoalTyped, Record, Goal!TypeOK
<1>2. recent \in Seq(Record) /\ Len(recent) \in Nat
  BY DEF GoalInv, GoalTyped
<1>3. Goal!StuckIsStopped
  <2>1. SUFFICES ASSUME goal = "turn", Len(recent) >= GateLimit,
                        NEW broken \in SUBSET Gates, broken # {}
                 PROVE  \E i \in (Len(recent) - GateLimit + 1)..Len(recent) :
                          recent[i].failed # broken
    BY DEF Goal!StuckIsStopped, Goal!Latest
  <2>2. /\ streak \in Nat /\ streak < GateLimit
        /\ Repeated(streak) /\ Back(0).failed = signature
    BY <2>1, <1>2, LimitsAreNumbers DEF GoalInv, GoalTyped, Under, StreakCounts
  <2>3. CASE broken # signature
    <3>1. Len(recent) \in (Len(recent) - GateLimit + 1)..Len(recent)
      BY <1>2, <2>1, <2>2, LimitsAreNumbers
    <3>2. Len(recent) - 0 = Len(recent)
      BY <1>2
    <3>3. recent[Len(recent)].failed # broken
      BY <2>2, <2>3, <3>2 DEF Back
    <3> QED BY <3>1, <3>3
  <2>4. CASE broken = signature
    <3>1. Len(recent) - streak \in (Len(recent) - GateLimit + 1)..Len(recent)
      BY <1>2, <2>1, <2>2, LimitsAreNumbers
    <3>2. recent[Len(recent) - streak].failed # broken
      BY <1>2, <2>1, <2>2, <2>4, LimitsAreNumbers DEF Repeated, Back
    <3> QED BY <3>1, <3>2
  <2> QED BY <2>3, <2>4
<1>4. Goal!SilentJudgeStops
  <2>1. SUFFICES ASSUME goal = "turn", Len(recent) >= JudgeLimit
                 PROVE  \E i \in (Len(recent) - JudgeLimit + 1)..Len(recent) :
                          recent[i].verdict # "fails"
    BY DEF Goal!SilentJudgeStops, Goal!Latest
  <2>2. /\ judgeFailures \in Nat /\ judgeFailures < JudgeLimit /\ FailuresCount
    BY <2>1, LimitsAreNumbers DEF GoalInv, GoalTyped, Under
  <2>3. /\ Len(recent) - judgeFailures \in (Len(recent) - JudgeLimit + 1)..Len(recent)
        /\ judgeFailures < Len(recent)
    BY <1>2, <2>1, <2>2, LimitsAreNumbers
  <2>4. recent[Len(recent) - judgeFailures].verdict # "fails"
    BY <2>2, <2>3 DEF FailuresCount, Back
  <2> QED BY <2>3, <2>4
<1> QED BY <1>1, <1>3, <1>4 DEF GoalInv

\* A goal is done when one turn satisfied gates and judge; an agent that is stuck is
\* stopped, and only that, and a judge that fails is not asked for ever (goal_mode).
THEOREM GoalLoopStops == Spec => []GoalStops
<1> DEFINE Inv == part = "goal" => GoalInv
<1>1. Init => Inv
  BY GoalStarts DEF Init
<1>2. Inv /\ [Next]_vars => Inv'
  <2> SUFFICES ASSUME part = "goal", GoalInv, [Next]_vars PROVE GoalInv'
    BY DEF Next, vars
  <2>1. CASE Goal!Next BY <2>1, GoalStepKeeps
  <2>2. CASE UNCHANGED goalVars BY <2>2, GoalStutters
  <2> QED BY <2>1, <2>2 DEF Next, vars
<1>3. Inv => GoalStops
  BY GoalInvIsEnough DEF GoalStops
<1> QED BY <1>1, <1>2, <1>3, PTL DEF Spec

-----------------------------------------------------------------------------
(* The line to a message, and that Path is it.                             *)

\* The messages of ms that every set has which has m and the parents of its messages.
LineTo(ms, m) ==
  {i \in 1..Len(ms) :
     \A S \in SUBSET (0..Len(ms)) :
       m \in S /\ (\A j \in S \ {0} : ms[j].parent \in S) => i \in S}

Tree(ms) == Len(ms) \in Nat /\ \A i \in 1..Len(ms) : ms[i].parent \in 0..(i - 1)

\* A set of numbers that is not empty has a least one.
LEMMA Least ==
  ASSUME NEW T, T \subseteq Nat, T # {}
  PROVE  \E x \in T : \A y \in T : x <= y
<1> DEFINE Below == {0..n : n \in T}
<1>1. Below \subseteq FiniteSubsetsOf(Nat) /\ Below # {}
  <2>1. \A n \in T : 0..n \subseteq Nat /\ IsFiniteSet(0..n)
    BY FS_Interval
  <2> QED BY <2>1 DEF FiniteSubsetsOf
<1>2. PICK B \in Below : \A C \in Below : ~ (<<C, B>> \in StrictSubsetOrdering(Nat))
  <2> HIDE DEF Below
  <2>1. IsWellFoundedOn(StrictSubsetOrdering(Nat), FiniteSubsetsOf(Nat))
    BY FS_StrictSubsetOrderingWellFounded
  <2> QED BY <1>1, <2>1, WFMin
<1>3. PICK x \in T : B = 0..x
  BY <1>2
<1>4. ASSUME NEW y \in T PROVE x <= y
  <2>1. CASE y < x
    <3>1. 0..y \subseteq 0..x /\ 0..y # 0..x
      <4>1. x \in 0..x /\ x \notin 0..y
        BY <2>1
      <4> QED BY <4>1, <2>1
    <3>2. 0..y \subseteq Nat /\ 0..x \subseteq Nat
      OBVIOUS
    <3>3. <<0..y, 0..x>> \in StrictSubsetOrdering(Nat)
      BY <3>1, <3>2 DEF StrictSubsetOrdering
    <3> QED BY <1>2, <1>3, <3>3
  <2> QED BY <2>1
<1> QED BY <1>4

\* A set of numbers up to n has a greatest.
LEMMA Greatest ==
  ASSUME NEW n \in Nat, NEW T, T \subseteq 0..n, T # {}
  PROVE  \E x \in T : \A y \in T : x >= y
<1> DEFINE U == {n - x : x \in T}
<1>1. U \subseteq Nat /\ U # {}
  <2>1. \A x \in T : x \in 0..n /\ n - x \in Nat
    OBVIOUS
  <2>2. PICK x \in T : TRUE
    OBVIOUS
  <2>3. n - x \in U
    OBVIOUS
  <2> QED BY <2>1, <2>3
<1>2. PICK u \in U : \A w \in U : u <= w
  <2> HIDE DEF U
  <2> QED BY <1>1, Least
<1>3. PICK x \in T : u = n - x
  OBVIOUS
<1>4. ASSUME NEW y \in T PROVE x >= y
  <2>1. n - y \in U
    OBVIOUS
  <2>2. n - x <= n - y
    BY <1>2, <1>3, <2>1
  <2>3. x \in Int /\ y \in Int
    OBVIOUS
  <2> QED BY <2>2, <2>3
<1> QED BY <1>4

\* A line is a message and the line to its parent.
LEMMA LineStep ==
  ASSUME NEW ms, Tree(ms)
  PROVE  /\ LineTo(ms, 0) = {}
         /\ \A m \in 1..Len(ms) : LineTo(ms, m) = {m} \cup LineTo(ms, ms[m].parent)
<1>1. LineTo(ms, 0) = {}
  <2>1. {0} \in SUBSET (0..Len(ms)) /\ 0 \in {0} /\ \A j \in {0} \ {0} : ms[j].parent \in {0}
    BY DEF Tree
  <2>2. ASSUME NEW i \in LineTo(ms, 0) PROVE FALSE
    <3>1. i \in 1..Len(ms) /\ i \in {0}
      BY <2>1 DEF LineTo
    <3> QED BY <3>1 DEF Tree
  <2> QED BY <2>2
<1>2. ASSUME NEW m \in 1..Len(ms)
      PROVE  LineTo(ms, m) = {m} \cup LineTo(ms, ms[m].parent)
  <2>1. m \in LineTo(ms, m)
    BY DEF LineTo
  <2>2. ASSUME NEW i \in LineTo(ms, ms[m].parent) PROVE i \in LineTo(ms, m)
    <3>1. i \in 1..Len(ms)
      BY DEF LineTo
    <3>2. ASSUME NEW S \in SUBSET (0..Len(ms)), m \in S, \A j \in S \ {0} : ms[j].parent \in S
          PROVE  i \in S
      <4>1. ms[m].parent \in S
        BY <3>2
      <4> QED BY <3>2, <4>1, <2>2 DEF LineTo
    <3> QED BY <3>1, <3>2 DEF LineTo
  <2>3. ASSUME NEW i \in LineTo(ms, m), i # m PROVE i \in LineTo(ms, ms[m].parent)
    <3>1. i \in 1..Len(ms)
      BY DEF LineTo
    <3>2. ASSUME NEW S \in SUBSET (0..Len(ms)), ms[m].parent \in S,
                 \A j \in S \ {0} : ms[j].parent \in S
          PROVE  i \in S
      <4>1. S \cup {m} \in SUBSET (0..Len(ms)) /\ m \in S \cup {m}
        BY DEF Tree
      <4>2. \A j \in (S \cup {m}) \ {0} : ms[j].parent \in S \cup {m}
        BY <3>2
      <4>3. i \in S \cup {m}
        BY <4>1, <4>2, <2>3 DEF LineTo
      <4> QED BY <4>3, <2>3
    <3> QED BY <3>1, <3>2 DEF LineTo
  <2> QED BY <2>1, <2>2, <2>3
<1> QED BY <1>1, <1>2

\* get_history, without recursion.
LEMMA PathIsLine ==
  ASSUME NEW ms, Tree(ms), NEW m \in 0..Len(ms)
  PROVE  Patient!Path(ms, m) = LineTo(ms, m)
<1> DEFINE Unfold(u) == [i \in 0..Len(ms) |->
                           IF i = 0 THEN {} ELSE {i} \cup u[ms[i].parent]]
           up == CHOOSE u : u = Unfold(u)
           line == [i \in 0..Len(ms) |-> LineTo(ms, i)]
<1>1. line = Unfold(line)
  <2>1. ASSUME NEW i \in 0..Len(ms) PROVE line[i] = Unfold(line)[i]
    <3>1. CASE i = 0
      BY <3>1, LineStep
    <3>2. CASE i # 0
      <4>1. i \in 1..Len(ms) /\ ms[i].parent \in 0..Len(ms)
        BY <3>2 DEF Tree
      <4> QED BY <3>2, <4>1, LineStep
    <3> QED BY <3>1, <3>2
  <2> QED BY <2>1
<1>2. up = Unfold(up)
  <2> HIDE DEF Unfold
  <2> QED BY <1>1
<1>3. Patient!Path(ms, m) = up[m]
  BY DEF Patient!Path
<1>4. \A i \in 0..Len(ms) : up[i] = IF i = 0 THEN {} ELSE {i} \cup up[ms[i].parent]
  <2> HIDE DEF up
  <2> QED BY <1>2
<1> DEFINE Off == {i \in 0..Len(ms) : up[i] # LineTo(ms, i)}
<1>5. SUFFICES Off = {}
  BY <1>3
<1>6. SUFFICES ASSUME Off # {} PROVE FALSE
  OBVIOUS
<1> HIDE DEF up
<1>7. PICK i \in Off : \A j \in Off : i <= j
  <2>1. Off \subseteq Nat
    BY DEF Tree
  <2> HIDE DEF Off
  <2> QED BY <1>6, <2>1, Least
<1>8. i # 0
  BY <1>4, LineStep DEF Tree
<1>9. i \in 1..Len(ms) /\ ms[i].parent \in 0..Len(ms) /\ ms[i].parent < i
  BY <1>8 DEF Tree
<1>10. up[ms[i].parent] = LineTo(ms, ms[i].parent)
  BY <1>7, <1>9
<1>11. up[i] = {i} \cup LineTo(ms, ms[i].parent)
  BY <1>4, <1>8, <1>9, <1>10
<1>12. LineTo(ms, i) = {i} \cup LineTo(ms, ms[i].parent)
  BY <1>9, LineStep
<1> QED BY <1>7, <1>11, <1>12

\* A line has no later messages, and of each of its messages the whole line.
LEMMA LineFacts ==
  ASSUME NEW ms, Tree(ms), NEW m \in 0..Len(ms)
  PROVE  /\ LineTo(ms, m) \subseteq 1..m
         /\ \A i \in LineTo(ms, m) : LineTo(ms, i) \subseteq LineTo(ms, m)
<1>1. LineTo(ms, m) \subseteq 1..m
  <2>1. 0..m \in SUBSET (0..Len(ms)) /\ m \in 0..m
    BY DEF Tree
  <2>2. \A j \in (0..m) \ {0} : ms[j].parent \in 0..m
    BY DEF Tree
  <2>3. ASSUME NEW i \in LineTo(ms, m) PROVE i \in 1..m
    <3>1. i \in 1..Len(ms) /\ i \in 0..m
      BY <2>1, <2>2 DEF LineTo
    <3> QED BY <3>1 DEF Tree
  <2> QED BY <2>3
<1>2. ASSUME NEW i \in LineTo(ms, m), NEW k \in LineTo(ms, i) PROVE k \in LineTo(ms, m)
  <2>1. k \in 1..Len(ms)
    BY DEF LineTo
  <2>2. ASSUME NEW S \in SUBSET (0..Len(ms)), m \in S, \A j \in S \ {0} : ms[j].parent \in S
        PROVE  k \in S
    <3>1. i \in S
      BY <2>2 DEF LineTo
    <3> QED BY <3>1, <2>2 DEF LineTo
  <2> QED BY <2>1, <2>2 DEF LineTo
<1> QED BY <1>1, <1>2

\* A new message is the end of a line of its own, and of no other.
LEMMA LineGrows ==
  ASSUME NEW ms, NEW new, NEW S, ms \in Seq(S), new \in S, Tree(ms),
         new.parent \in 0..Len(ms)
  PROVE  LET grown == Append(ms, new) IN
         /\ Tree(grown)
         /\ \A m \in 0..Len(ms) : LineTo(grown, m) = LineTo(ms, m)
         /\ LineTo(grown, Len(ms) + 1) = {Len(ms) + 1} \cup LineTo(ms, new.parent)
<1> DEFINE grown == Append(ms, new)
           n == Len(ms)
<1>1. /\ n \in Nat /\ Len(grown) = n + 1
      /\ \A i \in 1..n : grown[i] = ms[i]
      /\ grown[n + 1] = new
  OBVIOUS
<1> HIDE DEF grown
<1>2. Tree(grown)
  <2>1. ASSUME NEW i \in 1..(n + 1) PROVE grown[i].parent \in 0..(i - 1)
    <3>1. CASE i = n + 1
      BY <1>1, <3>1
    <3>2. CASE i # n + 1
      BY <1>1, <3>2 DEF Tree
    <3> QED BY <3>1, <3>2
  <2> QED BY <1>1, <2>1 DEF Tree
<1>3. ASSUME NEW m \in 0..n PROVE LineTo(grown, m) = LineTo(ms, m)
  <2>0. m \in 0..Len(grown)
    BY <1>1
  <2>1. LineTo(grown, m) \subseteq 1..n /\ LineTo(ms, m) \subseteq 1..n
    <3>1. LineTo(grown, m) \subseteq 1..m
      BY <1>2, <2>0, LineFacts
    <3> QED BY <1>1, <3>1 DEF LineTo
  <2>2. ASSUME NEW i \in LineTo(grown, m) PROVE i \in LineTo(ms, m)
    <3>1. ASSUME NEW T \in SUBSET (0..n), m \in T, \A j \in T \ {0} : ms[j].parent \in T
          PROVE  i \in T
      <4>1. T \in SUBSET (0..Len(grown))
        BY <1>1
      <4>2. \A j \in T \ {0} : grown[j].parent \in T
        BY <1>1, <3>1
      <4> QED BY <2>2, <3>1, <4>1, <4>2 DEF LineTo
    <3> QED BY <2>1, <3>1 DEF LineTo
  <2>3. ASSUME NEW i \in LineTo(ms, m) PROVE i \in LineTo(grown, m)
    <3>1. ASSUME NEW T \in SUBSET (0..(n + 1)), m \in T, \A j \in T \ {0} : grown[j].parent \in T
          PROVE  i \in T
      <4> DEFINE U == T \cap (0..n)
      <4>1. U \in SUBSET (0..n) /\ m \in U
        BY <3>1
      <4>2. \A j \in U \ {0} : ms[j].parent \in U
        BY <1>1, <3>1 DEF Tree
      <4>3. i \in U
        BY <2>3, <4>1, <4>2 DEF LineTo
      <4> QED BY <4>3
    <3> QED BY <1>1, <2>1, <2>3, <3>1 DEF LineTo
  <2> QED BY <2>2, <2>3
<1>4. LineTo(grown, n + 1) = {n + 1} \cup LineTo(ms, new.parent)
  <2>1. LineTo(grown, n + 1) = {n + 1} \cup LineTo(grown, grown[n + 1].parent)
    BY <1>1, <1>2, LineStep
  <2> QED BY <1>1, <1>3, <2>1
<1> QED BY <1>2, <1>3, <1>4 DEF grown

-----------------------------------------------------------------------------
(* The invariant of every thread, and the steps as far as it tells them apart. *)

\* A call of a message there is.
Known(ms, c) == c \in Patient!Calls /\ c[1] \in 1..Len(ms) /\ c[2] <= Len(ms[c[1]].calls)

Extends(ms, grown) ==
  Len(ms) <= Len(grown) /\ \A i \in 1..Len(ms) : grown[i] = ms[i]

RunTyped(e, ms, taking) ==
  /\ e.parent <= Len(ms) /\ e.batch <= Len(ms)
  /\ e.at \in {"asking", "executing"} => e.batch # 0 /\ ms[e.batch].calls # <<>>
  /\ e.done # {} => e.batch # 0
  /\ e.at \in {"idle", "placing", "queued", "claiming", "claimed", "loaded"} =>
       e.done = {} /\ e.stored = 0
  /\ e.at = "asking" =>
       \E i \in 1..Len(ms[e.batch].calls) : ms[e.batch].calls[i] \in Patient!Asks
  /\ e.at = "executing" =>
       \A i \in 1..Len(ms[e.batch].calls) : ms[e.batch].calls[i] \notin Patient!Asks
  /\ e.at \in {"claiming", "claimed", "loaded", "replaying"} => e.asked # None
  /\ e.asked # None => Known(ms, e.asked) /\ e.decision \in Patient!Decisions
  /\ e.at \in {"claimed", "loaded", "replaying"} => <<e.asked, e.decision>> \in taking

ThreadTyped ==
  /\ Patient!TypeOK /\ Tree(msgs)
  /\ \A r \in Runs : RunTyped(run[r], msgs, decided)
  /\ pending # None => Known(msgs, pending)
  /\ \A c \in Patient!Calls : ran[c] > 0 => Known(msgs, c)
  /\ \A d \in decided : Known(msgs, d[1])

\* No call of the batch was decided about.
Undecided(b, taking) == \A d \in taking : d[1][1] # b

Decisive ==
  /\ pending # None => Undecided(pending[1], decided)
  /\ \A r \in Runs : run[r].at = "asking" =>
       /\ Undecided(run[r].batch, decided)
       /\ pending # None => pending[1] # run[r].batch
       /\ \A x \in Runs : x # r /\ run[x].at = "asking" => run[x].batch # run[r].batch

Obeyed ==
  /\ \A c \in Patient!Calls :
       Known(msgs, c) /\ Patient!Kind(c) \in Patient!Asks /\ ran[c] > 0
         => <<c, "approve">> \in decided
  /\ \A c \in Patient!Calls : ~({<<c, "approve">>, <<c, "reject">>} \subseteq decided)

SharedInv == ThreadTyped /\ Decisive /\ Obeyed

\* What a request does to the thread, whatever the clients wait for.
ReadsHead(r) ==
  /\ run[r].at = "idle" /\ head' \in 0..Len(msgs)
  /\ fork' \in [Runs -> 0..MaxMessages]
  /\ run' \in {[run EXCEPT ![r] = Patient!Over],
               [run EXCEPT ![r] = [run[r] EXCEPT !.at = "placing", !.parent = head']]}
  /\ UNCHANGED <<msgs, pending, ephemeral, lock, ran, decided, cut>>
Enters(r) ==
  /\ run[r].at = "queued" /\ lock' \in {lock, r}
  /\ run' = [run EXCEPT ![r] = [run[r] EXCEPT
               !.at = IF run[r].asked = None THEN "starting" ELSE "claiming"]]
  /\ UNCHANGED <<msgs, head, pending, ephemeral, ran, decided, cut, fork>>
MovesHead ==
  /\ head' \in 0..Len(msgs)
  /\ UNCHANGED <<msgs, pending, ephemeral, run, lock, ran, decided, cut, fork>>
Fails(r) ==
  /\ run[r].at # "idle"
  /\ cut' = cut \cup Patient!Unfinished(r)
  /\ run' \in {[run EXCEPT ![r] = [Patient!Fresh EXCEPT !.at = "ending"]],
               [run EXCEPT ![r] = Patient!Over]}
  /\ lock' \in {lock, None}
  /\ UNCHANGED <<msgs, head, pending, ephemeral, ran, decided, fork>>
Crashes ==
  /\ cut' = cut \cup UNION {Patient!Unfinished(r) : r \in Runs}
  /\ run' = [r \in Runs |-> IF run[r].at = "idle" THEN Patient!Fresh ELSE Patient!Over]
  /\ lock' = None /\ ephemeral' = {}
  /\ UNCHANGED <<msgs, head, pending, ran, decided, fork>>
Restarts == ephemeral' = {} /\ UNCHANGED <<msgs, head, pending, run, lock, ran, decided, cut, fork>>
Lapses ==
  /\ pending # None /\ pending' = None
  /\ cut' = cut \cup {pending[1]}
  /\ UNCHANGED <<msgs, head, ephemeral, run, lock, ran, decided, fork>>

SharedRun(r) ==
  \/ Patient!Place(r) \/ \E d \in Patient!Decisions : Patient!Decide(r, d)
  \/ Patient!StartLoop(r) \/ Patient!Read(r) \/ Patient!Answer(r) \/ Patient!GiveUp(r)
  \/ Patient!Outcome(r) \/ (\E b \in Batches : Patient!Request(r, b))
  \/ Patient!Ask(r) \/ Patient!Store(r) \/ Patient!EndBatch(r)
  \/ (\E i \in 1..MaxBatch : Patient!Execute(r, i))
  \/ Patient!Claim(r) \/ Patient!Load(r) \/ Patient!TakeParent(r) \/ Patient!Replay(r)
  \/ Patient!Resolve(r)

SharedNext ==
  /\ \/ \E r \in Runs : ReadsHead(r) \/ Enters(r) \/ Fails(r) \/ SharedRun(r)
     \/ MovesHead \/ Crashes \/ Restarts \/ Lapses
  /\ faults' \in {faults, faults + 1}

\* What the assumption says of the constants of the threads.
LEMMA Constants ==
  /\ TurnOf \in [Runs -> Turns \cup {None}] /\ None \notin Turns
  /\ \A b \in Batches : b \in Seq(Patient!Kinds) /\ Len(b) \in 1..MaxBatch
  /\ MaxMessages \in Nat /\ MaxBatch \in Nat
  /\ None \notin Runs /\ None \notin Patient!Calls
BY ThreadParameters DEF Patient!Parameters

\* The two kinds of thread differ in what the clients wait for, and in the lock.
LEMMA PatientShares ==
  ASSUME SharedInv, Patient!Next
  PROVE  SharedNext
<1>1. Patient!TypeOK
  BY DEF SharedInv, ThreadTyped
<1>2. ASSUME NEW r \in Runs, NEW m \in 0..MaxMessages, Patient!ReadHead(r, m)
      PROVE  ReadsHead(r)
  <2>1. head' \in 0..Len(msgs) /\ fork' \in [Runs -> 0..MaxMessages]
    BY <1>1, <1>2 DEF Patient!ReadHead, Patient!TypeOK, Patient!Leaves
  <2> QED BY <1>2, <2>1 DEF Patient!ReadHead, ReadsHead, Patient!To
<1>3. ASSUME NEW r \in Runs, Patient!Enter(r) PROVE Enters(r)
  BY <1>3 DEF Patient!Enter, Enters, Patient!Move
<1>4. ASSUME NEW r \in Runs, Patient!Cancel(r) PROVE Fails(r)
  BY <1>4 DEF Patient!Cancel, Fails, Patient!To, Patient!End, Patient!Working
<1>5. ASSUME NEW m \in 1..MaxMessages, Patient!SelectBranch(m) \/ Patient!Rewind(m)
      PROVE  MovesHead
  BY <1>1, <1>5 DEF Patient!SelectBranch, Patient!Rewind, MovesHead, Patient!TypeOK,
     Patient!Leaves
<1>6. /\ Patient!Crash => Crashes
      /\ Patient!Restart => Restarts
      /\ Patient!Lapse => Lapses
  BY DEF Patient!Crash, Patient!Restart, Patient!Lapse, Crashes, Restarts, Lapses
<1>7. faults' \in {faults, faults + 1}
  BY ZenonT(60) DEF Patient!Next, Patient!ReadHead, Patient!Place, Patient!Enter, Patient!Decide,
         Patient!StartLoop, Patient!Read, Patient!Answer, Patient!GiveUp, Patient!Outcome,
         Patient!Request, Patient!Ask, Patient!Store, Patient!EndBatch, Patient!Execute,
         Patient!Claim, Patient!Load, Patient!TakeParent, Patient!Replay, Patient!Resolve,
         Patient!Cancel, Patient!SelectBranch, Patient!Rewind, Patient!Crash,
         Patient!Restart, Patient!Lapse
<1> QED BY <1>2, <1>3, <1>4, <1>5, <1>6, <1>7 DEF Patient!Next, SharedNext, SharedRun

\* The clients that do not wait take the same steps.
LEMMA HastyShares ==
  ASSUME SharedInv, Hasty!Next
  PROVE  SharedNext
<1>1. Patient!TypeOK
  BY DEF SharedInv, ThreadTyped
<1>2. ASSUME NEW r \in Runs, NEW m \in 0..MaxMessages, Hasty!ReadHead(r, m)
      PROVE  ReadsHead(r)
  <2>1. head' \in 0..Len(msgs) /\ fork' \in [Runs -> 0..MaxMessages]
    BY <1>1, <1>2 DEF Hasty!ReadHead, Patient!TypeOK, Hasty!Leaves
  <2> QED BY <1>2, <2>1 DEF Hasty!ReadHead, ReadsHead, Hasty!To, Hasty!Over, Patient!Over,
                            Hasty!Fresh, Patient!Fresh
<1>3. ASSUME NEW r \in Runs, Hasty!Enter(r) PROVE Enters(r)
  BY <1>3 DEF Hasty!Enter, Enters, Hasty!Move
<1>4. ASSUME NEW r \in Runs PROVE Hasty!Unfinished(r) = Patient!Unfinished(r)
  BY DEF Hasty!Unfinished, Patient!Unfinished
<1>5. Hasty!Fresh = Patient!Fresh /\ Hasty!Over = Patient!Over
  BY DEF Hasty!Fresh, Patient!Fresh, Hasty!Over, Patient!Over
<1>6. ASSUME NEW r \in Runs, Hasty!Cancel(r) PROVE Fails(r)
  BY <1>4, <1>5, <1>6 DEF Hasty!Cancel, Fails, Hasty!To, Hasty!End, Hasty!Working
<1>7. ASSUME NEW m \in 1..MaxMessages, Hasty!SelectBranch(m) \/ Hasty!Rewind(m)
      PROVE  MovesHead
  BY <1>1, <1>7 DEF Hasty!SelectBranch, Hasty!Rewind, MovesHead, Patient!TypeOK, Hasty!Leaves
<1>8. /\ Hasty!Crash => Crashes
      /\ Hasty!Restart => Restarts
      /\ Hasty!Lapse => Lapses
  <2>1. {Hasty!Unfinished(r) : r \in Runs} = {Patient!Unfinished(r) : r \in Runs}
    BY <1>4
  <2> QED BY <1>5, <2>1 DEF Hasty!Crash, Hasty!Restart, Hasty!Lapse, Crashes, Restarts, Lapses
<1>9. faults' \in {faults, faults + 1}
  BY ZenonT(60) DEF Hasty!Next, Hasty!ReadHead, Hasty!Place, Hasty!Enter, Hasty!Decide,
         Hasty!StartLoop, Hasty!Read, Hasty!Answer, Hasty!GiveUp, Hasty!Outcome,
         Hasty!Request, Hasty!Ask, Hasty!Store, Hasty!EndBatch, Hasty!Execute,
         Hasty!Claim, Hasty!Load, Hasty!TakeParent, Hasty!Replay, Hasty!Resolve,
         Hasty!Cancel, Hasty!SelectBranch, Hasty!Rewind, Hasty!Crash,
         Hasty!Restart, Hasty!Lapse
<1>10. ASSUME NEW ms, NEW m PROVE Hasty!Path(ms, m) = Patient!Path(ms, m)
  BY DEF Hasty!Path, Patient!Path
<1>11. ASSUME NEW ms, NEW S PROVE Hasty!LastBatch(ms, S) = Patient!LastBatch(ms, S)
  BY DEF Hasty!LastBatch, Patient!LastBatch, Hasty!Max, Patient!Max
<1>12. /\ Hasty!Calls = Patient!Calls /\ Hasty!Asks = Patient!Asks
       /\ Hasty!Decisions = Patient!Decisions
       /\ Hasty!Destructive = Patient!Destructive
  BY DEF Hasty!Calls, Patient!Calls, Hasty!Asks, Patient!Asks, Hasty!Decisions, Patient!Decisions,
         Hasty!Destructive, Patient!Destructive, Hasty!Kinds, Patient!Kinds
<1>13. ASSUME NEW r \in Runs PROVE Hasty!End(r) <=> Patient!End(r)
  BY <1>5 DEF Hasty!End, Patient!End, Hasty!To, Patient!To
<1>14. ASSUME NEW r \in Runs, Hasty!Place(r) PROVE Patient!Place(r)
  BY <1>5, <1>14 DEF Hasty!Place, Patient!Place, Hasty!Add, Patient!Add, Hasty!To, Patient!To
<1>15. ASSUME NEW r \in Runs, NEW d, Hasty!Decide(r, d) PROVE Patient!Decide(r, d)
  BY <1>15 DEF Hasty!Decide, Patient!Decide, Hasty!To, Patient!To
<1>16. ASSUME NEW r \in Runs, Hasty!StartLoop(r) PROVE Patient!StartLoop(r)
  BY <1>5, <1>16 DEF Hasty!StartLoop, Patient!StartLoop, Hasty!To, Patient!To
<1>17. ASSUME NEW r \in Runs, Hasty!Read(r) PROVE Patient!Read(r)
  BY <1>10, <1>17 DEF Hasty!Read, Patient!Read, Hasty!To, Patient!To
<1>18. ASSUME NEW r \in Runs, Hasty!Answer(r) PROVE Patient!Answer(r)
  BY <1>13, <1>18 DEF Hasty!Answer, Patient!Answer, Hasty!Add, Patient!Add
<1>19. ASSUME NEW r \in Runs, Hasty!GiveUp(r) PROVE Patient!GiveUp(r)
  BY <1>19 DEF Hasty!GiveUp, Patient!GiveUp, Hasty!Move, Patient!Move
<1>20. ASSUME NEW r \in Runs, Hasty!Outcome(r) PROVE Patient!Outcome(r)
  <2>1. \A ms, S : Hasty!Requested(ms, S) = Patient!Requested(ms, S)
                   /\ Hasty!Answered(ms, S) = Patient!Answered(ms, S)
    BY <1>12 DEF Hasty!Requested, Patient!Requested, Hasty!Answered, Patient!Answered
  <2> QED BY <1>10, <1>13, <1>20, <2>1 DEF Hasty!Outcome, Patient!Outcome, Hasty!Add, Patient!Add
<1>21. ASSUME NEW r \in Runs, NEW b \in Batches, Hasty!Request(r, b) PROVE Patient!Request(r, b)
  BY <1>5, <1>12, <1>21 DEF Hasty!Request, Patient!Request, Hasty!Add, Patient!Add, Hasty!To,
     Patient!To
<1>22. ASSUME NEW r \in Runs, Hasty!Ask(r) PROVE Patient!Ask(r)
  BY <1>12, <1>13, <1>22 DEF Hasty!Ask, Patient!Ask, Hasty!Min, Patient!Min, Hasty!Kind,
     Patient!Kind
<1>23. ASSUME NEW r \in Runs PROVE Hasty!BatchLen(r) = Patient!BatchLen(r)
  BY DEF Hasty!BatchLen, Patient!BatchLen
<1>24. ASSUME NEW r \in Runs, Hasty!Store(r) PROVE Patient!Store(r)
  BY <1>23, <1>24 DEF Hasty!Store, Patient!Store, Hasty!Add, Patient!Add, Hasty!To, Patient!To
<1>25. ASSUME NEW r \in Runs, Hasty!EndBatch(r) PROVE Patient!EndBatch(r)
  BY <1>5, <1>13, <1>23, <1>25 DEF Hasty!EndBatch, Patient!EndBatch, Hasty!To, Patient!To,
     Hasty!Move, Patient!Move
<1>26. ASSUME NEW r \in Runs, NEW i \in 1..MaxBatch, Hasty!Execute(r, i) PROVE Patient!Execute(r, i)
  BY <1>12, <1>23, <1>26 DEF Hasty!Execute, Patient!Execute, Hasty!Kind, Patient!Kind,
     Hasty!Run1, Patient!Run1
<1>27. ASSUME NEW r \in Runs, Hasty!Claim(r) PROVE Patient!Claim(r)
  BY <1>13, <1>27 DEF Hasty!Claim, Patient!Claim, Hasty!Move, Patient!Move
<1>28. ASSUME NEW r \in Runs, Hasty!Load(r) PROVE Patient!Load(r)
  <2>1. Hasty!ArgumentsLost(r) <=> Patient!ArgumentsLost(r)
    BY DEF Hasty!ArgumentsLost, Patient!ArgumentsLost, Hasty!Kind, Patient!Kind
  <2> QED BY <1>10, <1>11, <1>13, <1>28, <2>1 DEF Hasty!Load, Patient!Load, Hasty!To, Patient!To
<1>29. ASSUME NEW r \in Runs, Hasty!TakeParent(r) PROVE Patient!TakeParent(r)
  BY <1>29 DEF Hasty!TakeParent, Patient!TakeParent, Hasty!To, Patient!To
<1>30. ASSUME NEW r \in Runs, Hasty!Replay(r) PROVE Patient!Replay(r)
  BY <1>12, <1>23, <1>30 DEF Hasty!Replay, Patient!Replay, Hasty!MayReplay, Patient!MayReplay,
       Hasty!Kind, Patient!Kind, Hasty!Run1, Patient!Run1
<1>31. ASSUME NEW r \in Runs, Hasty!Resolve(r) PROVE Patient!Resolve(r)
  BY <1>5, <1>23, <1>31 DEF Hasty!Resolve, Patient!Resolve, Hasty!To, Patient!To
<1> QED BY <1>2, <1>3, <1>6, <1>7, <1>8, <1>9, <1>12, <1>14, <1>15, <1>16, <1>17, <1>18, <1>19,
           <1>20, <1>21, <1>22, <1>24, <1>25, <1>26, <1>27, <1>28, <1>29, <1>30, <1>31
           DEF Hasty!Next, SharedNext, SharedRun

-----------------------------------------------------------------------------
(* What a step makes of its run.                                           *)

\* What is known of messages and of a run stays known as both sets grow.
LEMMA Stays ==
  ASSUME NEW ms, NEW grown, Len(ms) \in Nat, Len(grown) \in Nat, Extends(ms, grown),
         NEW taking, NEW taken1, taking \subseteq taken1
  PROVE  /\ \A c : Known(ms, c) => Known(grown, c)
         /\ \A e \in Patient!Run : RunTyped(e, ms, taking) => RunTyped(e, grown, taken1)
<1>1. \A c : Known(ms, c) => Known(grown, c)
  BY DEF Known, Extends, Patient!Calls
<1>2. ASSUME NEW e \in Patient!Run, RunTyped(e, ms, taking)
      PROVE  RunTyped(e, grown, taken1)
  <2>1. e.parent \in Nat /\ e.batch \in Nat
    BY Constants DEF Patient!Run
  <2>2. e.batch # 0 => grown[e.batch] = ms[e.batch]
    BY <1>2, <2>1 DEF RunTyped, Extends
  <2>3. e.parent <= Len(grown) /\ e.batch <= Len(grown)
    BY <1>2, <2>1 DEF RunTyped, Extends
  <2> QED BY <1>1, <1>2, <2>2, <2>3 DEF RunTyped
<1> QED BY <1>1, <1>2

\* A step of one run leaves the others what they are.
LEMMA OneMoves ==
  ASSUME ThreadTyped, NEW r \in Runs, NEW e \in Patient!Run, run' = [run EXCEPT ![r] = e],
         Len(msgs') \in Nat, Extends(msgs, msgs'), decided \subseteq decided',
         RunTyped(e, msgs', decided')
  PROVE  /\ run' \in [Runs -> Patient!Run]
         /\ run'[r] = e /\ \A x \in Runs : x # r => run'[x] = run[x]
         /\ \A x \in Runs : RunTyped(run'[x], msgs', decided')
<1>1. run \in [Runs -> Patient!Run] /\ Len(msgs) \in Nat
  BY DEF ThreadTyped, Patient!TypeOK, Tree
<1>2. run' \in [Runs -> Patient!Run] /\ run'[r] = e /\ \A x \in Runs : x # r => run'[x] = run[x]
  BY <1>1
<1>3. \A x \in Runs : RunTyped(run[x], msgs', decided')
  BY <1>1, Stays DEF ThreadTyped
<1> QED BY <1>2, <1>3

\* What is there once a message was added.
Added(parent, new) ==
  LET n == Len(msgs) IN
  /\ n \in Nat /\ n + 1 <= MaxMessages
  /\ msgs' \in Seq(Patient!Message) /\ Len(msgs') = n + 1 /\ head' = n + 1
  /\ Extends(msgs, msgs') /\ Tree(msgs')
  /\ msgs'[n + 1] = new
  /\ \A m \in 0..n : LineTo(msgs', m) = LineTo(msgs, m)
  /\ LineTo(msgs', n + 1) = {n + 1} \cup LineTo(msgs, parent)

\* The message that Add appends, as a record.
LEMMA Adds ==
  ASSUME ThreadTyped, NEW role \in {"user", "assistant", "tool"}, NEW parent \in 0..Len(msgs),
         NEW tn \in Turns \cup {None}, NEW calls \in Batches \cup {<<>>},
         NEW answers \in Patient!Calls \cup {None},
         Patient!Add(role, parent, tn, calls, answers)
  PROVE  Added(parent, [role |-> role, parent |-> parent, turn |-> tn,
                        calls |-> calls, answers |-> answers])
<1> DEFINE n == Len(msgs)
           new == [role |-> role, parent |-> parent, turn |-> tn,
                   calls |-> calls, answers |-> answers]
<1>1. msgs \in Seq(Patient!Message) /\ n \in Nat /\ Tree(msgs)
  BY DEF ThreadTyped, Patient!TypeOK
<1>2. n < MaxMessages /\ msgs' = Append(msgs, new) /\ head' = n + 1
  BY DEF Patient!Add
<1>3. new \in Patient!Message
  <2>1. parent \in 0..MaxMessages
    BY <1>1, <1>2, Constants
  <2> QED BY <2>1 DEF Patient!Message
<1>4. new.parent = parent
  OBVIOUS
<1> HIDE DEF new
<1>5. /\ Tree(msgs')
      /\ \A m \in 0..n : LineTo(msgs', m) = LineTo(msgs, m)
      /\ LineTo(msgs', n + 1) = {n + 1} \cup LineTo(msgs, parent)
  BY <1>1, <1>2, <1>3, <1>4, LineGrows
<1>6. msgs' \in Seq(Patient!Message) /\ Len(msgs') = n + 1 /\ msgs'[n + 1] = new
      /\ \A i \in 1..n : msgs'[i] = msgs[i]
  BY <1>1, <1>2, <1>3
<1>7. n + 1 <= MaxMessages
  BY <1>1, <1>2, Constants
<1> QED BY <1>1, <1>2, <1>5, <1>6, <1>7 DEF Extends, Added, new

\* A run at the start and at the end.
LEMMA EndsAreTyped ==
  ASSUME NEW ms, Len(ms) \in Nat, NEW taking
  PROVE  /\ Patient!Fresh \in Patient!Run
         /\ Patient!Fresh.at = "idle" /\ Patient!Fresh.parent = 0 /\ Patient!Fresh.seen = {}
         /\ Patient!Fresh.batch = 0 /\ Patient!Fresh.done = {} /\ Patient!Fresh.stored = 0
         /\ Patient!Fresh.asked = None /\ Patient!Fresh.decision = None
         /\ RunTyped(Patient!Fresh, ms, taking)
         /\ \A a \in {"idle", "queued", "starting", "ending", "over", "reading"} :
              /\ [Patient!Fresh EXCEPT !.at = a] \in Patient!Run
              /\ RunTyped([Patient!Fresh EXCEPT !.at = a], ms, taking)
         /\ Patient!Over \in Patient!Run /\ RunTyped(Patient!Over, ms, taking)
<1>1. /\ Patient!Fresh.at = "idle" /\ Patient!Fresh.parent = 0 /\ Patient!Fresh.seen = {}
      /\ Patient!Fresh.batch = 0 /\ Patient!Fresh.done = {} /\ Patient!Fresh.stored = 0
      /\ Patient!Fresh.asked = None /\ Patient!Fresh.decision = None
  BY DEF Patient!Fresh
<1>2. Patient!Fresh \in Patient!Run
  <2>1. "idle" \in Patient!Positions /\ 0 \in 0..MaxMessages /\ 0 \in 0..MaxBatch
    BY Constants DEF Patient!Positions
  <2> QED BY <2>1 DEF Patient!Fresh, Patient!Run
<1>3. RunTyped(Patient!Fresh, ms, taking)
  BY <1>1 DEF RunTyped
<1>4. ASSUME NEW a \in {"idle", "queued", "starting", "ending", "over", "reading"}
      PROVE  /\ [Patient!Fresh EXCEPT !.at = a] \in Patient!Run
             /\ RunTyped([Patient!Fresh EXCEPT !.at = a], ms, taking)
  <2>1. a \in Patient!Positions
    BY DEF Patient!Positions, Patient!Working
  <2>2. [Patient!Fresh EXCEPT !.at = a] \in Patient!Run
    BY <1>2, <2>1 DEF Patient!Run
  <2> DEFINE e == [Patient!Fresh EXCEPT !.at = a]
  <2>3. e.at = a /\ e.parent = 0 /\ e.batch = 0 /\ e.done = {} /\ e.stored = 0 /\ e.asked = None
    BY <1>1, <1>2 DEF Patient!Run
  <2> HIDE DEF e
  <2>4. RunTyped(e, ms, taking)
    BY <2>3 DEF RunTyped
  <2> QED BY <2>2, <2>4 DEF e
<1>5. Patient!Over = [Patient!Fresh EXCEPT !.at = "over"]
  BY DEF Patient!Over
<1> QED BY <1>1, <1>2, <1>3, <1>4, <1>5

\* What becomes of a run.
Becomes(r, e) == e \in Patient!Run /\ run' = [run EXCEPT ![r] = e] /\ RunTyped(e, msgs', decided')

\* Nothing but the position, and the rest as at the start.
Blank(e, a) ==
  /\ e.at = a /\ e.parent = 0 /\ e.seen = {} /\ e.batch = 0 /\ e.done = {} /\ e.stored = 0
  /\ e.asked = None /\ e.decision = None

\* The runs that carry nothing.
LEMMA Blanks ==
  ASSUME NEW a \in {"idle", "queued", "starting", "ending", "over", "reading"}
  PROVE  Blank([Patient!Fresh EXCEPT !.at = a], a) /\ Blank(Patient!Over, "over")
         /\ Blank(Patient!Fresh, "idle")
<1>1. Patient!Fresh.at = "idle" /\ Patient!Fresh.parent = 0 /\ Patient!Fresh.seen = {}
      /\ Patient!Fresh.batch = 0 /\ Patient!Fresh.done = {} /\ Patient!Fresh.stored = 0
      /\ Patient!Fresh.asked = None /\ Patient!Fresh.decision = None
  BY DEF Patient!Fresh
<1>2. Patient!Fresh \in Patient!Run
  <2>1. Len(<<>>) \in Nat
    OBVIOUS
  <2> QED BY <2>1, EndsAreTyped
<1>3. \A w \in {"idle", "queued", "starting", "ending", "over", "reading"} :
        Blank([Patient!Fresh EXCEPT !.at = w], w)
  BY <1>1, <1>2 DEF Blank, Patient!Run
<1>4. Patient!Over = [Patient!Fresh EXCEPT !.at = "over"]
  BY DEF Patient!Over
<1> QED BY <1>1, <1>3, <1>4 DEF Blank

\* The types of a run and of what it refers to.
LEMMA Typing ==
  ASSUME ThreadTyped, NEW r \in Runs
  PROVE  /\ run[r] \in Patient!Run /\ RunTyped(run[r], msgs, decided)
         /\ run \in [Runs -> Patient!Run]
         /\ Len(msgs) \in Nat /\ Len(msgs) <= MaxMessages /\ msgs \in Seq(Patient!Message)
         /\ head \in 0..Len(msgs) /\ Tree(msgs)
         /\ run[r].parent \in 0..Len(msgs) /\ run[r].batch \in 0..Len(msgs)
         /\ run[r].stored \in Nat /\ run[r].done \subseteq 1..MaxBatch
<1>1. Patient!TypeOK /\ Tree(msgs) /\ RunTyped(run[r], msgs, decided)
  BY DEF ThreadTyped
<1>2. run \in [Runs -> Patient!Run] /\ run[r] \in Patient!Run /\ msgs \in Seq(Patient!Message)
      /\ Len(msgs) \in Nat /\ Len(msgs) <= MaxMessages /\ head \in 0..Len(msgs)
  BY <1>1 DEF Patient!TypeOK
<1>3. run[r].parent \in Nat /\ run[r].batch \in Nat /\ run[r].stored \in Nat
      /\ run[r].done \subseteq 1..MaxBatch
  BY <1>2, Constants DEF Patient!Run
<1>4. run[r].parent <= Len(msgs) /\ run[r].batch <= Len(msgs)
  BY <1>1 DEF RunTyped
<1> QED BY <1>1, <1>2, <1>3, <1>4

\* The calls of a message.
LEMMA BatchTyping ==
  ASSUME ThreadTyped, NEW b \in 1..Len(msgs)
  PROVE  /\ msgs[b].calls \in Seq(Patient!Kinds) /\ Len(msgs[b].calls) \in 0..MaxBatch
         /\ b \in 1..MaxMessages
         /\ msgs[b].calls # <<>> => Len(msgs[b].calls) > 0
<1>1. msgs \in Seq(Patient!Message) /\ Len(msgs) <= MaxMessages
  BY DEF ThreadTyped, Patient!TypeOK
<1>2. msgs[b] \in Patient!Message
  BY <1>1
<1>3. msgs[b].calls \in Batches \cup {<<>>}
  BY <1>2 DEF Patient!Message
<1>4. CASE msgs[b].calls \in Batches
  BY <1>1, <1>4, Constants
<1>5. CASE msgs[b].calls = <<>>
  BY <1>1, <1>5, Constants
<1> QED BY <1>3, <1>4, <1>5

\* What each action makes of its run.
LEMMA EndDoes ==
  ASSUME ThreadTyped, NEW r \in Runs, Patient!End(r), Len(msgs') \in Nat
  PROVE  \E e : Becomes(r, e) /\ Blank(e, "over")
BY EndsAreTyped, Blanks DEF Patient!End, Patient!To, Becomes

\* A run that placed its message waits at the lock.
LEMMA PlaceDoes ==
  ASSUME ThreadTyped, NEW r \in Runs, Patient!Place(r)
  PROVE  \E e : /\ Len(msgs') \in Nat => Becomes(r, e)
                /\ Blank(e, "queued")
<1> DEFINE e == [Patient!Fresh EXCEPT !.at = "queued"]
<1>1. Blank(e, "queued")
  BY Blanks
<1>2. Len(msgs') \in Nat => Becomes(r, e)
  BY EndsAreTyped DEF Patient!Place, Patient!To, Becomes
<1> HIDE DEF e
<1> QED BY <1>1, <1>2

\* A resumption carries the approval that was pending.
LEMMA DecideDoes ==
  ASSUME ThreadTyped, NEW r \in Runs, NEW d \in Patient!Decisions, Patient!Decide(r, d)
  PROVE  \E e : /\ Becomes(r, e) /\ e.at = "queued" /\ e.asked = pending /\ e.decision = d
                /\ e.parent = run[r].parent /\ e.seen = run[r].seen /\ e.batch = run[r].batch
                /\ e.done = run[r].done /\ e.stored = run[r].stored
<1> DEFINE o == run[r]
           e == [o EXCEPT !.at = "queued", !.asked = pending, !.decision = d]
<1>1. pending # None /\ pending \in Patient!Calls /\ Known(msgs, pending)
  BY DEF Patient!Decide, ThreadTyped, Patient!TypeOK
<1>0. run[r].at = "idle"
  BY DEF Patient!Decide
<1>2. /\ o \in Patient!Run /\ RunTyped(o, msgs, decided) /\ run \in [Runs -> Patient!Run]
  BY Typing
<1>3. /\ e \in Patient!Run /\ e.at = "queued" /\ e.asked = pending /\ e.decision = d
      /\ e.parent = o.parent /\ e.seen = o.seen /\ e.batch = o.batch
      /\ e.done = o.done /\ e.stored = o.stored
  <2>1. "queued" \in Patient!Positions
    BY DEF Patient!Positions
  <2> HIDE DEF o
  <2> QED BY <1>1, <1>2, <2>1 DEF Patient!Run
<1>4. run' = [run EXCEPT ![r] = e] /\ msgs' = msgs /\ decided' = decided
  BY DEF Patient!Decide, Patient!To
<1> HIDE DEF e
<1>5. RunTyped(e, msgs', decided')
  BY <1>0, <1>1, <1>2, <1>3, <1>4 DEF RunTyped
<1> QED BY <1>3, <1>4, <1>5 DEF Becomes

\* The position changes and nothing else of the run.
Moved(e, o, a) ==
  /\ e.at = a /\ e.parent = o.parent /\ e.seen = o.seen /\ e.batch = o.batch
  /\ e.done = o.done /\ e.stored = o.stored /\ e.asked = o.asked /\ e.decision = o.decision

\* A run that changes its position only.
LEMMA Moves ==
  ASSUME NEW o \in Patient!Run, NEW a \in Patient!Positions
  PROVE  [o EXCEPT !.at = a] \in Patient!Run /\ Moved([o EXCEPT !.at = a], o, a)
BY DEF Patient!Run, Moved

\* Move, under what the position it goes to demands.
LEMMA MoveDoes ==
  ASSUME ThreadTyped, NEW r \in Runs, NEW a \in {"starting", "claiming", "ending", "claimed"},
         Patient!Move(r, a), msgs' = msgs, decided \subseteq decided',
         a \in {"claiming", "claimed"} => run[r].asked # None,
         a = "claimed" => <<run[r].asked, run[r].decision>> \in decided',
         a \in {"claiming", "claimed"} => run[r].at \in {"queued", "claiming"}
  PROVE  \E e : Becomes(r, e) /\ Moved(e, run[r], a)
<1> DEFINE o == run[r]
           e == [o EXCEPT !.at = a]
<1>1. /\ o \in Patient!Run /\ RunTyped(o, msgs, decided) /\ run \in [Runs -> Patient!Run]
  BY Typing
<1>2. a \in Patient!Positions
  BY DEF Patient!Positions, Patient!Working
<1>3. e \in Patient!Run /\ Moved(e, o, a)
  <2> HIDE DEF o
  <2> QED BY <1>1, <1>2, Moves
<1>4. run' = [run EXCEPT ![r] = e]
  BY DEF Patient!Move
<1> HIDE DEF e
<1>5. RunTyped(e, msgs', decided')
  BY <1>1, <1>3 DEF RunTyped, Moved
<1> QED BY <1>3, <1>4, <1>5 DEF Becomes

\* The history of the head is its line.
LEMMA HeadLine ==
  ASSUME ThreadTyped
  PROVE  /\ Patient!Path(msgs, head) = LineTo(msgs, head)
         /\ LineTo(msgs, head) \subseteq 1..Len(msgs)
<1>1. Tree(msgs) /\ head \in 0..Len(msgs) /\ Len(msgs) \in Nat
  BY DEF ThreadTyped, Patient!TypeOK, Tree
<1>2. LineTo(msgs, head) \subseteq 1..head
  BY <1>1, LineFacts
<1> QED BY <1>1, <1>2, PathIsLine

\* LastBatch is the latest message of S with calls.
LEMMA LastBatchIs ==
  ASSUME ThreadTyped, NEW S, S \subseteq 1..Len(msgs)
  PROVE  LET b == Patient!LastBatch(msgs, S) IN
         /\ b \in 0..Len(msgs)
         /\ b # 0 => b \in S /\ msgs[b].calls # <<>>
         /\ \A i \in S : msgs[i].calls # <<>> => i <= b
<1> DEFINE T == {0} \cup {i \in S : msgs[i].calls # <<>>}
           b == Patient!LastBatch(msgs, S)
<1>1. Len(msgs) \in Nat
  BY DEF ThreadTyped, Tree
<1>2. T \subseteq 0..Len(msgs) /\ T # {}
  <2>1. 0 \in 0..Len(msgs) /\ \A i \in S : i \in 0..Len(msgs)
    BY <1>1
  <2> QED BY <2>1
<1>3. \E x \in T : \A y \in T : x >= y
  <2> HIDE DEF T
  <2> QED BY <1>1, <1>2, Greatest
<1>4. b \in T /\ \A y \in T : b >= y
  <2>1. b = CHOOSE x \in T : \A y \in T : x >= y
    BY DEF Patient!LastBatch, Patient!Max
  <2> HIDE DEF T, b
  <2> QED BY <1>3, <2>1
<1> HIDE DEF b
<1>5. b \in 0..Len(msgs)
  BY <1>2, <1>4
<1> QED BY <1>1, <1>4, <1>5 DEF b

\* The loop begins behind the head.
LEMMA StartLoopDoes ==
  ASSUME ThreadTyped, NEW r \in Runs, Patient!StartLoop(r)
  PROVE  \E e : /\ Becomes(r, e) /\ e.at = "reading" /\ e.parent = head /\ e.seen = {}
                /\ e.batch = 0 /\ e.done = {} /\ e.stored = 0 /\ e.asked = None
<1> DEFINE e == [Patient!Fresh EXCEPT !.at = "reading", !.parent = head]
<1>1. Len(msgs) \in Nat /\ Len(msgs) <= MaxMessages /\ head \in 0..Len(msgs) /\ msgs' = msgs
  BY Typing DEF Patient!StartLoop
<1>2. Patient!Fresh \in Patient!Run /\ Blank(Patient!Fresh, "idle")
  BY <1>1, EndsAreTyped, Blanks
<1>3. "reading" \in Patient!Positions /\ head \in 0..MaxMessages
  BY <1>1, Constants DEF Patient!Positions, Patient!Working
<1>4. /\ e \in Patient!Run /\ e.at = "reading" /\ e.parent = head /\ e.seen = {}
      /\ e.batch = 0 /\ e.done = {} /\ e.stored = 0 /\ e.asked = None
  BY <1>2, <1>3 DEF Patient!Run, Blank
<1>5. run' = [run EXCEPT ![r] = e]
  BY DEF Patient!StartLoop, Patient!To
<1> HIDE DEF e
<1>6. RunTyped(e, msgs', decided')
  BY <1>1, <1>4 DEF RunTyped
<1> QED BY <1>4, <1>5, <1>6 DEF Becomes

\* What the model sees is the line to the head.
LEMMA ReadDoes ==
  ASSUME ThreadTyped, NEW r \in Runs, Patient!Read(r)
  PROVE  \E e : /\ Becomes(r, e) /\ e.at = "thinking" /\ e.seen = LineTo(msgs, head)
                /\ e.parent = run[r].parent /\ e.batch = run[r].batch /\ e.done = run[r].done
                /\ e.stored = run[r].stored /\ e.asked = run[r].asked
<1> DEFINE o == run[r]
           e == [o EXCEPT !.at = "thinking", !.seen = LineTo(msgs, head)]
<1>1. /\ o \in Patient!Run /\ RunTyped(o, msgs, decided) /\ run \in [Runs -> Patient!Run]
      /\ Len(msgs) \in Nat /\ Len(msgs) <= MaxMessages
  BY Typing
<1>2. "thinking" \in Patient!Positions /\ LineTo(msgs, head) \in SUBSET (1..MaxMessages)
  <2>1. LineTo(msgs, head) \subseteq 1..Len(msgs)
    BY HeadLine
  <2> QED BY <1>1, <2>1, Constants DEF Patient!Positions, Patient!Working
<1>3. /\ e \in Patient!Run /\ e.at = "thinking" /\ e.seen = LineTo(msgs, head)
      /\ e.parent = o.parent /\ e.batch = o.batch /\ e.done = o.done
      /\ e.stored = o.stored /\ e.asked = o.asked /\ e.decision = o.decision
  <2> HIDE DEF o
  <2> QED BY <1>1, <1>2 DEF Patient!Run
<1>4. run' = [run EXCEPT ![r] = e] /\ msgs' = msgs /\ decided' = decided
  BY HeadLine DEF Patient!Read, Patient!To
<1> HIDE DEF e
<1>5. RunTyped(e, msgs', decided')
  BY <1>1, <1>3, <1>4 DEF RunTyped
<1> QED BY <1>3, <1>4, <1>5 DEF Becomes

\* The message with the calls.
LEMMA RequestDoes ==
  ASSUME ThreadTyped, NEW r \in Runs, NEW b \in Batches, Patient!Request(r, b)
  PROVE  LET n == Len(msgs) IN
         /\ Patient!Add("assistant", run[r].parent, None, b, None)
         /\ b # <<>> /\ Len(b) > 0
         /\ \E e : /\ Becomes(r, e)
                   /\ e.at = (IF \E i \in 1..Len(b) : b[i] \in Patient!Asks
                              THEN "asking" ELSE "executing")
                   /\ e.parent = n + 1 /\ e.batch = n + 1 /\ e.seen = {}
                   /\ e.done = {} /\ e.stored = 0 /\ e.asked = None
<1> DEFINE n == Len(msgs)
           a == IF \E i \in 1..Len(b) : b[i] \in Patient!Asks THEN "asking" ELSE "executing"
           e == [Patient!Fresh EXCEPT !.at = a, !.parent = n + 1, !.batch = n + 1]
<1>1. /\ b \in Seq(Patient!Kinds) /\ Len(b) > 0 /\ b # <<>> /\ DOMAIN b = 1..Len(b)
  BY Constants
<1>2. Patient!Add("assistant", run[r].parent, None, b, None)
  BY DEF Patient!Request
<1>3. /\ n \in Nat /\ n + 1 <= MaxMessages /\ Len(msgs') = n + 1 /\ Extends(msgs, msgs')
      /\ msgs'[n + 1].calls = b
  <2> HIDE DEF a, e
  <2>1. run[r].parent \in 0..Len(msgs) /\ b \in Batches \cup {<<>>}
        /\ None \in Turns \cup {None} /\ None \in Patient!Calls \cup {None}
    BY Typing
  <2>2. "assistant" \in {"user", "assistant", "tool"}
    OBVIOUS
  <2>3. Added(run[r].parent, [role |-> "assistant", parent |-> run[r].parent, turn |-> None,
                              calls |-> b, answers |-> None])
    BY <1>2, <2>1, <2>2, Adds, Zenon
  <2> QED BY <2>3 DEF Added
<1>4. a \in {"asking", "executing"} /\ a \in Patient!Positions
  BY DEF Patient!Positions, Patient!Working
<1>5. run' = [run EXCEPT ![r] = e]
  BY <1>1 DEF Patient!Request, Patient!To
<1>6. /\ e \in Patient!Run /\ e.at = a
      /\ e.parent = n + 1 /\ e.batch = n + 1 /\ e.seen = {}
      /\ e.done = {} /\ e.stored = 0 /\ e.asked = None
  <2>1. Patient!Fresh \in Patient!Run /\ Blank(Patient!Fresh, "idle")
    BY <1>3, EndsAreTyped, Blanks
  <2>2. n + 1 \in 0..MaxMessages
    BY <1>3, Constants
  <2> HIDE DEF a, n
  <2> QED BY <1>4, <2>1, <2>2 DEF Patient!Run, Blank
<1> HIDE DEF e
<1>7. RunTyped(e, msgs', decided')
  BY <1>1, <1>3, <1>6 DEF RunTyped
<1> QED BY <1>1, <1>2, <1>5, <1>6, <1>7 DEF Becomes

\* The result of the next call.
LEMMA StoreDoes ==
  ASSUME ThreadTyped, NEW r \in Runs, Patient!Store(r)
  PROVE  LET o == run[r] n == Len(msgs) c == <<run[r].batch, run[r].stored + 1>> IN
         /\ c[2] \in o.done /\ c \in Patient!Calls /\ o.batch \in 1..n
         /\ Patient!Add("tool", o.parent, None, <<>>, c)
         /\ Added(o.parent, [role |-> "tool", parent |-> o.parent, turn |-> None,
                             calls |-> <<>>, answers |-> c])
         /\ \E e : /\ Becomes(r, e) /\ e.at = o.at /\ e.parent = n + 1
                   /\ e.batch = o.batch /\ e.seen = o.seen
                   /\ e.done = o.done /\ e.stored = o.stored + 1 /\ e.asked = o.asked
                   /\ e.decision = o.decision
<1> DEFINE n == Len(msgs)
           o == run[r]
           c == <<run[r].batch, run[r].stored + 1>>
           e == [o EXCEPT !.stored = @ + 1, !.parent = n + 1]
<1>1. /\ o \in Patient!Run /\ RunTyped(o, msgs, decided) /\ run \in [Runs -> Patient!Run]
      /\ n \in Nat /\ n <= MaxMessages /\ o.parent \in 0..n /\ o.batch \in 0..n
      /\ o.stored \in Nat /\ o.done \subseteq 1..MaxBatch
  BY Typing
<1>2. o.stored + 1 \in o.done /\ Patient!Add("tool", o.parent, None, <<>>, c)
  BY DEF Patient!Store
<1>3. o.batch \in 1..n
  BY <1>1, <1>2 DEF RunTyped
<1>4. c \in Patient!Calls
  BY <1>1, <1>2, <1>3, Constants DEF Patient!Calls
<1>5. Added(o.parent, [role |-> "tool", parent |-> o.parent, turn |-> None,
                       calls |-> <<>>, answers |-> c])
  <2> HIDE DEF c, o, n, e
  <2>1. "tool" \in {"user", "assistant", "tool"} /\ None \in Turns \cup {None}
        /\ c \in Patient!Calls \cup {None} /\ <<>> \in Batches \cup {<<>>}
        /\ o.parent \in 0..Len(msgs)
    BY <1>1, <1>4 DEF n
  <2> QED BY <1>2, <2>1, Adds, Zenon
<1>6. /\ e \in Patient!Run /\ e.at = o.at /\ e.parent = n + 1 /\ e.batch = o.batch
      /\ e.seen = o.seen /\ e.done = o.done /\ e.stored = o.stored + 1 /\ e.asked = o.asked
      /\ e.decision = o.decision
  <2>1. n + 1 \in 0..MaxMessages /\ o.stored + 1 \in 0..MaxBatch
    BY <1>1, <1>2, <1>5, Constants DEF Added
  <2> HIDE DEF o, n
  <2> QED BY <1>1, <2>1 DEF Patient!Run
<1>7. run' = [run EXCEPT ![r] = e] /\ decided' = decided
  BY DEF Patient!Store, Patient!To
<1> HIDE DEF e
<1>8. RunTyped(e, msgs', decided')
  <2> HIDE DEF o, n, c
  <2>1. RunTyped(o, msgs', decided')
    <3>1. Len(msgs) \in Nat /\ Len(msgs') \in Nat /\ Extends(msgs, msgs')
      BY <1>5 DEF Added
    <3> QED BY <1>1, <1>7, <3>1, Stays
  <2>2. e.parent <= Len(msgs')
    BY <1>5, <1>6 DEF Added, n
  <2>3. o.at \in {"executing", "replaying"}
    BY DEF Patient!Store, o
  <2> QED BY <1>6, <2>1, <2>2, <2>3 DEF RunTyped
<1> QED BY <1>2, <1>3, <1>4, <1>5, <1>6, <1>7, <1>8 DEF Becomes

\* The answer, and how a run failed: a message without calls, and the end of the run.
LEMMA NoticeDoes ==
  ASSUME ThreadTyped, NEW r \in Runs, NEW parent \in 0..Len(msgs),
         Patient!Add("assistant", parent, None, <<>>, None), Patient!End(r)
  PROVE  /\ Added(parent, [role |-> "assistant", parent |-> parent, turn |-> None,
                           calls |-> <<>>, answers |-> None])
         /\ decided' = decided => \E e : Becomes(r, e) /\ Blank(e, "over")
<1>1. Added(parent, [role |-> "assistant", parent |-> parent, turn |-> None,
                     calls |-> <<>>, answers |-> None])
  <2>1. "assistant" \in {"user", "assistant", "tool"} /\ None \in Turns \cup {None}
        /\ None \in Patient!Calls \cup {None} /\ <<>> \in Batches \cup {<<>>}
    OBVIOUS
  <2> QED BY <2>1, Adds, Zenon
<1>2. Len(msgs') \in Nat
  BY <1>1 DEF Added
<1> QED BY <1>1, <1>2, EndDoes

\* A batch that is stored: the next iteration, or one of two ends.
LEMMA EndBatchDoes ==
  ASSUME ThreadTyped, NEW r \in Runs, Patient!EndBatch(r)
  PROVE  \E e : /\ Becomes(r, e)
                /\ \/ /\ e.at = "reading" /\ e.parent = run[r].parent /\ e.seen = {}
                      /\ e.batch = 0 /\ e.done = {} /\ e.stored = 0 /\ e.asked = None
                   \/ Moved(e, run[r], "ending")
                   \/ Blank(e, "over")
<1>1. msgs' = msgs /\ decided' = decided /\ Len(msgs) \in Nat
  BY Typing DEF Patient!EndBatch
<1>2. CASE Patient!End(r)
  BY <1>1, <1>2, EndDoes
<1>3. CASE Patient!Move(r, "ending")
  BY <1>1, <1>3, MoveDoes
<1>4. CASE Patient!To(r, [Patient!Fresh EXCEPT !.at = "reading", !.parent = run[r].parent])
  <2> DEFINE o == run[r]
             e == [Patient!Fresh EXCEPT !.at = "reading", !.parent = o.parent]
  <2>1. o \in Patient!Run /\ o.parent \in 0..Len(msgs) /\ Len(msgs) <= MaxMessages
    BY Typing
  <2>2. Patient!Fresh \in Patient!Run /\ Blank(Patient!Fresh, "idle")
    BY <1>1, EndsAreTyped, Blanks
  <2>3. "reading" \in Patient!Positions /\ o.parent \in 0..MaxMessages
    BY <2>1 DEF Patient!Positions, Patient!Working, Patient!Run
  <2>4. /\ e \in Patient!Run /\ e.at = "reading" /\ e.parent = o.parent /\ e.seen = {}
        /\ e.batch = 0 /\ e.done = {} /\ e.stored = 0 /\ e.asked = None
    <3> HIDE DEF o
    <3> QED BY <2>2, <2>3 DEF Patient!Run, Blank
  <2>5. run' = [run EXCEPT ![r] = e]
    BY <1>4 DEF Patient!To
  <2> HIDE DEF e
  <2>6. RunTyped(e, msgs', decided')
    BY <1>1, <2>1, <2>4 DEF RunTyped
  <2> QED BY <2>4, <2>5, <2>6 DEF Becomes
<1> QED BY <1>2, <1>3, <1>4 DEF Patient!EndBatch

\* One more call of the batch has a result.
LEMMA DoneDoes ==
  ASSUME ThreadTyped, NEW r \in Runs, NEW i \in (1..Patient!BatchLen(r)) \ run[r].done,
         run[r].at \in {"executing", "replaying"},
         run' = [run EXCEPT ![r].done = @ \cup {i}], msgs' = msgs, decided' = decided
  PROVE  /\ run[r].batch \in 1..Len(msgs) /\ i \in 1..MaxBatch
         /\ i <= Len(msgs[run[r].batch].calls)
         /\ <<run[r].batch, i>> \in Patient!Calls /\ Known(msgs, <<run[r].batch, i>>)
         /\ \E e : /\ Becomes(r, e) /\ e.done = run[r].done \cup {i} /\ e.at = run[r].at
                   /\ e.parent = run[r].parent /\ e.batch = run[r].batch /\ e.seen = run[r].seen
                   /\ e.stored = run[r].stored /\ e.asked = run[r].asked
                   /\ e.decision = run[r].decision
<1> DEFINE o == run[r]
           e == [o EXCEPT !.done = @ \cup {i}]
<1>1. /\ o \in Patient!Run /\ RunTyped(o, msgs, decided) /\ run \in [Runs -> Patient!Run]
      /\ Len(msgs) \in Nat /\ Len(msgs) <= MaxMessages /\ o.batch \in 0..Len(msgs)
      /\ o.done \subseteq 1..MaxBatch
  BY Typing
<1>2. o.batch \in 1..Len(msgs)
  <2>1. o.batch = 0 => 1..Patient!BatchLen(r) = {}
    BY DEF Patient!BatchLen
  <2> QED BY <1>1, <2>1
<1>3. Patient!BatchLen(r) = Len(msgs[o.batch].calls) /\ Len(msgs[o.batch].calls) \in 0..MaxBatch
  BY <1>2, BatchTyping DEF Patient!BatchLen
<1>4. i \in 1..MaxBatch /\ i <= Len(msgs[o.batch].calls)
  BY <1>3, Constants
<1>5. <<o.batch, i>> \in Patient!Calls /\ Known(msgs, <<o.batch, i>>)
  BY <1>1, <1>2, <1>4, Constants DEF Patient!Calls, Known
<1>6. /\ e \in Patient!Run /\ e.done = o.done \cup {i} /\ e.at = o.at /\ e.parent = o.parent
      /\ e.batch = o.batch /\ e.seen = o.seen /\ e.stored = o.stored /\ e.asked = o.asked
      /\ e.decision = o.decision
  <2> HIDE DEF o
  <2> QED BY <1>1, <1>4 DEF Patient!Run
<1>7. run' = [run EXCEPT ![r] = e]
  BY <1>1
<1> HIDE DEF e
<1>8. RunTyped(e, msgs', decided')
  BY <1>1, <1>2, <1>6 DEF RunTyped
<1> QED BY <1>2, <1>4, <1>5, <1>6, <1>7, <1>8 DEF Becomes

\* A resumption takes the last batch of the branch.
LEMMA LoadDoes ==
  ASSUME ThreadTyped, NEW r \in Runs, Patient!Load(r), ~ Patient!ArgumentsLost(r)
  PROVE  /\ UNCHANGED <<pending, cut, lock>>
         /\ \E e : /\ Becomes(r, e) /\ e.at = "loaded"
                   /\ e.batch = Patient!LastBatch(msgs, LineTo(msgs, head))
                   /\ e.parent = run[r].parent /\ e.seen = run[r].seen /\ e.done = run[r].done
                   /\ e.stored = run[r].stored /\ e.asked = run[r].asked
                   /\ e.decision = run[r].decision
<1> DEFINE o == run[r]
           b == Patient!LastBatch(msgs, LineTo(msgs, head))
           e == [o EXCEPT !.at = "loaded", !.batch = b]
<1>1. /\ o \in Patient!Run /\ RunTyped(o, msgs, decided) /\ run \in [Runs -> Patient!Run]
      /\ Len(msgs) \in Nat /\ Len(msgs) <= MaxMessages
  BY Typing
<1>2. b \in 0..Len(msgs) /\ Patient!Path(msgs, head) = LineTo(msgs, head)
  BY HeadLine, LastBatchIs
<1>3. "loaded" \in Patient!Positions /\ b \in 0..MaxMessages
  BY <1>1, <1>2, Constants DEF Patient!Positions, Patient!Working
<1>4. /\ e \in Patient!Run /\ e.at = "loaded" /\ e.batch = b /\ e.parent = o.parent
      /\ e.seen = o.seen /\ e.done = o.done /\ e.stored = o.stored /\ e.asked = o.asked
      /\ e.decision = o.decision
  <2> HIDE DEF o, b
  <2> QED BY <1>1, <1>3 DEF Patient!Run
<1>5. /\ run' = [run EXCEPT ![r] = e] /\ msgs' = msgs /\ decided' = decided
      /\ UNCHANGED <<pending, cut, lock>> /\ o.at = "claimed"
  BY <1>2 DEF Patient!Load, Patient!To
<1> HIDE DEF e
<1>6. RunTyped(e, msgs', decided')
  BY <1>1, <1>2, <1>4, <1>5 DEF RunTyped
<1> QED BY <1>4, <1>5, <1>6 DEF Becomes

\* It goes on from the head.
LEMMA TakeParentDoes ==
  ASSUME ThreadTyped, NEW r \in Runs, Patient!TakeParent(r)
  PROVE  \E e : /\ Becomes(r, e) /\ e.at = "replaying" /\ e.parent = head
                /\ e.batch = run[r].batch /\ e.seen = run[r].seen /\ e.done = run[r].done
                /\ e.stored = run[r].stored /\ e.asked = run[r].asked
                /\ e.decision = run[r].decision
<1> DEFINE o == run[r]
           e == [o EXCEPT !.at = "replaying", !.parent = head]
<1>1. /\ o \in Patient!Run /\ RunTyped(o, msgs, decided) /\ run \in [Runs -> Patient!Run]
      /\ Len(msgs) \in Nat /\ Len(msgs) <= MaxMessages /\ head \in 0..Len(msgs)
  BY Typing
<1>2. "replaying" \in Patient!Positions /\ head \in 0..MaxMessages
  BY <1>1, Constants DEF Patient!Positions, Patient!Working
<1>3. /\ e \in Patient!Run /\ e.at = "replaying" /\ e.batch = o.batch /\ e.parent = head
      /\ e.seen = o.seen /\ e.done = o.done /\ e.stored = o.stored /\ e.asked = o.asked
      /\ e.decision = o.decision
  <2> HIDE DEF o
  <2> QED BY <1>1, <1>2 DEF Patient!Run
<1>4. /\ run' = [run EXCEPT ![r] = e] /\ msgs' = msgs /\ decided' = decided
      /\ o.at = "loaded"
  BY DEF Patient!TakeParent, Patient!To
<1> HIDE DEF e
<1>5. RunTyped(e, msgs', decided')
  BY <1>1, <1>3, <1>4 DEF RunTyped
<1> QED BY <1>3, <1>4, <1>5 DEF Becomes

\* Its batch is replayed.
LEMMA ResolveDoes ==
  ASSUME ThreadTyped, NEW r \in Runs, Patient!Resolve(r)
  PROVE  \E e : Becomes(r, e) /\ Blank(e, "starting")
<1> DEFINE e == [Patient!Fresh EXCEPT !.at = "starting"]
<1>1. Len(msgs') \in Nat /\ run' = [run EXCEPT ![r] = e]
  BY Typing DEF Patient!Resolve, Patient!To
<1>2. e \in Patient!Run /\ RunTyped(e, msgs', decided')
  BY <1>1, EndsAreTyped
<1>3. Blank(e, "starting")
  BY Blanks
<1> HIDE DEF e
<1> QED BY <1>1, <1>2, <1>3 DEF Becomes

\* A run that was cancelled carries nothing on.
LEMMA FailDoes ==
  ASSUME ThreadTyped, NEW r \in Runs, Fails(r)
  PROVE  \E e : Becomes(r, e) /\ (Blank(e, "over") \/ Blank(e, "ending"))
<1>1. Len(msgs') \in Nat
  BY Typing DEF Fails
<1>2. CASE run' = [run EXCEPT ![r] = Patient!Over]
  BY <1>1, <1>2, EndsAreTyped, Blanks DEF Becomes
<1>3. CASE run' = [run EXCEPT ![r] = [Patient!Fresh EXCEPT !.at = "ending"]]
  <2> DEFINE e == [Patient!Fresh EXCEPT !.at = "ending"]
  <2>1. e \in Patient!Run /\ RunTyped(e, msgs', decided')
    BY <1>1, EndsAreTyped
  <2>2. Blank(e, "ending")
    BY Blanks
  <2> HIDE DEF e
  <2> QED BY <1>3, <2>1, <2>2 DEF Becomes, e
<1> QED BY <1>2, <1>3 DEF Fails

\* A request that was confirmed, or that places its message behind the head.
LEMMA ReadHeadDoes ==
  ASSUME ThreadTyped, NEW r \in Runs, ReadsHead(r)
  PROVE  \E e : /\ Becomes(r, e)
                /\ \/ Blank(e, "over")
                   \/ /\ e.at = "placing" /\ e.parent = head' /\ e.batch = run[r].batch
                      /\ e.seen = run[r].seen /\ e.done = run[r].done
                      /\ e.stored = run[r].stored /\ e.asked = run[r].asked
                      /\ e.decision = run[r].decision
<1>1. Len(msgs') \in Nat /\ msgs' = msgs /\ decided' = decided /\ head' \in 0..Len(msgs)
      /\ run[r].at = "idle"
  BY Typing DEF ReadsHead
<1>2. CASE run' = [run EXCEPT ![r] = Patient!Over]
  BY <1>1, <1>2, EndsAreTyped, Blanks DEF Becomes
<1>3. CASE run' = [run EXCEPT ![r] = [run[r] EXCEPT !.at = "placing", !.parent = head']]
  <2> DEFINE o == run[r]
             h == head'
             e == [o EXCEPT !.at = "placing", !.parent = h]
  <2>1. /\ o \in Patient!Run /\ RunTyped(o, msgs, decided) /\ Len(msgs) <= MaxMessages
    BY Typing
  <2>2. "placing" \in Patient!Positions /\ h \in 0..MaxMessages
    BY <1>1, <2>1, Constants DEF Patient!Positions, Patient!Working
  <2>3. /\ e \in Patient!Run /\ e.at = "placing" /\ e.parent = h /\ e.batch = o.batch
        /\ e.seen = o.seen /\ e.done = o.done /\ e.stored = o.stored /\ e.asked = o.asked
        /\ e.decision = o.decision
    <3> HIDE DEF o, h
    <3> QED BY <2>1, <2>2 DEF Patient!Run
  <2>4. run' = [run EXCEPT ![r] = e]
    BY <1>3
  <2> HIDE DEF e
  <2>5. RunTyped(e, msgs', decided')
    BY <1>1, <2>1, <2>3 DEF RunTyped
  <2> QED BY <2>3, <2>4, <2>5 DEF Becomes
<1> QED BY <1>2, <1>3 DEF ReadsHead

\* A run that entered is at its start, a resumption at its claim.
LEMMA EnterDoes ==
  ASSUME ThreadTyped, NEW r \in Runs, Enters(r)
  PROVE  \E e : /\ Becomes(r, e)
                /\ Moved(e, run[r], IF run[r].asked = None THEN "starting" ELSE "claiming")
<1> DEFINE a == IF run[r].asked = None THEN "starting" ELSE "claiming"
<1>1. Patient!Move(r, a) /\ msgs' = msgs /\ decided' = decided /\ run[r].at = "queued"
  BY DEF Enters, Patient!Move
<1>2. a \in {"starting", "claiming", "ending", "claimed"}
      /\ (a \in {"claiming", "claimed"} => run[r].asked # None) /\ a # "claimed"
  OBVIOUS
<1> HIDE DEF a
<1>3. /\ a \in {"claiming", "claimed"} => run[r].at \in {"queued", "claiming"}
      /\ a = "claimed" => <<run[r].asked, run[r].decision>> \in decided'
      /\ decided \subseteq decided'
  BY <1>1, <1>2
<1>4. \E e : Becomes(r, e) /\ Moved(e, run[r], a)
  BY <1>1, <1>2, <1>3, MoveDoes
<1> QED BY <1>4 DEF a

-----------------------------------------------------------------------------
(* Every step keeps the thread typed.                                      *)

\* What a step does to the thread, its run apart.
Orderly ==
  /\ (msgs' = msgs /\ head' \in 0..Len(msgs)) \/ \E parent, new : Added(parent, new)
  /\ \/ pending' = pending \/ pending' = None
     \/ pending' \in Patient!Calls /\ Known(msgs, pending')
  /\ ephemeral' \subseteq Patient!Calls /\ lock' \in Runs \cup {None}
  /\ \/ ran' = ran
     \/ \E c \in Patient!Calls : Known(msgs, c) /\ ran' = [ran EXCEPT ![c] = @ + 1]
  /\ \/ decided' = decided
     \/ \E c \in Patient!Calls, d \in Patient!Decisions :
          Known(msgs, c) /\ decided' = decided \cup {<<c, d>>}
  /\ cut' \subseteq 1..MaxMessages
  /\ fork' \in [Runs -> 0..MaxMessages]

\* An orderly step of typed runs keeps the thread typed.
LEMMA OrderlyKeeps ==
  ASSUME ThreadTyped, Orderly, faults' \in {faults, faults + 1},
         run' \in [Runs -> Patient!Run],
         \A x \in Runs : RunTyped(run'[x], msgs', decided')
  PROVE  ThreadTyped' /\ Extends(msgs, msgs') /\ Len(msgs') \in Nat
<1>1. Patient!TypeOK /\ Tree(msgs) /\ Len(msgs) \in Nat
  BY DEF ThreadTyped, Tree
<1>2. /\ msgs' \in Seq(Patient!Message) /\ Len(msgs') <= MaxMessages /\ head' \in 0..Len(msgs')
      /\ Tree(msgs') /\ Extends(msgs, msgs') /\ Len(msgs') \in Nat
  <2>1. CASE msgs' = msgs /\ head' \in 0..Len(msgs)
    BY <1>1, <2>1 DEF Patient!TypeOK, Extends
  <2>2. CASE \E parent, new : Added(parent, new)
    BY <1>1, <2>2 DEF Added
  <2> QED BY <2>1, <2>2 DEF Orderly
<1>3. \A c : Known(msgs, c) => Known(msgs', c)
  BY <1>1, <1>2, Stays
<1>4. pending' \in Patient!Calls \cup {None} /\ (pending' # None => Known(msgs', pending'))
  BY <1>1, <1>3 DEF Orderly, ThreadTyped, Patient!TypeOK
<1>5. ran' \in [Patient!Calls -> Nat] /\ \A c \in Patient!Calls : ran'[c] > 0 => Known(msgs', c)
  <2>1. ran \in [Patient!Calls -> Nat] /\ \A c \in Patient!Calls : ran[c] > 0 => Known(msgs', c)
    BY <1>1, <1>3 DEF ThreadTyped, Patient!TypeOK
  <2>2. CASE ran' = ran
    BY <2>1, <2>2
  <2>3. CASE \E c \in Patient!Calls : Known(msgs, c) /\ ran' = [ran EXCEPT ![c] = @ + 1]
    <3>1. PICK c \in Patient!Calls : Known(msgs, c) /\ ran' = [ran EXCEPT ![c] = @ + 1]
      BY <2>3
    <3>2. ran' \in [Patient!Calls -> Nat] /\ \A d \in Patient!Calls : d # c => ran'[d] = ran[d]
      BY <2>1, <3>1
    <3> QED BY <1>3, <2>1, <3>1, <3>2
  <2> QED BY <2>2, <2>3 DEF Orderly
<1>6. /\ decided' \subseteq Patient!Calls \X Patient!Decisions
      /\ \A d \in decided' : Known(msgs', d[1])
  <2>1. /\ decided \subseteq Patient!Calls \X Patient!Decisions
        /\ \A d \in decided : Known(msgs', d[1])
    BY <1>1, <1>3 DEF ThreadTyped, Patient!TypeOK
  <2>2. CASE decided' = decided
    BY <2>1, <2>2
  <2>3. CASE \E c \in Patient!Calls, d \in Patient!Decisions :
               Known(msgs, c) /\ decided' = decided \cup {<<c, d>>}
    <3>1. PICK c \in Patient!Calls, d \in Patient!Decisions :
               Known(msgs, c) /\ decided' = decided \cup {<<c, d>>}
      BY <2>3
    <3>2. <<c, d>>[1] = c /\ <<c, d>> \in Patient!Calls \X Patient!Decisions
      OBVIOUS
    <3> QED BY <1>3, <2>1, <3>1, <3>2
  <2> QED BY <2>2, <2>3 DEF Orderly
<1>7. faults' \in Nat
  BY <1>1 DEF Patient!TypeOK
<1>8. Patient!TypeOK'
  BY <1>2, <1>4, <1>5, <1>6, <1>7 DEF Orderly, Patient!TypeOK
<1> QED BY <1>2, <1>4, <1>5, <1>6, <1>8 DEF ThreadTyped

\* The call an approval is requested for asks, and is of the batch of the run.
LEMMA AskCall ==
  ASSUME ThreadTyped, NEW r \in Runs, Patient!Ask(r)
  PROVE  /\ run[r].at = "asking" /\ run[r].batch \in 1..Len(msgs)
         /\ pending' \in Patient!Calls /\ pending'[1] = run[r].batch
         /\ Known(msgs, pending') /\ Patient!Kind(pending') \in Patient!Asks
<1> DEFINE b == run[r].batch
           S == {i \in DOMAIN msgs[b].calls : msgs[b].calls[i] \in Patient!Asks}
           m == Patient!Min(S)
<1>1. run[r].at = "asking" /\ RunTyped(run[r], msgs, decided) /\ b \in 0..Len(msgs)
  BY Typing DEF Patient!Ask
<1>2. b \in 1..Len(msgs) /\ \E i \in 1..Len(msgs[b].calls) : msgs[b].calls[i] \in Patient!Asks
  BY <1>1 DEF RunTyped
<1>3. /\ msgs[b].calls \in Seq(Patient!Kinds) /\ Len(msgs[b].calls) \in 0..MaxBatch
      /\ b \in 1..MaxMessages
  BY <1>2, BatchTyping
<1>4. S \subseteq 1..Len(msgs[b].calls) /\ S # {} /\ S \subseteq Nat
  BY <1>2, <1>3
<1>5. m \in S
  <2>1. \E x \in S : \A y \in S : x <= y
    <3> HIDE DEF S
    <3> QED BY <1>4, Least
  <2>2. m = CHOOSE x \in S : \A y \in S : x <= y
    BY DEF Patient!Min
  <2> HIDE DEF S, m
  <2> QED BY <2>1, <2>2
<1>6. pending' = <<b, m>>
  BY DEF Patient!Ask
<1>7. m \in 1..Len(msgs[b].calls) /\ msgs[b].calls[m] \in Patient!Asks /\ m \in 1..MaxBatch
  <2> HIDE DEF m
  <2>1. m \in 1..Len(msgs[b].calls) /\ msgs[b].calls[m] \in Patient!Asks
    BY <1>3, <1>5
  <2> QED BY <1>3, <2>1, Constants
<1> HIDE DEF m, S
<1>8. <<b, m>> \in Patient!Calls /\ <<b, m>>[1] = b /\ <<b, m>>[2] = m
  BY <1>3, <1>7 DEF Patient!Calls
<1> QED BY <1>1, <1>2, <1>6, <1>7, <1>8 DEF Known, Patient!Kind

\* What a fault cuts are messages.
LEMMA UnfinishedIs ==
  ASSUME ThreadTyped, NEW r \in Runs
  PROVE  Patient!Unfinished(r) \subseteq 1..MaxMessages
<1>1. RunTyped(run[r], msgs, decided) /\ run[r].batch \in 0..Len(msgs) /\ Len(msgs) <= MaxMessages
      /\ Len(msgs) \in Nat
  BY Typing
<1>2. CASE run[r].at \in {"asking", "executing"}
  <2>1. Patient!Unfinished(r) = {run[r].batch} /\ run[r].batch # 0
    BY <1>1, <1>2 DEF Patient!Unfinished, RunTyped
  <2> QED BY <1>1, <2>1, Constants
<1>3. CASE run[r].at \in {"claimed", "loaded", "replaying"}
  <2>1. Patient!Unfinished(r) = {run[r].asked[1]} /\ Known(msgs, run[r].asked)
    BY <1>1, <1>3 DEF Patient!Unfinished, RunTyped
  <2> QED BY <2>1 DEF Known, Patient!Calls
<1>4. CASE run[r].at \notin {"asking", "executing", "claimed", "loaded", "replaying"}
  BY <1>4 DEF Patient!Unfinished
<1> QED BY <1>2, <1>3, <1>4

\* The runs but r stay, and r becomes what fits.
RunsTyped ==
  /\ run' \in [Runs -> Patient!Run]
  /\ \A x \in Runs : RunTyped(run'[x], msgs', decided')

\* Becomes says what all runs are after the step.
LEMMA BecomesTyped ==
  ASSUME ThreadTyped, Orderly, NEW r \in Runs, NEW e, Becomes(r, e)
  PROVE  /\ RunsTyped /\ run'[r] = e /\ \A x \in Runs : x # r => run'[x] = run[x]
<1>1. Len(msgs') \in Nat /\ Extends(msgs, msgs')
  <2>1. Len(msgs) \in Nat
    BY DEF ThreadTyped, Tree
  <2>2. CASE msgs' = msgs
    BY <2>1, <2>2 DEF Extends
  <2>3. CASE \E parent, new : Added(parent, new)
    BY <2>1, <2>3 DEF Added
  <2> QED BY <2>2, <2>3 DEF Orderly
<1>2. decided \subseteq decided'
  BY DEF Orderly
<1> QED BY <1>1, <1>2, OneMoves DEF Becomes, RunsTyped

\* The thread as it is, when a step leaves it.
LEMMA Still ==
  ASSUME ThreadTyped
  PROVE  /\ head \in 0..Len(msgs) /\ ephemeral \subseteq Patient!Calls
         /\ lock \in Runs \cup {None} /\ cut \subseteq 1..MaxMessages
         /\ fork \in [Runs -> 0..MaxMessages] /\ pending \in Patient!Calls \cup {None}
         /\ pending # None => Known(msgs, pending)
BY DEF ThreadTyped, Patient!TypeOK

\* Each action is orderly; with it, what its run becomes.
LEMMA PlaceIsOrderly ==
  ASSUME ThreadTyped, NEW r \in Runs, Patient!Place(r)
  PROVE  Orderly /\ \E e : Becomes(r, e) /\ Blank(e, "queued")
<1>1. (msgs' = msgs /\ head' = head) \/ \E new : Added(run[r].parent, new)
  <2>1. CASE msgs' = msgs /\ head' = head
    BY <2>1
  <2>2. CASE Patient!Add("user", run[r].parent, TurnOf[r], <<>>, None)
    <3>1. "user" \in {"user", "assistant", "tool"} /\ TurnOf[r] \in Turns \cup {None}
          /\ None \in Patient!Calls \cup {None} /\ <<>> \in Batches \cup {<<>>}
          /\ run[r].parent \in 0..Len(msgs)
      BY Constants, Typing
    <3> QED BY <2>2, <3>1, Adds, Zenon
  <2> QED BY <2>1, <2>2 DEF Patient!Place
<1>2. Orderly
  BY <1>1, Still DEF Patient!Place, Orderly
<1>3. Len(msgs') \in Nat
  BY <1>1, Typing DEF Added
<1> QED BY <1>2, <1>3, PlaceDoes

\* An answer or an outcome ends its run.
LEMMA NoticeIsOrderly ==
  ASSUME ThreadTyped, NEW r \in Runs, Patient!Answer(r) \/ Patient!Outcome(r)
  PROVE  Orderly /\ \E e : Becomes(r, e) /\ Blank(e, "over")
<1>1. run[r].parent \in 0..Len(msgs) /\ head \in 0..Len(msgs)
  BY Typing
<1>2. CASE Patient!Answer(r)
  <2>1. Patient!Add("assistant", run[r].parent, None, <<>>, None) /\ Patient!End(r)
        /\ UNCHANGED <<pending, ephemeral, ran, decided, cut, faults, fork>>
    BY <1>2 DEF Patient!Answer
  <2>2. lock' \in Runs \cup {None}
    BY <2>1, Still DEF Patient!End
  <2> QED BY <1>1, <2>1, <2>2, NoticeDoes, Still DEF Orderly
<1>3. CASE Patient!Outcome(r)
  <2>1. Patient!Add("assistant", head, None, <<>>, None) /\ Patient!End(r)
        /\ UNCHANGED <<pending, ephemeral, ran, decided, faults, fork>>
    BY <1>3 DEF Patient!Outcome
  <2>2. lock' \in Runs \cup {None}
    BY <2>1, Still DEF Patient!End
  <2>3. cut' \subseteq 1..MaxMessages
    <3>1. \A c \in Patient!Calls : c[1] \in 1..MaxMessages
      BY DEF Patient!Calls
    <3> QED BY <1>3, <3>1, Still DEF Patient!Outcome, Patient!Requested
  <2> QED BY <1>1, <2>1, <2>2, <2>3, NoticeDoes, Still DEF Orderly
<1> QED BY <1>2, <1>3

\* A request of the model appends a message and no approval.
LEMMA RequestIsOrderly ==
  ASSUME ThreadTyped, NEW r \in Runs, NEW b \in Batches, Patient!Request(r, b)
  PROVE  Orderly
<1>1. \E parent, new : Added(parent, new)
  <2>1. "assistant" \in {"user", "assistant", "tool"} /\ None \in Turns \cup {None}
        /\ None \in Patient!Calls \cup {None} /\ b \in Batches \cup {<<>>}
        /\ run[r].parent \in 0..Len(msgs)
    BY Typing
  <2>2. Patient!Add("assistant", run[r].parent, None, b, None)
    BY RequestDoes
  <2> QED BY <2>1, <2>2, Adds, Zenon
<1> QED BY <1>1, Still DEF Patient!Request, Orderly

\* The approval that is asked for is of a call there is.
LEMMA AskIsOrderly ==
  ASSUME ThreadTyped, NEW r \in Runs, Patient!Ask(r)
  PROVE  Orderly /\ \E e : Becomes(r, e) /\ Blank(e, "over")
<1>1. pending' \in Patient!Calls /\ Known(msgs, pending')
  BY AskCall
<1>2. ephemeral' \subseteq Patient!Calls
  BY <1>1, Still DEF Patient!Ask
<1>3. Patient!End(r) /\ UNCHANGED <<msgs, head, ran, decided, cut, faults, fork>>
  BY DEF Patient!Ask
<1>4. lock' \in Runs \cup {None}
  BY <1>3, Still DEF Patient!End
<1>5. Len(msgs') \in Nat
  BY <1>3, Typing
<1> QED BY <1>1, <1>2, <1>3, <1>4, <1>5, EndDoes, Still DEF Orderly

\* A claim takes the approval and decides, or ends its run.
LEMMA ClaimIsOrderly ==
  ASSUME ThreadTyped, NEW r \in Runs, Patient!Claim(r)
  PROVE  /\ Orderly
         /\ \/ /\ pending = run[r].asked /\ pending' = None /\ pending # None
               /\ decided' = decided \cup {<<run[r].asked, run[r].decision>>}
               /\ \E e : Becomes(r, e) /\ Moved(e, run[r], "claimed")
            \/ /\ UNCHANGED <<pending, decided>>
               /\ \E e : Becomes(r, e) /\ Blank(e, "over")
<1>1. run[r].at = "claiming" /\ UNCHANGED <<msgs, head, ephemeral, ran, cut, faults, fork>>
      /\ Len(msgs') \in Nat
  BY Typing DEF Patient!Claim
<1>2. run[r].asked # None /\ Known(msgs, run[r].asked) /\ run[r].decision \in Patient!Decisions
  BY <1>1, Typing DEF RunTyped
<1>3. CASE pending = run[r].asked
  <2>1. /\ pending' = None
        /\ decided' = decided \cup {<<run[r].asked, run[r].decision>>}
        /\ Patient!Move(r, "claimed") /\ lock' = lock
    BY <1>3 DEF Patient!Claim
  <2>2. run[r].asked \in Patient!Calls
    BY <1>2 DEF Known
  <2>3. Orderly
    BY <1>1, <1>2, <2>1, <2>2, Still DEF Orderly
  <2>4. \E e : Becomes(r, e) /\ Moved(e, run[r], "claimed")
    BY <1>1, <1>2, <2>1, MoveDoes
  <2> QED BY <1>2, <1>3, <2>1, <2>3, <2>4
<1>4. CASE pending # run[r].asked
  <2>1. Patient!End(r) /\ UNCHANGED <<pending, decided>>
    BY <1>4 DEF Patient!Claim
  <2>2. lock' \in Runs \cup {None}
    BY <2>1, Still DEF Patient!End
  <2> QED BY <1>1, <2>1, <2>2, EndDoes, Still DEF Orderly
<1> QED BY <1>3, <1>4

\* Arguments that are lost cut a batch there is.
LEMMA LoadIsOrderly ==
  ASSUME ThreadTyped, NEW r \in Runs, Patient!Load(r)
  PROVE  Orderly /\ \E e : Becomes(r, e)
<1>1. UNCHANGED <<msgs, head, ephemeral, ran, decided, faults, fork>> /\ run[r].at = "claimed"
      /\ Len(msgs') \in Nat
  BY Typing DEF Patient!Load
<1>2. CASE Patient!ArgumentsLost(r)
  <2>1. /\ pending' = None /\ cut' = cut \cup {run[r].asked[1]} /\ Patient!End(r)
    BY <1>2 DEF Patient!Load
  <2>2. run[r].asked[1] \in 1..MaxMessages
    BY <1>1, Typing DEF RunTyped, Known, Patient!Calls
  <2>3. lock' \in Runs \cup {None}
    BY <2>1, Still DEF Patient!End
  <2> QED BY <1>1, <2>1, <2>2, <2>3, EndDoes, Still DEF Orderly
<1>3. CASE ~ Patient!ArgumentsLost(r)
  BY <1>1, <1>3, LoadDoes, Still DEF Orderly
<1> QED BY <1>2, <1>3

\* A call that runs is a call there is.
LEMMA ReplayIsOrderly ==
  ASSUME ThreadTyped, NEW r \in Runs,
         Patient!Replay(r) \/ \E i \in 1..MaxBatch : Patient!Execute(r, i)
  PROVE  Orderly /\ \E e : Becomes(r, e)
<1>1. UNCHANGED <<msgs, head, pending, ephemeral, lock, decided, cut, fork>>
      /\ run[r].at \in {"executing", "replaying"}
  BY DEF Patient!Replay, Patient!Execute
<1>2. PICK i \in (1..Patient!BatchLen(r)) \ run[r].done :
           /\ run' = [run EXCEPT ![r].done = @ \cup {i}]
           /\ ran' \in {ran, [ran EXCEPT ![<<run[r].batch, i>>] = @ + 1]}
  BY DEF Patient!Replay, Patient!Execute, Patient!Run1
<1>3. /\ <<run[r].batch, i>> \in Patient!Calls /\ Known(msgs, <<run[r].batch, i>>)
      /\ \E e : Becomes(r, e)
  BY <1>1, <1>2, DoneDoes
<1>4. Orderly
  BY <1>1, <1>2, <1>3, Still DEF Orderly
<1> QED BY <1>3, <1>4

\* So every step of a run is orderly.
LEMMA RunIsOrderly ==
  ASSUME ThreadTyped, NEW r \in Runs, ReadsHead(r) \/ Enters(r) \/ Fails(r) \/ SharedRun(r)
  PROVE  Orderly /\ \E e : Becomes(r, e)
<1>1. CASE ReadsHead(r)
  BY <1>1, ReadHeadDoes, Still DEF ReadsHead, Orderly
<1>2. CASE Enters(r)
  BY <1>2, EnterDoes, Still DEF Enters, Orderly
<1>3. CASE Fails(r)
  BY <1>3, FailDoes, UnfinishedIs, Still DEF Fails, Orderly
<1>4. CASE Patient!Place(r)
  BY <1>4, PlaceIsOrderly
<1>5. ASSUME NEW d \in Patient!Decisions, Patient!Decide(r, d)
      PROVE  Orderly /\ \E e : Becomes(r, e)
  BY <1>5, DecideDoes, Still DEF Patient!Decide, Orderly
<1>6. CASE Patient!StartLoop(r)
  BY <1>6, StartLoopDoes, Still DEF Patient!StartLoop, Orderly
<1>7. CASE Patient!Read(r)
  BY <1>7, ReadDoes, Still DEF Patient!Read, Orderly
<1>8. CASE Patient!Answer(r) \/ Patient!Outcome(r)
  BY <1>8, NoticeIsOrderly
<1>9. CASE Patient!GiveUp(r)
  <2>1. /\ Patient!Move(r, "ending")
        /\ UNCHANGED <<msgs, head, pending, ephemeral, lock, ran, decided, cut, fork>>
    BY <1>9 DEF Patient!GiveUp
  <2>2. \E e : Becomes(r, e)
    BY <2>1, MoveDoes
  <2> QED BY <2>1, <2>2, Still DEF Orderly
<1>10. ASSUME NEW b \in Batches, Patient!Request(r, b) PROVE Orderly /\ \E e : Becomes(r, e)
  BY <1>10, RequestIsOrderly, RequestDoes
<1>11. CASE Patient!Ask(r)
  BY <1>11, AskIsOrderly
<1>12. CASE Patient!Store(r)
  <2>1. UNCHANGED <<pending, ephemeral, lock, ran, decided, cut, fork>>
    BY <1>12 DEF Patient!Store
  <2>2. (\E parent, new : Added(parent, new)) /\ \E e : Becomes(r, e)
    BY <1>12, StoreDoes
  <2> QED BY <2>1, <2>2, Still DEF Orderly
<1>13. CASE Patient!EndBatch(r)
  <2>1. UNCHANGED <<msgs, head, pending, ephemeral, ran, decided, cut, fork>>
        /\ lock' \in {lock, None}
    BY <1>13 DEF Patient!EndBatch, Patient!End
  <2> QED BY <1>13, <2>1, EndBatchDoes, Still DEF Orderly
<1>14. ASSUME Patient!Replay(r) \/ \E i \in 1..MaxBatch : Patient!Execute(r, i)
       PROVE  Orderly /\ \E e : Becomes(r, e)
  BY <1>14, ReplayIsOrderly
<1>15. CASE Patient!Claim(r)
  BY <1>15, ClaimIsOrderly
<1>16. CASE Patient!Load(r)
  BY <1>16, LoadIsOrderly
<1>17. CASE Patient!TakeParent(r)
  BY <1>17, TakeParentDoes, Still DEF Patient!TakeParent, Orderly
<1>18. CASE Patient!Resolve(r)
  <2>1. ephemeral' \subseteq Patient!Calls
    BY <1>18, Still DEF Patient!Resolve
  <2> QED BY <1>18, <2>1, ResolveDoes, Still DEF Patient!Resolve, Orderly
<1> QED BY <1>1, <1>2, <1>3, <1>4, <1>5, <1>6, <1>7, <1>8, <1>9, <1>10, <1>11, <1>12, <1>13,
           <1>14, <1>15, <1>16, <1>17, <1>18 DEF SharedRun

\* After a crash no run carries anything.
LEMMA CrashIsOrderly ==
  ASSUME ThreadTyped, Crashes
  PROVE  Orderly /\ RunsTyped /\ \A x \in Runs : Blank(run'[x], "over") \/ Blank(run'[x], "idle")
<1>1. cut' \subseteq 1..MaxMessages
  BY UnfinishedIs, Still DEF Crashes
<1>2. Orderly
  BY <1>1, Still DEF Crashes, Orderly
<1>3. Len(msgs') \in Nat
  BY DEF Crashes, ThreadTyped, Tree
<1>4. \A x \in Runs : run'[x] \in {Patient!Fresh, Patient!Over}
  BY DEF Crashes
<1>5. run' = [x \in Runs |-> run'[x]]
  BY DEF Crashes
<1>6. \A x \in Runs : run'[x] \in Patient!Run /\ RunTyped(run'[x], msgs', decided')
  BY <1>3, <1>4, EndsAreTyped
<1>7. \A x \in Runs : Blank(run'[x], "over") \/ Blank(run'[x], "idle")
  BY <1>4, Blanks
<1> QED BY <1>2, <1>5, <1>6, <1>7 DEF RunsTyped

\* The steps of no run.
LEMMA RestIsOrderly ==
  ASSUME ThreadTyped, MovesHead \/ Restarts \/ Lapses
  PROVE  Orderly /\ RunsTyped
<1>1. Orderly
  <2>1. CASE MovesHead \/ Restarts
    BY <2>1, Still DEF MovesHead, Restarts, Orderly
  <2>2. CASE Lapses
    <3>1. pending[1] \in 1..MaxMessages
      BY <2>2, Still DEF Lapses, Patient!Calls
    <3> QED BY <2>2, <3>1, Still DEF Lapses, Orderly
  <2> QED BY <2>1, <2>2
<1>2. run' = run /\ msgs' = msgs /\ decided' = decided
  BY DEF MovesHead, Restarts, Lapses
<1>3. RunsTyped
  BY <1>2 DEF RunsTyped, ThreadTyped, Patient!TypeOK
<1> QED BY <1>1, <1>3

\* Every step keeps the thread typed, and messages stay what they are.
LEMMA TypedKeeps ==
  ASSUME ThreadTyped, SharedNext
  PROVE  Orderly /\ RunsTyped /\ ThreadTyped' /\ Extends(msgs, msgs') /\ Len(msgs') \in Nat
<1>1. Orderly /\ RunsTyped
  <2>1. ASSUME NEW r \in Runs, ReadsHead(r) \/ Enters(r) \/ Fails(r) \/ SharedRun(r)
        PROVE  Orderly /\ RunsTyped
    <3>1. Orderly /\ \E e : Becomes(r, e)
      BY <2>1, RunIsOrderly
    <3> QED BY <3>1, BecomesTyped
  <2> QED BY <2>1, CrashIsOrderly, RestIsOrderly DEF SharedNext
<1>2. faults' \in {faults, faults + 1}
  BY DEF SharedNext
<1> QED BY <1>1, <1>2, OrderlyKeeps DEF RunsTyped

-----------------------------------------------------------------------------
(* Decisions.                                                              *)

\* A run that asks asked before, about the same batch.
AskingStays ==
  \A x \in Runs : run'[x].at = "asking" => run[x].at = "asking" /\ run'[x].batch = run[x].batch

\* The steps by which a decision comes about.
LEMMA FewDecide ==
  ASSUME ThreadTyped, SharedNext
  PROVE  \/ AskingStays /\ pending' \in {pending, None} /\ decided' = decided
         \/ \E r \in Runs, b \in Batches : Patient!Request(r, b)
         \/ \E r \in Runs : Patient!Ask(r) \/ Patient!Claim(r)
<1>0. Orderly
  BY TypedKeeps
<1>1. ASSUME NEW r \in Runs, NEW e, Becomes(r, e), e.at # "asking" PROVE AskingStays
  BY <1>0, <1>1, BecomesTyped DEF AskingStays
<1>2. CASE MovesHead \/ Restarts \/ Lapses
  BY <1>2 DEF MovesHead, Restarts, Lapses, AskingStays
<1>3. CASE Crashes
  <2>1. AskingStays
    BY <1>3, CrashIsOrderly DEF AskingStays, Blank
  <2> QED BY <1>3, <2>1 DEF Crashes
<1>4. ASSUME NEW r \in Runs, ReadsHead(r) \/ Enters(r) \/ Fails(r)
      PROVE  AskingStays /\ pending' = pending /\ decided' = decided
  <2>1. \E e : Becomes(r, e) /\ e.at # "asking"
    BY <1>4, ReadHeadDoes, EnterDoes, FailDoes DEF Blank, Moved
  <2>2. AskingStays
    BY <1>1, <2>1
  <2> QED BY <1>4, <2>2 DEF ReadsHead, Enters, Fails
<1>5. ASSUME NEW r \in Runs,
             \/ Patient!Place(r) \/ \E d \in Patient!Decisions : Patient!Decide(r, d)
             \/ Patient!StartLoop(r) \/ Patient!Read(r) \/ Patient!Answer(r) \/ Patient!GiveUp(r)
             \/ Patient!Outcome(r)
      PROVE  AskingStays /\ pending' = pending /\ decided' = decided
  <2>1. \E e : Becomes(r, e) /\ e.at # "asking"
    <3>1. ASSUME Patient!GiveUp(r) PROVE \E e : Becomes(r, e) /\ Moved(e, run[r], "ending")
      <4>1. Patient!Move(r, "ending") /\ msgs' = msgs /\ decided' = decided
        BY <3>1 DEF Patient!GiveUp
      <4> QED BY <4>1, MoveDoes
    <3>2. Patient!Place(r) \/ Patient!Answer(r) \/ Patient!Outcome(r) =>
            \E e : Becomes(r, e) /\ e.at # "asking"
      BY PlaceIsOrderly, NoticeIsOrderly DEF Blank
    <3> QED BY <1>5, <3>1, <3>2, DecideDoes, StartLoopDoes, ReadDoes DEF Moved
  <2>2. AskingStays
    BY <1>1, <2>1
  <2> QED BY <1>5, <2>2 DEF Patient!Place, Patient!Decide, Patient!StartLoop, Patient!Read,
             Patient!Answer, Patient!GiveUp, Patient!Outcome
<1>6. ASSUME NEW r \in Runs,
             \/ Patient!Store(r) \/ Patient!EndBatch(r) \/ Patient!Replay(r)
             \/ \E i \in 1..MaxBatch : Patient!Execute(r, i)
      PROVE  AskingStays /\ pending' = pending /\ decided' = decided
  <2>1. \E e : Becomes(r, e) /\ e.at # "asking"
    <3>1. ASSUME Patient!Replay(r) \/ \E i \in 1..MaxBatch : Patient!Execute(r, i)
          PROVE  \E e : Becomes(r, e) /\ e.at = run[r].at
      BY <3>1, DoneDoes, ZenonT(60) DEF Patient!Replay, Patient!Execute
    <3>2. Patient!Replay(r) \/ Patient!Store(r) \/ (\E i \in 1..MaxBatch : Patient!Execute(r, i))
            => run[r].at # "asking"
      BY DEF Patient!Replay, Patient!Execute, Patient!Store
    <3>3. Patient!EndBatch(r) => run[r].at # "asking"
      BY DEF Patient!EndBatch
    <3>4. Patient!Store(r) => \E e : Becomes(r, e) /\ e.at = run[r].at
      BY StoreDoes
    <3>5. Patient!EndBatch(r) => \E e : Becomes(r, e) /\ e.at # "asking"
      BY EndBatchDoes DEF Moved, Blank
    <3> QED BY <1>6, <3>1, <3>2, <3>4, <3>5
  <2>2. AskingStays
    BY <1>1, <2>1
  <2> QED BY <1>6, <2>2 DEF Patient!Store, Patient!EndBatch, Patient!Replay, Patient!Execute
<1>7. ASSUME NEW r \in Runs, Patient!Load(r) \/ Patient!TakeParent(r) \/ Patient!Resolve(r)
      PROVE  AskingStays /\ pending' \in {pending, None} /\ decided' = decided
  <2>1. \E e : Becomes(r, e) /\ e.at # "asking"
    <3>1. ASSUME Patient!Load(r) PROVE \E e : Becomes(r, e) /\ e.at # "asking"
      <4>1. CASE Patient!ArgumentsLost(r)
        <5>1. Patient!End(r) /\ Len(msgs') \in Nat
          BY <3>1, <4>1, Typing DEF Patient!Load
        <5> QED BY <5>1, EndDoes DEF Blank
      <4>2. CASE ~ Patient!ArgumentsLost(r)
        BY <3>1, <4>2, LoadDoes
      <4> QED BY <4>1, <4>2
    <3> QED BY <1>7, <3>1, TakeParentDoes, ResolveDoes DEF Blank
  <2>2. AskingStays
    BY <1>1, <2>1
  <2> QED BY <1>7, <2>2 DEF Patient!Load, Patient!TakeParent, Patient!Resolve
<1> QED BY <1>2, <1>3, <1>4, <1>5, <1>6, <1>7 DEF SharedNext, SharedRun

\* An approval is asked for before its batch is decided about, once.
LEMMA DecisiveKeeps ==
  ASSUME ThreadTyped, Decisive, SharedNext
  PROVE  Decisive'
<1>1. Orderly /\ ThreadTyped' /\ Extends(msgs, msgs') /\ Len(msgs') \in Nat /\ Len(msgs) \in Nat
  BY TypedKeeps DEF ThreadTyped, Tree
<1>2. CASE AskingStays /\ pending' \in {pending, None} /\ decided' = decided
  BY <1>2 DEF Decisive, AskingStays, Undecided
<1>3. ASSUME NEW r \in Runs, NEW b \in Batches, Patient!Request(r, b)
      PROVE  Decisive'
  <2> DEFINE n == Len(msgs)
  <2>1. PICK e : Becomes(r, e) /\ e.batch = n + 1
    BY <1>3, RequestDoes
  <2>2. run'[r] = e /\ \A x \in Runs : x # r => run'[x] = run[x]
    BY <1>1, <2>1, BecomesTyped
  <2>3. pending' = pending /\ decided' = decided
    BY <1>3 DEF Patient!Request
  <2>4. Undecided(n + 1, decided)
    <3>1. \A d \in decided : d[1][1] \in 1..n
      BY DEF ThreadTyped, Known
    <3> QED BY <1>1, <3>1 DEF Undecided
  <2>5. pending # None => pending[1] # n + 1
    BY <1>1 DEF ThreadTyped, Known
  <2>6. \A x \in Runs : run[x].batch # n + 1
    BY <1>1, Typing
  <2> QED BY <2>1, <2>2, <2>3, <2>4, <2>5, <2>6 DEF Decisive
<1>4. ASSUME NEW r \in Runs, Patient!Ask(r) PROVE Decisive'
  <2>1. PICK e : Becomes(r, e) /\ e.at # "asking"
    BY <1>4, AskIsOrderly DEF Blank
  <2>2. run'[r] = e /\ \A x \in Runs : x # r => run'[x] = run[x]
    BY <1>1, <2>1, BecomesTyped
  <2>3. run[r].at = "asking" /\ pending'[1] = run[r].batch /\ decided' = decided
    BY <1>4, AskCall DEF Patient!Ask
  <2> QED BY <2>1, <2>2, <2>3 DEF Decisive
<1>5. ASSUME NEW r \in Runs, Patient!Claim(r) PROVE Decisive'
  <2>1. CASE /\ pending = run[r].asked /\ pending' = None /\ pending # None
             /\ decided' = decided \cup {<<run[r].asked, run[r].decision>>}
             /\ \E e : Becomes(r, e) /\ Moved(e, run[r], "claimed")
    <3>1. AskingStays
      BY <1>1, <2>1, BecomesTyped DEF AskingStays, Moved
    <3>2. \A x \in Runs : run[x].at = "asking" => Undecided(run[x].batch, decided')
      <4>1. <<run[r].asked, run[r].decision>>[1] = pending
        BY <2>1
      <4> QED BY <2>1, <4>1 DEF Decisive, Undecided
    <3> QED BY <2>1, <3>1, <3>2 DEF Decisive, AskingStays
  <2>2. CASE /\ UNCHANGED <<pending, decided>>
             /\ \E e : Becomes(r, e) /\ Blank(e, "over")
    <3>1. AskingStays
      BY <1>1, <2>2, BecomesTyped DEF AskingStays, Blank
    <3> QED BY <2>2, <3>1 DEF Decisive, AskingStays
  <2> QED BY <1>5, <2>1, <2>2, ClaimIsOrderly
<1> QED BY <1>2, <1>3, <1>4, <1>5, FewDecide

\* A step that runs a tool, and one that claims an approval.
LEMMA FewRun ==
  ASSUME ThreadTyped, SharedNext
  PROVE  /\ \/ ran' = ran
            \/ \E r \in Runs : Patient!Replay(r) \/ \E i \in 1..MaxBatch : Patient!Execute(r, i)
         /\ decided' = decided \/ \E r \in Runs : Patient!Claim(r)
<1>1. ASSUME NEW r \in Runs, ReadsHead(r) \/ Enters(r) \/ Fails(r)
      PROVE  ran' = ran /\ decided' = decided
  BY <1>1 DEF ReadsHead, Enters, Fails
<1>2. MovesHead \/ Crashes \/ Restarts \/ Lapses => ran' = ran /\ decided' = decided
  BY DEF MovesHead, Crashes, Restarts, Lapses
<1>3. ASSUME NEW r \in Runs,
             \/ Patient!Place(r) \/ \E d \in Patient!Decisions : Patient!Decide(r, d)
             \/ Patient!StartLoop(r) \/ Patient!Read(r) \/ Patient!Answer(r) \/ Patient!GiveUp(r)
             \/ Patient!Outcome(r) \/ (\E b \in Batches : Patient!Request(r, b))
      PROVE  ran' = ran /\ decided' = decided
  BY <1>3 DEF Patient!Place, Patient!Decide, Patient!StartLoop, Patient!Read, Patient!Answer,
              Patient!GiveUp, Patient!Outcome, Patient!Request
<1>4. ASSUME NEW r \in Runs,
             \/ Patient!Ask(r) \/ Patient!Store(r) \/ Patient!EndBatch(r) \/ Patient!Load(r)
             \/ Patient!TakeParent(r) \/ Patient!Resolve(r)
      PROVE  ran' = ran /\ decided' = decided
  BY <1>4 DEF Patient!Ask, Patient!Store, Patient!EndBatch, Patient!Load, Patient!TakeParent,
              Patient!Resolve
<1>5. ASSUME NEW r \in Runs,
             Patient!Replay(r) \/ \E i \in 1..MaxBatch : Patient!Execute(r, i)
      PROVE  decided' = decided
  BY <1>5 DEF Patient!Replay, Patient!Execute
<1>6. ASSUME NEW r \in Runs, Patient!Claim(r) PROVE ran' = ran
  BY <1>6 DEF Patient!Claim
<1> QED BY <1>1, <1>2, <1>3, <1>4, <1>5, <1>6 DEF SharedNext, SharedRun

\* The tool that a step runs.
LEMMA ToolRuns ==
  ASSUME ThreadTyped, NEW r \in Runs,
         Patient!Replay(r) \/ \E i \in 1..MaxBatch : Patient!Execute(r, i)
  PROVE  /\ UNCHANGED <<msgs, head, pending, ephemeral, lock, decided, cut, fork>>
         /\ \E i \in (1..MaxBatch) \ run[r].done :
              LET c == <<run[r].batch, i>> IN
              /\ i <= Len(msgs[run[r].batch].calls) /\ run[r].batch \in 1..Len(msgs)
              /\ Patient!Replay(r) => i = run[r].stored + 1
              /\ c \in Patient!Calls /\ Known(msgs, c)
              /\ ran' \in {ran, [ran EXCEPT ![c] = @ + 1]}
              /\ \/ ran' = ran
                 \/ Patient!Kind(c) \notin Patient!Asks
                 \/ run[r].at = "replaying" /\ c = run[r].asked /\ run[r].decision = "approve"
              /\ \E e : /\ Becomes(r, e) /\ e.done = run[r].done \cup {i} /\ e.at = run[r].at
                        /\ e.parent = run[r].parent /\ e.batch = run[r].batch
                        /\ e.seen = run[r].seen
                        /\ e.stored = run[r].stored /\ e.asked = run[r].asked
                        /\ e.decision = run[r].decision
<1>1. /\ UNCHANGED <<msgs, head, pending, ephemeral, lock, decided, cut, fork>>
      /\ run[r].at \in {"executing", "replaying"}
  BY DEF Patient!Replay, Patient!Execute
<1>2. CASE Patient!Replay(r)
  <2> DEFINE i == run[r].stored + 1
             c == <<run[r].batch, i>>
  <2>1. i \in (1..Patient!BatchLen(r)) \ run[r].done /\ run[r].at = "replaying"
        /\ run' = [run EXCEPT ![r].done = @ \cup {i}]
    BY <1>2 DEF Patient!Replay
  <2>2. /\ run[r].batch \in 1..Len(msgs) /\ i \in 1..MaxBatch
        /\ i <= Len(msgs[run[r].batch].calls)
        /\ c \in Patient!Calls /\ Known(msgs, c)
        /\ \E e : /\ Becomes(r, e) /\ e.done = run[r].done \cup {i} /\ e.at = run[r].at
                  /\ e.parent = run[r].parent /\ e.batch = run[r].batch /\ e.seen = run[r].seen
                  /\ e.stored = run[r].stored /\ e.asked = run[r].asked
                  /\ e.decision = run[r].decision
    <3> HIDE DEF i
    <3> QED BY <1>1, <2>1, DoneDoes
  <2>3. /\ ran' \in {ran, [ran EXCEPT ![c] = @ + 1]}
        /\ \/ ran' = ran
           \/ Patient!Kind(c) \notin Patient!Asks
           \/ c = run[r].asked /\ run[r].decision = "approve"
    BY <1>2 DEF Patient!Replay, Patient!MayReplay, Patient!Run1
  <2> HIDE DEF c, i
  <2> QED BY <1>1, <2>1, <2>2, <2>3 DEF c, i
<1>3. ASSUME NEW i \in 1..MaxBatch, Patient!Execute(r, i)
      PROVE  \E j \in (1..MaxBatch) \ run[r].done :
              LET c == <<run[r].batch, j>> IN
              /\ j <= Len(msgs[run[r].batch].calls) /\ run[r].batch \in 1..Len(msgs)
              /\ ~ Patient!Replay(r)
              /\ c \in Patient!Calls /\ Known(msgs, c)
              /\ ran' \in {ran, [ran EXCEPT ![c] = @ + 1]}
              /\ Patient!Kind(c) \notin Patient!Asks
              /\ \E e : /\ Becomes(r, e) /\ e.done = run[r].done \cup {j} /\ e.at = run[r].at
                        /\ e.parent = run[r].parent /\ e.batch = run[r].batch
                        /\ e.seen = run[r].seen
                        /\ e.stored = run[r].stored /\ e.asked = run[r].asked
                        /\ e.decision = run[r].decision
  <2> DEFINE c == <<run[r].batch, i>>
  <2>1. i \in (1..Patient!BatchLen(r)) \ run[r].done /\ run[r].at = "executing"
        /\ run' = [run EXCEPT ![r].done = @ \cup {i}]
        /\ ran' \in {ran, [ran EXCEPT ![c] = @ + 1]}
    BY <1>3 DEF Patient!Execute, Patient!Run1
  <2>2. /\ run[r].batch \in 1..Len(msgs) /\ i \in 1..MaxBatch
        /\ i <= Len(msgs[run[r].batch].calls)
        /\ c \in Patient!Calls /\ Known(msgs, c)
        /\ \E e : /\ Becomes(r, e) /\ e.done = run[r].done \cup {i} /\ e.at = run[r].at
                  /\ e.parent = run[r].parent /\ e.batch = run[r].batch /\ e.seen = run[r].seen
                  /\ e.stored = run[r].stored /\ e.asked = run[r].asked
                  /\ e.decision = run[r].decision
    BY <1>1, <2>1, DoneDoes
  <2>3. Patient!Kind(c) \notin Patient!Asks
    <3>1. RunTyped(run[r], msgs, decided)
      BY Typing
    <3>2. c[1] = run[r].batch /\ c[2] = i
      OBVIOUS
    <3>3. i \in 1..Len(msgs[run[r].batch].calls)
      BY <2>2, BatchTyping
    <3> QED BY <2>1, <3>1, <3>2, <3>3 DEF RunTyped, Patient!Kind
  <2>4. ~ Patient!Replay(r)
    BY <2>1 DEF Patient!Replay
  <2> HIDE DEF c
  <2> QED BY <2>1, <2>2, <2>3, <2>4 DEF c
<1> QED BY <1>1, <1>2, <1>3

\* A call that asks runs after its approval was claimed.
LEMMA ObeyedKeeps ==
  ASSUME ThreadTyped, Decisive, Obeyed, SharedNext
  PROVE  Obeyed'
<1>1. /\ Orderly /\ ThreadTyped' /\ Extends(msgs, msgs') /\ Len(msgs') \in Nat
      /\ Len(msgs) \in Nat /\ decided \subseteq decided' /\ ran \in [Patient!Calls -> Nat]
  BY TypedKeeps DEF ThreadTyped, Tree, Orderly, Patient!TypeOK
<1>2. ASSUME NEW c \in Patient!Calls, ran[c] > 0, Known(msgs', c), Patient!Kind(c)' \in Patient!Asks
      PROVE  <<c, "approve">> \in decided'
  <2>1. Known(msgs, c)
    BY <1>2 DEF ThreadTyped
  <2>2. Patient!Kind(c) \in Patient!Asks
    BY <1>1, <1>2, <2>1 DEF Patient!Kind, Known, Extends
  <2> QED BY <1>1, <1>2, <2>1, <2>2 DEF Obeyed
<1>3. ASSUME NEW c \in Patient!Calls, Known(msgs', c), Patient!Kind(c)' \in Patient!Asks,
             ran'[c] > 0
      PROVE  <<c, "approve">> \in decided'
  <2>1. CASE ran' = ran
    BY <1>2, <1>3, <2>1
  <2>2. ASSUME NEW r \in Runs, Patient!Replay(r) \/ \E i \in 1..MaxBatch : Patient!Execute(r, i)
        PROVE  <<c, "approve">> \in decided'
    <3>1. PICK i \in (1..MaxBatch) \ run[r].done :
              LET k == <<run[r].batch, i>> IN
              /\ k \in Patient!Calls
              /\ ran' \in {ran, [ran EXCEPT ![k] = @ + 1]}
              /\ \/ ran' = ran
                 \/ Patient!Kind(k) \notin Patient!Asks
                 \/ run[r].at = "replaying" /\ k = run[r].asked /\ run[r].decision = "approve"
      BY <2>2, ToolRuns
    <3> DEFINE k == <<run[r].batch, i>>
    <3>2. CASE c # k \/ ran' = ran
      <4>1. ran'[c] = ran[c]
        BY <1>1, <3>1, <3>2
      <4> QED BY <1>2, <1>3, <4>1
    <3>3. CASE c = k /\ ran' # ran
      <4>1. msgs' = msgs
        BY <2>2, ToolRuns
      <4>2. Patient!Kind(c) \in Patient!Asks
        BY <1>3, <4>1 DEF Patient!Kind
      <4>3. run[r].at = "replaying" /\ c = run[r].asked /\ run[r].decision = "approve"
        BY <3>1, <3>3, <4>2
      <4>4. <<run[r].asked, run[r].decision>> \in decided
        BY <4>3, Typing DEF RunTyped
      <4> QED BY <1>1, <4>3, <4>4
    <3> QED BY <3>2, <3>3
  <2> QED BY <2>1, <2>2, FewRun
<1>4. ASSUME NEW c \in Patient!Calls PROVE ~({<<c, "approve">>, <<c, "reject">>} \subseteq decided')
  <2>1. CASE decided' = decided
    BY <2>1 DEF Obeyed
  <2>2. ASSUME NEW r \in Runs, Patient!Claim(r), decided' # decided
        PROVE  ~({<<c, "approve">>, <<c, "reject">>} \subseteq decided')
    <3>1. /\ pending = run[r].asked /\ pending # None
          /\ decided' = decided \cup {<<run[r].asked, run[r].decision>>}
      BY <2>2, ClaimIsOrderly
    <3>2. CASE c = pending
      <4>1. Undecided(c[1], decided)
        BY <3>1, <3>2 DEF Decisive
      <4>2. <<c, "approve">> \notin decided /\ <<c, "reject">> \notin decided
        <5>1. \A d : <<c, d>>[1] = c
          OBVIOUS
        <5> QED BY <4>1, <5>1 DEF Undecided
      <4>3. <<c, "approve">> # <<c, "reject">>
        OBVIOUS
      <4> QED BY <3>1, <3>2, <4>2, <4>3
    <3>3. CASE c # pending
      <4>1. <<c, "approve">> # <<run[r].asked, run[r].decision>>
            /\ <<c, "reject">> # <<run[r].asked, run[r].decision>>
        BY <3>1, <3>3
      <4> QED BY <3>1, <4>1 DEF Obeyed
    <3> QED BY <3>2, <3>3
  <2> QED BY <2>1, <2>2, FewRun
<1> QED BY <1>3, <1>4 DEF Obeyed

\* The invariant of every thread is kept,
LEMMA SharedKeeps ==
  ASSUME SharedInv, SharedNext
  PROVE  SharedInv'
BY TypedKeeps, DecisiveKeeps, ObeyedKeeps DEF SharedInv

\* also when another part moves,
LEMMA SharedStays ==
  ASSUME SharedInv, UNCHANGED conversationVars
  PROVE  SharedInv'
<1>1. /\ msgs' = msgs /\ head' = head /\ pending' = pending /\ ephemeral' = ephemeral
      /\ run' = run /\ lock' = lock /\ ran' = ran /\ decided' = decided /\ cut' = cut
      /\ faults' = faults /\ fork' = fork
  BY DEF conversationVars
<1>2. ThreadTyped'
  BY <1>1 DEF SharedInv, ThreadTyped, Patient!TypeOK
<1>3. Decisive'
  BY <1>1 DEF SharedInv, Decisive
<1>4. Obeyed'
  BY <1>1 DEF SharedInv, Obeyed, Patient!Kind
<1> QED BY <1>2, <1>3, <1>4 DEF SharedInv

\* and holds of a thread without messages.
LEMMA SharedStart ==
  ASSUME Patient!Init \/ Hasty!Init
  PROVE  SharedInv
<1>1. /\ msgs = <<>> /\ head = 0 /\ pending = None /\ ephemeral = {}
      /\ run = [r \in Runs |-> Patient!Fresh]
      /\ lock = None /\ ran = [c \in Patient!Calls |-> 0]
      /\ decided = {} /\ cut = {} /\ faults = 0 /\ fork = [r \in Runs |-> 0]
  BY DEF Patient!Init, Hasty!Init, Patient!Fresh, Hasty!Fresh, Patient!Calls, Hasty!Calls
<1>2. Len(msgs) = 0 /\ Len(msgs) \in Nat
  BY <1>1
<1>3. Patient!Fresh \in Patient!Run /\ RunTyped(Patient!Fresh, msgs, decided)
      /\ Patient!Fresh.at = "idle"
  BY <1>2, EndsAreTyped
<1>4. Patient!TypeOK
  BY <1>1, <1>2, <1>3, Constants DEF Patient!TypeOK
<1>5. ThreadTyped
  BY <1>1, <1>2, <1>3, <1>4 DEF ThreadTyped, Tree
<1>6. Decisive
  BY <1>1, <1>3 DEF Decisive
<1>7. Obeyed
  BY <1>1 DEF Obeyed
<1> QED BY <1>5, <1>6, <1>7 DEF SharedInv

\* What the runs check of it.
LEMMA SharedShows ==
  ASSUME SharedInv
  PROVE  /\ Patient!TypeOK /\ Patient!DecisionIsObeyed
         /\ Hasty!TypeOK /\ Hasty!DecisionIsObeyed
<1>1. Patient!TypeOK /\ Hasty!TypeOK
  BY DEF SharedInv, ThreadTyped, Patient!TypeOK, Hasty!TypeOK, Patient!Message, Hasty!Message,
         Patient!Run, Hasty!Run, Patient!Positions, Hasty!Positions, Patient!Working,
         Hasty!Working, Patient!Calls, Hasty!Calls, Patient!Decisions, Hasty!Decisions
<1>2. DOMAIN msgs = 1..Len(msgs)
  BY <1>1 DEF Patient!TypeOK
<1>3. \A c : c \in Patient!Requested(msgs, DOMAIN msgs) => c \in Patient!Calls /\ Known(msgs, c)
  BY <1>2 DEF Patient!Requested, Known
<1>4. Patient!DecisionIsObeyed
  BY <1>3 DEF SharedInv, Obeyed, Patient!DecisionIsObeyed
<1>5. Hasty!DecisionIsObeyed
  <2>1. Hasty!Calls = Patient!Calls /\ Hasty!Asks = Patient!Asks
        /\ \A c : Hasty!Kind(c) = Patient!Kind(c)
    BY DEF Hasty!Calls, Patient!Calls, Hasty!Asks, Patient!Asks, Hasty!Kind, Patient!Kind
  <2>2. Hasty!Requested(msgs, DOMAIN msgs) = Patient!Requested(msgs, DOMAIN msgs)
    BY <2>1 DEF Hasty!Requested, Patient!Requested
  <2> QED BY <1>4, <2>1, <2>2 DEF Patient!DecisionIsObeyed, Hasty!DecisionIsObeyed
<1> QED BY <1>1, <1>4, <1>5

-----------------------------------------------------------------------------
(* Clients that wait for each other: one run at work.                      *)

\* The client waits for nothing.
Quiet == pending = None /\ \A r \in Runs : run[r].at \in {"idle", "over"}

NoneOfTurn(r, ms) == \A i \in 1..Len(ms) : ms[i].turn # TurnOf[r]

\* The steps of a thread whose clients wait.
Asked(r) ==
  /\ Quiet /\ ReadsHead(r) /\ head' \in Patient!Leaves \cup {head} /\ TurnOf[r] # None
  /\ run' = [run EXCEPT ![r] = Patient!Over] \/ NoneOfTurn(r, msgs)
Chosen == Quiet /\ MovesHead /\ head' \in Patient!Leaves

PatientNext ==
  /\ \/ \E r \in Runs : Asked(r) \/ Enters(r) \/ Fails(r) \/ SharedRun(r)
     \/ Chosen \/ Crashes \/ Restarts \/ Lapses
  /\ faults' \in {faults, faults + 1}

\* The steps of the clients that wait are among them.
LEMMA PatientWaits ==
  ASSUME SharedInv, Patient!Next
  PROVE  PatientNext /\ SharedNext
<1>1. Patient!TypeOK
  BY DEF SharedInv, ThreadTyped
<1>2. Patient!Patient => Quiet
  BY DEF Patient!Patient, Quiet
<1>3. ASSUME NEW r \in Runs, NEW m \in 0..MaxMessages, Patient!ReadHead(r, m)
      PROVE  Asked(r)
  <2>1. head' \in 0..Len(msgs) /\ fork' \in [Runs -> 0..MaxMessages]
        /\ head' \in Patient!Leaves \cup {head}
    BY <1>1, <1>3 DEF Patient!ReadHead, Patient!TypeOK, Patient!Leaves
  <2>2. ReadsHead(r)
    BY <1>3, <2>1 DEF Patient!ReadHead, ReadsHead, Patient!To
  <2>3. Quiet
    BY <1>2, <1>3 DEF Patient!ReadHead, Patient!Resubmitted
  <2>4. run' = [run EXCEPT ![r] = Patient!Over] \/ NoneOfTurn(r, msgs)
    <3>1. DOMAIN msgs = 1..Len(msgs)
      BY <1>1 DEF Patient!TypeOK
    <3> QED BY <1>3, <3>1 DEF Patient!ReadHead, Patient!To, NoneOfTurn
  <2> QED BY <1>3, <2>1, <2>2, <2>3, <2>4 DEF Asked, Patient!ReadHead
<1>4. ASSUME NEW r \in Runs, Patient!Enter(r) PROVE Enters(r)
  BY <1>4 DEF Patient!Enter, Enters, Patient!Move
<1>5. ASSUME NEW r \in Runs, Patient!Cancel(r) PROVE Fails(r)
  BY <1>5 DEF Patient!Cancel, Fails, Patient!To, Patient!End, Patient!Working
<1>6. ASSUME NEW m \in 1..MaxMessages, Patient!SelectBranch(m) \/ Patient!Rewind(m)
      PROVE  Chosen
  <2>1. Patient!SelectBranch(m)
    BY <1>6 DEF Patient!Rewind
  <2> QED BY <1>1, <1>2, <2>1 DEF Patient!SelectBranch, Chosen, MovesHead, Patient!TypeOK,
         Patient!Leaves
<1>7. /\ Patient!Crash => Crashes
      /\ Patient!Restart => Restarts
      /\ Patient!Lapse => Lapses
  BY DEF Patient!Crash, Patient!Restart, Patient!Lapse, Crashes, Restarts, Lapses
<1>8. SharedNext
  BY PatientShares
<1> QED BY <1>3, <1>4, <1>5, <1>6, <1>7, <1>8 DEF Patient!Next, SharedNext, SharedRun, PatientNext

Busy(e) ==
  \/ e.at \in {"placing", "starting", "reading", "thinking", "asking", "executing",
               "claimed", "loaded", "replaying"}
  \/ e.at = "queued" /\ e.asked = None

OneAtWork ==
  \A r \in Runs : Busy(run[r]) => pending = None /\ \A x \in Runs : Busy(run[x]) => x = r

\* Who is at work was at work.
WorkStays == \A x \in Runs : Busy(run'[x]) => Busy(run[x])

\* The steps but a request, a pause and a claim.
LEMMA FewStartWork ==
  ASSUME ThreadTyped, SharedNext, PatientNext
  PROVE  \/ WorkStays /\ pending' \in {pending, None}
         \/ \E r \in Runs : Asked(r) \/ Patient!Ask(r) \/ Patient!Claim(r)
<1>0. Orderly
  BY TypedKeeps
<1>1. ASSUME NEW r \in Runs, NEW e, Becomes(r, e), Busy(e) => Busy(run[r]) PROVE WorkStays
  BY <1>0, <1>1, BecomesTyped DEF WorkStays
<1>2. CASE Chosen \/ Restarts \/ Lapses
  BY <1>2 DEF Chosen, MovesHead, Restarts, Lapses, WorkStays
<1>3. CASE Crashes
  <2>1. WorkStays
    BY <1>3, CrashIsOrderly DEF WorkStays, Blank, Busy
  <2> QED BY <1>3, <2>1 DEF Crashes
<1>4. ASSUME NEW r \in Runs, Enters(r) \/ Fails(r)
      PROVE  WorkStays /\ pending' = pending
  <2>1. \E e : Becomes(r, e) /\ (Busy(e) => Busy(run[r]))
    BY <1>4, EnterDoes, FailDoes DEF Blank, Moved, Busy, Enters
  <2>2. WorkStays
    BY <1>1, <2>1
  <2> QED BY <1>4, <2>2 DEF Enters, Fails
<1>5. ASSUME NEW r \in Runs,
             \/ Patient!Place(r) \/ (\E d \in Patient!Decisions : Patient!Decide(r, d))
             \/ Patient!StartLoop(r) \/ Patient!Read(r) \/ Patient!Answer(r) \/ Patient!GiveUp(r)
             \/ Patient!Outcome(r)
      PROVE  WorkStays /\ pending' = pending
  <2>1. \E e : Becomes(r, e) /\ (Busy(e) => Busy(run[r]))
    <3>1. CASE Patient!GiveUp(r)
      <4>1. Patient!Move(r, "ending") /\ msgs' = msgs /\ decided' = decided
        BY <3>1 DEF Patient!GiveUp
      <4>2. \E e : Becomes(r, e) /\ Moved(e, run[r], "ending")
        BY <4>1, MoveDoes
      <4> QED BY <4>2 DEF Moved, Busy
    <3>2. CASE Patient!Place(r)
      BY <3>2, PlaceIsOrderly DEF Patient!Place, Busy
    <3>3. CASE Patient!Answer(r) \/ Patient!Outcome(r)
      BY <3>3, NoticeIsOrderly DEF Blank, Busy
    <3>4. CASE \E d \in Patient!Decisions : Patient!Decide(r, d)
      <4>1. PICK d \in Patient!Decisions : Patient!Decide(r, d)
        BY <3>4
      <4>2. pending # None
        BY <4>1 DEF Patient!Decide
      <4>3. \E e : Becomes(r, e) /\ e.at = "queued" /\ e.asked = pending
        BY <4>1, DecideDoes
      <4> QED BY <4>2, <4>3 DEF Busy
    <3>5. CASE Patient!StartLoop(r)
      BY <3>5, StartLoopDoes DEF Patient!StartLoop, Busy
    <3>6. CASE Patient!Read(r)
      BY <3>6, ReadDoes DEF Patient!Read, Busy
    <3> QED BY <1>5, <3>1, <3>2, <3>3, <3>4, <3>5, <3>6
  <2>2. WorkStays
    BY <1>1, <2>1
  <2> QED BY <1>5, <2>2 DEF Patient!Place, Patient!Decide, Patient!StartLoop, Patient!Read,
             Patient!Answer, Patient!GiveUp, Patient!Outcome
<1>6. ASSUME NEW r \in Runs,
             \/ Patient!Store(r) \/ Patient!EndBatch(r) \/ Patient!Replay(r)
             \/ (\E i \in 1..MaxBatch : Patient!Execute(r, i))
             \/ \E b \in Batches : Patient!Request(r, b)
      PROVE  WorkStays /\ pending' = pending
  <2>1. Busy(run[r])
    BY <1>6 DEF Patient!Store, Patient!EndBatch, Patient!Replay, Patient!Execute,
       Patient!Request, Busy
  <2>2. \E e : Becomes(r, e)
    BY <1>6, StoreDoes, EndBatchDoes, ReplayIsOrderly, RequestDoes
  <2>3. WorkStays
    BY <1>1, <2>1, <2>2
  <2> QED BY <1>6, <2>3 DEF Patient!Store, Patient!EndBatch, Patient!Replay, Patient!Execute,
         Patient!Request
<1>7. ASSUME NEW r \in Runs, Patient!Load(r) \/ Patient!TakeParent(r) \/ Patient!Resolve(r)
      PROVE  WorkStays /\ pending' \in {pending, None}
  <2>1. Busy(run[r])
    BY <1>7 DEF Patient!Load, Patient!TakeParent, Patient!Resolve, Busy
  <2>2. \E e : Becomes(r, e)
    BY <1>7, LoadIsOrderly, TakeParentDoes, ResolveDoes
  <2>3. WorkStays
    BY <1>1, <2>1, <2>2
  <2> QED BY <1>7, <2>3 DEF Patient!Load, Patient!TakeParent, Patient!Resolve
<1> QED BY <1>2, <1>3, <1>4, <1>5, <1>6, <1>7 DEF PatientNext, SharedRun

\* One at a time is at work.
LEMMA OneKeeps ==
  ASSUME ThreadTyped, OneAtWork, PatientNext, SharedNext
  PROVE  OneAtWork'
<1>0. Orderly
  BY TypedKeeps
<1>1. CASE WorkStays /\ pending' \in {pending, None}
  BY <1>1 DEF WorkStays, OneAtWork
<1>2. ASSUME NEW r \in Runs, Asked(r) PROVE OneAtWork'
  <2>1. \E e : Becomes(r, e)
    BY <1>2, ReadHeadDoes DEF Asked
  <2>2. \A x \in Runs : x # r => run'[x] = run[x]
    BY <1>0, <2>1, BecomesTyped
  <2>3. \A x \in Runs : x # r => ~ Busy(run'[x])
    BY <1>2, <2>2 DEF Asked, Quiet, Busy
  <2> QED BY <1>2, <2>3 DEF Asked, Quiet, ReadsHead, OneAtWork
<1>3. ASSUME NEW r \in Runs, Patient!Ask(r) PROVE OneAtWork'
  <2>1. PICK e : Becomes(r, e) /\ Blank(e, "over")
    BY <1>3, AskIsOrderly
  <2>2. run'[r] = e /\ \A x \in Runs : x # r => run'[x] = run[x]
    BY <1>0, <2>1, BecomesTyped
  <2>3. Busy(run[r]) /\ ~ Busy(e)
    BY <1>3, <2>1 DEF Patient!Ask, Busy, Blank
  <2> QED BY <2>2, <2>3 DEF OneAtWork
<1>4. ASSUME NEW r \in Runs, Patient!Claim(r) PROVE OneAtWork'
  <2>1. CASE /\ pending' = None /\ pending # None
             /\ \E e : Becomes(r, e) /\ Moved(e, run[r], "claimed")
    <3>1. \A x \in Runs : x # r => run'[x] = run[x]
      BY <1>0, <2>1, BecomesTyped
    <3>2. \A x \in Runs : ~ Busy(run[x])
      BY <2>1 DEF OneAtWork
    <3> QED BY <2>1, <3>1, <3>2 DEF OneAtWork
  <2>2. CASE pending' = pending /\ \E e : Becomes(r, e) /\ Blank(e, "over")
    <3>1. PICK e : Becomes(r, e) /\ Blank(e, "over")
      BY <2>2
    <3>2. run'[r] = e /\ \A x \in Runs : x # r => run'[x] = run[x]
      BY <1>0, <3>1, BecomesTyped
    <3>3. ~ Busy(e)
      BY <3>1 DEF Busy, Blank
    <3> QED BY <2>2, <3>2, <3>3 DEF OneAtWork
  <2> QED BY <1>4, <2>1, <2>2, ClaimIsOrderly
<1> QED BY <1>1, <1>2, <1>3, <1>4, FewStartWork

-----------------------------------------------------------------------------
(* The batch that is awaited, and that its calls run once.                 *)

\* A run that has a batch keeps it as it is.
AtBatch == {"asking", "executing", "claimed", "loaded", "replaying"}
BatchesStay == \A x \in Runs : run'[x].at \in AtBatch => run'[x] = run[x]

BatchStep(r) ==
  \/ (\E b \in Batches : Patient!Request(r, b)) \/ Patient!Ask(r) \/ Patient!Store(r)
  \/ Patient!Replay(r) \/ (\E i \in 1..MaxBatch : Patient!Execute(r, i))
  \/ Patient!Claim(r) \/ Patient!Load(r) \/ Patient!TakeParent(r)

\* The steps that take up or leave a batch.
LEMMA FewBatch ==
  ASSUME ThreadTyped, SharedNext
  PROVE  \/ /\ BatchesStay /\ pending' \in {pending, None}
            /\ ran' = ran /\ decided' = decided
         \/ \E r \in Runs : BatchStep(r)
<1>0. Orderly
  BY TypedKeeps
<1>1. ASSUME NEW r \in Runs, NEW e, Becomes(r, e), e.at \notin AtBatch PROVE BatchesStay
  BY <1>0, <1>1, BecomesTyped DEF BatchesStay
<1>2. CASE MovesHead \/ Restarts \/ Lapses
  BY <1>2 DEF MovesHead, Restarts, Lapses, BatchesStay
<1>3. CASE Crashes
  <2>1. BatchesStay
    BY <1>3, CrashIsOrderly DEF BatchesStay, Blank, AtBatch
  <2> QED BY <1>3, <2>1 DEF Crashes
<1>4. ASSUME NEW r \in Runs, ReadsHead(r) \/ Enters(r) \/ Fails(r)
      PROVE  BatchesStay /\ pending' = pending /\ ran' = ran /\ decided' = decided
  <2>1. \E e : Becomes(r, e) /\ e.at \notin AtBatch
    BY <1>4, ReadHeadDoes, EnterDoes, FailDoes DEF Blank, Moved, AtBatch
  <2>2. BatchesStay
    BY <1>1, <2>1
  <2> QED BY <1>4, <2>2 DEF ReadsHead, Enters, Fails
<1>5. ASSUME NEW r \in Runs,
             \/ Patient!Place(r) \/ (\E d \in Patient!Decisions : Patient!Decide(r, d))
             \/ Patient!StartLoop(r) \/ Patient!Read(r) \/ Patient!Answer(r) \/ Patient!GiveUp(r)
             \/ Patient!Outcome(r)
      PROVE  BatchesStay /\ pending' = pending /\ ran' = ran /\ decided' = decided
  <2>1. \E e : Becomes(r, e) /\ e.at \notin AtBatch
    <3>1. CASE Patient!GiveUp(r)
      <4>1. Patient!Move(r, "ending") /\ msgs' = msgs /\ decided' = decided
        BY <3>1 DEF Patient!GiveUp
      <4>2. \E e : Becomes(r, e) /\ Moved(e, run[r], "ending")
        BY <4>1, MoveDoes
      <4> QED BY <4>2 DEF Moved, AtBatch
    <3>2. CASE Patient!Place(r)
      BY <3>2, PlaceIsOrderly DEF Blank, AtBatch
    <3>3. CASE Patient!Answer(r) \/ Patient!Outcome(r)
      BY <3>3, NoticeIsOrderly DEF Blank, AtBatch
    <3>4. CASE \E d \in Patient!Decisions : Patient!Decide(r, d)
      BY <3>4, DecideDoes DEF AtBatch
    <3>5. CASE Patient!StartLoop(r)
      BY <3>5, StartLoopDoes DEF AtBatch
    <3>6. CASE Patient!Read(r)
      BY <3>6, ReadDoes DEF AtBatch
    <3> QED BY <1>5, <3>1, <3>2, <3>3, <3>4, <3>5, <3>6
  <2>2. BatchesStay
    BY <1>1, <2>1
  <2> QED BY <1>5, <2>2 DEF Patient!Place, Patient!Decide, Patient!StartLoop, Patient!Read,
             Patient!Answer, Patient!GiveUp, Patient!Outcome
<1>6. ASSUME NEW r \in Runs, Patient!EndBatch(r)
      PROVE  BatchesStay /\ pending' = pending /\ ran' = ran /\ decided' = decided
  <2>1. BatchesStay
    BY <1>1, <1>6, EndBatchDoes DEF Moved, Blank, AtBatch
  <2> QED BY <1>6, <2>1 DEF Patient!EndBatch
<1>7. ASSUME NEW r \in Runs, Patient!Resolve(r)
      PROVE  BatchesStay /\ pending' = None /\ ran' = ran /\ decided' = decided
  <2>1. BatchesStay
    BY <1>1, <1>7, ResolveDoes DEF Blank, AtBatch
  <2> QED BY <1>7, <2>1 DEF Patient!Resolve
<1> QED BY <1>2, <1>3, <1>4, <1>5, <1>6, <1>7 DEF SharedNext, SharedRun, BatchStep

\* The batches whose first result waits for an approval.
AwaitedBy(e) ==
  {b \in Nat : \/ e.at = "asking" /\ b = e.batch
               \/ e.at \in {"claimed", "loaded"} /\ b = e.asked[1]}
Awaited ==
  {b \in Nat : \/ pending # None /\ b = pending[1]
               \/ \E r \in Runs : b \in AwaitedBy(run[r])}

\* The two outcomes of Load.
LEMMA LoadKinds ==
  ASSUME ThreadTyped, NEW r \in Runs, Patient!Load(r)
  PROVE  \/ \E e : Becomes(r, e) /\ Blank(e, "over") /\ pending' = None
         \/ /\ pending' = pending
            /\ \E e : /\ Becomes(r, e) /\ e.at = "loaded"
                      /\ e.batch = Patient!LastBatch(msgs, LineTo(msgs, head))
                      /\ e.parent = run[r].parent /\ e.seen = run[r].seen /\ e.done = run[r].done
                      /\ e.stored = run[r].stored /\ e.asked = run[r].asked
                      /\ e.decision = run[r].decision
<1>1. CASE Patient!ArgumentsLost(r)
  <2>1. Patient!End(r) /\ Len(msgs') \in Nat /\ pending' = None
    BY <1>1, Typing DEF Patient!Load
  <2> QED BY <2>1, EndDoes
<1>2. CASE ~ Patient!ArgumentsLost(r)
  BY <1>2, LoadDoes
<1> QED BY <1>1, <1>2

\* Only a new batch comes to be awaited.
LEMMA AwaitedMoves ==
  ASSUME ThreadTyped, SharedNext
  PROVE  \/ Awaited' \subseteq Awaited
         \/ /\ \E r \in Runs, b \in Batches : Patient!Request(r, b)
            /\ Awaited' \subseteq Awaited \cup {Len(msgs) + 1}
<1>0. Orderly
  BY TypedKeeps
<1>10. \A x \in Runs : AwaitedBy(run[x]) \subseteq Awaited
  BY DEF Awaited, AwaitedBy
<1>1. CASE BatchesStay /\ pending' \in {pending, None}
  <2>1. \A x \in Runs : AwaitedBy(run'[x]) \subseteq AwaitedBy(run[x])
    BY <1>1 DEF BatchesStay, AtBatch, AwaitedBy
  <2>2. pending' # None => pending' = pending
    BY <1>1
  <2>3. ASSUME NEW b \in Awaited' PROVE b \in Awaited
    <3>1. b \in Nat
      BY DEF Awaited
    <3>2. CASE pending' # None /\ b = pending'[1]
      BY <2>2, <3>1, <3>2 DEF Awaited
    <3>3. ASSUME NEW x \in Runs, b \in AwaitedBy(run'[x]) PROVE b \in Awaited
      BY <2>1, <3>1, <3>3 DEF Awaited
    <3> QED BY <2>3, <3>2, <3>3 DEF Awaited
  <2> QED BY <2>3
<1>2. ASSUME NEW r \in Runs, NEW e, Becomes(r, e), pending' \in {pending, None},
             AwaitedBy(e) \subseteq Awaited
      PROVE  Awaited' \subseteq Awaited
  <2>1. run'[r] = e /\ \A x \in Runs : x # r => run'[x] = run[x]
    BY <1>0, <1>2, BecomesTyped
  <2>2. \A x \in Runs : AwaitedBy(run'[x]) \subseteq Awaited
    BY <1>2, <1>10, <2>1
  <2> QED BY <1>2, <2>2 DEF Awaited
<1>3. ASSUME NEW r \in Runs, NEW b \in Batches, Patient!Request(r, b)
      PROVE  Awaited' \subseteq Awaited \cup {Len(msgs) + 1}
  <2>1. PICK e : Becomes(r, e) /\ e.at \in {"asking", "executing"} /\ e.batch = Len(msgs) + 1
    BY <1>3, RequestDoes
  <2>2. run'[r] = e /\ \A x \in Runs : x # r => run'[x] = run[x]
    BY <1>0, <2>1, BecomesTyped
  <2>3. pending' = pending
    BY <1>3 DEF Patient!Request
  <2>4. AwaitedBy(e) \subseteq {Len(msgs) + 1}
    BY <2>1 DEF AwaitedBy
  <2> QED BY <2>2, <2>3, <2>4 DEF Awaited
<1>4. ASSUME NEW r \in Runs, Patient!Ask(r) PROVE Awaited' \subseteq Awaited
  <2>1. PICK e : Becomes(r, e) /\ Blank(e, "over")
    BY <1>4, AskIsOrderly
  <2>2. run'[r] = e /\ \A x \in Runs : x # r => run'[x] = run[x]
    BY <1>0, <2>1, BecomesTyped
  <2>3. pending'[1] = run[r].batch /\ run[r].at = "asking"
    BY <1>4, AskCall
  <2>4. AwaitedBy(e) = {}
    BY <2>1 DEF AwaitedBy, Blank
  <2>5. ASSUME NEW b \in Awaited' PROVE b \in Awaited
    <3>1. CASE b = pending'[1]
      BY <2>3, <2>5, <3>1 DEF Awaited, AwaitedBy
    <3>2. ASSUME NEW x \in Runs, b \in AwaitedBy(run'[x]) PROVE b \in Awaited
      BY <2>2, <2>4, <2>5, <3>2 DEF Awaited
    <3> QED BY <2>5, <3>1, <3>2 DEF Awaited
  <2> QED BY <2>5
<1>5. ASSUME NEW r \in Runs, Patient!Store(r) PROVE Awaited' \subseteq Awaited
  <2>1. PICK e : Becomes(r, e) /\ e.at = run[r].at
    BY <1>5, StoreDoes
  <2>2. e.at \in {"executing", "replaying"} /\ pending' = pending
    BY <1>5, <2>1 DEF Patient!Store
  <2> QED BY <1>2, <2>1, <2>2 DEF AwaitedBy
<1>6. ASSUME NEW r \in Runs, Patient!Replay(r) \/ \E i \in 1..MaxBatch : Patient!Execute(r, i)
      PROVE  Awaited' \subseteq Awaited
  <2>1. PICK e : Becomes(r, e) /\ e.at = run[r].at
    BY <1>6, ToolRuns
  <2>2. e.at \in {"executing", "replaying"} /\ pending' = pending
    BY <1>6, <2>1 DEF Patient!Replay, Patient!Execute
  <2> QED BY <1>2, <2>1, <2>2 DEF AwaitedBy
<1>7. ASSUME NEW r \in Runs, Patient!Claim(r) PROVE Awaited' \subseteq Awaited
  <2>1. CASE /\ pending = run[r].asked /\ pending' = None /\ pending # None
             /\ \E e : Becomes(r, e) /\ Moved(e, run[r], "claimed")
    <3>1. PICK e : Becomes(r, e) /\ Moved(e, run[r], "claimed")
      BY <2>1
    <3>2. e.at = "claimed" /\ e.asked = pending
      BY <2>1, <3>1 DEF Moved
    <3>3. AwaitedBy(e) \subseteq {b \in Nat : b = pending[1]}
      BY <3>2 DEF AwaitedBy
    <3>4. {b \in Nat : b = pending[1]} \subseteq Awaited
      BY <2>1 DEF Awaited
    <3> QED BY <1>2, <2>1, <3>1, <3>3, <3>4
  <2>2. CASE pending' = pending /\ \E e : Becomes(r, e) /\ Blank(e, "over")
    BY <1>2, <2>2 DEF AwaitedBy, Blank
  <2> QED BY <1>7, <2>1, <2>2, ClaimIsOrderly
<1>8. ASSUME NEW r \in Runs, Patient!Load(r) PROVE Awaited' \subseteq Awaited
  <2>1. PICK e : /\ Becomes(r, e) /\ pending' \in {pending, None}
                 /\ Blank(e, "over") \/ (e.at = "loaded" /\ e.asked = run[r].asked)
    BY <1>8, LoadKinds
  <2>2. run[r].at = "claimed"
    BY <1>8 DEF Patient!Load
  <2>3. AwaitedBy(e) \subseteq AwaitedBy(run[r])
    BY <2>1, <2>2 DEF AwaitedBy, Blank
  <2> QED BY <1>2, <1>10, <2>1, <2>3
<1>9. ASSUME NEW r \in Runs, Patient!TakeParent(r) PROVE Awaited' \subseteq Awaited
  <2>1. PICK e : Becomes(r, e) /\ e.at = "replaying"
    BY <1>9, TakeParentDoes
  <2>2. pending' = pending
    BY <1>9 DEF Patient!TakeParent
  <2> QED BY <1>2, <2>1, <2>2 DEF AwaitedBy
<1> QED BY <1>1, <1>3, <1>4, <1>5, <1>6, <1>7, <1>8, <1>9, FewBatch DEF BatchStep

\* An answer, or how a run ended; a result of batch b.
Notice(ms, j) == ms[j].role = "assistant" /\ ms[j].calls = <<>>
ResultOf(ms, j, b) == ms[j].role = "tool" /\ ms[j].answers[1] = b

\* Batch b is on the way to m, and nothing but the outcome of runs was added since.
Waiting(ms, b, m) ==
  b \in LineTo(ms, m) /\ ms[b].calls # <<>> /\ \A j \in LineTo(ms, m) : j > b => Notice(ms, j)

WaitInv ==
  /\ \A b \in Awaited : Waiting(msgs, b, head)
  /\ \A r \in Runs : run[r].at \in {"loaded", "replaying"} => run[r].batch = run[r].asked[1]

\* What is awaited beside a run at work is its own.
LEMMA Alone ==
  ASSUME OneAtWork, NEW r \in Runs, Busy(run[r])
  PROVE  Awaited = AwaitedBy(run[r])
<1>1. \A x \in Runs : x # r => AwaitedBy(run[x]) = {}
  BY DEF OneAtWork, Busy, AwaitedBy
<1>2. pending = None
  BY DEF OneAtWork
<1>3. AwaitedBy(run[r]) \subseteq Nat
  BY DEF AwaitedBy
<1>4. \A b \in Awaited : b \in AwaitedBy(run[r])
  BY <1>1, <1>2 DEF Awaited
<1>5. \A b \in AwaitedBy(run[r]) : b \in Awaited
  BY <1>3 DEF Awaited
<1> QED BY <1>4, <1>5

\* Nothing is awaited when nothing goes on.
LEMMA QuietAwaits ==
  ASSUME Quiet
  PROVE  Awaited = {}
BY DEF Quiet, Awaited, AwaitedBy

\* Who moves the head of a thread in which something is awaited.
LEMMA HeadMoves ==
  ASSUME ThreadTyped, OneAtWork, PatientNext
  PROVE  \/ msgs' = msgs /\ head' = head
         \/ \E r \in Runs : Patient!Outcome(r)
         \/ Awaited = {}
<1>1. CASE Chosen \/ \E r \in Runs : Asked(r)
  BY <1>1, QuietAwaits DEF Chosen, Asked
<1>2. ASSUME NEW r \in Runs,
             Patient!Place(r) \/ Patient!Answer(r) \/ (\E b \in Batches : Patient!Request(r, b))
             \/ Patient!Store(r)
      PROVE  Awaited = {}
  <2>1. run[r].at \in {"placing", "thinking", "executing", "replaying"}
    BY <1>2 DEF Patient!Place, Patient!Answer, Patient!Request, Patient!Store
  <2>2. Busy(run[r]) /\ AwaitedBy(run[r]) = {}
    BY <2>1 DEF Busy, AwaitedBy
  <2> QED BY <2>2, Alone
<1>3. Crashes \/ Restarts \/ Lapses => msgs' = msgs /\ head' = head
  BY DEF Crashes, Restarts, Lapses
<1>4. ASSUME NEW r \in Runs, Enters(r) \/ Fails(r)
      PROVE  msgs' = msgs /\ head' = head
  BY <1>4 DEF Enters, Fails
<1>5. ASSUME NEW r \in Runs,
             \/ (\E d \in Patient!Decisions : Patient!Decide(r, d))
             \/ Patient!StartLoop(r) \/ Patient!Read(r) \/ Patient!GiveUp(r)
             \/ Patient!Ask(r) \/ Patient!EndBatch(r)
      PROVE  msgs' = msgs /\ head' = head
  BY <1>5 DEF Patient!Decide, Patient!StartLoop, Patient!Read, Patient!GiveUp, Patient!Ask,
              Patient!EndBatch
<1>6. ASSUME NEW r \in Runs,
             \/ Patient!Replay(r) \/ (\E i \in 1..MaxBatch : Patient!Execute(r, i))
             \/ Patient!Claim(r) \/ Patient!Load(r) \/ Patient!TakeParent(r) \/ Patient!Resolve(r)
      PROVE  msgs' = msgs /\ head' = head
  BY <1>6 DEF Patient!Replay, Patient!Execute, Patient!Claim, Patient!Load,
              Patient!TakeParent, Patient!Resolve
<1> QED BY <1>1, <1>2, <1>3, <1>4, <1>5, <1>6 DEF PatientNext, SharedRun

\* The outcome of a run does not come between a batch and its results.
LEMMA WaitingGrows ==
  ASSUME ThreadTyped, NEW new, Added(head, new), new.role = "assistant", new.calls = <<>>,
         NEW b, Waiting(msgs, b, head)
  PROVE  Waiting(msgs', b, head')
<1> DEFINE n == Len(msgs)
<1>1. n \in Nat /\ head' = n + 1 /\ msgs'[n + 1] = new
      /\ LineTo(msgs', n + 1) = {n + 1} \cup LineTo(msgs, head)
      /\ \A i \in 1..n : msgs'[i] = msgs[i]
  BY DEF Added, Extends
<1>2. LineTo(msgs, head) \subseteq 1..n
  BY HeadLine
<1>3. \A j \in LineTo(msgs, head) : msgs'[j] = msgs[j]
  BY <1>1, <1>2
<1>4. Notice(msgs', n + 1)
  BY <1>1 DEF Notice
<1> HIDE DEF n
<1> QED BY <1>1, <1>3, <1>4 DEF Waiting, Notice

\* The message Outcome adds,
LEMMA OutcomeDoes ==
  ASSUME ThreadTyped, NEW r \in Runs, Patient!Outcome(r)
  PROVE  \E new : /\ Added(head, new) /\ new.role = "assistant"
                  /\ new.calls = <<>> /\ new.answers = None
                  /\ new.parent = head
                  /\ new.turn = None
<1>1. Patient!Add("assistant", head, None, <<>>, None) /\ Patient!End(r) /\ head \in 0..Len(msgs)
  BY Typing DEF Patient!Outcome
<1>2. Added(head, [role |-> "assistant", parent |-> head, turn |-> None,
                     calls |-> <<>>, answers |-> None])
  BY <1>1, NoticeDoes
<1> QED BY <1>2

\* and the one Request adds.
LEMMA RequestAdds ==
  ASSUME ThreadTyped, NEW r \in Runs, NEW c \in Batches, Patient!Request(r, c)
  PROVE  /\ Added(run[r].parent, [role |-> "assistant", parent |-> run[r].parent, turn |-> None,
                                  calls |-> c, answers |-> None])
         /\ LineTo(msgs, run[r].parent) \subseteq 1..Len(msgs)
         /\ c # <<>>
<1>1. Patient!Add("assistant", run[r].parent, None, c, None) /\ c # <<>>
      /\ run[r].parent \in 0..Len(msgs)
  BY RequestDoes, Typing
<1>2. "assistant" \in {"user", "assistant", "tool"} /\ None \in Turns \cup {None}
      /\ None \in Patient!Calls \cup {None} /\ c \in Batches \cup {<<>>}
  OBVIOUS
<1>3. Added(run[r].parent, [role |-> "assistant", parent |-> run[r].parent, turn |-> None,
                            calls |-> c, answers |-> None])
  BY <1>1, <1>2, Adds, Zenon
<1>4. LineTo(msgs, run[r].parent) \subseteq 1..Len(msgs)
  <2>1. LineTo(msgs, run[r].parent) \subseteq 1..run[r].parent
    BY <1>1, LineFacts, Typing
  <2> QED BY <1>1, <2>1, Typing
<1> QED BY <1>1, <1>3, <1>4

\* A batch that is awaited stays the last of the history.
LEMMA WaitKeeps ==
  ASSUME ThreadTyped, OneAtWork, WaitInv, PatientNext, SharedNext
  PROVE  WaitInv'
<1>0. Orderly
  BY TypedKeeps
<1>1. ASSUME NEW b \in Awaited' PROVE Waiting(msgs, b, head)'
  <2>1. CASE b \in Awaited
    <3>1. Waiting(msgs, b, head)
      BY <2>1 DEF WaitInv
    <3>2. CASE msgs' = msgs /\ head' = head
      BY <3>1, <3>2
    <3>3. CASE \E r \in Runs : Patient!Outcome(r)
      BY <3>1, <3>3, OutcomeDoes, WaitingGrows
    <3> QED BY <2>1, <3>2, <3>3, HeadMoves
  <2>2. CASE b \notin Awaited
    <3> DEFINE n == Len(msgs)
    <3>1. PICK r \in Runs, c \in Batches : Patient!Request(r, c) /\ b = n + 1
      BY <2>2, AwaitedMoves
    <3>2. c # <<>> /\ LineTo(msgs, run[r].parent) \subseteq 1..n
      BY <3>1, RequestAdds
    <3>5. n \in Nat /\ head' = n + 1 /\ msgs'[n + 1].calls = c
          /\ LineTo(msgs', n + 1) = {n + 1} \cup LineTo(msgs, run[r].parent)
      <4>1. Added(run[r].parent, [role |-> "assistant", parent |-> run[r].parent,
                                  turn |-> None, calls |-> c, answers |-> None])
        BY <3>1, RequestAdds
      <4> QED BY <4>1 DEF Added
    <3>6. \A j \in LineTo(msgs', n + 1) : ~ (j > n + 1)
      BY <3>2, <3>5
    <3> HIDE DEF n
    <3> QED BY <3>1, <3>2, <3>5, <3>6 DEF Waiting
  <2> QED BY <2>1, <2>2
<1>2. ASSUME NEW x \in Runs, run'[x].at \in {"loaded", "replaying"}
      PROVE  run'[x].batch = run'[x].asked[1]
  <2>1. CASE BatchesStay
    BY <1>2, <2>1 DEF BatchesStay, AtBatch, WaitInv
  <2>2. ASSUME NEW r \in Runs, NEW e, Becomes(r, e),
               e.at \in {"loaded", "replaying"} => e.batch = e.asked[1]
        PROVE  run'[x].batch = run'[x].asked[1]
    <3>1. run'[r] = e /\ (x # r => run'[x] = run[x])
      BY <1>0, <2>2, BecomesTyped
    <3> QED BY <1>2, <2>2, <3>1 DEF WaitInv
  <2>3. ASSUME NEW r \in Runs, BatchStep(r) PROVE run'[x].batch = run'[x].asked[1]
    <3>1. CASE \E b \in Batches : Patient!Request(r, b)
      BY <2>2, <3>1, RequestDoes
    <3>2. CASE Patient!Ask(r)
      BY <2>2, <3>2, AskIsOrderly DEF Blank
    <3>3. CASE Patient!Store(r)
      <4>1. PICK e : /\ Becomes(r, e) /\ e.at = run[r].at
                     /\ e.batch = run[r].batch /\ e.asked = run[r].asked
        BY <3>3, StoreDoes
      <4> QED BY <2>2, <4>1 DEF WaitInv
    <3>4. CASE Patient!Replay(r) \/ \E i \in 1..MaxBatch : Patient!Execute(r, i)
      <4>1. PICK e : /\ Becomes(r, e) /\ e.at = run[r].at
                     /\ e.batch = run[r].batch /\ e.asked = run[r].asked
        BY <3>4, ToolRuns
      <4> QED BY <2>2, <4>1 DEF WaitInv
    <3>5. CASE Patient!Claim(r)
      BY <2>2, <3>5, ClaimIsOrderly DEF Moved, Blank
    <3>6. CASE Patient!Load(r)
      <4>1. CASE \E e : Becomes(r, e) /\ Blank(e, "over")
        BY <2>2, <4>1 DEF Blank
      <4>2. CASE \E e : /\ Becomes(r, e) /\ e.at = "loaded"
                        /\ e.batch = Patient!LastBatch(msgs, LineTo(msgs, head))
                        /\ e.asked = run[r].asked
        <5> DEFINE b == run[r].asked[1]
                   last1 == Patient!LastBatch(msgs, LineTo(msgs, head))
        <5>1. run[r].at = "claimed" /\ b \in Nat
          <6>1. run[r].at = "claimed" /\ RunTyped(run[r], msgs, decided)
            BY <3>6, Typing DEF Patient!Load
          <6>2. Known(msgs, run[r].asked)
            BY <6>1 DEF RunTyped
          <6> QED BY <6>1, <6>2 DEF Known
        <5>2. b \in Awaited
          BY <5>1 DEF Awaited, AwaitedBy
        <5>3. Waiting(msgs, b, head)
          BY <5>2 DEF WaitInv
        <5>4. LineTo(msgs, head) \subseteq 1..Len(msgs)
          BY HeadLine
        <5>5. /\ last1 \in 0..Len(msgs) /\ b <= last1
              /\ last1 # 0 => last1 \in LineTo(msgs, head) /\ msgs[last1].calls # <<>>
          BY <5>3, <5>4, LastBatchIs DEF Waiting
        <5>6. last1 = b
          <6>1. b \in 1..Len(msgs) /\ Len(msgs) \in Nat
            BY <5>3, <5>4, Typing DEF Waiting
          <6> HIDE DEF b, last1
          <6> QED BY <5>3, <5>5, <6>1 DEF Waiting, Notice
        <5> QED BY <2>2, <4>2, <5>6
      <4> QED BY <3>6, <4>1, <4>2, LoadKinds
    <3>7. CASE Patient!TakeParent(r)
      <4>1. run[r].batch = run[r].asked[1]
        BY <3>7 DEF Patient!TakeParent, WaitInv
      <4> QED BY <2>2, <3>7, <4>1, TakeParentDoes
    <3> QED BY <2>3, <3>1, <3>2, <3>3, <3>4, <3>5, <3>6, <3>7 DEF BatchStep
  <2> QED BY <2>1, <2>3, FewBatch
<1> QED BY <1>1, <1>2 DEF WaitInv

\* No tool of batch b was run.
Unran(counts, b) == \A i \in 1..MaxBatch : counts[<<b, i>>] = 0

OnceInv ==
  /\ \A c \in Patient!Calls : ran[c] <= 1
  /\ \A b \in Awaited : Unran(ran, b)
  /\ \A r \in Runs : run[r].at \in {"executing", "replaying"} =>
       \A i \in (1..MaxBatch) \ run[r].done : ran[<<run[r].batch, i>>] = 0

\* No call of a message that is new was run.
LEMMA NewIsUnran ==
  ASSUME ThreadTyped, NEW b, b = Len(msgs) + 1, b <= MaxMessages
  PROVE  Unran(ran, b)
<1>1. Len(msgs) \in Nat /\ ran \in [Patient!Calls -> Nat]
  BY DEF ThreadTyped, Tree, Patient!TypeOK
<1>2. ASSUME NEW i \in 1..MaxBatch PROVE ran[<<b, i>>] = 0
  <2>1. <<b, i>> \in Patient!Calls /\ <<b, i>>[1] = b
    BY <1>1, Constants DEF Patient!Calls
  <2>2. ~ Known(msgs, <<b, i>>)
    BY <1>1, <2>1 DEF Known
  <2>3. ~ (ran[<<b, i>>] > 0)
    BY <2>1, <2>2 DEF ThreadTyped
  <2> QED BY <1>1, <2>1, <2>3
<1> QED BY <1>2 DEF Unran

\* No call runs twice.
LEMMA OnceKeeps ==
  ASSUME ThreadTyped, OneAtWork, WaitInv, OnceInv, PatientNext, SharedNext
  PROVE  OnceInv'
<1>0. Orderly /\ ran \in [Patient!Calls -> Nat]
  BY TypedKeeps DEF ThreadTyped, Patient!TypeOK
<1>1. CASE ran' = ran
  <2>1. ASSUME NEW b \in Awaited' PROVE Unran(ran, b)
    <3>1. CASE b \in Awaited
      BY <3>1 DEF OnceInv
    <3>2. CASE b \notin Awaited
      <4>1. PICK r \in Runs, c \in Batches : Patient!Request(r, c) /\ b = Len(msgs) + 1
        BY <3>2, AwaitedMoves
      <4>2. b <= MaxMessages
        BY <4>1, RequestAdds DEF Added
      <4> QED BY <4>1, <4>2, NewIsUnran
    <3> QED BY <3>1, <3>2
  <2>2. ASSUME NEW x \in Runs, run'[x].at \in {"executing", "replaying"},
               NEW i \in (1..MaxBatch) \ run'[x].done
        PROVE  ran[<<run'[x].batch, i>>] = 0
    <3>1. CASE BatchesStay
      BY <2>2, <3>1 DEF BatchesStay, AtBatch, OnceInv
    <3>2. ASSUME NEW r \in Runs, NEW e, Becomes(r, e), x = r => ran[<<e.batch, i>>] = 0
          PROVE  ran[<<run'[x].batch, i>>] = 0
      <4>1. run'[r] = e /\ (x # r => run'[x] = run[x])
        BY <1>0, <3>2, BecomesTyped
      <4> QED BY <2>2, <3>2, <4>1 DEF OnceInv
    <3>3. ASSUME NEW r \in Runs, NEW e, Becomes(r, e), e.at \notin {"executing", "replaying"}
          PROVE  ran[<<run'[x].batch, i>>] = 0
      <4>1. run'[r] = e
        BY <1>0, <3>3, BecomesTyped
      <4> QED BY <2>2, <3>2, <3>3, <4>1
    <3>4. ASSUME NEW r \in Runs, NEW e, Becomes(r, e), e.at = run[r].at, e.batch = run[r].batch,
                 run[r].done \subseteq e.done
          PROVE  ran[<<run'[x].batch, i>>] = 0
      <4>1. run'[r] = e
        BY <1>0, <3>4, BecomesTyped
      <4> QED BY <2>2, <3>2, <3>4, <4>1 DEF OnceInv
    <3>5. ASSUME NEW r \in Runs, BatchStep(r) PROVE ran[<<run'[x].batch, i>>] = 0
      <4>1. ASSUME NEW b \in Batches, Patient!Request(r, b) PROVE ran[<<run'[x].batch, i>>] = 0
        <5>1. PICK e : Becomes(r, e) /\ e.batch = Len(msgs) + 1
          BY <4>1, RequestDoes
        <5>2. Len(msgs) + 1 <= MaxMessages
          BY <4>1, RequestAdds DEF Added
        <5>3. Unran(ran, Len(msgs) + 1)
          BY <5>2, NewIsUnran
        <5> QED BY <2>2, <3>2, <5>1, <5>3 DEF Unran
      <4>2. CASE Patient!Ask(r)
        BY <3>3, <4>2, AskIsOrderly DEF Blank
      <4>3. CASE Patient!Store(r)
        BY <3>4, <4>3, StoreDoes
      <4>4. CASE Patient!Replay(r) \/ \E j \in 1..MaxBatch : Patient!Execute(r, j)
        <5>1. PICK e : /\ Becomes(r, e) /\ e.at = run[r].at /\ e.batch = run[r].batch
                       /\ run[r].done \subseteq e.done
          BY <4>4, ToolRuns
        <5> QED BY <3>4, <5>1
      <4>5. CASE Patient!Claim(r)
        BY <3>3, <4>5, ClaimIsOrderly DEF Moved, Blank
      <4>6. CASE Patient!Load(r)
        BY <3>3, <4>6, LoadKinds DEF Blank
      <4>7. CASE Patient!TakeParent(r)
        <5>1. PICK e : Becomes(r, e) /\ e.batch = run[r].batch
          BY <4>7, TakeParentDoes
        <5>2. run[r].at = "loaded" /\ run[r].batch = run[r].asked[1] /\ run[r].batch \in Nat
          BY <4>7, Typing DEF Patient!TakeParent, WaitInv
        <5>3. run[r].batch \in Awaited
          BY <5>2 DEF Awaited, AwaitedBy
        <5>4. Unran(ran, run[r].batch)
          BY <5>3 DEF OnceInv
        <5> QED BY <2>2, <3>2, <5>1, <5>4 DEF Unran
      <4> QED BY <3>5, <4>1, <4>2, <4>3, <4>4, <4>5, <4>6, <4>7 DEF BatchStep
    <3> QED BY <3>1, <3>5, FewBatch
  <2> QED BY <1>1, <2>1, <2>2 DEF OnceInv
<1>2. ASSUME NEW r \in Runs, Patient!Replay(r) \/ \E i \in 1..MaxBatch : Patient!Execute(r, i),
             ran' # ran
      PROVE  OnceInv'
  <2>1. PICK i, e :
             /\ i \in (1..MaxBatch) \ run[r].done /\ <<run[r].batch, i>> \in Patient!Calls
             /\ ran' = [ran EXCEPT ![<<run[r].batch, i>>] = @ + 1]
             /\ Becomes(r, e) /\ e.done = run[r].done \cup {i} /\ e.batch = run[r].batch
             /\ e.at = run[r].at
    BY <1>2, ToolRuns, ZenonT(60)
  <2> DEFINE c == <<run[r].batch, i>>
  <2>2. run[r].at \in {"executing", "replaying"}
    BY <1>2 DEF Patient!Replay, Patient!Execute
  <2>3. Busy(run[r]) /\ AwaitedBy(run[r]) = {}
    BY <2>2 DEF Busy, AwaitedBy
  <2>4. Awaited' = {}
    <3>1. Awaited = {}
      BY <2>3, Alone
    <3>2. ~ \E x \in Runs, b \in Batches : Patient!Request(x, b)
      <4>1. ASSUME NEW x \in Runs, NEW b \in Batches, Patient!Request(x, b) PROVE FALSE
        <5>1. msgs' = msgs
          BY <1>2, ToolRuns
        <5>2. Len(msgs') = Len(msgs) + 1 /\ Len(msgs) \in Nat
          BY <4>1, RequestAdds DEF Added
        <5> QED BY <5>1, <5>2
      <4> QED BY <4>1
    <3> QED BY <3>1, <3>2, AwaitedMoves
  <2>5. ran[c] = 0
    BY <2>1, <2>2 DEF OnceInv
  <2>6. /\ ran'[c] = 1
        /\ \A k \in Patient!Calls : k # c => ran'[k] = ran[k]
    BY <1>0, <2>1, <2>5
  <2>7. \A k \in Patient!Calls : ran'[k] <= 1
    BY <2>6 DEF OnceInv
  <2>8. ASSUME NEW x \in Runs, run'[x].at \in {"executing", "replaying"},
               NEW j \in (1..MaxBatch) \ run'[x].done
        PROVE  ran'[<<run'[x].batch, j>>] = 0
    <3>1. run'[r] = e /\ (x # r => run'[x] = run[x])
      BY <1>0, <2>1, BecomesTyped
    <3>2. x = r
      BY <2>3, <2>8, <3>1 DEF OneAtWork, Busy
    <3>3. j \notin run[r].done /\ j # i
      BY <2>1, <2>8, <3>1, <3>2
    <3>4. ran[<<run[r].batch, j>>] = 0
      BY <2>2, <2>8, <3>3 DEF OnceInv
    <3>5. <<run[r].batch, j>> \in Patient!Calls /\ <<run[r].batch, j>> # c
      BY <2>1, <2>8, <3>3 DEF Patient!Calls
    <3> QED BY <2>1, <2>6, <3>1, <3>2, <3>4, <3>5
  <2> QED BY <2>4, <2>7, <2>8 DEF OnceInv
<1> QED BY <1>1, <1>2, FewRun

-----------------------------------------------------------------------------
(* The calls of a thread run once.                                         *)

WorkInv == SharedInv /\ OneAtWork /\ WaitInv /\ OnceInv

\* The invariants hold of a thread without messages, which no request came to,
LEMMA WorkStart ==
  ASSUME Patient!Init
  PROVE  WorkInv
<1>1. /\ pending = None /\ run = [r \in Runs |-> Patient!Fresh]
      /\ ran = [c \in Patient!Calls |-> 0]
  BY DEF Patient!Init
<1>2. \A r \in Runs : run[r].at = "idle"
  BY <1>1 DEF Patient!Fresh
<1>3. SharedInv
  BY SharedStart
<1>4. OneAtWork
  BY <1>2 DEF OneAtWork, Busy
<1>5. Awaited = {}
  BY <1>1, <1>2, QuietAwaits DEF Quiet
<1>6. WaitInv
  BY <1>2, <1>5 DEF WaitInv
<1>7. OnceInv
  BY <1>1, <1>2, <1>5 DEF OnceInv
<1> QED BY <1>3, <1>4, <1>6, <1>7 DEF WorkInv

\* are kept while another part moves,
LEMMA WorkIsLeft ==
  ASSUME WorkInv, UNCHANGED conversationVars
  PROVE  WorkInv'
<1>1. /\ msgs' = msgs /\ head' = head /\ pending' = pending /\ run' = run /\ ran' = ran
  BY DEF conversationVars
<1>2. Awaited' = Awaited
  BY <1>1 DEF Awaited
<1>3. SharedInv'
  BY SharedStays DEF WorkInv
<1>4. OneAtWork'
  BY <1>1 DEF WorkInv, OneAtWork
<1>5. WaitInv'
  BY <1>1, <1>2 DEF WorkInv, WaitInv
<1>6. OnceInv'
  BY <1>1, <1>2 DEF WorkInv, OnceInv
<1> QED BY <1>3, <1>4, <1>5, <1>6 DEF WorkInv

\* and by every step of clients that wait.
LEMMA WorkKeeps ==
  ASSUME WorkInv, Patient!Next
  PROVE  WorkInv'
<1>1. PatientNext /\ SharedNext
  BY PatientWaits DEF WorkInv
<1>2. ThreadTyped /\ OneAtWork /\ WaitInv /\ OnceInv
  BY DEF WorkInv, SharedInv
<1>3. SharedInv'
  BY <1>1, SharedKeeps DEF WorkInv
<1> QED BY <1>1, <1>2, <1>3, OneKeeps, WaitKeeps, OnceKeeps DEF WorkInv

\* The tool of a call runs at most once, through decisions sent twice, approvals
\* that lapse, cancellations and crashes; a call that asks runs only once an approval
\* of that very call was claimed, with one decision (claim_pending_approval).
THEOREM ToolsRunOnce == Spec => []CallsRunOnce
<1> DEFINE Inv == (part = "patient" => WorkInv) /\ (part = "hasty" => SharedInv)
<1>1. Init => Inv
  BY WorkStart, SharedStart DEF Init
<1>2. Inv /\ [Next]_vars => Inv'
  <2> SUFFICES ASSUME Inv, [Next]_vars PROVE Inv'
    OBVIOUS
  <2>1. part' = part
    BY DEF Next, vars
  <2>2. ASSUME part = "patient" PROVE WorkInv'
    <3>1. Patient!Next \/ UNCHANGED conversationVars
      BY <2>2 DEF Next, vars
    <3> QED BY <2>2, <3>1, WorkKeeps, WorkIsLeft
  <2>3. ASSUME part = "hasty" PROVE SharedInv'
    <3>1. Hasty!Next \/ UNCHANGED conversationVars
      BY <2>3 DEF Next, vars
    <3> QED BY <2>3, <3>1, HastyShares, SharedKeeps, SharedStays
  <2> QED BY <2>1, <2>2, <2>3
<1>3. Inv => CallsRunOnce
  <2>1. ASSUME part = "patient", WorkInv
        PROVE  Patient!TypeOK /\ Patient!CallsRunOnce /\ Patient!DecisionIsObeyed
    <3>1. Patient!TypeOK /\ Patient!DecisionIsObeyed
      BY <2>1, SharedShows DEF WorkInv
    <3>2. Patient!CallsRunOnce
      BY <2>1 DEF WorkInv, OnceInv, Patient!CallsRunOnce
    <3> QED BY <3>1, <3>2
  <2>2. ASSUME part = "hasty", SharedInv PROVE Hasty!TypeOK /\ Hasty!DecisionIsObeyed
    BY <2>2, SharedShows
  <2> QED BY <2>1, <2>2 DEF CallsRunOnce
<1> QED BY <1>1, <1>2, <1>3, PTL DEF Spec

-----------------------------------------------------------------------------
(* What of a sequence is kept: Kept of ModelFallback is the last value of  *)
(* a function that follows its equation (KeptIs), and so a part of the     *)
(* sequence in its order (KeptIsPicked).                                   *)

\* Kept is the last value of a function that follows its equation.
KeptBy(f, t, places, n) ==
  f = [m \in 0..n |->
        IF m = 0 THEN <<>>
        ELSE IF m \in places THEN Append(f[m - 1], t[m]) ELSE f[m - 1]]

LEMMA KeptGrows ==
  ASSUME NEW t, NEW places, NEW n \in Nat, NEW f, KeptBy(f, t, places, n)
  PROVE  \E g : KeptBy(g, t, places, n + 1)
<1> DEFINE after == IF n + 1 \in places THEN Append(f[n], t[n + 1]) ELSE f[n]
           g == [m \in 0..(n + 1) |-> IF m = n + 1 THEN after ELSE f[m]]
<1>1. f = [m \in 0..n |->
            IF m = 0 THEN <<>>
            ELSE IF m \in places THEN Append(f[m - 1], t[m]) ELSE f[m - 1]]
  BY DEF KeptBy
<1>2. \A m \in 0..n : g[m] = f[m]
  OBVIOUS
<1>3. g[n + 1] = after
  OBVIOUS
<1>4. ASSUME NEW m \in 0..(n + 1)
      PROVE  g[m] = IF m = 0 THEN <<>>
                    ELSE IF m \in places THEN Append(g[m - 1], t[m]) ELSE g[m - 1]
  <2>1. CASE m = n + 1
    <3>1. g[m - 1] = f[n] /\ m # 0
      BY <2>1, <1>2
    <3> HIDE DEF g
    <3> QED BY <3>1, <2>1, <1>3
  <2>2. CASE m \in 0..n
    <3>1. m # 0 => m - 1 \in 0..n
      BY <2>2
    <3>2. m # 0 => g[m - 1] = f[m - 1]
      BY <3>1, <1>2
    <3>3. g[m] = f[m]
      BY <2>2, <1>2
    <3>4. f[m] = IF m = 0 THEN <<>>
                 ELSE IF m \in places THEN Append(f[m - 1], t[m]) ELSE f[m - 1]
      BY <1>1, <2>2
    <3> HIDE DEF g
    <3> QED BY <3>2, <3>3, <3>4
  <2> QED BY <2>1, <2>2
<1>5. g = [m \in 0..(n + 1) |-> g[m]]
  OBVIOUS
<1> HIDE DEF g
<1>6. KeptBy(g, t, places, n + 1)
  BY <1>4, <1>5 DEF KeptBy
<1> QED BY <1>6

LEMMA KeptIs ==
  ASSUME NEW t, NEW places, Len(t) \in Nat
  PROVE  \E f : KeptBy(f, t, places, Len(t)) /\ Client!Kept(t, places) = f[Len(t)]
<1> DEFINE Without == {n \in Nat : ~ \E f : KeptBy(f, t, places, n)}
<1>1. CASE Without = {}
  <2>1. PICK f : KeptBy(f, t, places, Len(t))
    BY <1>1
  <2>2. \E g : g = [m \in 0..Len(t) |->
          IF m = 0 THEN <<>>
          ELSE IF m \in places THEN Append(g[m - 1], t[m]) ELSE g[m - 1]]
    BY <2>1 DEF KeptBy
  <2> QED BY <2>2 DEF Client!Kept, KeptBy
<1>2. CASE Without # {}
  <2>1. PICK n \in Without : \A k \in Without : n <= k
    BY <1>2, Least
  <2>2. n # 0
    <3>1. KeptBy([m \in 0..0 |-> <<>>], t, places, 0)
      BY DEF KeptBy
    <3> QED BY <3>1, <2>1
  <2>3. n - 1 \in Nat /\ n - 1 \notin Without
    BY <2>1, <2>2
  <2>4. PICK f : KeptBy(f, t, places, n - 1)
    BY <2>3
  <2>5. \E g : KeptBy(g, t, places, (n - 1) + 1)
    BY <2>3, <2>4, KeptGrows
  <2> QED BY <2>5, <2>1
<1> QED BY <1>1, <1>2

\* A part of the beginning of t, in the order of its places.
Picked(r, t, places, n) ==
  \E h : /\ r \in Seq({t[i] : i \in DOMAIN t})
         /\ \A k \in 1..Len(r) : h[k] \in 1..n /\ h[k] \in places /\ r[k] = t[h[k]]
         /\ \A k, l \in 1..Len(r) : k < l => h[k] < h[l]

LEMMA PickedGrows ==
  ASSUME NEW T, NEW t \in Seq(T), NEW places, NEW n \in Nat, n + 1 \in 1..Len(t),
         NEW r, Picked(r, t, places, n)
  PROVE  /\ Picked(r, t, places, n + 1)
         /\ n + 1 \in places => Picked(Append(r, t[n + 1]), t, places, n + 1)
<1> DEFINE E == {t[i] : i \in DOMAIN t}
<1>1. PICK h : /\ r \in Seq(E)
               /\ \A k \in 1..Len(r) : h[k] \in 1..n /\ h[k] \in places /\ r[k] = t[h[k]]
               /\ \A k, l \in 1..Len(r) : k < l => h[k] < h[l]
  BY DEF Picked
<1>2. \A k \in 1..Len(r) : h[k] \in 1..(n + 1)
  BY <1>1
<1>3. Picked(r, t, places, n + 1)
  BY <1>1, <1>2 DEF Picked
<1>4. ASSUME n + 1 \in places
      PROVE  Picked(Append(r, t[n + 1]), t, places, n + 1)
  <2> DEFINE a == Append(r, t[n + 1])
             g == [k \in 1..(Len(r) + 1) |-> IF k = Len(r) + 1 THEN n + 1 ELSE h[k]]
  <2>1. n + 1 \in DOMAIN t /\ Len(r) \in Nat /\ t[n + 1] \in E
    BY <1>1
  <2> HIDE DEF E
  <2>2. a \in Seq(E) /\ Len(a) = Len(r) + 1 /\ a[Len(r) + 1] = t[n + 1]
    BY <1>1, <2>1
  <2>3. \A k \in 1..Len(r) : a[k] = r[k]
    BY <1>1, <2>1
  <2>4. \A k \in 1..Len(r) : g[k] = h[k]
    BY <2>1
  <2>5. g[Len(r) + 1] = n + 1
    BY <2>1
  <2> HIDE DEF a, g
  <2>6. ASSUME NEW k \in 1..Len(a)
        PROVE  g[k] \in 1..(n + 1) /\ g[k] \in places /\ a[k] = t[g[k]]
    <3>1. CASE k = Len(r) + 1
      BY <3>1, <2>2, <2>5, <1>4
    <3>2. CASE k \in 1..Len(r)
      BY <3>2, <2>3, <2>4, <1>1, <1>2
    <3> QED BY <3>1, <3>2, <2>1, <2>2
  <2>7. ASSUME NEW k \in 1..Len(a), NEW l \in 1..Len(a), k < l
        PROVE  g[k] < g[l]
    <3>0. k \in 1..Len(r) /\ (l \in 1..Len(r) \/ l = Len(r) + 1)
      BY <2>7, <2>1, <2>2
    <3>1. CASE l = Len(r) + 1
      <4>1. g[k] \in 1..n /\ g[l] = n + 1
        BY <3>0, <3>1, <2>4, <2>5, <1>1
      <4> QED BY <4>1
    <3>2. CASE l \in 1..Len(r)
      BY <3>0, <3>2, <2>4, <1>1, <2>7
    <3> QED BY <3>0, <3>1, <3>2
  <2> QED BY <2>2, <2>6, <2>7 DEF Picked, a, E
<1> QED BY <1>3, <1>4

\* What Kept returns.
LEMMA KeptIsPicked ==
  ASSUME NEW T, NEW t \in Seq(T), NEW places
  PROVE  Picked(Client!Kept(t, places), t, places, Len(t))
<1>0. Len(t) \in Nat
  OBVIOUS
<1>1. PICK f : KeptBy(f, t, places, Len(t)) /\ Client!Kept(t, places) = f[Len(t)]
  BY <1>0, KeptIs
<1>2. \A m \in 0..Len(t) : f[m] =
         IF m = 0 THEN <<>> ELSE IF m \in places THEN Append(f[m - 1], t[m]) ELSE f[m - 1]
  <2>1. f = [m \in 0..Len(t) |-> IF m = 0 THEN <<>>
               ELSE IF m \in places THEN Append(f[m - 1], t[m]) ELSE f[m - 1]]
    BY <1>1 DEF KeptBy
  <2> QED BY <2>1
<1> DEFINE Wrong == {m \in 0..Len(t) : ~ Picked(f[m], t, places, m)}
<1>3. CASE Wrong = {}
  <2>1. Len(t) \in 0..Len(t)
    BY <1>0
  <2> QED BY <2>1, <1>3, <1>1
<1>4. CASE Wrong # {}
  <2>0. Wrong \subseteq Nat
    OBVIOUS
  <2>1. PICK m \in Wrong : \A k \in Wrong : m <= k
    <3> HIDE DEF Wrong
    <3> QED BY <1>4, <2>0, Least
  <2>2. m # 0
    <3>1. Picked(<<>>, t, places, 0)
      <4>1. <<>> \in Seq({t[i] : i \in DOMAIN t}) /\ Len(<<>>) = 0
        OBVIOUS
      <4> QED BY <4>1 DEF Picked
    <3>2. ASSUME m = 0 PROVE FALSE
      <4>1. f[0] = <<>>
        BY <1>2, <1>0
      <4> QED BY <3>1, <3>2, <4>1, <2>1
    <3> QED BY <3>2
  <2>3. m - 1 \in Nat /\ m \in 1..Len(t) /\ m = (m - 1) + 1
    BY <2>1, <2>2, <1>0
  <2>4. Picked(f[m - 1], t, places, m - 1)
    BY <2>1, <2>3
  <2>5. /\ Picked(f[m - 1], t, places, m)
        /\ m \in places => Picked(Append(f[m - 1], t[m]), t, places, m)
    BY <2>3, <2>4, PickedGrows
  <2>6. f[m] = IF m \in places THEN Append(f[m - 1], t[m]) ELSE f[m - 1]
    BY <1>2, <2>1, <2>2
  <2> QED BY <2>1, <2>5, <2>6
<1> QED BY <1>3, <1>4

-----------------------------------------------------------------------------
(* The candidates.                                                         *)

LEMMA WhereIs ==
  ASSUME NEW t \in Seq(Models), NEW set
  PROVE  /\ Client!Where(t, set) \in Seq(Models)
         /\ \A i \in DOMAIN Client!Where(t, set) :
              Client!Where(t, set)[i] \in set /\ Client!Where(t, set)[i] \in ToSet(t)
<1> DEFINE places == {i \in DOMAIN t : t[i] \in set}
           r == Client!Where(t, set)
<1>1. Picked(r, t, places, Len(t))
  BY KeptIsPicked DEF Client!Where
<1> HIDE DEF r
<1>2. r \in Seq({t[i] : i \in DOMAIN t})
  BY <1>1 DEF Picked
<1>3. {t[i] : i \in DOMAIN t} \subseteq Models
  OBVIOUS
<1>4. r \in Seq(Models)
  BY <1>2, <1>3
<1>5. ASSUME NEW i \in DOMAIN r PROVE r[i] \in set /\ r[i] \in ToSet(t)
  <2>1. PICK h : \A k \in 1..Len(r) : h[k] \in 1..Len(t) /\ h[k] \in places /\ r[k] = t[h[k]]
    BY <1>1 DEF Picked
  <2>2. i \in 1..Len(r)
    BY <1>4
  <2> QED BY <2>1, <2>2 DEF ToSet
<1> QED BY <1>4, <1>5 DEF r

LEMMA DedupedIs ==
  ASSUME NEW t \in Seq(Models)
  PROVE  /\ Client!Deduped(t) \in Seq(Models)
         /\ \A i \in DOMAIN Client!Deduped(t) : Client!Deduped(t)[i] \in ToSet(t)
         /\ \A i, j \in DOMAIN Client!Deduped(t) :
              Client!Deduped(t)[i] = Client!Deduped(t)[j] => i = j
<1> DEFINE places == {i \in DOMAIN t : t[i] # NoModel /\ \A j \in 1..(i - 1) : t[j] # t[i]}
           r == Client!Deduped(t)
<1>1. Picked(r, t, places, Len(t))
  BY KeptIsPicked DEF Client!Deduped
<1> HIDE DEF r
<1>2. r \in Seq({t[i] : i \in DOMAIN t})
  BY <1>1 DEF Picked
<1>3. {t[i] : i \in DOMAIN t} \subseteq Models
  OBVIOUS
<1>4. r \in Seq(Models)
  BY <1>2, <1>3
<1>5. DOMAIN r = 1..Len(r) /\ Len(r) \in Nat
  BY <1>4
<1>6. PICK h : /\ \A k \in 1..Len(r) : h[k] \in 1..Len(t) /\ h[k] \in places /\ r[k] = t[h[k]]
               /\ \A k, l \in 1..Len(r) : k < l => h[k] < h[l]
  BY <1>1 DEF Picked
<1>7. ASSUME NEW i \in 1..Len(r), NEW j \in 1..Len(r), i < j PROVE r[i] # r[j]
  <2>1. h[i] < h[j] /\ h[i] \in 1..Len(t) /\ h[j] \in 1..Len(t)
    BY <1>6, <1>7
  <2>2. h[i] \in 1..(h[j] - 1)
    BY <2>1
  <2>3. t[h[i]] # t[h[j]]
    BY <1>6, <2>2
  <2> QED BY <1>6, <2>3
<1>8. ASSUME NEW i \in 1..Len(r), NEW j \in 1..Len(r), r[i] = r[j] PROVE i = j
  <2>1. i < j \/ j < i \/ i = j
    BY <1>5
  <2> QED BY <2>1, <1>7, <1>8
<1>9. \A i \in 1..Len(r) : r[i] \in ToSet(t)
  BY <1>6 DEF ToSet
<1> QED BY <1>4, <1>5, <1>8, <1>9 DEF r

\* What the configuration is.
Configured ==
  /\ config.primary \in Models /\ config.order \in Seq(Models) /\ config.image \in Models
  /\ config.order \in Orders
  /\ config.keys \subseteq Providers /\ config.sees \subseteq Models

MayTry(c, m) ==
  \/ m = config.primary
  \/ /\ m \in ToSet(config.order) \cup {config.image} /\ Client!HasKey(m)
     /\ config.images /\ Client!Shared(c) => m \in config.sees

LEMMA ChainIs ==
  ASSUME Configured
  PROVE  /\ Client!Chain(config.primary) \in Seq(Models)
         /\ \A m \in ToSet(Client!Chain(config.primary)) :
              m \in ToSet(config.order) /\ Client!HasKey(m)
<1> DEFINE set == {m \in Models : ProviderOf[m] # ProviderOf[config.primary] /\ Client!HasKey(m)}
<1>1. Client!Chain(config.primary) = Client!Where(config.order, set)
  BY DEF Client!Chain
<1>2. config.order \in Seq(Models)
  BY DEF Configured
<1> HIDE DEF set
<1>3. /\ Client!Where(config.order, set) \in Seq(Models)
      /\ \A i \in DOMAIN Client!Where(config.order, set) :
           /\ Client!Where(config.order, set)[i] \in set
           /\ Client!Where(config.order, set)[i] \in ToSet(config.order)
  BY <1>2, WhereIs
<1> QED BY <1>1, <1>3 DEF set, ToSet

LEMMA JoinIs ==
  ASSUME NEW T, NEW a \in Seq(T), NEW b \in Seq(T)
  PROVE  a \o b \in Seq(T) /\ ToSet(a \o b) = ToSet(a) \cup ToSet(b)
<1>1. a \o b \in Seq(T) /\ Len(a \o b) = Len(a) + Len(b)
  OBVIOUS
<1>2. \A i \in 1..Len(a) : (a \o b)[i] = a[i]
  OBVIOUS
<1>3. \A i \in 1..Len(b) : (a \o b)[Len(a) + i] = b[i]
  OBVIOUS
<1>4. ASSUME NEW i \in 1..Len(a \o b) PROVE (a \o b)[i] \in ToSet(a) \cup ToSet(b)
  <2>1. CASE i \in 1..Len(a)
    BY <2>1, <1>2 DEF ToSet
  <2>2. CASE i \notin 1..Len(a)
    <3>1. i - Len(a) \in 1..Len(b) /\ i = Len(a) + (i - Len(a))
      BY <2>2, <1>1
    <3>2. (a \o b)[i] = b[i - Len(a)]
      BY <3>1, <1>3
    <3> QED BY <3>1, <3>2 DEF ToSet
  <2> QED BY <2>1, <2>2
<1>5. ToSet(a \o b) \subseteq ToSet(a) \cup ToSet(b)
  BY <1>1, <1>4 DEF ToSet
<1>6. ToSet(a) \subseteq ToSet(a \o b)
  <2>1. \A i \in DOMAIN a : i \in DOMAIN (a \o b)
    BY <1>1
  <2> QED BY <2>1, <1>2 DEF ToSet
<1>7. ToSet(b) \subseteq ToSet(a \o b)
  <2>1. \A i \in DOMAIN b : Len(a) + i \in DOMAIN (a \o b)
    BY <1>1
  <2> QED BY <2>1, <1>3 DEF ToSet
<1> QED BY <1>1, <1>5, <1>6, <1>7

\* The candidates are models, of the configuration, and of the client different ones.
LEMMA CandidatesAre ==
  ASSUME Configured, NEW c \in ModelCalls
  PROVE  /\ Client!CandidatesOf(c) \in Seq(Models)
         /\ \A i \in DOMAIN Client!CandidatesOf(c) : MayTry(c, Client!CandidatesOf(c)[i])
         /\ Client!Shared(c) => \A i, j \in DOMAIN Client!CandidatesOf(c) :
              Client!CandidatesOf(c)[i] = Client!CandidatesOf(c)[j] => i = j
<1> DEFINE chain == Client!Chain(config.primary)
           first == <<config.primary>>
<1>1. chain \in Seq(Models) /\ \A m \in ToSet(chain) : m \in ToSet(config.order) /\ Client!HasKey(m)
  BY ChainIs
<1>2. first \in Seq(Models) /\ ToSet(first) = {config.primary}
  BY DEF Configured, ToSet
<1> HIDE DEF chain, first
<1>3. CASE KindOf[c] = "function"
  <2>1. Client!CandidatesOf(c) = first \o chain
    BY <1>3 DEF Client!CandidatesOf, chain, first
  <2>2. first \o chain \in Seq(Models) /\ ToSet(first \o chain) = ToSet(first) \cup ToSet(chain)
    BY <1>1, <1>2, JoinIs
  <2>3. \A m \in ToSet(first \o chain) : MayTry(c, m)
    BY <2>2, <1>1, <1>2, <1>3 DEF MayTry, Client!Shared
  <2>4. ~Client!Shared(c)
    BY <1>3 DEF Client!Shared
  <2> QED BY <2>1, <2>2, <2>3, <2>4 DEF ToSet
<1>4. CASE KindOf[c] # "function"
  <2> DEFINE image == IF config.image \in config.sees /\ Client!HasKey(config.image)
                      THEN <<config.image>> ELSE <<>>
             seen == Client!Where(chain, config.sees)
             rest == IF config.images THEN seen \o image ELSE chain
             all == first \o rest
  <2>1. Client!CandidatesOf(c) = Client!Deduped(all)
    BY <1>4 DEF Client!CandidatesOf, Client!Candidates, chain, first
  <2>2. /\ image \in Seq(Models)
        /\ \A m \in ToSet(image) : m = config.image /\ m \in config.sees /\ Client!HasKey(m)
    BY DEF Configured, ToSet
  <2>3. seen \in Seq(Models) /\ \A m \in ToSet(seen) : m \in ToSet(chain) /\ m \in config.sees
    BY <1>1, WhereIs DEF ToSet
  <2> HIDE DEF image, seen
  <2>4. rest \in Seq(Models) /\ \A m \in ToSet(rest) : MayTry(c, m)
    <3>1. CASE config.images
      <4>1. seen \o image \in Seq(Models) /\ ToSet(seen \o image) = ToSet(seen) \cup ToSet(image)
        BY <2>2, <2>3, JoinIs
      <4>2. \A m \in ToSet(seen \o image) : MayTry(c, m)
        BY <4>1, <2>2, <2>3, <1>1 DEF MayTry
      <4> QED BY <3>1, <4>1, <4>2
    <3>2. CASE ~config.images
      BY <3>2, <1>1 DEF MayTry
    <3> QED BY <3>1, <3>2
  <2> HIDE DEF rest
  <2>5. all \in Seq(Models) /\ ToSet(all) = ToSet(first) \cup ToSet(rest)
    BY <2>4, <1>2, JoinIs
  <2>6. \A m \in ToSet(all) : MayTry(c, m)
    BY <2>4, <2>5, <1>2 DEF MayTry
  <2> HIDE DEF all
  <2>7. /\ Client!Deduped(all) \in Seq(Models)
        /\ \A i \in DOMAIN Client!Deduped(all) : Client!Deduped(all)[i] \in ToSet(all)
        /\ \A i, j \in DOMAIN Client!Deduped(all) :
             Client!Deduped(all)[i] = Client!Deduped(all)[j] => i = j
    BY <2>5, DedupedIs
  <2> QED BY <2>1, <2>6, <2>7
<1> QED BY <1>3, <1>4

-----------------------------------------------------------------------------
(* The invariant.                                                          *)

AtModel(c) == call[c].at \in {"trying", "streaming"}

CallRecord ==
  [at : {"new", "trying", "streaming", "over"}, candidates : Seq(Models), tried : Nat,
   failed : Seq(Client!Errors), spoke : SUBSET Models, outcome : Client!Outcomes, billed : Models]

CallsTyped ==
  /\ Configured /\ last \in Models
  /\ call \in [ModelCalls -> CallRecord] /\ switches \in [ModelCalls -> Seq(Models \X Models)]

Tells(c) ==
  /\ Len(switches[c]) = (IF call[c].tried = 0 THEN 0 ELSE call[c].tried - 1)
  /\ \A i \in 1..Len(switches[c]) :
       switches[c][i] = <<call[c].candidates[i], call[c].candidates[i + 1]>>

Goes(c) ==
  /\ call[c].candidates \in {<<>>, Client!CandidatesOf(c)}
  /\ call[c].tried <= Len(call[c].candidates)
  /\ call[c].at = "new" => call[c] = Client!Fresh
  /\ call[c].tried = 0 => call[c].spoke = {}
  /\ call[c].tried # 0 => call[c].spoke \subseteq {Client!Model(c)}
  /\ AtModel(c) => /\ call[c].tried # 0 /\ Len(call[c].failed) = call[c].tried - 1
                 /\ call[c].outcome = "none"
  /\ call[c].at = "trying" => call[c].spoke = {}
  /\ call[c].outcome = "exhausted" =>
       /\ call[c].tried = Len(call[c].candidates) /\ Len(call[c].failed) = call[c].tried
       /\ call[c].spoke = {}

Books(c) ==
  Client!Alone =>
    /\ AtModel(c) /\ Client!Shared(c) => last = Client!Model(c)
    /\ call[c].outcome = "answered" => call[c].billed \in call[c].spoke

CallInv(c) == Tells(c) /\ Goes(c) /\ Books(c)
FallbackInv == CallsTyped /\ \A c \in ModelCalls : CallInv(c)

LEMMA RecordIs ==
  ASSUME NEW r \in CallRecord
  PROVE  /\ r.at \in {"new", "trying", "streaming", "over"} /\ r.candidates \in Seq(Models)
         /\ r.tried \in Nat /\ r.failed \in Seq(Client!Errors) /\ r.spoke \subseteq Models
         /\ r.outcome \in Client!Outcomes /\ r.billed \in Models
         /\ r = [at |-> r.at, candidates |-> r.candidates, tried |-> r.tried,
                 failed |-> r.failed, spoke |-> r.spoke, outcome |-> r.outcome,
                 billed |-> r.billed]
  BY DEF CallRecord

LEMMA CandidatesStay ==
  ASSUME UNCHANGED config, NEW c \in ModelCalls
  PROVE  Client!CandidatesOf(c)' = Client!CandidatesOf(c)
<1>1. \A m \in Models : Client!HasKey(m)' = Client!HasKey(m)
  BY DEF Client!HasKey
<1>2. Client!Chain(config.primary)' = Client!Chain(config.primary)
  BY DEF Client!Chain, Client!HasKey
<1>3. Client!Candidates(config.primary)' = Client!Candidates(config.primary)
  BY <1>2 DEF Client!Candidates, Client!HasKey
<1> QED BY <1>2, <1>3 DEF Client!CandidatesOf

LEMMA OtherCallsStay ==
  ASSUME FallbackInv, NEW c \in ModelCalls, NEW d \in ModelCalls, d # c, UNCHANGED config,
         call'[d] = call[d], switches'[d] = switches[d], ~Client!Shared(c) => last' = last
  PROVE  CallInv(d)'
<1>1. Client!CandidatesOf(d)' = Client!CandidatesOf(d)
  BY CandidatesStay
<1>2. Tells(d)' /\ Goes(d)'
  BY <1>1 DEF FallbackInv, CallInv, Tells, Goes, AtModel, Client!Model
<1>3. Books(d)'
  <2>1. CASE Client!Alone /\ Client!Shared(d)
    <3>1. last' = last
      BY <2>1 DEF Client!Alone
    <3> QED BY <3>1 DEF FallbackInv, CallInv, Books, AtModel, Client!Model,
                        Client!Alone, Client!Shared
  <2>2. CASE ~(Client!Alone /\ Client!Shared(d))
    BY <2>2 DEF FallbackInv, CallInv, Books, AtModel, Client!Model, Client!Alone, Client!Shared
  <2> QED BY <2>1, <2>2
<1> QED BY <1>2, <1>3 DEF CallInv

\* What a step of c keeps, if its own facts hold after it.
LEMMA CallKeeps ==
  ASSUME FallbackInv, NEW c \in ModelCalls, UNCHANGED config, last' \in Models,
         ~Client!Shared(c) => last' = last,
         NEW r \in CallRecord, call' = [call EXCEPT ![c] = r],
         NEW w \in Seq(Models \X Models), switches' = [switches EXCEPT ![c] = w],
         CallInv(c)'
  PROVE  FallbackInv'
<1>1. CallsTyped'
  BY DEF FallbackInv, CallsTyped, Configured
<1>2. ASSUME NEW d \in ModelCalls PROVE CallInv(d)'
  <2>1. CASE d # c
    <3>1. call'[d] = call[d] /\ switches'[d] = switches[d]
      BY <2>1 DEF FallbackInv, CallsTyped
    <3> QED BY <2>1, <3>1, OtherCallsStay
  <2> QED BY <2>1
<1> QED BY <1>1, <1>2 DEF FallbackInv

\* The next candidate is tried.
LEMMA TryNextKeeps ==
  ASSUME FallbackInv, NEW c \in ModelCalls, UNCHANGED config,
         NEW changed \in CallRecord, Client!TryNext(c, changed),
         changed.candidates = Client!CandidatesOf(c), changed.tried < Len(changed.candidates),
         changed.spoke = {}, changed.outcome = "none",
         Len(changed.failed) = changed.tried,
         NEW w \in Seq(Models \X Models), switches' = [switches EXCEPT ![c] = w],
         Len(w) = changed.tried,
         \A i \in 1..Len(w) : w[i] = <<changed.candidates[i], changed.candidates[i + 1]>>
  PROVE  FallbackInv'
<1> DEFINE n == changed.tried + 1
           r == [changed EXCEPT !.at = "trying", !.tried = n]
<1>0. n \in Nat \ {0} /\ n - 1 = changed.tried
  BY RecordIs
<1>1. /\ r \in CallRecord /\ r.at = "trying" /\ r.tried = n /\ r.candidates = changed.candidates
      /\ r.failed = changed.failed /\ r.spoke = {} /\ r.outcome = "none"
  <2> HIDE DEF n
  <2>1. r \in CallRecord
    BY <1>0 DEF CallRecord
  <2>2. /\ r.at = "trying" /\ r.tried = n /\ r.candidates = changed.candidates
        /\ r.failed = changed.failed /\ r.spoke = changed.spoke /\ r.outcome = changed.outcome
    BY DEF CallRecord
  <2> QED BY <2>1, <2>2
<1>2. call' = [call EXCEPT ![c] = r]
  BY DEF Client!TryNext
<1>3. n \in 1..Len(changed.candidates) /\ changed.candidates \in Seq(Models)
  BY DEF CallRecord
<1>4. last' = IF Client!Shared(c) THEN changed.candidates[n] ELSE last
  BY DEF Client!TryNext
<1> HIDE DEF r
<1>5. call'[c] = r /\ switches'[c] = w
  BY <1>2 DEF FallbackInv, CallsTyped
<1>6. last' \in Models
  BY <1>3, <1>4 DEF FallbackInv, CallsTyped
<1>7. Client!CandidatesOf(c)' = Client!CandidatesOf(c)
  BY CandidatesStay
<1>8. Tells(c)'
  BY <1>0, <1>1, <1>5 DEF Tells
<1>9. Goes(c)'
  BY <1>0, <1>1, <1>3, <1>5, <1>7 DEF Goes, AtModel, Client!Model
<1>10. Books(c)'
  BY <1>0, <1>1, <1>3, <1>4, <1>5 DEF Books, AtModel, Client!Model, Client!Shared, Client!Alone
<1>11. CallInv(c)'
  BY <1>8, <1>9, <1>10 DEF CallInv
<1> QED BY <1>1, <1>2, <1>4, <1>6, <1>11, CallKeeps

LEMMA StartKeeps ==
  ASSUME FallbackInv, NEW c \in ModelCalls, Client!Start(c)
  PROVE  FallbackInv'
<1>0. call[c] = Client!Fresh /\ call[c] \in CallRecord /\ UNCHANGED <<config, switches>>
  BY DEF FallbackInv, CallInv, Goes, CallsTyped, Client!Start
<1>1. /\ switches[c] = <<>> /\ switches[c] \in Seq(Models \X Models)
      /\ switches' = [switches EXCEPT ![c] = switches[c]]
  BY <1>0 DEF FallbackInv, CallInv, Tells, CallsTyped, Client!Fresh
<1>2. /\ Client!CandidatesOf(c) \in Seq(Models) /\ Configured
  BY CandidatesAre DEF FallbackInv, CallsTyped
<1>3. CASE Client!CandidatesOf(c) = <<>>
  <2> DEFINE r == [call[c] EXCEPT !.at = "over", !.outcome = "exhausted"]
  <2>1. call' = [call EXCEPT ![c] = r] /\ last' = last
    BY <1>3 DEF Client!Start, Client!Ends
  <2>2. /\ r \in CallRecord /\ r.at = "over" /\ r.outcome = "exhausted" /\ r.tried = 0
        /\ r.candidates = <<>> /\ r.failed = <<>> /\ r.spoke = {}
    <3>1. /\ call[c].candidates = <<>> /\ call[c].tried = 0
          /\ call[c].failed = <<>> /\ call[c].spoke = {}
      BY <1>0 DEF Client!Fresh
    <3>2. "exhausted" \in Client!Outcomes
      BY DEF Client!Outcomes
    <3>3. r \in CallRecord
      BY <3>2, <1>0 DEF CallRecord
    <3>4. /\ r.at = "over" /\ r.outcome = "exhausted" /\ r.tried = call[c].tried
          /\ r.candidates = call[c].candidates /\ r.failed = call[c].failed
          /\ r.spoke = call[c].spoke
      BY <1>0 DEF CallRecord
    <3> QED BY <3>1, <3>3, <3>4
  <2> HIDE DEF r
  <2>3. call'[c] = r /\ switches'[c] = <<>>
    BY <2>1, <1>1 DEF FallbackInv, CallsTyped
  <2>4. Tells(c)' /\ Goes(c)' /\ Books(c)'
    BY <2>2, <2>3 DEF Tells, Goes, Books, AtModel
  <2>5. CallInv(c)'
    BY <2>4 DEF CallInv
  <2>6. last' \in Models
    BY <2>1 DEF FallbackInv, CallsTyped
  <2> QED BY <2>1, <2>2, <2>5, <2>6, <1>0, <1>1, CallKeeps
<1>4. CASE Client!CandidatesOf(c) # <<>>
  <2> DEFINE r == [call[c] EXCEPT !.candidates = Client!CandidatesOf(c)]
  <2>1. Client!TryNext(c, r)
    BY <1>4 DEF Client!Start
  <2>2. /\ r \in CallRecord /\ r.candidates = Client!CandidatesOf(c) /\ r.tried = 0 /\ r.spoke = {}
        /\ r.outcome = "none" /\ r.failed = <<>>
    <3>1. /\ call[c].tried = 0 /\ call[c].failed = <<>>
          /\ call[c].spoke = {} /\ call[c].outcome = "none"
      BY <1>0 DEF Client!Fresh
    <3>2. r \in CallRecord
      BY <1>0, <1>2 DEF CallRecord
    <3>3. /\ r.candidates = Client!CandidatesOf(c)
          /\ r.tried = call[c].tried /\ r.spoke = call[c].spoke
          /\ r.outcome = call[c].outcome /\ r.failed = call[c].failed
      BY <1>0 DEF CallRecord
    <3> QED BY <3>1, <3>2, <3>3
  <2>3. Len(Client!CandidatesOf(c)) > 0
    BY <1>2, <1>4
  <2>4. Len(r.failed) = r.tried
    BY <2>2
  <2>5. Len(switches[c]) = r.tried
    BY <2>2, <1>1
  <2> HIDE DEF r
  <2>6. r.tried < Len(r.candidates)
    BY <2>2, <2>3
  <2>7. \A i \in 1..Len(switches[c]) :
          switches[c][i] = <<r.candidates[i], r.candidates[i + 1]>>
    BY <1>1
  <2> QED BY <2>1, <2>2, <2>4, <2>5, <2>6, <2>7, <1>0, <1>1, TryNextKeeps
<1> QED BY <1>3, <1>4

\* The model that is tried is one of the candidates.
LEMMA ModelAtWork ==
  ASSUME FallbackInv, NEW c \in ModelCalls, AtModel(c)
  PROVE  /\ call[c] \in CallRecord /\ call[c].tried \in 1..Len(call[c].candidates)
         /\ Client!Model(c) \in Models /\ switches[c] \in Seq(Models \X Models)
         /\ Len(switches[c]) = call[c].tried - 1 /\ last \in Models
         /\ call[c].candidates = Client!CandidatesOf(c)
<1>1. call[c] \in CallRecord /\ switches[c] \in Seq(Models \X Models) /\ last \in Models
  BY DEF FallbackInv, CallsTyped
<1>2. /\ call[c].tried # 0 /\ call[c].tried <= Len(call[c].candidates)
      /\ call[c].candidates \in {<<>>, Client!CandidatesOf(c)}
  BY DEF FallbackInv, CallInv, Goes
<1>3. call[c].tried \in 1..Len(call[c].candidates) /\ call[c].candidates \in Seq(Models)
  BY <1>1, <1>2 DEF CallRecord
<1>4. Len(switches[c]) = call[c].tried - 1
  BY <1>2 DEF FallbackInv, CallInv, Tells
<1>5. call[c].candidates # <<>>
  BY <1>3
<1> QED BY <1>1, <1>2, <1>3, <1>4, <1>5 DEF Client!Model

\* A step that leaves the candidates and the switches, and adds no voice but the model's.
LEMMA SameTryKeeps ==
  ASSUME FallbackInv, NEW c \in ModelCalls, AtModel(c), UNCHANGED <<config, last, switches>>,
         NEW r \in CallRecord, call' = [call EXCEPT ![c] = r],
         r.candidates = call[c].candidates, r.tried = call[c].tried,
         r.at \in {"streaming", "over"}, r.spoke \subseteq call[c].spoke \cup {Client!Model(c)},
         r.at = "streaming" => r.outcome = "none" /\ r.failed = call[c].failed,
         r.outcome = "exhausted" =>
           /\ r.tried = Len(r.candidates) /\ Len(r.failed) = r.tried /\ r.spoke = {},
         r.outcome = "answered" => Client!Model(c) \in r.spoke /\
           r.billed = (IF Client!Shared(c) THEN last ELSE Client!Model(c))
  PROVE  FallbackInv'
<1>1. /\ call'[c] = r /\ switches'[c] = switches[c] /\ last' = last
      /\ switches' = [switches EXCEPT ![c] = switches[c]]
  BY DEF FallbackInv, CallsTyped
<1>2. Client!CandidatesOf(c)' = Client!CandidatesOf(c)
  BY CandidatesStay
<1>3. Client!Model(c)' = Client!Model(c)
  BY <1>1 DEF Client!Model
<1>4. Tells(c)'
  BY <1>1 DEF FallbackInv, CallInv, Tells
<1>5. Tells(c) /\ Goes(c) /\ Books(c)
  BY DEF FallbackInv, CallInv
<1>6. Goes(c)'
  BY <1>1, <1>2, <1>3, <1>5 DEF Goes, AtModel
<1>7. Books(c)'
  BY <1>1, <1>3, <1>5 DEF Books, AtModel, Client!Alone, Client!Shared
<1>8. CallInv(c)'
  BY <1>4, <1>6, <1>7 DEF CallInv
<1>9. switches[c] \in Seq(Models \X Models) /\ last' \in Models
  BY ModelAtWork
<1> QED BY <1>1, <1>8, <1>9, CallKeeps

LEMMA ChunkKeeps ==
  ASSUME FallbackInv, NEW c \in ModelCalls, Client!Chunk(c)
  PROVE  FallbackInv'
<1> DEFINE r == [call[c] EXCEPT !.at = "streaming", !.spoke = @ \cup {Client!Model(c)}]
<1>1. AtModel(c)
  BY DEF Client!Chunk, AtModel
<1>2. call[c] \in CallRecord /\ Client!Model(c) \in Models /\ call[c].outcome = "none"
  BY <1>1, ModelAtWork DEF FallbackInv, CallInv, Goes
<1>3. call' = [call EXCEPT ![c] = r] /\ UNCHANGED <<config, last, switches>>
  BY DEF Client!Chunk
<1>4. /\ r \in CallRecord /\ r.candidates = call[c].candidates /\ r.tried = call[c].tried
      /\ r.at = "streaming" /\ r.spoke = call[c].spoke \cup {Client!Model(c)} /\ r.outcome = "none"
      /\ r.failed = call[c].failed
  BY <1>2 DEF CallRecord
<1> HIDE DEF r
<1> QED BY <1>1, <1>3, <1>4, SameTryKeeps

LEMMA AnswerKeeps ==
  ASSUME FallbackInv, NEW c \in ModelCalls, Client!Answer(c)
  PROVE  FallbackInv'
<1> DEFINE billed == IF Client!Shared(c) THEN last ELSE Client!Model(c)
           r == [call[c] EXCEPT !.at = "over", !.outcome = "answered",
                                !.spoke = @ \cup {Client!Model(c)}, !.billed = billed]
<1>1. AtModel(c)
  BY DEF Client!Answer, AtModel
<1>2. call[c] \in CallRecord /\ Client!Model(c) \in Models /\ last \in Models
  BY <1>1, ModelAtWork
<1>3. call' = [call EXCEPT ![c] = r] /\ UNCHANGED <<config, last, switches>>
  BY DEF Client!Answer
<1>4. /\ r \in CallRecord /\ r.candidates = call[c].candidates /\ r.tried = call[c].tried
      /\ r.at = "over" /\ r.spoke = call[c].spoke \cup {Client!Model(c)} /\ r.outcome = "answered"
      /\ r.billed = billed
  BY <1>2 DEF CallRecord, Client!Outcomes
<1> HIDE DEF r
<1> QED BY <1>1, <1>3, <1>4, SameTryKeeps

LEMMA FailKeeps ==
  ASSUME FallbackInv, NEW c \in ModelCalls, NEW e \in Client!Errors, Client!Fail(c, e)
  PROVE  FallbackInv'
<1> DEFINE changed == [call[c] EXCEPT !.failed = Append(@, e)]
<1>1. AtModel(c)
  BY DEF Client!Fail, AtModel
<1>2. /\ call[c] \in CallRecord /\ call[c].tried \in 1..Len(call[c].candidates)
      /\ Client!Model(c) \in Models /\ switches[c] \in Seq(Models \X Models)
      /\ Len(switches[c]) = call[c].tried - 1 /\ call[c].candidates = Client!CandidatesOf(c)
  BY <1>1, ModelAtWork
<1>3. /\ call[c].outcome = "none" /\ Len(call[c].failed) = call[c].tried - 1
      /\ call[c].at = "trying" => call[c].spoke = {}
  BY <1>1 DEF FallbackInv, CallInv, Goes
<1>4. /\ changed \in CallRecord /\ changed.candidates = call[c].candidates
      /\ changed.tried = call[c].tried /\ changed.spoke = call[c].spoke
      /\ changed.outcome = "none" /\ Len(changed.failed) = call[c].tried
  <2>1. /\ Append(call[c].failed, e) \in Seq(Client!Errors)
        /\ Len(Append(call[c].failed, e)) = call[c].tried
    BY <1>2, <1>3, RecordIs
  <2>2. changed \in CallRecord
    BY <2>1, <1>2 DEF CallRecord
  <2>3. /\ changed.candidates = call[c].candidates /\ changed.tried = call[c].tried
        /\ changed.spoke = call[c].spoke /\ changed.outcome = call[c].outcome
        /\ changed.failed = Append(call[c].failed, e)
    BY <1>2 DEF CallRecord
  <2> QED BY <2>1, <2>2, <2>3, <1>3
<1> HIDE DEF changed
<1>5. CASE ~Client!GoesOn(c, e)
  <2> DEFINE r == [call[c] EXCEPT !.at = "over", !.outcome = e]
  <2>1. call' = [call EXCEPT ![c] = r] /\ UNCHANGED <<config, last, switches>>
    BY <1>5 DEF Client!Fail, Client!Ends
  <2>2. /\ r \in CallRecord /\ r.candidates = call[c].candidates /\ r.tried = call[c].tried
        /\ r.at = "over" /\ r.spoke = call[c].spoke /\ r.outcome = e
    BY <1>2 DEF CallRecord, Client!Outcomes
  <2>3. r.outcome \notin {"exhausted", "answered"}
    BY <2>2 DEF Client!Errors
  <2> HIDE DEF r
  <2> QED BY <1>1, <2>1, <2>2, <2>3, SameTryKeeps
<1>6. CASE Client!GoesOn(c, e) /\ Client!More(c)
  <2> DEFINE w == Append(switches[c], Client!Switch(c))
  <2>1. /\ Client!TryNext(c, changed) /\ switches' = [switches EXCEPT ![c] = w] /\ UNCHANGED config
    BY <1>6 DEF Client!Fail, changed
  <2>2. call[c].candidates \in Seq(Models) /\ call[c].tried + 1 \in 1..Len(call[c].candidates)
    BY <1>2, <1>6 DEF CallRecord, Client!More
  <2>3. Client!Switch(c) = <<Client!Model(c), call[c].candidates[call[c].tried + 1]>>
    BY DEF Client!Switch
  <2>4. Client!Switch(c) \in Models \X Models
    <3>1. call[c].candidates[call[c].tried + 1] \in Models
      BY <2>2
    <3> QED BY <3>1, <2>3, <1>2
  <2>5. w \in Seq(Models \X Models) /\ Len(w) = call[c].tried
    <3>1. w \in Seq(Models \X Models) /\ Len(w) = Len(switches[c]) + 1
      BY <2>4, <1>2
    <3>2. call[c].tried \in Int
      BY <1>2, RecordIs
    <3> HIDE DEF w
    <3> QED BY <3>1, <3>2, <1>2
  <2>6. \A i \in 1..Len(w) : w[i] = <<call[c].candidates[i], call[c].candidates[i + 1]>>
    <3> SUFFICES ASSUME NEW i \in 1..Len(w)
                 PROVE  w[i] = <<call[c].candidates[i], call[c].candidates[i + 1]>>
      OBVIOUS
    <3>1. CASE i = call[c].tried
      <4>1. w[i] = Client!Switch(c)
        BY <3>1, <2>4, <1>2
      <4> QED BY <4>1, <3>1, <2>3 DEF Client!Model
    <3>2. CASE i \in 1..Len(switches[c])
      <4>1. w[i] = switches[c][i]
        BY <3>2, <2>4, <1>2
      <4> QED BY <4>1, <3>2 DEF FallbackInv, CallInv, Tells
    <3> QED BY <3>1, <3>2, <2>5, <1>2
  <2>7. changed.spoke = {}
    BY <1>3, <1>4, <1>6, <1>1 DEF Client!GoesOn, AtModel
  <2> HIDE DEF w
  <2>8. changed.tried < Len(changed.candidates) /\ changed.candidates = Client!CandidatesOf(c)
    BY <1>2, <1>4, <2>2, <1>6 DEF Client!More
  <2> QED BY <2>1, <2>5, <2>6, <2>7, <2>8, <1>4, TryNextKeeps
<1>7. CASE Client!GoesOn(c, e) /\ ~Client!More(c)
  <2> DEFINE end == IF Client!Shared(c) /\ e = "vision" THEN e ELSE "exhausted"
             r == [changed EXCEPT !.at = "over", !.outcome = end]
  <2>1. call' = [call EXCEPT ![c] = r] /\ UNCHANGED <<config, last, switches>>
    BY <1>7 DEF Client!Fail, changed
  <2>2. end \in Client!Outcomes /\ end # "answered"
    BY DEF Client!Outcomes, Client!Errors
  <2>3. /\ r \in CallRecord /\ r.candidates = call[c].candidates /\ r.tried = call[c].tried
        /\ r.at = "over" /\ r.spoke = call[c].spoke /\ r.outcome = end
        /\ Len(r.failed) = r.tried
    BY <1>4, <2>2 DEF CallRecord
  <2>4. r.tried = Len(r.candidates)
    BY <1>2, <1>7, <2>3 DEF Client!More, CallRecord
  <2>5. r.spoke = {}
    BY <1>3, <1>7, <1>1, <2>3 DEF Client!GoesOn, AtModel
  <2> HIDE DEF r, end
  <2> QED BY <1>1, <2>1, <2>2, <2>3, <2>4, <2>5, SameTryKeeps
<1> QED BY <1>5, <1>6, <1>7

LEMMA FallbackStarts == ASSUME Client!Init PROVE FallbackInv
<1>1. Orders \subseteq Seq(Models) /\ Primaries \subseteq Models /\ ImageModels \subseteq Models
  <2>1. Orders \subseteq Seq(Models \ {NoModel})
    BY ModelParameters DEF Client!Parameters
  <2>2. Seq(Models \ {NoModel}) \subseteq Seq(Models)
    OBVIOUS
  <2> QED BY <2>1, <2>2, ModelParameters DEF Client!Parameters
<1>2. Configured
  BY <1>1 DEF Client!Init, Configured
<1>3. NoModel \in Models
  BY ModelParameters DEF Client!Parameters
<1>4. Client!Fresh \in CallRecord
  BY <1>3 DEF Client!Fresh, CallRecord, Client!Outcomes
<1>5. CallsTyped
  BY <1>2, <1>3, <1>4 DEF Client!Init, CallsTyped
<1>6. ASSUME NEW c \in ModelCalls PROVE CallInv(c)
  <2>1. call[c] = Client!Fresh /\ switches[c] = <<>>
    BY DEF Client!Init
  <2> QED BY <2>1 DEF CallInv, Tells, Goes, Books, AtModel, Client!Fresh
<1> QED BY <1>5, <1>6 DEF FallbackInv

LEMMA FallbackStepKeeps == ASSUME FallbackInv, Client!Next PROVE FallbackInv'
<1>1. PICK c \in ModelCalls : Client!Own(c)
  BY DEF Client!Next
<1> QED BY <1>1, StartKeeps, ChunkKeeps, AnswerKeeps, FailKeeps DEF Client!Own

LEMMA FallbackStutters == ASSUME FallbackInv, UNCHANGED Client!vars PROVE FallbackInv'
<1>1. \A c \in ModelCalls : Client!CandidatesOf(c)' = Client!CandidatesOf(c)
  BY CandidatesStay DEF Client!vars
<1>2. \A c \in ModelCalls : CallInv(c)'
  BY <1>1 DEF Client!vars, FallbackInv, CallInv, Tells, Goes, Books, AtModel,
              Client!Model, Client!Alone, Client!Shared
<1> QED BY <1>2 DEF Client!vars, FallbackInv, CallsTyped, Configured

LEMMA FallbackInvIsEnough ==
  ASSUME FallbackInv
  PROVE  /\ Client!TypeOK /\ Client!OneVoice /\ Client!OnlyConfigured /\ Client!NoModelTwice
         /\ Client!GivesUpLast /\ Client!SwitchesAreTheWay
         /\ Client!BilledToItsModel
<1>1. Client!TypeOK
  BY DEF FallbackInv, CallsTyped, Configured, CallRecord, Client!TypeOK, CallInv, Goes
<1>2. Client!OneVoice
  <2> SUFFICES ASSUME NEW c \in ModelCalls PROVE Cardinality(call[c].spoke) <= 1
    BY DEF Client!OneVoice, Client!Cardinality, Cardinality
  <2>1. call[c].spoke = {} \/ call[c].spoke = {Client!Model(c)}
    <3>1. call[c].spoke \subseteq {Client!Model(c)} \/ call[c].spoke = {}
      BY DEF FallbackInv, CallInv, Goes
    <3> QED BY <3>1
  <2>2. CASE call[c].spoke = {}
    BY <2>2, FS_EmptySet
  <2>3. CASE call[c].spoke = {Client!Model(c)}
    <3>1. Cardinality({Client!Model(c)}) = 1
      BY FS_Singleton
    <3> QED BY <2>3, <3>1
  <2> QED BY <2>1, <2>2, <2>3
<1>3. ASSUME NEW c \in ModelCalls
      PROVE  /\ Client!TriedBy(c) \in Seq(Models) /\ Len(Client!TriedBy(c)) = call[c].tried
             /\ call[c].tried \in Nat
             /\ \A i \in 1..call[c].tried : Client!TriedBy(c)[i] = call[c].candidates[i]
             /\ call[c].tried # 0 => call[c].candidates = Client!CandidatesOf(c)
             /\ 1..call[c].tried \subseteq DOMAIN call[c].candidates
  <2>1. /\ call[c].candidates \in Seq(Models) /\ call[c].tried \in Nat
        /\ call[c].tried <= Len(call[c].candidates)
        /\ call[c].candidates \in {<<>>, Client!CandidatesOf(c)}
    BY DEF FallbackInv, CallsTyped, CallRecord, CallInv, Goes
  <2> QED BY <2>1 DEF Client!TriedBy
<1>4. Client!OnlyConfigured
  <2> SUFFICES ASSUME NEW c \in ModelCalls, NEW m \in ToSet(Client!TriedBy(c))
               PROVE  MayTry(c, m)
    BY DEF Client!OnlyConfigured, MayTry, Client!ToSet, ToSet
  <2>1. PICK i \in 1..call[c].tried : m = call[c].candidates[i]
    BY <1>3 DEF ToSet
  <2>2. call[c].candidates = Client!CandidatesOf(c) /\ i \in DOMAIN Client!CandidatesOf(c)
    BY <1>3, <2>1
  <2> QED BY <2>1, <2>2, CandidatesAre DEF FallbackInv, CallsTyped
<1>5. Client!NoModelTwice
  <2> SUFFICES ASSUME NEW c \in ModelCalls, Client!Shared(c)
               PROVE  Cardinality(ToSet(Client!TriedBy(c))) = call[c].tried
    BY DEF Client!NoModelTwice, Client!ToSet, ToSet, Client!Cardinality, Cardinality
  <2> DEFINE h == [i \in 1..call[c].tried |-> Client!TriedBy(c)[i]]
             D == 1..call[c].tried
             R == ToSet(Client!TriedBy(c))
  <2>1. IsFiniteSet(D) /\ Cardinality(D) = call[c].tried
    <3>1. call[c].tried \in Nat
      BY <1>3
    <3>2. \A n \in Nat : IsFiniteSet(1..n) /\ Cardinality(1..n) = n
      BY FS_Interval
    <3> QED BY <3>1, <3>2
  <2>2. \A i, j \in D : Client!TriedBy(c)[i] = Client!TriedBy(c)[j] => i = j
    <3>1. CASE call[c].tried = 0
      BY <3>1
    <3>2. CASE call[c].tried # 0
      <4>1. \A i, j \in DOMAIN Client!CandidatesOf(c) :
              Client!CandidatesOf(c)[i] = Client!CandidatesOf(c)[j] => i = j
        BY CandidatesAre DEF FallbackInv, CallsTyped
      <4> QED BY <4>1, <3>2, <1>3
    <3> QED BY <3>1, <3>2
  <2>3. DOMAIN Client!TriedBy(c) = D
    BY <1>3
  <2>4. h \in Surjection(D, R) /\ h \in Injection(D, R)
    <3>1. \A i \in D : h[i] = Client!TriedBy(c)[i]
      OBVIOUS
    <3>2. R = {Client!TriedBy(c)[i] : i \in D}
      BY <2>3 DEF ToSet
    <3>3. h \in [D -> R]
      BY <3>2
    <3>4. \A m \in R : \E i \in D : h[i] = m
      BY <3>1, <3>2
    <3>5. \A i, j \in D : h[i] = h[j] => i = j
      BY <3>1, <2>2
    <3> HIDE DEF D, R, h
    <3> QED BY <3>3, <3>4, <3>5 DEF Surjection, Injection, IsInjective
  <2> HIDE DEF D, R, h
  <2>5. Cardinality(R) = Cardinality(D)
    BY <2>1, <2>4, FS_Surjection
  <2> QED BY <2>1, <2>5 DEF R
<1>6. Client!GivesUpLast
  BY DEF FallbackInv, CallInv, Goes, Client!GivesUpLast
<1>7. Client!SwitchesAreTheWay
  <2>1. \A c \in ModelCalls : DOMAIN switches[c] = 1..Len(switches[c])
    BY DEF FallbackInv, CallsTyped
  <2> QED BY <2>1 DEF FallbackInv, CallInv, Tells, Client!SwitchesAreTheWay
<1>8. Client!BilledToItsModel
  BY DEF FallbackInv, CallInv, Books, Client!BilledToItsModel
<1> QED BY <1>1, <1>2, <1>4, <1>5, <1>6, <1>7, <1>8

\* A call tries only what the user configured, no model twice, gives up after the
\* last, goes on with no answer that was begun, and is booked on the model that
\* answered; its switches tell the way (FallbackChatClient).
THEOREM FallbacksAreOrderly == Spec => []FallbackIsOrderly
<1> DEFINE Inv == part = "models" => FallbackInv
<1>1. Init => Inv
  BY FallbackStarts DEF Init
<1>2. Inv /\ [Next]_vars => Inv'
  <2> SUFFICES ASSUME part = "models", FallbackInv, [Next]_vars PROVE FallbackInv'
    BY DEF Next, vars
  <2>1. CASE Client!Next BY <2>1, FallbackStepKeeps
  <2>2. CASE UNCHANGED callVars BY <2>2, FallbackStutters DEF callVars, Client!vars
  <2> QED BY <2>1, <2>2 DEF Next, vars
<1>3. Inv => FallbackIsOrderly
  BY FallbackInvIsEnough DEF FallbackIsOrderly
<1> QED BY <1>1, <1>2, <1>3, PTL DEF Spec

=============================================================================
