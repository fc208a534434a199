--------------------------------- MODULE MCLoop ---------------------------------
(***************************************************************************)
(* What a turn is made of: the conversation of a thread (Conversation),    *)
(* what of it a model is sent (ContextPlan), the models that are tried     *)
(* (ModelFallback) and the loop of turns towards a goal (GoalLoop).  They  *)
(* share no state in these models, so a behaviour of this instance runs    *)
(* one of them: part, chosen at the start, says which, and the variables   *)
(* of the others have no value.                                            *)
(***************************************************************************)
EXTENDS Integers, Sequences, SequencesExt, TLC

CONSTANTS
  None,
  Runs, Turns, TurnOf, Batches, MaxMessages, MaxBatch,  \* of the threads
  Habits, MaxFaults,               \* where the clients wait
  HastyHabits, HastyFaults,        \* where they do not
  chat1, chat2, yes1, yes2,        \* requests: two chats, two decisions
  turn1, turn2,
  Models, NoModel, Providers, ProviderOf,
  ModelCalls, KindOf,              \* calls of the client and of try_with_fallback
  Primaries, Orders, ImageModels,
  p1, p2, q1, p, q, nobody,        \* models, their providers, and that of no model
  stream, plain,                   \* a stream and a call of try_with_fallback
  CallIds, Histories, Budgets,     \* of the plans
  ToolLimit, MarkerBase, EntrySize, ShortEntry, CutFloor,
  Gates, MaxGoalTurns, GateLimit, JudgeLimit, MaxResumes  \* of the goal loop

VARIABLES
  part,
  msgs, head, pending, ephemeral, run, lock, ran, decided, cut, faults, fork,
  asked, at, units, next, chosen, evidence, marker, sent,
  config, call, last, switches,
  goal, turn, streak, signature, judgeFailures, failed, outcome, recent, taken, resumes

-----------------------------------------------------------------------------
(* Instances.                                                              *)

\* Any requests of any turns in one thread: of clients that wait for each other's runs,
\* without a workspace; and of clients that do not, in a workspace, whose lock orders runs.
Patient == INSTANCE Conversation WITH
  Habits <- Habits \ {"overlap", "interject", "resubmit", "rewind"}, Serialized <- FALSE
Hasty == INSTANCE Conversation WITH
  Habits <- HastyHabits, MaxFaults <- HastyFaults, Serialized <- TRUE

\* Every history of up to four requests, answers and exchanges with one or two
\* results, short or long, after one instruction or none.  The last is a request or
\* an exchange, which is when the loop plans; messages are numbered by their place.
Message(role, size) ==
  [role |-> role, id |-> 0, size |-> size, calls |-> {}, call |-> 0, error |-> FALSE]
Asking(calls) == [Message("assistant", 1) EXCEPT !.calls = calls]
Result(number, size, error) ==
  [Message("tool", size) EXCEPT !.call = number, !.error = error]

Pieces ==
  {<<Message("user", 2)>>, <<Message("user", 9)>>, <<Message("assistant", 3)>>,
   <<Asking({1}), Result(1, 2, FALSE)>>,
   <<Asking({1}), Result(1, 3, TRUE)>>,
   <<Asking({1, 2}), Result(1, 2, FALSE), Result(2, 12, FALSE)>>}

Numbered(pieces) ==
  LET messages == FlattenSeq(pieces)
      piece(i) == CHOOSE n \in 1..Len(pieces) :
                    /\ Len(FlattenSeq(SubSeq(pieces, 1, n))) >= i
                    /\ Len(FlattenSeq(SubSeq(pieces, 1, n - 1))) < i
  IN  [i \in DOMAIN messages |->
         [messages[i] EXCEPT !.id = i, !.calls = {<<piece(i), c>> : c \in @},
                             !.call = IF @ = 0 THEN <<0, i>> ELSE <<piece(i), @>>]]

MCHistories ==
  LET planned == {l \in SeqOf(Pieces, 4) : l # <<>> /\ Last(Last(l)).role # "assistant"}
  IN  {Numbered(l) : l \in UNION {{<<<<Message("system", 2)>>>> \o l, l} : l \in planned}}

MCCallIds == (0..5) \X (0..20)

\* For any histories and budgets.
Plans == INSTANCE ContextPlan

\* For any models, configurations and calls.
Client == INSTANCE ModelFallback WITH Calls <- ModelCalls

\* For any gates, budget and limits; the configuration has the limits of the code, and
\* a budget above them.
Goal == INSTANCE GoalLoop WITH at <- goal

ASSUME ThreadParameters == Patient!Parameters /\ Hasty!Parameters
ASSUME PlanParameters == Plans!Parameters
ASSUME ModelParameters == Client!Parameters
ASSUME GoalParameters == Goal!Parameters

-----------------------------------------------------------------------------
(* A behaviour of one of them.                                             *)

conversationVars ==
  <<msgs, head, pending, ephemeral, run, lock, ran, decided, cut, faults, fork>>
planVars == <<asked, at, units, next, chosen, evidence, marker, sent>>
callVars == <<config, call, last, switches>>
goalVars ==
  <<goal, turn, streak, signature, judgeFailures, failed, outcome, recent, taken, resumes>>
vars == <<part, conversationVars, planVars, callVars, goalVars>>

NoConversation ==
  /\ msgs = None /\ head = None /\ pending = None /\ ephemeral = None /\ run = None
  /\ lock = None /\ ran = None /\ decided = None /\ cut = None /\ faults = None
  /\ fork = None
NoPlan ==
  /\ asked = None /\ at = None /\ units = None /\ next = None /\ chosen = None
  /\ evidence = None /\ marker = None /\ sent = None
NoCall == config = None /\ call = None /\ last = None /\ switches = None
NoGoal ==
  /\ goal = None /\ turn = None /\ streak = None /\ signature = None
  /\ judgeFailures = None /\ failed = None /\ outcome = None /\ recent = None
  /\ taken = None /\ resumes = None

Init ==
  \/ part = "patient" /\ Patient!Init /\ NoPlan /\ NoCall /\ NoGoal
  \/ part = "hasty" /\ Hasty!Init /\ NoPlan /\ NoCall /\ NoGoal
  \/ part = "plans" /\ Plans!Init /\ NoConversation /\ NoCall /\ NoGoal
  \/ part = "models" /\ Client!Init /\ NoConversation /\ NoPlan /\ NoGoal
  \/ part = "goal" /\ Goal!Init /\ NoConversation /\ NoPlan /\ NoCall

Next ==
  /\ UNCHANGED part
  /\ \/ part = "patient" /\ Patient!Next /\ UNCHANGED <<planVars, callVars, goalVars>>
     \/ part = "hasty" /\ Hasty!Next /\ UNCHANGED <<planVars, callVars, goalVars>>
     \/ part = "plans" /\ Plans!Next /\ UNCHANGED <<conversationVars, callVars, goalVars>>
     \/ part = "models" /\ Client!Next /\ UNCHANGED <<conversationVars, planVars, goalVars>>
     \/ part = "goal" /\ Goal!Next /\ UNCHANGED <<conversationVars, planVars, callVars>>

Spec == Init /\ [][Next]_vars

-----------------------------------------------------------------------------
(* The instance that is checked.                                           *)

MCTurnOf == (chat1 :> turn1) @@ (chat2 :> turn2) @@ [r \in Runs |-> None]
MCBatches == {<<"read">>, <<"guarded", "write">>, <<"write", "guarded">>, <<"terminal">>}

\* Two models of one provider, one of another and the empty id; orders that repeat
\* models and name the primary.  A call of the client, and one of try_with_fallback.
MCProviderOf == (p1 :> p) @@ (p2 :> p) @@ (q1 :> q) @@ (NoModel :> nobody)
MCOrders == {<<>>, <<q1>>, <<p2, q1>>, <<q1, p2, q1>>, <<p1, p2>>, <<p2, p1>>}
MCKindOf == (stream :> "stream") @@ (plain :> "function")

\* Two chats and two decisions; or two chats and one decision, one message fewer and
\* batches of their own.  One call at a
\* time; the model for images is the client's matter.
Bounds ==
  /\ part = "patient" =>
       \A i \in DOMAIN msgs : msgs[i].calls # <<"write", "guarded">>
  /\ part = "hasty" =>
       /\ \E r \in {yes1, yes2} : run[r].at = "idle"
       /\ Len(msgs) <= 4
       /\ \A i \in DOMAIN msgs : msgs[i].calls \in {<<>>, <<"read">>, <<"write", "guarded">>}
  /\ part = "models" =>
       \/ call[plain].at = "new"
       \/ call[stream].at = "new" /\ config.image = NoModel

Symmetry == Permutations({yes1, yes2})

-----------------------------------------------------------------------------
(* Properties: those of the parts, each for the part that moves.           *)

\* The tool of a call runs at most once, through decisions sent twice, approvals
\* that lapse, cancellations and crashes; a call that asks runs only once an approval
\* of that very call was claimed, with one decision (claim_pending_approval).
CallsRunOnce ==
  /\ part = "patient" => Patient!TypeOK /\ Patient!CallsRunOnce /\ Patient!DecisionIsObeyed
  /\ part = "hasty" => Hasty!TypeOK /\ Hasty!DecisionIsObeyed

\* Results follow the message with their call, a history sent to the model has a
\* result for every call whose batch was not cut, and it has the message of the turn
\* (save_message, resume_from_approval).
HistoryIsCausal ==
  part = "patient" =>
    Patient!HistoryIsCausal /\ Patient!CompleteUnlessCut /\ Patient!TurnIsSeen

\* What a model is sent of a history is in order and without a gap, has both halves
\* of each exchange, the latest result whole when that is asked for, and a marker that
\* tells of omitted messages only (plan_context).
PlansAreWhole ==
  part = "plans" =>
    /\ Plans!TypeOK /\ Plans!PairsStayTogether /\ Plans!InOrder /\ Plans!NoGap
    /\ Plans!LatestResultIsWhole /\ Plans!EvidenceIsOfOmitted

\* A call tries only what the user configured, no model twice, gives up after the
\* last, goes on with no answer that was begun, and is booked on the model that
\* answered; its switches tell the way (FallbackChatClient).
FallbackIsOrderly ==
  part = "models" =>
    /\ Client!TypeOK /\ Client!OneVoice /\ Client!OnlyConfigured /\ Client!NoModelTwice
    /\ Client!GivesUpLast /\ Client!SwitchesAreTheWay /\ Client!BilledToItsModel

\* A goal is done when one turn satisfied gates and judge; an agent that is stuck is
\* stopped, and only that, and a judge that fails is not asked for ever (goal_mode).
GoalStops ==
  part = "goal" =>
    /\ Goal!TypeOK /\ Goal!DoneIsVerified /\ Goal!StuckIsStopped
    /\ Goal!OnlyStuckIsStopped /\ Goal!SilentJudgeStops
=============================================================================
