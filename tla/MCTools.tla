-------------------------------- MODULE MCTools --------------------------------
(***************************************************************************)
(* What the tools of a turn do beside it: the quota of the media tools     *)
(* (MediaQuota), the questions a tool asks the user (Questions) and the    *)
(* children of a delegation (Delegation).  They share no state in these    *)
(* models, so a behaviour of this instance runs one of them: part, chosen  *)
(* at the start, says which, and the variables of the others stay as they  *)
(* are.                                                                    *)
(***************************************************************************)
EXTENDS MediaQuota, Functions, TLC

CONSTANTS
  Topics, Options, Asks, Requests, TopicOf, ReplyOf,
  MaxStops, MaxErrors, MaxCrashes,               \* of the questions
  Calls, Turns, Identities, Correlations, TurnOf, PlaceOf, Sequential,
  IdentityOf, CorrelationOf, Watched, Budgeted, Cap, MaxFaults, \* of the delegations
  None,
  a1, a2, a3, k1, k2, ann,                       \* attempts, tool calls and a user
  ask1, ask2, ask3, put1, put2,                  \* calls that ask, requests that answer
  topic1, topic2,                                \* their questions
  c1, c2, c3, c4, c5, c6, t1, t2, t3,            \* calls that delegate, and their turns
  ana, intent                                    \* who they are for

VARIABLES
  part,
  question, event, lock, at, result, thread, tmp, file, spent,
  delegated, leader, future, inFlight, active, child, childRow, spawns, stopped, asked, faults

\* Attempts of one key that do not overlap; and attempts that nothing cuts short.
Retries == INSTANCE MediaQuota WITH Events <- Events \ {"overlap"}
Leaks == INSTANCE MediaQuota WITH Events <- Events \ {"crash", "cancel", "outage"}

\* Any calls that ask and requests that answer, any calls that delegate.
Store == INSTANCE Questions WITH Keys <- Topics, KeyOf <- TopicOf
Subagents == INSTANCE Delegation WITH call <- delegated, row <- childRow

ASSUME QuestionParameters == Store!Parameters
ASSUME DelegationParameters == Subagents!Parameters

-----------------------------------------------------------------------------
(* A behaviour of one of them.                                             *)

quotaVars == <<used, reservation, storage, period, call>>
questionVars == <<question, event, lock, at, result, thread, tmp, file, spent>>
delegationVars ==
  <<delegated, leader, future, inFlight, active, child, childRow, spawns, stopped, asked, faults>>
toolVars == <<part, quotaVars, questionVars, delegationVars>>

ToolsInit ==
  /\ part \in {"accounts", "retries", "leaks", "store", "failing", "intents", "capped"}
  /\ Init /\ Store!Init /\ Subagents!Init

ToolsNext ==
  /\ UNCHANGED part
  /\ \/ /\ \/ part = "accounts" /\ Next
           \/ part = "retries" /\ Retries!Next
           \/ part = "leaks" /\ Leaks!Next
        /\ UNCHANGED <<questionVars, delegationVars>>
     \/ /\ part \in {"store", "failing"} /\ Store!Next
        /\ UNCHANGED <<quotaVars, delegationVars>>
     \/ /\ part \in {"intents", "capped"} /\ Subagents!Next
        /\ UNCHANGED <<quotaVars, questionVars>>

ToolsSpec == ToolsInit /\ [][ToolsNext]_toolVars

-----------------------------------------------------------------------------
(* The instance that is checked.                                           *)

\* Three attempts of one user, two of them with one key, whose limit is two units.
MCKeyOf == (a1 :> k1) @@ (a2 :> k1) @@ (a3 :> k2)
MCUserOf == [a \in Attempts |-> ann]
MCOperationOf ==
  (a1 :> "generate_image") @@ (a2 :> "generate_image") @@ (a3 :> "generate_video")
MCUnitCosts == [generate_image |-> 1, generate_video |-> 2]
MCOperations == DOMAIN MCUnitCosts
MCLimit == [o \in Users |-> 2]

\* Two calls ask the first question and one asks the second; the replies that meet
\* for the first differ.
MCTopicOf ==
  [i \in Asks \cup Requests |-> IF i = ask3 THEN topic2 ELSE topic1]
MCReplyOf == (put1 :> "yes") @@ (put2 :> "cancelled")

\* Calls for one intent, two of one turn and one of another that runs its calls in
\* order; and three calls of one turn with a watchdog, one without an intent, above
\* the cap.
MCTurnOf == (c1 :> t1) @@ (c2 :> t1) @@ (c3 :> t2) @@ [c \in {c4, c5, c6} |-> t3]
MCPlaceOf ==
  (c1 :> 1) @@ (c2 :> 2) @@ (c3 :> 3) @@ (c4 :> 1) @@ (c5 :> 2) @@ (c6 :> 3)
MCIdentityOf == [c \in Calls |-> ana]
MCCorrelationOf == [c \in Calls |-> IF c = c6 THEN None ELSE intent]

\* Of the quota, one month where keys do not overlap or nothing is cut short; of the
\* questions, all of them where nothing is stopped and no write fails, or the first
\* question; of the delegations, the calls for one intent, or those above the cap.
Bounds ==
  /\ part \in {"retries", "leaks"} => period = 1
  /\ part = "store" => spent.stops = 0 /\ spent.errors = 0
  /\ part = "failing" => at[ask3] = "new"
  /\ \A c \in IF part = "capped" THEN {c1, c2, c3} ELSE {c4, c5, c6} :
       delegated[c].at = "new" /\ c \notin stopped.coming

\* Attempts with one key, calls that ask one question, and calls of one turn, whose
\* places make no difference when they run together, change places at once: only one
\* of the parts is concerned.
Others == (ask1 :> ask2) @@ (c1 :> c2) @@ (c4 :> c5)
Exchanged == Others @@ AntiFunction(Others)
Kept == [m \in DOMAIN Exchanged |-> m]
Symmetry ==
  {p @@ (IF p[a1] = a1 THEN Kept ELSE Exchanged) : p \in Permutations({a1, a2})}

-----------------------------------------------------------------------------
(* Properties: AccountsAgree and VerdictsSettle of MediaQuota, and those   *)
(* of the parts, each for the part that moves.                             *)

\* Media that reached the user is charged, once per key while attempts with one key
\* do not overlap; no reservation is left open while nothing is cut short.
DeliveriesAreCharged ==
  /\ part \in {"accounts", "retries", "leaks"} => TypeOK
  /\ part = "retries" => Retries!DeliveredIsCharged /\ Retries!DeliveredOnce
  /\ part = "leaks" => Leaks!OpenIsWorkedOn

\* While no turn is stopped and no write fails, what a client was told of a question
\* is kept, and a question is pending only while a call asks it; then, or else until the
\* process restarts, all that hear a reply hear the same (StructuredQuestionStore).
QuestionsAreKept ==
  LET saved == spent.stops = 0 /\ spent.errors = 0 IN
  part \in {"store", "failing"} =>
    /\ Store!TypeOK
    /\ saved => Store!ToldIsKept /\ Store!PendingIsAsked
    /\ saved \/ spent.crashes = 0 => Store!AnswersAgree

\* Calls with one intent have one child at a time and one answer, and a turn that
\* counts its spawns has no more children than its cap (delegate_to_subagent).
IntentsRunOnce ==
  part \in {"intents", "capped"} =>
    /\ Subagents!TypeOK /\ Subagents!OneRunPerIntent /\ Subagents!AnswersAgree
    /\ Budgeted => Subagents!SpawnsWithinCap
=============================================================================
