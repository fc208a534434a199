------------------------------- MODULE Delegation -----------------------------
(***************************************************************************)
(* Delegation to subagents: delegate_to_subagent of                        *)
(* backend/tools/subagent_delegate.py, run_subagent of                     *)
(* backend/engine/subagents.py, the spawns that TurnBudget of              *)
(* backend/engine/guardrails.py counts, and the way execute_tool_batch of  *)
(* backend/engine/tool_batch.py runs the calls of a turn: one after the    *)
(* other when one is destructive, else together.                           *)
(*                                                                         *)
(* A call with a correlation id leads a run, or follows the one in flight  *)
(* for the same identity and id.  Positions of a call:                     *)
(*   new          not begun                                                *)
(*   following    at `await existente', the future of the leader           *)
(*   preparing    the session of the child is created                      *)
(*   announcing   the row of the child's run is written, "running" is told *)
(*   running      waits for the conversation of the child                  *)
(*   stopping     the watchdog's turn: waits for the child it cancelled    *)
(*   closing      the child is done: its status is written and told        *)
(*   over                                                                  *)
(*                                                                         *)
(* Answers of a call: text and paused (of the child), failed (an error,    *)
(* or an exception that becomes one), stalled (by the watchdog),           *)
(* interrupted (`hard interrupt'), refused, and cancelled: CancelledError, *)
(* which the tool lets through.                                            *)
(*                                                                         *)
(* Abstractions.  The conversation of a child runs, is silent for longer   *)
(* than the watchdog allows, or ends.  A cancelled child may still end in  *)
(* another way: some tools keep the CancelledError for themselves.  A      *)
(* request to stop a turn reaches each of its calls in a step of its own.  *)
(* Scope and policy checks that refuse a call before anything happens, the *)
(* capability token and the contents of messages are left out.  The one    *)
(* tick in which the watchdog's task is collected is part of the step.     *)
(***************************************************************************)
EXTENDS Integers, FiniteSets

CONSTANTS
  Calls, Turns, Identities, Correlations, None,
  TurnOf,       \* the turn of each call
  PlaceOf,      \* the place of each call in the batch of its turn
  Sequential,   \* turns whose batch has a destructive tool
  IdentityOf,   \* user and workspace of each call
  CorrelationOf,\* correlation id of each call, or None
  Watched,      \* calls with a LivenessConfig
  Budgeted,     \* whether the caller passes its TurnBudget
  Cap,          \* max_subagent_spawns_per_turn
  MaxFaults     \* bound on stops, silences and errors of the store

\* The values of the constants a configuration may take.
Parameters ==
  /\ TurnOf \in [Calls -> Turns] /\ Sequential \subseteq Turns
  /\ PlaceOf \in [Calls -> Nat]
  /\ IdentityOf \in [Calls -> Identities]
  /\ CorrelationOf \in [Calls -> Correlations \cup {None}]
  /\ None \notin Calls \cup Correlations
  /\ IsFiniteSet(Calls) /\ Watched \subseteq Calls /\ Budgeted \in BOOLEAN
  /\ {Cap, MaxFaults} \subseteq Nat

VARIABLES
  call,       \* position and answer of each call
  leader,     \* whom a call follows
  future,     \* the future of each leader
  inFlight,   \* _IN_FLIGHT_BY_CORRELATION
  active,     \* _ACTIVE_CONVERSATION_TASKS
  child,      \* the conversation each call started
  row,        \* the agent run of the child
  spawns,     \* subagent_spawns, by turn
  stopped,    \* calls a cancellation of their turn is on its way to, was delivered to
  asked,      \* children a hard interrupt cancelled
  faults

vars == <<call, leader, future, inFlight, active, child, row, spawns, stopped,
          asked, faults>>

Positions == {"new", "following", "preparing", "announcing", "running", "stopping",
              "closing", "over"}
Answers == {"text", "paused", "failed", "stalled", "interrupted", "refused",
            "cancelled"}
Alive == {"running", "silent", "cancelling"}
Ended == {"text", "paused", "failed", "cancelled"}
IntentKeys == Identities \X Correlations
Key(c) == <<IdentityOf[c], CorrelationOf[c]>>

TypeOK ==
  /\ call \in [Calls -> [at : Positions, answer : Answers \cup {None}]]
  /\ leader \in [Calls -> Calls \cup {None}]
  /\ future \in [Calls -> Answers \cup {"none", "pending"}]
  /\ inFlight \in [IntentKeys -> Calls \cup {None}]
  /\ active \in [Correlations -> Calls \cup {None}]
  /\ child \in [Calls -> Alive \cup Ended \cup {"none"}]
  /\ row \in [Calls -> {"none", "running", "settled", "failed", "cancelled"}]
  /\ spawns \in [Turns -> 0..(IF Budgeted THEN Cap ELSE Cardinality(Calls))]
  /\ stopped \in [coming : SUBSET Calls, came : SUBSET Calls]
  /\ asked \subseteq Calls
  /\ faults \in 0..MaxFaults

Init ==
  /\ call = [c \in Calls |-> [at |-> "new", answer |-> None]]
  /\ leader = [c \in Calls |-> None]
  /\ future = [c \in Calls |-> "none"]
  /\ inFlight = [k \in IntentKeys |-> None]
  /\ active = [k \in Correlations |-> None]
  /\ child = [c \in Calls |-> "none"]
  /\ row = [c \in Calls |-> "none"]
  /\ spawns = [t \in Turns |-> 0]
  /\ stopped = [coming |-> {}, came |-> {}]
  /\ asked = {}
  /\ faults = 0

Fault == faults < MaxFaults /\ faults' = faults + 1
Go(c, at) == call' = [call EXCEPT ![c].at = at]
Close(c, answer) == call' = [call EXCEPT ![c] = [at |-> "closing", answer |-> answer]]

-----------------------------------------------------------------------------
(* The end of a leader.                                                    *)

\* The future, unless a follower has cancelled it, takes the result or the
\* exception.
Settle(c, answer) ==
  IF future[c] = "pending" THEN [future EXCEPT ![c] = answer] ELSE future

\* The finally of run_subagent and of _run_subagent_once: both registers are
\* cleared for the id, and the task of another identity goes with it.
End(c, answer) ==
  /\ call' = [call EXCEPT ![c] = [at |-> "over", answer |-> answer]]
  /\ future' = Settle(c, answer)
  /\ inFlight' = [k \in IntentKeys |-> IF inFlight[k] = c THEN None ELSE inFlight[k]]
  /\ active' = IF CorrelationOf[c] # None /\ child[c] # "none"
               THEN [active EXCEPT ![CorrelationOf[c]] = None] ELSE active

Unstopped(c) == c \notin stopped.coming

-----------------------------------------------------------------------------
(* run_subagent.                                                           *)

\* The batch of the turn reaches the call, which a CancelledError before it ends.
Reached(c) ==
  TurnOf[c] \in Sequential =>
    \A d \in Calls : TurnOf[d] = TurnOf[c] /\ PlaceOf[d] < PlaceOf[c]
      => call[d].at = "over" /\ call[d].answer # "cancelled"

\* record_subagent_spawn.
Spent(t) == Budgeted /\ spawns[t] >= Cap

Follow(c) ==
  /\ inFlight[Key(c)] # None
  /\ leader' = [leader EXCEPT ![c] = inFlight[Key(c)]]
  /\ Go(c, "following")
  /\ UNCHANGED <<future, inFlight, spawns>>

Refuse(c) ==
  /\ Spent(TurnOf[c])
  /\ call' = [call EXCEPT ![c] = [at |-> "over", answer |-> "refused"]]
  /\ UNCHANGED <<leader, future, inFlight, spawns>>

Lead(c) ==
  /\ ~Spent(TurnOf[c])
  /\ spawns' = [spawns EXCEPT ![TurnOf[c]] = @ + 1]
  /\ IF CorrelationOf[c] = None THEN UNCHANGED <<future, inFlight>>
     ELSE /\ future' = [future EXCEPT ![c] = "pending"]
          /\ inFlight' = [inFlight EXCEPT ![Key(c)] = c]
  /\ Go(c, "preparing")
  /\ UNCHANGED leader

InFlight(c) == CorrelationOf[c] # None /\ inFlight[Key(c)] # None

Begin(c) ==
  /\ call[c].at = "new" /\ Reached(c) /\ Unstopped(c)
  /\ IF InFlight(c) THEN Follow(c) ELSE Refuse(c) \/ Lead(c)
  /\ UNCHANGED <<active, child, row, stopped, asked, faults>>

Join(c) ==
  /\ call[c].at = "following" /\ Unstopped(c)
  /\ future[leader[c]] # "pending"
  /\ call' = [call EXCEPT ![c] = [at |-> "over", answer |-> future[leader[c]]]]
  /\ UNCHANGED <<leader, future, inFlight, active, child, row, spawns, stopped,
                 asked, faults>>

-----------------------------------------------------------------------------
(* _run_subagent_once.                                                     *)

\* create_session and append_message, then upsert_agent_run; or one fails.
Prepare(c) ==
  /\ call[c].at = "preparing" /\ Unstopped(c)
  /\ \/ /\ Go(c, "announcing")
        /\ row' = [row EXCEPT ![c] = "running"]
        /\ UNCHANGED <<future, inFlight, active, faults>>
     \/ Fault /\ End(c, "failed") /\ UNCHANGED row
  /\ UNCHANGED <<leader, child, spawns, stopped, asked>>

\* A mutant: the intention is forgotten when its child starts.
LaunchForgets(c) ==
  /\ call[c].at = "announcing" /\ Unstopped(c)
  /\ Go(c, "running")
  /\ child' = [child EXCEPT ![c] = "running"]
  /\ active' = IF CorrelationOf[c] = None THEN active
               ELSE [active EXCEPT ![CorrelationOf[c]] = c]
  /\ inFlight' = [k \in IntentKeys |-> IF inFlight[k] = c THEN None ELSE inFlight[k]]
  /\ UNCHANGED <<leader, future, row, spawns, stopped, asked, faults>>

Launch(c) ==
  /\ call[c].at = "announcing" /\ Unstopped(c)
  /\ Go(c, "running")
  /\ child' = [child EXCEPT ![c] = "running"]
  /\ active' = IF CorrelationOf[c] = None THEN active
               ELSE [active EXCEPT ![CorrelationOf[c]] = c]
  /\ UNCHANGED <<leader, future, inFlight, row, spawns, stopped, asked, faults>>

\* run_conversation writes how it ended, unless by an exception.
ChildEnds(c) ==
  /\ child[c] \in Alive
  /\ \E e \in IF child[c] = "cancelling" THEN Ended ELSE Ended \ {"cancelled"} :
       /\ child' = [child EXCEPT ![c] = e]
       /\ row' = IF e \in {"text", "paused"} THEN [row EXCEPT ![c] = "settled"] ELSE row
  /\ UNCHANGED <<call, leader, future, inFlight, active, spawns, stopped, asked, faults>>

Silence(c) ==
  /\ child[c] = "running" /\ Fault
  /\ child' = [child EXCEPT ![c] = "silent"]
  /\ UNCHANGED <<call, leader, future, inFlight, active, row, spawns, stopped, asked>>

\* A mutant: the watchdog ends, and the call waits for a child nobody cancelled.
WatchdogGivesUp(c) ==
  /\ c \in Watched /\ call[c].at = "running" /\ child[c] = "silent" /\ Unstopped(c)
  /\ Go(c, "stopping")
  /\ UNCHANGED <<leader, future, inFlight, active, child, row, spawns, stopped, asked,
                 faults>>

\* _watch_liveness returns, and the child is cancelled.
Watchdog(c) ==
  /\ c \in Watched /\ call[c].at = "running" /\ child[c] = "silent" /\ Unstopped(c)
  /\ child' = [child EXCEPT ![c] = "cancelling"]
  /\ Go(c, "stopping")
  /\ UNCHANGED <<leader, future, inFlight, active, row, spawns, stopped, asked, faults>>

\* The conversation is done; an exception of a child that was being stopped goes
\* through, and its status is not written.
Awaited(c) ==
  /\ call[c].at \in {"running", "stopping"} /\ child[c] \in Ended /\ Unstopped(c)
  /\ IF call[c].at = "stopping"
     THEN IF child[c] = "failed" THEN End(c, "failed")
          ELSE Close(c, "stalled") /\ UNCHANGED <<future, inFlight, active>>
     ELSE /\ Close(c, IF child[c] = "cancelled" THEN "interrupted" ELSE child[c])
          /\ UNCHANGED <<future, inFlight, active>>
  /\ UNCHANGED <<leader, child, row, spawns, stopped, asked, faults>>

\* _mark_child_status; the store keeps a status that is final.
Mark(c) ==
  IF row[c] # "running" THEN row[c]
  ELSE IF call[c].answer = "failed" THEN "failed" ELSE "cancelled"

Finish(c) ==
  /\ call[c].at = "closing" /\ Unstopped(c)
  /\ \/ row' = [row EXCEPT ![c] = Mark(c)] /\ UNCHANGED faults
     \/ Fault /\ UNCHANGED row
  /\ End(c, call[c].answer)
  /\ UNCHANGED <<leader, child, spawns, stopped, asked>>

-----------------------------------------------------------------------------
(* Stops.                                                                  *)

CallsOf(t) == {c \in Calls : TurnOf[c] = t}
Current(c) ==
  call[c].at # "over" /\ Reached(c)

\* The task of the turn is cancelled: asyncio passes it to the call it awaits, or
\* to all calls of the gather.
StopTurn(t) ==
  /\ Fault
  /\ \E c \in CallsOf(t) : call[c].at # "over"
  /\ \A c \in CallsOf(t) : call[c].answer # "cancelled"
  /\ stopped' = [stopped EXCEPT !.coming = @ \cup {c \in CallsOf(t) : Current(c)}]
  /\ UNCHANGED <<call, leader, future, inFlight, active, child, row, spawns, asked>>

\* What the CancelledError does where the call waits: in a follower it cancels the
\* future of the leader; while the child runs it cancels the child, or with a
\* watchdog leaves it behind; a child that was being stopped keeps it.
Deliver(c) ==
  /\ c \in stopped.coming
  /\ stopped' = [coming |-> stopped.coming \ {c}, came |-> stopped.came \cup {c}]
  /\ \/ /\ \/ call[c].at \in {"new", "preparing", "announcing", "closing"}
           \/ call[c].at = "running" /\ c \in Watched
           \/ call[c].at = "following" /\ future[leader[c]] # "pending"
        /\ End(c, "cancelled")
        /\ UNCHANGED child
     \/ /\ call[c].at = "following" /\ future[leader[c]] = "pending"
        /\ future' = [future EXCEPT ![leader[c]] = "cancelled"]
        /\ UNCHANGED <<call, inFlight, active, child>>
     \/ /\ call[c].at \in {"running", "stopping"} /\ ~(call[c].at = "running" /\ c \in Watched)
        /\ IF child[c] \in Alive
           THEN child' = [child EXCEPT ![c] = "cancelling"] /\ UNCHANGED call
           ELSE Close(c, IF call[c].at = "stopping" THEN "stalled" ELSE "interrupted")
                /\ UNCHANGED child
        /\ UNCHANGED <<future, inFlight, active>>
     \/ /\ call[c].at = "over"
        /\ UNCHANGED <<call, future, inFlight, active, child>>
  /\ UNCHANGED <<leader, row, spawns, asked, faults>>

\* request_hard_interrupt with the token of the correlation id.
HardInterrupt(k) ==
  LET c == active[k] IN
  /\ c # None /\ child[c] \in Alive /\ c \notin asked
  /\ child' = [child EXCEPT ![c] = "cancelling"]
  /\ asked' = asked \cup {c}
  /\ UNCHANGED <<call, leader, future, inFlight, active, row, spawns, stopped, faults>>

-----------------------------------------------------------------------------
Own(c) == Begin(c) \/ Join(c) \/ Prepare(c) \/ Launch(c) \/ Awaited(c) \/ Finish(c)
            \/ Watchdog(c) \/ Deliver(c)

Next ==
  \/ \E c \in Calls : Own(c) \/ ChildEnds(c) \/ Silence(c)
  \/ \E t \in Turns : StopTurn(t)
  \/ \E k \in Correlations : HardInterrupt(k)

Spec == Init /\ [][Next]_vars

\* Tasks that can run do; a conversation ends, by its budgets and the timeouts of
\* its model, unless it is silent.
FairSpec ==
  Spec /\ \A c \in Calls : WF_vars(Own(c)) /\ WF_vars(child[c] # "silent" /\ ChildEnds(c))

-----------------------------------------------------------------------------
(* Properties.                                                             *)

\* Two calls with one correlation id and one identity never have children that
\* work at the same time, except for one whose call was stopped.
OneRunPerIntent ==
  \A c, d \in Calls :
    c # d /\ CorrelationOf[c] # None /\ Key(c) = Key(d) /\ {child[c], child[d]} \subseteq Alive
      => "cancelled" \in {call[c].answer, call[d].answer}

\* A follower is told what its leader was told, whatever happened to the child.
AnswersAgree ==
  \A c \in Calls :
    leader[c] # None /\ call[c].at = "over" /\ call[c].answer # "cancelled"
      => call[leader[c]].answer = call[c].answer

\* A turn that gives its budget away spawns no more children than its cap, in
\* parallel batches too.
SpawnsWithinCap ==
  \A t \in Turns :
    Cardinality({c \in CallsOf(t) : row[c] # "none"}) <= Cap

\* Every call that began is over, in the end: the watchdog sees to it if its child is
\* silent, and no follower is left waiting for a future that nobody will resolve.
CallsOver == \A c \in Calls : call[c].at \in {"new", "over"}

-----------------------------------------------------------------------------
(* What a comment or a docstring says and the code does not keep.  TLC     *)
(* finds these violated, so no configuration checks them (see the README). *)

\* The docstring of the module: the conversation of a call with a correlation id is
\* registered while it runs.
RunningIsRegistered ==
  \A c \in Calls :
    CorrelationOf[c] # None /\ call[c].at = "running" /\ child[c] \in Alive
      => active[CorrelationOf[c]] = c

\* The comment of _run_subagent_once: who gets there was cancelled at an explicit
\* request.
InterruptsWereAsked ==
  \A c \in Calls : call[c].answer = "interrupted" => c \in asked

\* The docstring of delegate_to_subagent: no raw exception reaches the loop, other
\* than the stop of its own turn.
OnlyOwnStop ==
  \A c \in Calls : call[c].answer = "cancelled" => c \in stopped.came

=============================================================================
