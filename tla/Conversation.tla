---------------------------- MODULE Conversation ----------------------------
(***************************************************************************)
(* The messages of one thread and the runs that read and extend them: the  *)
(* conversation loop (backend/engine/conversation_loop.py), the batches of *)
(* tool calls (backend/engine/tool_batch.py), the pause for an approval    *)
(* and its resumption (resume_conversation, backend/engine/hitl.py), the   *)
(* tree of messages and the pending approval in the store                  *)
(* (backend/persistence/native/session_store.py) and the two requests that *)
(* start a run (backend/api/handlers/chat.py).                             *)
(*                                                                         *)
(* Messages form a tree: each has a parent, and the history is the path    *)
(* from the active head to the root.  A run carries parent_id, the message *)
(* it appends to, and reads the history from the head.                     *)
(*                                                                         *)
(* Positions of a run:                                                     *)
(*   idle, placing   the request has not come; it has read the head        *)
(*   queued          at the lock of the workspace                          *)
(*   starting        run_conversation is called                            *)
(*   reading         at the top of an iteration                            *)
(*   thinking        the model answers                                     *)
(*   asking          the batch needs an approval                           *)
(*   executing       execute_tool_batch and the storing of its results     *)
(*   claiming, claimed, loaded, replaying   resume_conversation            *)
(*   ending          the runner appends how the run failed or was cut      *)
(*   over                                                                  *)
(*                                                                         *)
(* Abstractions.  A call is named by the message that requested it and its *)
(* position, an approval by the call it asks about.  Refusals of the       *)
(* policy and of the turn's budget are a call that gets a result without   *)
(* having run.  The system prompt that roots a thread, compaction, the     *)
(* checkpoint of the context, the grants of a background run, evidence and *)
(* ledger events are left out; the rows of the run are those of RunStream. *)
(* An approval that lapses is deleted when its date comes, not at the next *)
(* read.                                                                   *)
(***************************************************************************)
EXTENDS Integers, Sequences, FiniteSets, FiniteSetsExt

CONSTANTS
  Runs, Turns,
  None,          \* no call, no decision, no lock; TurnOf of a resumption
  TurnOf,        \* the turn a chat request carries
  Batches,       \* the batches the model may ask for
  Serialized,    \* whether the thread has a workspace, whose lock orders runs
  Habits,        \* what the clients do, see Patient
  MaxMessages, MaxBatch,
  MaxFaults      \* bound on cancellations, crashes and lapsed approvals

Kinds == {"read", "write", "guarded", "terminal", "media"}
Asks == {"guarded", "terminal", "media"}
Destructive == Kinds \ {"read"}

Calls == (1..MaxMessages) \X (1..MaxBatch)

\* The values of the constants a configuration may take.
Parameters ==
  /\ TurnOf \in [Runs -> Turns \cup {None}] /\ None \notin Turns
  /\ \A b \in Batches : b \in Seq(Kinds) /\ Len(b) \in 1..MaxBatch
  /\ {MaxMessages, MaxBatch, MaxFaults} \subseteq Nat
  /\ Serialized \in BOOLEAN
  /\ Habits \subseteq {"overlap", "interject", "resubmit", "select", "edit", "rewind"}
  /\ None \notin Runs \cup Calls

VARIABLES
  msgs,       \* the rows of messages, in the order of their ids
  head,       \* the active head, 0 in an empty thread
  pending,    \* the call of the row in pending_approvals
  ephemeral,  \* the approvals whose arguments the process still holds
  run,        \* each run
  lock,       \* who holds the workspace
  ran,        \* how often the tool of each call was run
  decided,    \* the decisions that claimed an approval
  cut,        \* messages whose batch a fault, a lost argument or the outcome
              \* of another run came before all of its results
  faults,     \* faults so far
  fork        \* the message each chat request asked to go on from

vars == <<msgs, head, pending, ephemeral, run, lock, ran, decided, cut, faults,
          fork>>

Decisions == {"approve", "reject"}
Working ==
  {"starting", "reading", "thinking", "asking", "executing",
   "claiming", "claimed", "loaded", "replaying"}
Positions == {"idle", "placing", "queued", "ending", "over"} \cup Working

Message ==
  [role : {"user", "assistant", "tool"},
   parent : 0..MaxMessages,
   turn : Turns \cup {None},
   calls : Batches \cup {<<>>},
   answers : Calls \cup {None}]

Run ==
  [at : Positions,
   parent : 0..MaxMessages,            \* parent_id
   seen : SUBSET (1..MaxMessages),     \* the history sent to the model
   batch : 0..MaxMessages,             \* the assistant message with the calls
   done : SUBSET (1..MaxBatch),        \* calls with a result
   stored : 0..MaxBatch,               \* results appended
   asked : Calls \cup {None},          \* interrupt_id of a resumption
   decision : Decisions \cup {None}]

Fresh ==
  [at |-> "idle", parent |-> 0, seen |-> {}, batch |-> 0, done |-> {},
   stored |-> 0, asked |-> None, decision |-> None]
Over == [Fresh EXCEPT !.at = "over"]

TypeOK ==
  /\ msgs \in Seq(Message) /\ Len(msgs) <= MaxMessages
  /\ head \in 0..Len(msgs)
  /\ pending \in Calls \cup {None}
  /\ ephemeral \subseteq Calls
  /\ run \in [Runs -> Run]
  /\ lock \in Runs \cup {None}
  /\ ran \in [Calls -> Nat]
  /\ decided \subseteq Calls \X Decisions
  /\ cut \subseteq 1..MaxMessages
  /\ faults \in Nat
  /\ fork \in [Runs -> 0..MaxMessages]

Init ==
  /\ msgs = <<>> /\ head = 0
  /\ pending = None /\ ephemeral = {}
  /\ run = [r \in Runs |-> Fresh]
  /\ lock = None
  /\ ran = [c \in Calls |-> 0]
  /\ decided = {} /\ cut = {} /\ faults = 0
  /\ fork = [r \in Runs |-> 0]

-----------------------------------------------------------------------------
(* The tree.                                                               *)

\* get_history: the ids from message m of ms to its root.
Path(ms, m) ==
  LET up[i \in 0..Len(ms)] == IF i = 0 THEN {} ELSE {i} \cup up[ms[i].parent]
  IN up[m]

Requested(ms, S) == {c \in Calls : c[1] \in S /\ c[2] <= Len(ms[c[1]].calls)}
Answered(ms, S) == {ms[i].answers : i \in S} \ {None}

\* The last assistant message with calls of the history, 0 if there is none.
LastBatch(ms, S) == Max({0} \cup {i \in S : ms[i].calls # <<>>})

Kind(c) == msgs[c[1]].calls[c[2]]
BatchLen(r) == IF run[r].batch = 0 THEN 0 ELSE Len(msgs[run[r].batch].calls)

\* append_message: the new message becomes the head, whatever its parent.
Add(role, parent, turn, calls, answers) ==
  /\ Len(msgs) < MaxMessages
  /\ msgs' = Append(msgs, [role |-> role, parent |-> parent, turn |-> turn,
                           calls |-> calls, answers |-> answers])
  /\ head' = Len(msgs) + 1

Leaves == {m \in 1..Len(msgs) : \A i \in 1..Len(msgs) : msgs[i].parent # m}

To(r, record) == run' = [run EXCEPT ![r] = record]
Move(r, at) == run' = [run EXCEPT ![r].at = at]

\* A run ends: the lock of the workspace is released.
End(r) ==
  /\ To(r, Over)
  /\ lock' = IF lock = r THEN None ELSE lock

-----------------------------------------------------------------------------
(* Requests.                                                               *)

\* What the client in front of the thread waits for before it sends anything
\* but the decision it was asked for: the run at work, and that decision.
Patient ==
  /\ "overlap" \in Habits \/ \A r \in Runs : run[r].at \in {"idle", "over"}
  /\ "interject" \in Habits \/ pending = None

\* The turn of r is being placed or run by another request.
Resubmitted(r) ==
  /\ "resubmit" \in Habits
  /\ \E s \in Runs \ {r} : TurnOf[s] = TurnOf[r] /\ run[s].at # "idle"

\* StreamChat: an edit or a regeneration names the message m to go on from,
\* and set_branch_head refuses one that is no leaf, which is only logged; the
\* head is read, and a turn whose message is stored is confirmed.
ReadHead(r, m) ==
  /\ run[r].at = "idle" /\ TurnOf[r] # None
  /\ Patient \/ Resubmitted(r)
  /\ m # 0 => "edit" \in Habits /\ m \in DOMAIN msgs
  /\ head' = IF m \in Leaves THEN m ELSE head
  /\ fork' = [fork EXCEPT ![r] = m]
  /\ IF \E i \in DOMAIN msgs : msgs[i].turn = TurnOf[r]
     THEN To(r, Over)
     ELSE To(r, [run[r] EXCEPT !.at = "placing", !.parent = head'])
  /\ UNCHANGED <<msgs, pending, ephemeral, lock, ran, decided, cut, faults>>

\* The message of the user is appended once for its turn.
Place(r) ==
  /\ run[r].at = "placing"
  /\ IF \E i \in DOMAIN msgs : msgs[i].turn = TurnOf[r]
     THEN UNCHANGED <<msgs, head>>
     ELSE Add("user", run[r].parent, TurnOf[r], <<>>, None)
  /\ To(r, [Fresh EXCEPT !.at = "queued"])
  /\ UNCHANGED <<pending, ephemeral, lock, ran, decided, cut, faults, fork>>

\* ResumeChat: the approval the client names is the pending one.
Decide(r, decision) ==
  /\ run[r].at = "idle" /\ TurnOf[r] = None
  /\ pending # None
  /\ To(r, [run[r] EXCEPT !.at = "queued", !.asked = pending, !.decision = decision])
  /\ UNCHANGED <<msgs, head, pending, ephemeral, lock, ran, decided, cut, faults, fork>>

Enter(r) ==
  /\ run[r].at = "queued"
  /\ IF Serialized THEN lock = None /\ lock' = r ELSE UNCHANGED lock
  /\ Move(r, IF run[r].asked = None THEN "starting" ELSE "claiming")
  /\ UNCHANGED <<msgs, head, pending, ephemeral, ran, decided, cut, faults, fork>>

\* Another branch is selected.
SelectBranch(m) ==
  /\ "select" \in Habits /\ Patient
  /\ m \in Leaves \ {head}
  /\ head' = m
  /\ UNCHANGED <<msgs, pending, ephemeral, run, lock, ran, decided, cut, faults, fork>>

\* A rewind points the head at any message.
Rewind(m) ==
  /\ "rewind" \in Habits /\ Patient
  /\ m \in (DOMAIN msgs) \ {head}
  /\ head' = m
  /\ UNCHANGED <<msgs, pending, ephemeral, run, lock, ran, decided, cut, faults, fork>>

-----------------------------------------------------------------------------
(* run_conversation.                                                       *)

StartLoop(r) ==
  /\ run[r].at = "starting"
  /\ To(r, [Fresh EXCEPT !.at = "reading", !.parent = head])
  /\ UNCHANGED <<msgs, head, pending, ephemeral, lock, ran, decided, cut, faults, fork>>

Read(r) ==
  /\ run[r].at = "reading"
  /\ To(r, [run[r] EXCEPT !.at = "thinking", !.seen = Path(msgs, head)])
  /\ UNCHANGED <<msgs, head, pending, ephemeral, lock, ran, decided, cut, faults, fork>>

Answer(r) ==
  /\ run[r].at = "thinking"
  /\ Add("assistant", run[r].parent, None, <<>>, None)
  /\ End(r)
  /\ UNCHANGED <<pending, ephemeral, ran, decided, cut, faults, fork>>

\* An empty response, the same call too often, a model that fails.
GiveUp(r) ==
  /\ run[r].at = "thinking"
  /\ Move(r, "ending")
  /\ UNCHANGED <<msgs, head, pending, ephemeral, lock, ran, decided, cut, faults,
                 fork>>

\* _persist_terminal_outcome: behind the head, whatever the run appended to,
\* also behind a batch whose results another run has still to store.
Outcome(r) ==
  /\ run[r].at = "ending"
  /\ Add("assistant", head, None, <<>>, None)
  /\ LET H == Path(msgs, head)
     IN cut' = cut \cup {c[1] : c \in Requested(msgs, H) \ Answered(msgs, H)}
  /\ End(r)
  /\ UNCHANGED <<pending, ephemeral, ran, decided, faults, fork>>

\* The message with the calls.  A call that asks stops the whole batch.
Request(r, batch) ==
  /\ run[r].at = "thinking"
  /\ Add("assistant", run[r].parent, None, batch, None)
  /\ LET asks == \E i \in DOMAIN batch : batch[i] \in Asks
     IN To(r, [Fresh EXCEPT !.at = IF asks THEN "asking" ELSE "executing",
                            !.parent = Len(msgs) + 1, !.batch = Len(msgs) + 1])
  /\ UNCHANGED <<pending, ephemeral, lock, ran, decided, cut, faults, fork>>

\* request_approval for the first call that asks: the row of the thread is
\* replaced, and arguments that must not be stored are kept in memory.
Ask(r) ==
  LET b == run[r].batch
      c == <<b, Min({i \in DOMAIN msgs[b].calls : msgs[b].calls[i] \in Asks})>>
  IN /\ run[r].at = "asking"
     /\ pending' = c
     /\ ephemeral' = IF Kind(c) \in {"terminal", "media"}
                     THEN ephemeral \cup {c} ELSE ephemeral
     /\ End(r)
     /\ UNCHANGED <<msgs, head, ran, decided, cut, faults, fork>>

\* The tool of call c runs, or the policy or the budget refuses it.
Run1(c) == ran' \in {ran, [ran EXCEPT ![c] = @ + 1]}

\* _run_one: in parallel, or in order when a call of the batch is destructive.
Execute(r, i) ==
  LET b == run[r].batch IN
  /\ run[r].at = "executing"
  /\ i \in (1..BatchLen(r)) \ run[r].done
  /\ (\E j \in 1..BatchLen(r) : Kind(<<b, j>>) \in Destructive)
       => 1..(i - 1) \subseteq run[r].done
  /\ Run1(<<b, i>>)
  /\ run' = [run EXCEPT ![r].done = @ \cup {i}]
  /\ UNCHANGED <<msgs, head, pending, ephemeral, lock, decided, cut, faults, fork>>

\* A mutant: the result has no parent.
StoreAtTheRoot(r) ==
  LET c == <<run[r].batch, run[r].stored + 1>> IN
  /\ \/ run[r].at = "executing" /\ run[r].done = 1..BatchLen(r)
     \/ run[r].at = "replaying"
  /\ c[2] \in run[r].done
  /\ Add("tool", 0, None, <<>>, c)
  /\ To(r, [run[r] EXCEPT !.stored = @ + 1, !.parent = Len(msgs) + 1])
  /\ UNCHANGED <<pending, ephemeral, lock, ran, decided, cut, faults, fork>>

\* The result of the next call is appended: in the loop once the whole batch
\* is done, in a resumption after its own call.
Store(r) ==
  LET c == <<run[r].batch, run[r].stored + 1>> IN
  /\ \/ run[r].at = "executing" /\ run[r].done = 1..BatchLen(r)
     \/ run[r].at = "replaying"
  /\ c[2] \in run[r].done
  /\ Add("tool", run[r].parent, None, <<>>, c)
  /\ To(r, [run[r] EXCEPT !.stored = @ + 1, !.parent = Len(msgs) + 1])
  /\ UNCHANGED <<pending, ephemeral, lock, ran, decided, cut, faults, fork>>

\* All results are stored: the next iteration, the end of a turn whose budget
\* is exceeded, or that of one whose iterations are spent, which adds nothing.
EndBatch(r) ==
  /\ run[r].at = "executing" /\ run[r].stored = BatchLen(r)
  /\ \/ /\ To(r, [Fresh EXCEPT !.at = "reading", !.parent = run[r].parent])
        /\ UNCHANGED lock
     \/ Move(r, "ending") /\ UNCHANGED lock
     \/ End(r)
  /\ UNCHANGED <<msgs, head, pending, ephemeral, ran, decided, cut, faults, fork>>

-----------------------------------------------------------------------------
(* resume_conversation.                                                    *)

\* A mutant: the row of the approval is left until the end.
ClaimByRead(r) ==
  /\ run[r].at = "claiming"
  /\ IF pending = run[r].asked
     THEN /\ decided' = decided \cup {<<run[r].asked, run[r].decision>>}
          /\ Move(r, "claimed") /\ UNCHANGED lock
     ELSE End(r) /\ UNCHANGED decided
  /\ UNCHANGED <<msgs, head, pending, ephemeral, ran, cut, faults, fork>>

\* claim_pending_approval: the row is deleted if it is still the one asked about.
Claim(r) ==
  /\ run[r].at = "claiming"
  /\ IF pending = run[r].asked
     THEN /\ pending' = None
          /\ decided' = decided \cup {<<run[r].asked, run[r].decision>>}
          /\ Move(r, "claimed") /\ UNCHANGED lock
     ELSE End(r) /\ UNCHANGED <<pending, decided>>
  /\ UNCHANGED <<msgs, head, ephemeral, ran, cut, faults, fork>>

\* Arguments that only the process that asked had are gone.
ArgumentsLost(r) ==
  LET c == run[r].asked IN
  /\ c \notin ephemeral
  /\ \/ Kind(c) = "terminal"
     \/ Kind(c) = "media" /\ run[r].decision # "reject"

\* The history is read: the last batch of the active branch is replayed.
Load(r) ==
  /\ run[r].at = "claimed"
  /\ IF ArgumentsLost(r)
     THEN /\ pending' = None
          /\ cut' = cut \cup {run[r].asked[1]}
          /\ End(r)
     ELSE /\ To(r, [run[r] EXCEPT !.at = "loaded",
                                  !.batch = LastBatch(msgs, Path(msgs, head))])
          /\ UNCHANGED <<pending, cut, lock>>
  /\ UNCHANGED <<msgs, head, ephemeral, ran, decided, faults, fork>>

TakeParent(r) ==
  /\ run[r].at = "loaded"
  /\ To(r, [run[r] EXCEPT !.at = "replaying", !.parent = head])
  /\ UNCHANGED <<msgs, head, pending, ephemeral, lock, ran, decided, cut, faults, fork>>

\* What a resumption may run of the batch: the call that was decided about, and
\* the calls that need no decision.
MayReplay(r, c) ==
  IF c = run[r].asked THEN run[r].decision = "approve" ELSE Kind(c) \notin Asks

Replay(r) ==
  LET i == run[r].stored + 1
      c == <<run[r].batch, i>>
  IN /\ run[r].at = "replaying"
     /\ i \in (1..BatchLen(r)) \ run[r].done
     /\ IF MayReplay(r, c) THEN Run1(c) ELSE UNCHANGED ran
     /\ run' = [run EXCEPT ![r].done = @ \cup {i}]
     /\ UNCHANGED <<msgs, head, pending, ephemeral, lock, decided, cut, faults, fork>>

\* The batch is replayed: ApprovalGate.resolve clears the row of the thread,
\* and run_conversation goes on.
Resolve(r) ==
  /\ run[r].at = "replaying" /\ run[r].stored = BatchLen(r)
  /\ pending' = None
  /\ ephemeral' = ephemeral \ {run[r].asked}
  /\ To(r, [Fresh EXCEPT !.at = "starting"])
  /\ UNCHANGED <<msgs, head, lock, ran, decided, cut, faults, fork>>

-----------------------------------------------------------------------------
(* Faults.                                                                 *)

\* The batch a run leaves without all of its results if it ends here.
Unfinished(r) ==
  CASE run[r].at \in {"asking", "executing"} -> {run[r].batch}
    [] run[r].at \in {"claimed", "loaded", "replaying"} -> {run[r].asked[1]}
    [] OTHER -> {}

\* The run is cancelled, or an exception ends it, at an await: only a runner
\* that is at work persists the outcome.
Cancel(r) ==
  /\ faults < MaxFaults
  /\ run[r].at \in Working \cup {"placing", "queued", "ending"}
  /\ cut' = cut \cup Unfinished(r)
  /\ faults' = faults + 1
  /\ IF run[r].at \in Working
     THEN To(r, [Fresh EXCEPT !.at = "ending"]) /\ UNCHANGED lock
     ELSE End(r)
  /\ UNCHANGED <<msgs, head, pending, ephemeral, ran, decided, fork>>

\* The process ends: messages and the pending approval stay.
Crash ==
  /\ faults < MaxFaults
  /\ \E r \in Runs : run[r].at \in Working \cup {"ending"}
  /\ cut' = cut \cup UNION {Unfinished(r) : r \in Runs}
  /\ faults' = faults + 1
  /\ run' = [r \in Runs |-> IF run[r].at = "idle" THEN Fresh ELSE Over]
  /\ lock' = None
  /\ ephemeral' = {}
  /\ UNCHANGED <<msgs, head, pending, ran, decided, fork>>

\* The process ends while nothing runs.
Restart ==
  /\ faults < MaxFaults
  /\ ephemeral # {}
  /\ \A r \in Runs : run[r].at \in {"idle", "over"}
  /\ faults' = faults + 1
  /\ ephemeral' = {}
  /\ UNCHANGED <<msgs, head, pending, run, lock, ran, decided, cut, fork>>

\* approval_expires_at comes: a read or a claim deletes the row.
Lapse ==
  /\ faults < MaxFaults
  /\ pending # None
  /\ pending' = None
  /\ cut' = cut \cup {pending[1]}
  /\ faults' = faults + 1
  /\ UNCHANGED <<msgs, head, ephemeral, run, lock, ran, decided, fork>>

Next ==
  \/ \E r \in Runs :
       \/ \E m \in 0..MaxMessages : ReadHead(r, m)
       \/ Place(r) \/ Enter(r)
       \/ \E d \in Decisions : Decide(r, d)
       \/ StartLoop(r) \/ Read(r) \/ Answer(r) \/ GiveUp(r) \/ Outcome(r)
       \/ \E b \in Batches : Request(r, b)
       \/ Ask(r) \/ Store(r) \/ EndBatch(r)
       \/ \E i \in 1..MaxBatch : Execute(r, i)
       \/ Claim(r) \/ Load(r) \/ TakeParent(r) \/ Replay(r) \/ Resolve(r)
       \/ Cancel(r)
  \/ \E m \in 1..MaxMessages : SelectBranch(m) \/ Rewind(m)
  \/ Crash \/ Restart \/ Lapse

Spec == Init /\ [][Next]_vars

-----------------------------------------------------------------------------
(* Properties.                                                             *)

\* "Uma retomada idempotente": the tool of a call runs at most once, through
\* decisions sent twice, approvals that lapse, cancellations and crashes.
CallsRunOnce == \A c \in Calls : ran[c] <= 1

\* A call that asks runs only once an approval of that very call was claimed,
\* and an approval is claimed with one decision: not by a rejected call, not
\* by a call that shares the batch of an approved one.
DecisionIsObeyed ==
  /\ \A c \in Requested(msgs, DOMAIN msgs) :
       Kind(c) \in Asks /\ ran[c] > 0 => <<c, "approve">> \in decided
  /\ \A c \in Calls : ~({<<c, "approve">>, <<c, "reject">>} \subseteq decided)

\* What stands between the message with a call and message i with its result.
Between(H, i) == H \cap ((msgs[i].answers[1] + 1)..(i - 1))
OfTheBatch(i, j) == msgs[j].role = "tool" /\ msgs[j].answers[1] = msgs[i].answers[1]

\* Each result in the history follows the message with its call, with nothing
\* between them but results of that message and the outcome of a resumption
\* that failed, and no call has two of them.
HistoryIsCausal ==
  LET H == Path(msgs, head) IN
  \A i \in H :
    msgs[i].role = "tool"
    => /\ msgs[i].answers[1] \in H
       /\ \A j \in Between(H, i) :
            \/ OfTheBatch(i, j)
            \/ msgs[j].role = "assistant" /\ msgs[j].calls = <<>>
       /\ \A j \in H \ {i} : msgs[j].answers # msgs[i].answers

\* A history sent to the model has a result for every call, but for those
\* whose batch was cut short.
CompleteUnlessCut ==
  \A r \in Runs :
    \A c \in Requested(msgs, run[r].seen) \ Answered(msgs, run[r].seen) :
      c[1] \in cut

\* The model is asked with the message of the turn in its history.
TurnIsSeen ==
  \A r \in Runs : \A i \in DOMAIN msgs :
    /\ run[r].at = "thinking"
    /\ msgs[i].turn = TurnOf[r] /\ TurnOf[r] # None
    => i \in run[r].seen

-----------------------------------------------------------------------------
(* What a comment or a docstring says and the code does not keep.  TLC     *)
(* finds these violated, so no configuration checks them (see the README). *)

\* The comment on the repetition guard: no pending calls without results, no
\* incomplete turn is replayed.
NothingIncompleteReplayed ==
  \A r \in Runs : Requested(msgs, run[r].seen) \subseteq Answered(msgs, run[r].seen)

\* The docstring of _conversation_units: a result and the message with its call
\* are never split.
ResultsFollowTheirCall ==
  \A i \in Path(msgs, head) :
    msgs[i].role = "tool"
    => \A j \in Between(Path(msgs, head), i) : OfTheBatch(i, j)

\* The docstring of _idempotent_turn_stream: a turn that is stored is not
\* executed again.
TurnRunsOnce ==
  \A r, s \in Runs :
    r # s /\ TurnOf[r] = TurnOf[s] /\ TurnOf[r] # None
    => ~({run[r].at, run[s].at} \subseteq Working)

\* The comment on fork_from_checkpoint_id: an edited or regenerated message
\* branches from the earlier message it names.
ForksWhereAsked ==
  \A r \in Runs : \A i \in DOMAIN msgs :
    msgs[i].turn = TurnOf[r] /\ TurnOf[r] # None /\ fork[r] # 0
    => msgs[i].parent = fork[r]

=============================================================================
