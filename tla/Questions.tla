------------------------------- MODULE Questions -------------------------------
(***************************************************************************)
(* Structured questions (backend/services/structured_questions.py), the    *)
(* tool that asks them (backend/tools/questions.py) and the handler that   *)
(* answers them (answer_structured_question of                             *)
(* backend/api/handlers/threads.py): a store behind a lock, whose changes  *)
(* are written to a file by a thread while the lock is held, tool calls    *)
(* that wait for an answer, time out and are stopped with their turn, and  *)
(* a restart that expires what was pending.                                *)
(*                                                                         *)
(* Positions of a tool call: new, creating (at the lock of create()),      *)
(* saving, waiting, expiring (at the lock after the timeout), closing      *)
(* (saves the expiry), over.  Of a request: new, entering (at the lock),   *)
(* saving, over.                                                           *)
(*                                                                         *)
(* Abstractions.  A question is the pair of its thread and its key; its    *)
(* state is its status, or the option that answered it.  Prompts, dates    *)
(* and invalid answers are left out, and so is the event for the screen:   *)
(* a client answers a question that exists.  A file is written to a        *)
(* temporary one and renamed, each in one step.                            *)
(***************************************************************************)
EXTENDS Integers

CONSTANTS
  Keys,        \* pairs of a thread and an idempotency key
  Options,     \* answers; strings that are no status
  Asks,        \* calls of the tool
  Requests,    \* requests of clients
  KeyOf,       \* the question of each
  ReplyOf,     \* what a request answers, or "cancelled"
  None,
  MaxStops,    \* bound on stopped turns
  MaxErrors,   \* bound on writes that fail
  MaxCrashes   \* bound on restarts

Actors == Asks \cup Requests
Replies == Options \cup {"cancelled"}
States == Replies \cup {"none", "pending", "expired"}
Results == Replies \cup {"none", "timeout", "stopped", "error"}

\* The values of the constants a configuration may take.
Parameters ==
  /\ Asks \cap Requests = {} /\ None \notin Actors
  /\ Options \cap {"none", "pending", "expired", "cancelled", "timeout", "stopped", "error"} = {}
  /\ KeyOf \in [Actors -> Keys] /\ ReplyOf \in [Requests -> Replies]
  /\ {MaxStops, MaxErrors, MaxCrashes} \subseteq Nat

VARIABLES
  question,  \* _questions and _keys: the state of each question
  event,     \* the event of each
  lock,      \* who holds _lock
  at,        \* position of each tool call and request
  result,    \* what a tool call returned, and what a client was told
  thread,    \* the threads of _save: step, and the values to write
  tmp, file, \* the two files; tmp may be missing
  spent      \* stops, errors and restarts so far

memory == <<question, event, lock>>
disk == <<thread, tmp, file>>
vars == <<memory, at, result, disk, spent>>

Snapshots == [Keys -> States]

TypeOK ==
  /\ question \in Snapshots /\ event \in [Keys -> BOOLEAN]
  /\ lock \in Actors \cup {None}
  /\ at \in [Actors -> {"new", "creating", "entering", "saving", "waiting",
                        "expiring", "closing", "over"}]
  /\ result \in [Actors -> Results]
  /\ thread \in [Actors -> [step : {"idle", "queued", "written", "done", "failed"},
                            values : Snapshots]]
  /\ tmp \in Snapshots \cup {<<>>} /\ file \in Snapshots
  /\ spent \in [stops : Nat, errors : Nat, crashes : Nat]

Nothing == [k \in Keys |-> "none"]

Init ==
  /\ question = Nothing /\ event = [k \in Keys |-> FALSE]
  /\ lock = None
  /\ at = [x \in Actors |-> "new"]
  /\ result = [x \in Actors |-> "none"]
  /\ thread = [x \in Actors |-> [step |-> "idle", values |-> Nothing]]
  /\ tmp = <<>> /\ file = Nothing
  /\ spent = [stops |-> 0, errors |-> 0, crashes |-> 0]

Status(x) == question[KeyOf[x]]
Go(x, position) == at' = [at EXCEPT ![x] = position]
Stay == UNCHANGED <<memory, disk>>

\* The call returns, or the client hears.
Return(x, value) ==
  /\ Go(x, "over")
  /\ result' = [result EXCEPT ![x] = value]

\* _save(), under the lock: the values are taken now, and written by a thread.
Save(x, values) ==
  /\ lock' = x
  /\ thread' = [thread EXCEPT ![x] = [step |-> "queued", values |-> values]]
  /\ UNCHANGED <<tmp, file>>

\* A question changes, and those who wait for it wake if it was answered.
Change(x, state) ==
  /\ question' = [question EXCEPT ![KeyOf[x]] = state]
  /\ event' = [event EXCEPT ![KeyOf[x]] = @ \/ state \in Replies]

-----------------------------------------------------------------------------
(* The thread of _write: the temporary file, and the rename.               *)

WriteTmp(x) ==
  /\ thread[x].step = "queued"
  /\ tmp' = thread[x].values
  /\ thread' = [thread EXCEPT ![x].step = "written"]
  /\ UNCHANGED <<memory, at, result, file, spent>>

\* The rename raises if another thread renamed the file first.
Replace(x) ==
  /\ thread[x].step = "written"
  /\ IF tmp # <<>>
     THEN file' = tmp /\ tmp' = <<>> /\ thread' = [thread EXCEPT ![x].step = "done"]
     ELSE thread' = [thread EXCEPT ![x].step = "failed"] /\ UNCHANGED <<tmp, file>>
  /\ UNCHANGED <<memory, at, result, spent>>

WriteFails(x) ==
  /\ thread[x].step \in {"queued", "written"} /\ spent.errors < MaxErrors
  /\ spent' = [spent EXCEPT !.errors = @ + 1]
  /\ thread' = [thread EXCEPT ![x].step = "failed"]
  /\ UNCHANGED <<memory, at, result, tmp, file>>

Ended(x) == thread[x].step \in {"done", "failed"}

-----------------------------------------------------------------------------
(* The tool.                                                               *)

Ask(a) ==
  /\ at[a] = "new" /\ Go(a, "creating")
  /\ Stay /\ UNCHANGED <<result, spent>>

\* create(): the question of the key, whatever became of it, or a new one.
Create(a) ==
  /\ at[a] = "creating" /\ lock = None
  /\ IF Status(a) # "none"
     THEN Go(a, "waiting") /\ Stay
     ELSE Go(a, "saving") /\ Change(a, "pending") /\ Save(a, question')
  /\ UNCHANGED <<result, spent>>

Created(a) ==
  /\ at[a] = "saving" /\ Ended(a)
  /\ lock' = None
  /\ IF thread[a].step = "done" THEN Go(a, "waiting") /\ UNCHANGED result
     ELSE Return(a, "error")
  /\ UNCHANGED <<question, event, disk, spent>>

Wake(a) ==
  /\ at[a] = "waiting" /\ event[KeyOf[a]]
  /\ Return(a, IF Status(a) = "expired" THEN "timeout" ELSE Status(a))
  /\ Stay /\ UNCHANGED spent

Timeout(a) ==
  /\ at[a] = "waiting" /\ Go(a, "expiring")
  /\ Stay /\ UNCHANGED <<result, spent>>

Expire(a) ==
  /\ at[a] = "expiring" /\ lock = None
  /\ IF Status(a) = "pending"
     THEN Go(a, "closing") /\ Change(a, "expired") /\ Save(a, question') /\ UNCHANGED result
     ELSE Return(a, "timeout") /\ Stay
  /\ UNCHANGED spent

Expired(a) ==
  /\ at[a] = "closing" /\ Ended(a)
  /\ lock' = None
  /\ Return(a, IF thread[a].step = "done" THEN "timeout" ELSE "error")
  /\ UNCHANGED <<question, event, disk, spent>>

\* The turn is stopped: the lock is released, and a thread that writes goes on.
Stop(a) ==
  /\ at[a] \notin {"new", "over"} /\ spent.stops < MaxStops
  /\ spent' = [spent EXCEPT !.stops = @ + 1]
  /\ lock' = IF lock = a THEN None ELSE lock
  /\ Return(a, "stopped")
  /\ UNCHANGED <<question, event, disk>>

-----------------------------------------------------------------------------
(* answer() and cancel(), for a client that knows the question.            *)

Send(r) ==
  /\ at[r] = "new" /\ Status(r) # "none" /\ Go(r, "entering")
  /\ Stay /\ UNCHANGED <<result, spent>>

\* A mutant: the client hears before the answer is written.
ReplyEarly(r) ==
  /\ at[r] = "entering" /\ lock = None
  /\ IF Status(r) = "pending"
     THEN /\ Return(r, ReplyOf[r]) /\ Change(r, ReplyOf[r])
          /\ thread' = [thread EXCEPT ![r] = [step |-> "queued", values |-> question']]
          /\ UNCHANGED <<lock, tmp, file>>
     ELSE Return(r, IF Status(r) \in Replies THEN Status(r) ELSE "none") /\ Stay
  /\ UNCHANGED spent

Reply(r) ==
  /\ at[r] = "entering" /\ lock = None
  /\ IF Status(r) = "pending"
     THEN Go(r, "saving") /\ Change(r, ReplyOf[r]) /\ Save(r, question') /\ UNCHANGED result
     ELSE Return(r, IF Status(r) \in Replies THEN Status(r) ELSE "none") /\ Stay
  /\ UNCHANGED spent

Replied(r) ==
  /\ at[r] = "saving" /\ Ended(r)
  /\ lock' = None
  /\ Return(r, IF thread[r].step = "done" THEN Status(r) ELSE "error")
  /\ UNCHANGED <<question, event, disk, spent>>

-----------------------------------------------------------------------------

\* _load(): nobody waits any more for what was pending.
Loaded == [k \in Keys |-> IF file[k] = "pending" THEN "expired" ELSE file[k]]

\* The process dies and starts again; its calls and requests are gone.
Crash ==
  /\ spent.crashes < MaxCrashes
  /\ spent' = [spent EXCEPT !.crashes = @ + 1]
  /\ question' = Loaded
  /\ event' = [k \in Keys |-> Loaded[k] \notin {"none", "pending"}]
  /\ lock' = None
  /\ thread' = [x \in Actors |-> [thread[x] EXCEPT !.step = "idle"]]
  /\ at' = [x \in Actors |-> IF at[x] = "new" THEN "new" ELSE "over"]
  /\ result' = [x \in Actors |-> IF at[x] \in {"new", "over"} THEN result[x] ELSE "stopped"]
  /\ UNCHANGED <<tmp, file>>

AskStep(a) ==
  Ask(a) \/ Create(a) \/ Created(a) \/ Wake(a) \/ Timeout(a) \/ Expire(a) \/ Expired(a)
ReplyStep(r) == Send(r) \/ Reply(r) \/ Replied(r)
Write(x) == WriteTmp(x) \/ Replace(x)

Next ==
  \/ \E a \in Asks : AskStep(a) \/ Stop(a)
  \/ \E r \in Requests : ReplyStep(r)
  \/ \E x \in Actors : Write(x) \/ WriteFails(x)
  \/ Crash

Spec == Init /\ [][Next]_vars

\* Calls and handlers go on, timeouts fire, threads write.
FairSpec ==
  /\ Spec
  /\ \A a \in Asks : WF_vars(AskStep(a))
  /\ \A r \in Requests : WF_vars(ReplyStep(r))
  /\ \A x \in Actors : WF_vars(Write(x))

-----------------------------------------------------------------------------
(* Properties.                                                             *)

\* The store is durable: the state a client was told stays the state of its question,
\* through restarts and what others do.
ToldIsKept ==
  \A r \in Requests : result[r] \in Replies => Status(r) = result[r]

\* The result of a question is one: all the calls and clients that hear a reply to it
\* hear the same, however replies, timeouts and restarts meet.  While its creation was
\* saved, or until a restart: what was created by a stopped call, and answered, is
\* created again by the next call after a restart that never heard of it.
AnswersAgree ==
  \A x, y \in Actors :
    KeyOf[x] = KeyOf[y] /\ {result[x], result[y]} \subseteq Replies => result[x] = result[y]

\* A question is pending only while a call asks it, or a thread of the tool is about to:
\* the screen shows no question whose turn is gone.
PendingIsAsked ==
  \A k \in Keys : question[k] = "pending" =>
    \E a \in Asks : KeyOf[a] = k /\ at[a] \in {"saving", "waiting", "expiring"}

\* Whatever fails, is stopped or is lost, in the end every call and every request that
\* began is over; and every question is settled, answered or not, unless its turn was
\* stopped or its write failed.
CallsOver ==
  /\ \A x \in Actors : at[x] \in {"new", "over"}
  /\ (spent.stops = 0 /\ spent.errors = 0) => \A k \in Keys : question[k] # "pending"

-----------------------------------------------------------------------------
(* What a comment or a docstring says and the code does not keep.  TLC     *)
(* finds these violated, so no configuration checks them (see the README). *)

\* The tool reports a timeout only of a question that nobody answered.
TimeoutIsTrue ==
  \A a \in Asks : result[a] = "timeout" => Status(a) \notin Replies

=============================================================================
