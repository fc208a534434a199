------------------------------- MODULE ThreadRows -------------------------------
(***************************************************************************)
(* The rows of the sidebar (vectora_sessions,                              *)
(* backend/api/handlers/threads.py) beside the sessions of the engine      *)
(* (SessionStore): turns, titles, pins, renames and deletions edit them    *)
(* from coroutines of one event loop, and the hourly loop of               *)
(* backend/api/server.py restores lost rows and removes empty ones.        *)
(*                                                                         *)
(* Every await is a point where others run, so the reading of a row and    *)
(* its writing are steps of their own; a statement is one step.  One       *)
(* connection is shared: statements see what others have not committed.    *)
(*                                                                         *)
(* Positions of a request: idle, creates, registers (about to read the     *)
(* row), writes, counts, appends (the message of the user), answers (the   *)
(* model runs), replies; names (the model writes a title); renames; locks, *)
(* marks, drops and forgets of a deletion.                                 *)
(*                                                                         *)
(* Abstractions.  Dates are the bit old: created over an hour ago.  Modes, *)
(* read cursors and the rows of subagents are left out.  Deletions and     *)
(* renames name a thread that was created.                                 *)
(***************************************************************************)
EXTENDS Integers, FiniteSets

CONSTANTS
  Threads,
  Coroutines,   \* requests in flight
  Kinds,        \* kinds of requests, of those below
  Workspaces, Pins,
  Sweeper,      \* the hourly loop, as the holder of the lock
  None,
  MaxRequests,  \* bound on requests
  MaxFailures   \* bound on registrations and sweeps that fail

AllKinds == {"create", "turn", "title", "rename", "pin", "remember", "delete"}

Extra == [title : {"none", "ai", "user"}, pins : SUBSET Pins, ws : Workspaces \cup {None},
          turns : Nat]
Row == [count : Nat, extra : Extra, old : BOOLEAN]
Session == [messages : Nat, ws : Workspaces \cup {None}, old : BOOLEAN]

\* The values of the constants a configuration may take.
Parameters ==
  /\ Kinds \subseteq AllKinds /\ Sweeper \notin Coroutines
  /\ None \notin Threads \cup Coroutines \cup Workspaces \cup {Sweeper} \cup Row \cup Session
  /\ Threads # {} /\ {MaxRequests, MaxFailures} \subseteq Nat

VARIABLES
  rows,      \* vectora_sessions
  sessions,  \* sessions and the number of their messages
  deleted,   \* deleted_threads
  lock,      \* _reconcile_delete_lock
  request,   \* what each coroutine runs
  sweep,     \* the hourly loop
  requests, failures

data == <<rows, sessions, deleted>>
spent == <<requests, failures>>
vars == <<data, lock, request, sweep, spent>>

Blank == [title |-> "none", pins |-> {}, ws |-> None, turns |-> 0]
Idle == [kind |-> "turn", at |-> "idle", thread |-> CHOOSE t \in Threads : TRUE,
         ws |-> None, extra |-> Blank]
Asleep == [at |-> "sleeps", listed |-> [t \in Threads |-> None],
           existing |-> [t \in Threads |-> None], todo |-> {}, now |-> None]

Request ==
  [kind : AllKinds,
   at : {"idle", "creates", "registers", "writes", "counts", "appends", "answers", "replies",
         "names", "renames", "locks", "marks", "drops", "forgets"},
   thread : Threads, ws : Workspaces \cup {None}, extra : Extra]
Sweeping ==
  [at : {"sleeps", "locks", "rows", "marks", "inserts", "patches", "cleans"},
   listed : [Threads -> Session \cup {None}], existing : [Threads -> Row \cup {None}],
   todo : SUBSET Threads, now : Threads \cup {None}]

TypeOK ==
  /\ rows \in [Threads -> Row \cup {None}]
  /\ sessions \in [Threads -> Session \cup {None}]
  /\ deleted \subseteq Threads
  /\ lock \in Coroutines \cup {Sweeper, None}
  /\ request \in [Coroutines -> Request]
  /\ sweep \in Sweeping
  /\ requests \in 0..MaxRequests /\ failures \in 0..MaxFailures

Init ==
  /\ rows = [t \in Threads |-> None] /\ sessions = [t \in Threads |-> None]
  /\ deleted = {} /\ lock = None
  /\ request = [c \in Coroutines |-> Idle]
  /\ sweep = Asleep
  /\ requests = 0 /\ failures = 0

Known(t) == rows[t] # None \/ sessions[t] # None \/ t \in deleted
HasMessages(t) == sessions[t] # None /\ sessions[t].messages > 0

\* create_session(): outside chats a turn without a workspace keeps the one there is.
Opened(s, ws, chat) ==
  IF s = None THEN [messages |-> 0, ws |-> ws, old |-> FALSE]
  ELSE [s EXCEPT !.ws = IF chat \/ ws # None THEN ws ELSE @]

Upserted(row, extra) ==
  IF row = None THEN [count |-> 0, extra |-> extra, old |-> FALSE]
  ELSE [row EXCEPT !.extra = extra]

Append(s) == IF s = None THEN None ELSE [s EXCEPT !.messages = @ + 1]
Counted(row) == IF row = None THEN None ELSE [row EXCEPT !.count = @ + 1]

At(c, position) == request[c].at = position
Go(c, position) == request' = [request EXCEPT ![c].at = position]
End(c) == request' = [request EXCEPT ![c] = Idle]

Begin(c, kind, t, ws, position) ==
  /\ kind \in Kinds /\ At(c, "idle") /\ requests < MaxRequests
  /\ requests' = requests + 1
  /\ request' = [request EXCEPT ![c] =
       [kind |-> kind, at |-> position, thread |-> t, ws |-> ws, extra |-> Blank]]
  /\ UNCHANGED <<deleted, lock, sweep, failures>>

-----------------------------------------------------------------------------
(* Requests.                                                               *)

\* CreateThread, of an id never used: the session, then the row.
Create(c, t, ws) ==
  /\ ~Known(t)
  /\ sessions' = [sessions EXCEPT ![t] = Opened(None, ws, FALSE)]
  /\ Begin(c, "create", t, ws, "creates") /\ UNCHANGED rows

CreateRow(c) ==
  /\ At(c, "creates") /\ End(c)
  /\ LET r == request[c] IN
       rows' = [rows EXCEPT ![r.thread] =
                  IF @ = None THEN Upserted(None, [Blank EXCEPT !.ws = r.ws]) ELSE @]
  /\ UNCHANGED <<sessions, deleted, lock, sweep, spent>>

\* stream_chat(): the session is there before the row.
Turn(c, t, ws, chat) ==
  /\ sessions' = [sessions EXCEPT ![t] = Opened(@, ws, chat)]
  /\ Begin(c, "turn", t, ws, "registers") /\ UNCHANGED rows

\* The other edits of a row: pins, and the counter of turns after a turn.
Edit(c, t) ==
  /\ \E kind \in {"pin", "remember"} : Begin(c, kind, t, None, "registers")
  /\ UNCHANGED <<rows, sessions>>

\* GenerateTitle: no title yet, and a conversation to name.
Title(c, t) ==
  /\ HasMessages(t) /\ (rows[t] # None => rows[t].extra.title = "none")
  /\ Begin(c, "title", t, None, "names") /\ UNCHANGED <<rows, sessions>>

Named(c) ==
  /\ At(c, "names") /\ Go(c, "registers")
  /\ UNCHANGED <<data, lock, sweep, spent>>

\* UpdateThread reads the row, and refuses a thread without one.
Rename(c, t) ==
  /\ rows[t] # None
  /\ Begin(c, "rename", t, None, "renames") /\ UNCHANGED <<rows, sessions>>

\* The first step of a rename, and of every upsert: the extra that is there.
Read(c) ==
  /\ At(c, "registers") \/ At(c, "renames")
  /\ LET r == request[c] row == rows[request[c].thread] IN
       IF r.kind = "rename" /\ row = None
       THEN End(c)
       ELSE request' = [request EXCEPT ![c].at = "writes",
                          ![c].extra = IF row = None THEN Blank ELSE row.extra]
  /\ UNCHANGED <<data, lock, sweep, spent>>

Edited(r) ==
  CASE r.kind = "turn" -> IF r.ws = None THEN {r.extra} ELSE {[r.extra EXCEPT !.ws = r.ws]}
    [] r.kind = "title" -> {[r.extra EXCEPT !.title = "ai"]}
    [] r.kind = "rename" -> {[r.extra EXCEPT !.title = "user"]}
    [] r.kind = "pin" -> {[r.extra EXCEPT !.pins = p] : p \in SUBSET Pins}
    [] r.kind = "remember" -> {[r.extra EXCEPT !.turns = @ + 1]}

Write(c) ==
  /\ At(c, "writes")
  /\ LET r == request[c] t == request[c].thread IN
       /\ \E extra \in Edited(r) :
            rows' = [rows EXCEPT ![t] = IF r.kind = "rename" /\ @ = None THEN None
                                        ELSE Upserted(@, extra)]
       /\ IF r.kind = "turn" THEN Go(c, "counts") ELSE End(c)
  /\ UNCHANGED <<sessions, deleted, lock, sweep, spent>>

\* _increment_message_count(), for the message of the user.
Count(c) ==
  /\ At(c, "counts") /\ Go(c, "appends")
  /\ rows' = [rows EXCEPT ![request[c].thread] = Counted(@)]
  /\ UNCHANGED <<sessions, deleted, lock, sweep, spent>>

\* A turn goes on when its registration fails.
RegisterFails(c) ==
  /\ request[c].kind = "turn" /\ request[c].at \in {"registers", "writes", "counts"}
  /\ failures < MaxFailures /\ failures' = failures + 1
  /\ Go(c, "appends")
  /\ UNCHANGED <<data, lock, sweep, requests>>

\* The message of the user; without its session the turn fails.
AppendMessage(c) ==
  /\ At(c, "appends")
  /\ LET t == request[c].thread IN
       /\ sessions' = [sessions EXCEPT ![t] = Append(@)]
       /\ IF sessions[t] = None THEN End(c) ELSE Go(c, "answers")
  /\ UNCHANGED <<rows, deleted, lock, sweep, spent>>

\* The first token counts again; or the provider fails.
Answer(c) ==
  /\ At(c, "answers")
  /\ \/ rows' = [rows EXCEPT ![request[c].thread] = Counted(@)] /\ Go(c, "replies")
     \/ UNCHANGED rows /\ End(c)
  /\ UNCHANGED <<sessions, deleted, lock, sweep, spent>>

AppendReply(c) ==
  /\ At(c, "replies") /\ End(c)
  /\ sessions' = [sessions EXCEPT ![request[c].thread] = Append(@)]
  /\ UNCHANGED <<rows, deleted, lock, sweep, spent>>

-----------------------------------------------------------------------------
(* DeleteThread.                                                           *)

Delete(c, t) ==
  /\ Known(t)
  /\ Begin(c, "delete", t, None, "locks") /\ UNCHANGED <<rows, sessions>>

\* A mutant: a deletion does not wait for the sweep.
LockNone(c) ==
  /\ At(c, "locks") /\ Go(c, "marks")
  /\ UNCHANGED <<data, lock, sweep, spent>>

Lock(c) ==
  /\ At(c, "locks") /\ lock = None
  /\ lock' = c /\ Go(c, "marks")
  /\ UNCHANGED <<data, sweep, spent>>

Mark(c) ==
  /\ At(c, "marks") /\ Go(c, "drops")
  /\ deleted' = deleted \cup {request[c].thread}
  /\ UNCHANGED <<rows, sessions, lock, sweep, spent>>

Drop(c) ==
  /\ At(c, "drops") /\ Go(c, "forgets")
  /\ rows' = [rows EXCEPT ![request[c].thread] = None]
  /\ lock' = None
  /\ UNCHANGED <<sessions, deleted, sweep, spent>>

Forget(c) ==
  /\ At(c, "forgets") /\ End(c)
  /\ sessions' = [sessions EXCEPT ![request[c].thread] = None]
  /\ UNCHANGED <<rows, deleted, lock, sweep, spent>>

-----------------------------------------------------------------------------
(* The hourly loop: reconcile_vectora_sessions(), and then                 *)
(* cleanup_empty_threads().                                                *)

SweepAt(position) == sweep.at = position
Calm == UNCHANGED <<sessions, deleted, request, spent>>

SweepLists ==
  /\ SweepAt("sleeps")
  /\ sweep' = [sweep EXCEPT !.at = "locks",
       !.listed = [t \in Threads |-> IF HasMessages(t) THEN sessions[t] ELSE None]]
  /\ Calm /\ UNCHANGED <<rows, lock>>

SweepLocks ==
  /\ SweepAt("locks") /\ lock = None
  /\ lock' = Sweeper /\ sweep' = [sweep EXCEPT !.at = "rows"]
  /\ Calm /\ UNCHANGED rows

SweepReadsRows ==
  /\ SweepAt("rows")
  /\ sweep' = [sweep EXCEPT !.at = "marks",
       !.existing = [t \in Threads |-> IF sweep.listed[t] = None THEN None ELSE rows[t]]]
  /\ Calm /\ UNCHANGED <<rows, lock>>

Diverges(real, row) ==
  row = None \/ row.count # real.messages \/ row.extra.ws # real.ws

SweepReadsMarks ==
  /\ SweepAt("marks")
  /\ sweep' = [sweep EXCEPT !.at = "inserts",
       !.todo = {t \in Threads \ deleted :
                   sweep.listed[t] # None /\ Diverges(sweep.listed[t], sweep.existing[t])}]
  /\ Calm /\ UNCHANGED <<rows, lock>>

\* INSERT ... ON CONFLICT DO NOTHING.
SweepInserts(t) ==
  /\ SweepAt("inserts") /\ t \in sweep.todo
  /\ sweep' = [sweep EXCEPT !.at = "patches", !.todo = @ \ {t}, !.now = t]
  /\ LET real == sweep.listed[t] IN
       rows' = [rows EXCEPT ![t] = IF @ # None THEN @
                  ELSE [count |-> real.messages, extra |-> Blank, old |-> real.old]]
  /\ Calm /\ UNCHANGED lock

\* A mutant: a workspace is only ever added.
PatchedIfAny(row, real, read) ==
  IF row = None THEN None
  ELSE [row EXCEPT !.count = real.messages,
                   !.extra.ws = IF real.ws = None THEN @ ELSE real.ws]

Patched(row, real, read) ==
  IF row = None THEN None
  ELSE [row EXCEPT !.count = real.messages, !.extra.ws = real.ws]

\* The update patches the extra as it is now, and no other key than the workspace.
SweepPatches(t) ==
  /\ SweepAt("patches") /\ sweep.now = t
  /\ sweep' = [sweep EXCEPT !.at = "inserts", !.now = None]
  /\ rows' = [rows EXCEPT ![t] = Patched(@, sweep.listed[t], sweep.existing[t])]
  /\ Calm /\ UNCHANGED lock

SweepReleases ==
  /\ SweepAt("inserts") /\ sweep.todo = {}
  /\ lock' = None
  /\ sweep' = [Asleep EXCEPT !.at = "cleans", !.listed = sweep.listed]
  /\ Calm /\ UNCHANGED rows

\* A failed restoring does not keep the cleanup from running.
SweepFails ==
  /\ sweep.at # "cleans" /\ failures < MaxFailures /\ failures' = failures + 1
  /\ lock' = IF lock = Sweeper THEN None ELSE lock
  /\ sweep' = [Asleep EXCEPT !.at = "cleans"]
  /\ UNCHANGED <<data, request, requests>>

SweepCleans ==
  /\ SweepAt("cleans")
  /\ rows' = [t \in Threads |->
       IF rows[t] # None /\ rows[t].count = 0 /\ rows[t].old THEN None ELSE rows[t]]
  /\ sweep' = Asleep
  /\ Calm /\ UNCHANGED lock

Aged(record) == IF record = None THEN None ELSE [record EXCEPT !.old = TRUE]

\* An hour passes; only models take that long.
HourPasses ==
  /\ SweepAt("sleeps")
  /\ \A c \in Coroutines : request[c].at \in {"idle", "answers", "names"}
  /\ rows' = [t \in Threads |-> Aged(rows[t])]
  /\ sessions' = [t \in Threads |-> Aged(sessions[t])]
  /\ UNCHANGED <<deleted, lock, request, sweep, spent>>

-----------------------------------------------------------------------------
Start(c) ==
  \E t \in Threads :
    \/ \E ws \in Workspaces \cup {None} :
         Create(c, t, ws) \/ \E chat \in BOOLEAN : Turn(c, t, ws, chat)
    \/ Edit(c, t) \/ Title(c, t) \/ Rename(c, t) \/ Delete(c, t)

Step(c) ==
  \/ CreateRow(c) \/ Named(c) \/ Read(c) \/ Write(c) \/ Count(c)
  \/ AppendMessage(c) \/ Answer(c) \/ AppendReply(c)
  \/ Mark(c) \/ Drop(c) \/ Forget(c)

Sweep ==
  \/ SweepLists \/ SweepLocks \/ SweepReadsRows \/ SweepReadsMarks
  \/ \E t \in Threads : SweepInserts(t) \/ SweepPatches(t)
  \/ SweepReleases \/ SweepCleans

Next ==
  \/ \E c \in Coroutines : Start(c) \/ Step(c) \/ Lock(c) \/ RegisterFails(c)
  \/ Sweep \/ SweepFails \/ HourPasses

Spec == Init /\ [][Next]_vars

\* Requests and the loop go on.
FairSpec ==
  /\ Spec
  /\ \A c \in Coroutines : WF_vars(Step(c))
  /\ WF_vars(Sweep)

-----------------------------------------------------------------------------
(* Properties.                                                             *)

Swept == sweep' # sweep

\* The sweep restores no thread that was deleted, not even one deleted after it listed
\* the sessions.
RestoresNoDeleted == \A t \in deleted : Swept /\ rows[t] = None => rows'[t] = None

\* The sweep never takes a title, pins or a counter from a row, although it read the row
\* before others edited it.
TakesNoEdit ==
  \A t \in Threads : Swept /\ rows[t] # None /\ rows'[t] # None =>
    [rows'[t].extra EXCEPT !.ws = None] = [rows[t].extra EXCEPT !.ws = None]

\* A sweep that restored does not then clean away the row of a conversation it listed.
CleansNoConversation ==
  \A t \in Threads \ deleted : Swept /\ sweep.listed[t] # None /\ rows[t] # None =>
    rows'[t] # None

\* Whatever registration failed, in the end a conversation that is not deleted is seen
\* in the sidebar, with the workspace of its session.
RowsAgree ==
  \A t \in Threads : (HasMessages(t) /\ t \notin deleted) =>
    rows[t] # None /\ rows[t].count > 0 /\ rows[t].extra.ws = sessions[t].ws

-----------------------------------------------------------------------------
(* What a comment or a docstring says and the code does not keep.  TLC     *)
(* finds these violated, so no configuration checks them (see the README). *)

\* A deleted thread stays deleted.
DeletedIsOneWay ==
  [][\A t \in deleted : rows[t] = None => rows'[t] = None]_vars

\* Pins change only by a request that sets them.
PinsAreKept ==
  [][\A t \in Threads : rows[t] # None /\ rows'[t] # None =>
       \/ rows'[t].extra.pins = rows[t].extra.pins
       \/ \E c \in Coroutines : request[c].kind = "pin" /\ At(c, "writes") /\ request'[c] = Idle]_vars

\* The model names a thread once, and not one that has a name.
TitleIsStable ==
  [][\A t \in Threads : rows[t] # None /\ rows'[t] # None /\ rows[t].extra.title = "user" =>
       rows'[t].extra.title = "user"]_vars

=============================================================================
