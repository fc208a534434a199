---------------------------- MODULE GatewayTunnel ----------------------------
(***************************************************************************)
(* The tunnel of backend/services/gateway/__init__.py: a WebSocket to the  *)
(* remote gateway over which it sends HTTP requests, and a fixed set of    *)
(* workers that forward them to the local server.                          *)
(*                                                                         *)
(* Positions of the task of _connect_loop:                                 *)
(*   registering            in _register, before the loop                  *)
(*   connecting, reading    in ws_connect and in `async for msg in ws'     *)
(*   putting                in _dispatch, at `await queue.put'             *)
(*   stopping, joining      in the finally of _connect_once: putting one   *)
(*                          _STOP_WORKER per worker, awaiting the workers  *)
(*   sleeping               the backoff after an error                     *)
(*   over, dead             ended by a cancellation, by an exception       *)
(*                                                                         *)
(* Abstractions.  A frame is a ping or the requests of a `request' or a    *)
(* `queued' message; review jobs are in GatewayReviews.  What the socket   *)
(* received before it closed is still read.  The remote side is external:  *)
(* it sends each request once.  A send takes one step, so the lock around  *)
(* it is left out, and so are the length of the backoff and the contents   *)
(* of requests.                                                            *)
(***************************************************************************)
EXTENDS Integers, Sequences, FiniteSets, SequencesExt

CONSTANTS
  Requests,
  Workers,      \* _MAX_CONCURRENT_FORWARDS of them
  None,
  StopWorker,   \* _STOP_WORKER
  MaxFrames,    \* bound on the frames that wait to be read
  MaxFaults,    \* bound on failures of the network
  MaxCancels    \* bound on cancellations of the task: stop() and the loop's end

\* The values of the constants a configuration may take.
Parameters ==
  /\ {MaxFrames, MaxFaults, MaxCancels} \subseteq Nat
  /\ IsFiniteSet(Workers) /\ Workers # {}
  /\ {None, StopWorker, "idle", "stopped"} \cap Requests = {}

VARIABLES
  task,     \* position, why the connection ends, sentinels put
  open,     \* the WebSocket
  inbox,    \* frames received and not read
  left,     \* items of the frame in _dispatch that are not in the queue
  queue,    \* the bounded asyncio.Queue of this connection
  worker,   \* what each worker does
  fate,     \* what became of each request
  spent     \* faults and cancellations so far

vars == <<task, open, inbox, left, queue, worker, fate, spent>>

QueueSize == Cardinality(Workers)
Ping == [kind |-> "ping", items |-> <<>>]
Positions ==
  {"registering", "connecting", "reading", "putting", "stopping", "joining",
   "sleeping", "over", "dead"}
Fates ==
  {"unsent", "sent", "queued", "forwarding", "answered", "failed",
   "undelivered", "lost", "killed"}

TypeOK ==
  /\ task \in [at : Positions, reason : {None, "clean", "error", "cancelled"},
               stops : 0..Cardinality(Workers)]
  /\ open \in BOOLEAN
  /\ inbox \in Seq([kind : {"ping", "items"}, items : Seq(Requests)])
  /\ left \in Seq(Requests)
  /\ queue \in Seq(Requests \cup {StopWorker}) /\ Len(queue) <= QueueSize
  /\ worker \in [Workers -> Requests \cup {"idle", "stopped"}]
  /\ fate \in [Requests -> Fates]
  /\ spent \in [faults : Nat, cancels : Nat]

Init ==
  /\ task = [at |-> "registering", reason |-> None, stops |-> 0]
  /\ open = FALSE
  /\ inbox = <<>>
  /\ left = <<>>
  /\ queue = <<>>
  /\ worker = [w \in Workers |-> "stopped"]
  /\ fate = [r \in Requests |-> "unsent"]
  /\ spent = [faults |-> 0, cancels |-> 0]

Fault == spent.faults < MaxFaults /\ spent' = [spent EXCEPT !.faults = @ + 1]

-----------------------------------------------------------------------------
(* The remote gateway, external.                                           *)

RemoteSends(items) ==
  /\ open /\ Len(inbox) < MaxFrames
  /\ \A i \in DOMAIN items : fate[items[i]] = "unsent"
  /\ inbox' = Append(inbox, [kind |-> IF items = <<>> THEN "ping" ELSE "items",
                             items |-> items])
  /\ fate' = [r \in Requests |-> IF r \in Range(items) THEN "sent" ELSE fate[r]]
  /\ UNCHANGED <<task, open, left, queue, worker, spent>>

RemoteCloses ==
  /\ open /\ Fault
  /\ open' = FALSE
  /\ UNCHANGED <<task, inbox, left, queue, worker, fate>>

-----------------------------------------------------------------------------
(* _connect_loop and _connect_once.                                        *)

\* A new connection has a queue and workers of its own.
Connecting ==
  /\ task' = [at |-> "connecting", reason |-> None, stops |-> 0]
  /\ queue' = <<>>
  /\ worker' = [w \in Workers |-> "idle"]

Register ==
  /\ task.at = "registering"
  /\ \/ Connecting /\ UNCHANGED spent
     \/ /\ Fault
        /\ task' = [task EXCEPT !.at = "dead"]
        /\ UNCHANGED <<queue, worker>>
  /\ UNCHANGED <<open, inbox, left, fate>>

\* The block of ws_connect is left, which closes the socket; the finally is next.
Disconnect(reason) ==
  /\ task' = [task EXCEPT !.at = "stopping", !.reason = reason]
  /\ open' = FALSE
  /\ inbox' = <<>>
  /\ left' = <<>>
  /\ fate' = [r \in Requests |-> IF fate[r] = "sent" THEN "lost" ELSE fate[r]]
  /\ UNCHANGED <<queue, worker>>

Connect ==
  /\ task.at = "connecting"
  /\ \/ /\ task' = [task EXCEPT !.at = "reading"]
        /\ open' = TRUE
        /\ UNCHANGED <<inbox, left, queue, worker, fate, spent>>
     \/ Fault /\ Disconnect("error")

\* The server closed the socket, with an error or without.
Hangup ==
  /\ task.at = "reading" /\ inbox = <<>> /\ ~open
  /\ \E reason \in {"clean", "error"} : Disconnect(reason)
  /\ UNCHANGED spent

\* _dispatch of a ping; the pong cannot be sent on a closed socket.
Pong ==
  /\ task.at = "reading" /\ inbox # <<>> /\ Head(inbox).kind = "ping"
  /\ IF open
     THEN /\ inbox' = Tail(inbox)
          /\ UNCHANGED <<task, open, left, queue, worker, fate>>
     ELSE Disconnect("error")
  /\ UNCHANGED spent

Dispatch ==
  /\ task.at = "reading" /\ inbox # <<>> /\ Head(inbox).kind = "items"
  /\ task' = [task EXCEPT !.at = "putting"]
  /\ left' = Head(inbox).items
  /\ inbox' = Tail(inbox)
  /\ UNCHANGED <<open, queue, worker, fate, spent>>

Put ==
  /\ task.at = "putting" /\ Len(queue) < QueueSize
  /\ queue' = Append(queue, Head(left))
  /\ fate' = [fate EXCEPT ![Head(left)] = "queued"]
  /\ left' = Tail(left)
  /\ task' = [task EXCEPT !.at = IF Tail(left) = <<>> THEN "reading" ELSE @]
  /\ UNCHANGED <<open, inbox, worker, spent>>

PutStop ==
  /\ task.at = "stopping" /\ Len(queue) < QueueSize
  /\ queue' = Append(queue, StopWorker)
  /\ task' = [task EXCEPT !.stops = @ + 1,
                          !.at = IF task.stops + 1 = Cardinality(Workers)
                                 THEN "joining" ELSE @]
  /\ UNCHANGED <<open, inbox, left, worker, fate, spent>>

\* A mutant: _connect_once does not wait for its workers.
JoinAtOnce ==
  /\ task.at = "joining"
  /\ CASE task.reason = "cancelled" -> /\ task' = [task EXCEPT !.at = "over"]
                                       /\ UNCHANGED <<queue, worker>>
       [] task.reason = "error"     -> /\ task' = [task EXCEPT !.at = "sleeping"]
                                       /\ UNCHANGED <<queue, worker>>
       [] OTHER                     -> Connecting
  /\ UNCHANGED <<open, inbox, left, fate, spent>>

\* A socket that was closed without an error is opened again at once.
Join ==
  /\ task.at = "joining" /\ \A w \in Workers : worker[w] = "stopped"
  /\ CASE task.reason = "cancelled" -> /\ task' = [task EXCEPT !.at = "over"]
                                       /\ UNCHANGED <<queue, worker>>
       [] task.reason = "error"     -> /\ task' = [task EXCEPT !.at = "sleeping"]
                                       /\ UNCHANGED <<queue, worker>>
       [] OTHER                     -> Connecting
  /\ UNCHANGED <<open, inbox, left, fate, spent>>

Wake ==
  /\ task.at = "sleeping"
  /\ Connecting
  /\ UNCHANGED <<open, inbox, left, fate, spent>>

\* `except CancelledError' of _connect_once: the workers are cancelled.
KillWorkers ==
  /\ task' = [task EXCEPT !.at = "over", !.reason = "cancelled"]
  /\ worker' = [w \in Workers |-> "stopped"]
  /\ queue' = <<>>
  /\ fate' = [r \in Requests |-> IF fate[r] \in {"queued", "forwarding"}
                                 THEN "killed" ELSE fate[r]]
  /\ UNCHANGED <<open, inbox, left>>

\* Task.cancel: by stop(), and by the event loop when it ends.
Cancel ==
  /\ spent.cancels < MaxCancels
  /\ spent' = [spent EXCEPT !.cancels = @ + 1]
  /\ \/ /\ task.at \in {"registering", "sleeping"}
        /\ task' = [task EXCEPT !.at = "over", !.reason = "cancelled"]
        /\ UNCHANGED <<open, inbox, left, queue, worker, fate>>
     \/ task.at \in {"connecting", "reading", "putting"} /\ Disconnect("cancelled")
     \/ task.at \in {"stopping", "joining"} /\ KillWorkers

-----------------------------------------------------------------------------
(* _forward_worker and _forward.                                           *)

Take(w) ==
  /\ worker[w] = "idle" /\ queue # <<>>
  /\ queue' = Tail(queue)
  /\ IF Head(queue) = StopWorker
     THEN worker' = [worker EXCEPT ![w] = "stopped"] /\ UNCHANGED fate
     ELSE /\ worker' = [worker EXCEPT ![w] = Head(queue)]
          /\ fate' = [fate EXCEPT ![Head(queue)] = "forwarding"]
  /\ UNCHANGED <<task, open, inbox, left, spent>>

\* The local server answers or fails, in _LOCAL_FORWARD_TIMEOUT_S at the latest.
\* On a closed socket neither the answer nor the 502 can be sent.
Finish(w) ==
  /\ worker[w] \in Requests
  /\ worker' = [worker EXCEPT ![w] = "idle"]
  /\ \E answer \in {"answered", "failed"} :
       fate' = [fate EXCEPT ![worker[w]] = IF open THEN answer ELSE "undelivered"]
  /\ UNCHANGED <<task, open, inbox, left, queue, spent>>

-----------------------------------------------------------------------------
\* Frames the remote sends: a ping, a request, or two of them at once.
Frames == {<<>>} \cup {<<r>> : r \in Requests}
            \cup {<<r, s>> : r \in Requests, s \in Requests}

Loop ==
  Register \/ Connect \/ Hangup \/ Pong \/ Dispatch \/ Put \/ PutStop \/ Join \/ Wake

Work(w) == Take(w) \/ Finish(w)

Next ==
  \/ \E items \in Frames :
       /\ \A i, j \in DOMAIN items : i # j => items[i] # items[j]
       /\ RemoteSends(items)
  \/ RemoteCloses
  \/ Loop
  \/ Cancel
  \/ \E w \in Workers : Work(w)

Spec == Init /\ [][Next]_vars

\* The event loop runs what can run, and every forward ends by its timeout;
\* nothing makes the remote side send or the task be cancelled.
FairSpec == Spec /\ WF_vars(Loop) /\ \A w \in Workers : WF_vars(Work(w))

-----------------------------------------------------------------------------
(* Properties.                                                             *)

\* A request in the queue is in front of a worker that will reach it: fewer
\* sentinels are before it than workers are left to take them.
QueuedIsReached ==
  \A i \in DOMAIN queue :
    queue[i] # StopWorker
      => Cardinality({j \in 1..(i - 1) : queue[j] = StopWorker})
           < Cardinality({w \in Workers : worker[w] # "stopped"})

\* A connection ends only with its work done: while the task sleeps, or has
\* ended, no accepted request is in the queue or with a worker.
NothingLeftBehind ==
  task.at \in {"sleeping", "over", "dead", "registering"}
    => \A r \in Requests : fate[r] \notin {"queued", "forwarding"}

\* No request that entered the queue waits to be forwarded.  Whatever happens to the
\* socket, in the end all were, or the workers were killed by a second cancellation.
AcceptedIsForwarded == \A r \in Requests : fate[r] \notin {"queued", "forwarding"}

-----------------------------------------------------------------------------
(* What a comment or a docstring says and the code does not keep.  TLC     *)
(* finds these violated, so no configuration checks them (see the README). *)

\* The comment of _dispatch: a ping never waits behind a slow forward.
PingNotBehindForward ==
  inbox # <<>> /\ Head(inbox) = Ping
    => ~(task.at = "putting" /\ Len(queue) = QueueSize)

\* The comment of _connect_once: a cancellation does not wait for the drain, it
\* cancels the workers.
CancelSkipsDrain ==
  [][task.reason = "cancelled"
       => \A w \in Workers : worker'[w] \in Requests => worker'[w] = worker[w]]_vars

\* The docstring of _connect_loop: it loops until it is cancelled.
LoopsUntilCancelled == task.at # "dead"

=============================================================================
