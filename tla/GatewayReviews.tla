---------------------------- MODULE GatewayReviews ---------------------------
(***************************************************************************)
(* Reviews of pull requests that the gateway client of                     *)
(* backend/services/gateway/__init__.py runs for the remote service: jobs  *)
(* come over the WebSocket, wait in a bounded queue, are reviewed by two   *)
(* workers, and each is told its result by a POST that is tried three      *)
(* times.  stop() resolves what is left within a deadline.                 *)
(*                                                                         *)
(* Abstractions.  A message is one arrival of a job; the remote side is    *)
(* external and may deliver a job again.  The tunnel and its other         *)
(* messages are in GatewayTunnel: here its task only reads, or awaits the  *)
(* POST of a rejection.  A review is a step that succeeds or fails.  stop()*)
(* cancels that task in the step in which it stops accepting, so the test  *)
(* of _review_accepting in _dispatch never finds it false, and is left     *)
(* out.  The process is stopped once.                                      *)
(***************************************************************************)
EXTENDS Integers, Sequences, FiniteSets, SequencesExt

CONSTANTS
  Messages,
  Deliveries,
  Workers,       \* _MAX_CONCURRENT_REVIEWS of them
  DeliveryOf,    \* delivery_id of each message, or None
  Malformed,     \* messages that ReviewJobRequest refuses
  None,
  StopWorker,    \* _STOP_REVIEW_WORKER
  MaxQueued,     \* _MAX_QUEUED_REVIEWS
  SeenLimit,     \* maxlen of _review_delivery_ids
  Attempts       \* _REVIEW_CALLBACK_ATTEMPTS

\* The values of the constants a configuration may take.
Parameters ==
  /\ DeliveryOf \in [Messages -> Deliveries \cup {None}] /\ Malformed \subseteq Messages
  /\ {MaxQueued, SeenLimit, Attempts} \subseteq Nat \ {0}
  /\ IsFiniteSet(Workers) /\ Cardinality(Workers) <= MaxQueued
  /\ {None, StopWorker} \cap Messages = {} /\ None \notin Deliveries

VARIABLES
  reader,     \* the task of the connection
  seen,       \* _review_delivery_ids
  queue,      \* _review_queue
  worker,     \* _review_workers
  callback,   \* _review_callback_tasks, by message
  phase,      \* how far stop() is
  arrived,    \* messages that came
  taken,      \* those that entered the queue, in that order
  told,       \* verdicts that reached the remote service
  unheard     \* messages whose POSTs all failed

vars == <<reader, seen, queue, worker, callback, phase, arrived, taken, told, unheard>>

Verdicts == {"review", "failed", "invalid", "busy", "shutdown"}

\* A task in _post_review_result, or one that is not.
NotPosting == [msg |-> None, verdict |-> None, tries |-> 0]
Posting == [msg : Messages \cup {None}, verdict : Verdicts \cup {None},
            tries : 0..Attempts]
PostOf(m, v) == [msg |-> m, verdict |-> v, tries |-> Attempts]

TypeOK ==
  /\ reader \in [at : {"reading", "posting", "over"}, post : Posting]
  /\ seen \in Seq(Deliveries) /\ Len(seen) <= SeenLimit
  /\ queue \in Seq(Messages \cup {StopWorker}) /\ Len(queue) <= MaxQueued
  /\ worker \in [Workers -> [at : {"none", "idle", "reviewing", "posting", "ended"},
                             post : Posting]]
  /\ callback \in [Messages -> [at : {"none", "posting", "ended", "cut"},
                                tries : 0..Attempts]]
  /\ phase \in {"running", "workers", "callbacks", "stopped"}
  /\ arrived \subseteq Messages
  /\ taken \in Seq(Messages)
  /\ told \in [Messages -> SUBSET Verdicts]
  /\ unheard \subseteq Messages

Init ==
  /\ reader = [at |-> "reading", post |-> NotPosting]
  /\ seen = <<>>
  /\ queue = <<>>
  /\ worker = [w \in Workers |-> [at |-> "none", post |-> NotPosting]]
  /\ callback = [m \in Messages |-> [at |-> "none", tries |-> 0]]
  /\ phase = "running"
  /\ arrived = {}
  /\ taken = <<>>
  /\ told = [m \in Messages |-> {}]
  /\ unheard = {}

-----------------------------------------------------------------------------
(* _dispatch of a review_job.                                              *)

\* append of a deque with a maxlen.
Remember(d) ==
  IF d = None THEN seen
  ELSE IF Len(seen) = SeenLimit THEN Append(Tail(seen), d) ELSE Append(seen, d)

Reject(m, v) == reader' = [at |-> "posting", post |-> PostOf(m, v)]

RefuseMalformed(m) ==
  /\ m \in Malformed
  /\ Reject(m, "invalid")
  /\ UNCHANGED <<seen, queue, worker, taken>>

DropDuplicate(m) ==
  /\ m \notin Malformed /\ DeliveryOf[m] \in Range(seen)
  /\ UNCHANGED <<reader, seen, queue, worker, taken>>

\* _ensure_review_workers and put_nowait.
Accept(m) ==
  /\ m \notin Malformed /\ DeliveryOf[m] \notin Range(seen)
  /\ seen' = Remember(DeliveryOf[m])
  /\ worker' = IF \A w \in Workers : worker[w].at = "none"
               THEN [w \in Workers |-> [at |-> "idle", post |-> NotPosting]]
               ELSE worker
  /\ IF Len(queue) < MaxQueued
     THEN queue' = Append(queue, m) /\ taken' = Append(taken, m) /\ UNCHANGED reader
     ELSE Reject(m, "busy") /\ UNCHANGED <<queue, taken>>

Arrive(m) ==
  /\ reader.at = "reading" /\ m \notin arrived
  /\ arrived' = arrived \cup {m}
  /\ RefuseMalformed(m) \/ DropDuplicate(m) \/ Accept(m)
  /\ UNCHANGED <<callback, phase, told, unheard>>

-----------------------------------------------------------------------------
(* _post_review_result: one attempt.                                       *)

\* The service may take the result and the answer be lost; after the last
\* attempt the result is given up.
Attempt(post, ends, goesOn) ==
  \/ /\ told' = [told EXCEPT ![post.msg] = @ \cup {post.verdict}]
     /\ ends /\ UNCHANGED unheard
  \/ \E reached \in BOOLEAN :
       /\ told' = IF reached THEN [told EXCEPT ![post.msg] = @ \cup {post.verdict}]
                  ELSE told
       /\ IF post.tries > 1
          THEN goesOn /\ UNCHANGED unheard
          ELSE ends /\ unheard' = IF told'[post.msg] = {} THEN unheard \cup {post.msg}
                                  ELSE unheard

PostRejection ==
  /\ reader.at = "posting"
  /\ Attempt(reader.post,
             reader' = [at |-> "reading", post |-> NotPosting],
             reader' = [reader EXCEPT !.post.tries = @ - 1])
  /\ UNCHANGED <<seen, queue, worker, callback, phase, arrived, taken>>

PostReview(w) ==
  /\ worker[w].at = "posting"
  /\ Attempt(worker[w].post,
             worker' = [worker EXCEPT ![w] = [at |-> "idle", post |-> NotPosting]],
             worker' = [worker EXCEPT ![w].post.tries = @ - 1])
  /\ UNCHANGED <<reader, seen, queue, callback, phase, arrived, taken>>

PostShutdown(m) ==
  /\ callback[m].at = "posting"
  /\ Attempt([PostOf(m, "shutdown") EXCEPT !.tries = callback[m].tries],
             callback' = [callback EXCEPT ![m].at = "ended"],
             callback' = [callback EXCEPT ![m].tries = @ - 1])
  /\ UNCHANGED <<reader, seen, queue, worker, phase, arrived, taken>>

-----------------------------------------------------------------------------
(* _review_worker.                                                         *)

\* A mutant: a worker leaves its job in the queue until it is reviewed.
TakeLater(w) ==
  /\ worker[w].at = "idle" /\ queue # <<>>
  /\ queue' = IF Head(queue) = StopWorker THEN Tail(queue) ELSE queue
  /\ worker' = [worker EXCEPT ![w] =
       IF Head(queue) = StopWorker THEN [at |-> "ended", post |-> NotPosting]
       ELSE [at |-> "reviewing", post |-> [NotPosting EXCEPT !.msg = Head(queue)]]]
  /\ UNCHANGED <<reader, seen, callback, phase, arrived, taken, told, unheard>>

Take(w) ==
  /\ worker[w].at = "idle" /\ queue # <<>>
  /\ queue' = Tail(queue)
  /\ worker' = [worker EXCEPT ![w] =
       IF Head(queue) = StopWorker THEN [at |-> "ended", post |-> NotPosting]
       ELSE [at |-> "reviewing", post |-> [NotPosting EXCEPT !.msg = Head(queue)]]]
  /\ UNCHANGED <<reader, seen, callback, phase, arrived, taken, told, unheard>>

\* _handle_review_job: the review, or the error it ended with, is posted.
Review(w) ==
  /\ worker[w].at = "reviewing"
  /\ \E v \in {"review", "failed"} :
       worker' = [worker EXCEPT ![w] = [at |-> "posting", post |-> PostOf(@.post.msg, v)]]
  /\ UNCHANGED <<reader, seen, queue, callback, phase, arrived, taken, told, unheard>>

-----------------------------------------------------------------------------
(* stop().                                                                 *)

Started == {w \in Workers : worker[w].at # "none"}
Queued == Range(queue) \ {StopWorker}

\* A mutant: the jobs taken out of the queue are forgotten.
StopForgets ==
  /\ phase = "running"
  /\ reader' = [at |-> "over", post |-> NotPosting]
  /\ queue' = [i \in 1..Cardinality(Started) |-> StopWorker]
  /\ phase' = IF Started = {} THEN "callbacks" ELSE "workers"
  /\ UNCHANGED <<seen, worker, callback, arrived, taken, told, unheard>>

\* The task is cancelled, the queue emptied, a callback scheduled for each job
\* that was in it, and one sentinel put for each worker.
Stop ==
  /\ phase = "running"
  /\ reader' = [at |-> "over", post |-> NotPosting]
  /\ callback' = [m \in Messages |-> IF m \in Queued
                                     THEN [at |-> "posting", tries |-> Attempts]
                                     ELSE callback[m]]
  /\ queue' = [i \in 1..Cardinality(Started) |-> StopWorker]
  /\ phase' = IF Started = {} THEN "callbacks" ELSE "workers"
  /\ UNCHANGED <<seen, worker, arrived, taken, told, unheard>>

\* _await_review_tasks, when there is no time left.
CutShort(active) ==
  [m \in Messages |-> IF callback[m].at = "posting" \/ m \in active
                      THEN [callback[m] EXCEPT !.at = "cut"] ELSE callback[m]]

WorkersEnded ==
  /\ phase = "workers" /\ \A w \in Started : worker[w].at = "ended"
  /\ phase' = "callbacks"
  /\ UNCHANGED <<reader, seen, queue, worker, callback, arrived, taken, told, unheard>>

\* asyncio.wait spent all the time there was: a worker that is cancelled schedules
\* a callback, and _await_review_tasks, with no time left, cancels every callback
\* before its request can be answered.
DeadlineOfWorkers ==
  /\ phase = "workers" /\ \E w \in Started : worker[w].at # "ended"
  /\ worker' = [w \in Workers |-> IF w \in Started
                                  THEN [at |-> "ended", post |-> NotPosting]
                                  ELSE worker[w]]
  /\ callback' = CutShort({worker[w].post.msg : w \in Workers})
  /\ phase' = "stopped"
  /\ UNCHANGED <<reader, seen, queue, arrived, taken, told, unheard>>

CallbacksEnded ==
  /\ phase = "callbacks" /\ \A m \in Messages : callback[m].at # "posting"
  /\ phase' = "stopped"
  /\ UNCHANGED <<reader, seen, queue, worker, callback, arrived, taken, told, unheard>>

DeadlineOfCallbacks ==
  /\ phase = "callbacks" /\ \E m \in Messages : callback[m].at = "posting"
  /\ callback' = CutShort({})
  /\ phase' = "stopped"
  /\ UNCHANGED <<reader, seen, queue, worker, arrived, taken, told, unheard>>

Stopping == WorkersEnded \/ DeadlineOfWorkers \/ CallbacksEnded \/ DeadlineOfCallbacks
Work(w) == Take(w) \/ Review(w) \/ PostReview(w)

Next ==
  \/ \E m \in Messages : Arrive(m) \/ PostShutdown(m)
  \/ PostRejection
  \/ \E w \in Workers : Work(w)
  \/ Stop \/ Stopping

Spec == Init /\ [][Next]_vars

\* Tasks that can run do, a review ends, and so does a POST, by its timeout.  The
\* deadline of stop() is a timer: it fires when nothing else ends the wait.
FairSpec ==
  /\ Spec
  /\ WF_vars(PostRejection) /\ WF_vars(Stopping)
  /\ \A w \in Workers : WF_vars(Work(w))
  /\ \A m \in Messages : WF_vars(PostShutdown(m))

-----------------------------------------------------------------------------
(* Properties.                                                             *)

\* A job is told one verdict, however its workers, the rejections and stop() come
\* together.
OneVerdict == \A m \in Messages : Cardinality(told[m]) <= 1

\* When stop() ends in time, every job that was in the queue was told a verdict, or
\* the service could not be reached for any of the attempts.
ResolvedInTime ==
  phase = "stopped"
    => \A m \in Range(taken) :
         callback[m].at = "cut" \/ told[m] # {} \/ m \in unheard

\* A delivery is reviewed again only when its id was pushed out of the window of
\* known deliveries.
ReviewedOnce ==
  \A i, j \in DOMAIN taken :
    i < j /\ DeliveryOf[taken[i]] = DeliveryOf[taken[j]] /\ DeliveryOf[taken[i]] # None
      => Cardinality({DeliveryOf[m] : m \in arrived} \ {None}) > SeenLimit

\* Every job that entered the queue was told a verdict, or given up: in the end.
JobsAreTold ==
  \A m \in Range(taken) : told[m] # {} \/ m \in unheard \/ callback[m].at = "cut"

-----------------------------------------------------------------------------
(* What a comment or a docstring says and the code does not keep.  TLC     *)
(* finds these violated, so no configuration checks them (see the README). *)

\* The docstring of stop: it resolves the pending reviews.
StopResolves ==
  phase = "stopped"
    => \A m \in Range(taken) : told[m] # {} \/ m \in unheard

\* The rejection says "retry later": a delivery that was rejected for want of room
\* and comes again is not dropped.
RetryIsServed ==
  [][\A m \in arrived' \ arrived :
       \A n \in arrived : /\ DeliveryOf[n] = DeliveryOf[m]
                          /\ DeliveryOf[n] # None
                          /\ told[n] = {"busy"}
         => reader' # reader \/ taken' # taken]_vars

=============================================================================
