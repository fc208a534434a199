--------------------------------- MODULE MCLive ---------------------------------
(***************************************************************************)
(* That what has begun ends, in the components that a configuration of     *)
(* their own does not check for it: executions of a DAG, records to embed, *)
(* runs, requests of the gateway and its reviews, delegations, questions,  *)
(* users of the pool, rows of the sidebar and turns towards a goal; as     *)
(* parts of their own, the validation of the graphs; and, with what they   *)
(* keep on disk, the downloads of local models (ModelDownloads), the jobs  *)
(* that prepare them (ModelJobs) and restores of a backup (StateRestore).  *)
(* They share no state in these models, so a behaviour of this instance    *)
(* runs one of them: part, chosen at the start, says which, and the        *)
(* variables of the others stay as they are.  The fairness of each is that *)
(* of its module, for the part that moves.                                 *)
(***************************************************************************)
EXTENDS DagValidation, LocalFiles, TLC

CONSTANTS
  StopWorker,
  p1, k1, c1, c2, w1,          \* a plan, a key, clients and a worker
  e1, e2, e3,                  \* records to embed
  r1, r2, t1, ws,              \* runs, their thread and workspace
  q1, q2, q3, g1, g2,          \* requests of the tunnel, and its workers
  m1, m2, m3, d1,              \* messages and a delivery
  x1, x2, x3, a1, b1, u1, i1,  \* delegating calls, turns, a user, an intent
  ask1, ask2, put1, one,       \* calls that ask, a request that answers, a question
  o1, o2, o3,                  \* operations on the pool
  h1, s1, Sweeper,             \* a thread of the sidebar, its requests, the loop
  gate1,                       \* a gate of a goal
  f1, f2, f3, f4, f5, y1, i2,  \* downloads, a DELETE, an installation
  main, tag, bare,             \* revisions, the last one without a hash
  j1, j2, j3, j4,              \* two jobs, a retry and a cancellation
  z1, z2, l1, n1, n2, n3       \* requests, a stream and restores of a backup

VARIABLES
  part,
  plan, dag, start, work, writer,
  rec, vectors, embed, loop, paused, retry,
  stream, runner, chunks, first, registry, lockOf, holder, waiters, row, spent,
  task, open, inbox, left, requests, worker, fate, faults,
  reader, seen, jobs, reviewer, callback, phase, arrived, taken, told, unheard,
  delegated, leader, future, inFlight, active, child, childRow, spawns, stopped, asked, stops,
  question, event, lock, at, result, thread, tmp, file, errors,
  opened, size, idle, poolLock, made, operation, closing, begun, pending, locker, stored, failed,
  rows, sessions, deleted, deletion, request, sweep, asks, failures,
  goal, turn, streak, signature, judgeFailures, unmet, outcome, recent, turns, resumes

-----------------------------------------------------------------------------
(* Instances.                                                              *)

\* One worker, which dies and misses its leases, and two clients with one key.
Executions == INSTANCE DagStore WITH
  Stages <- {1, 2}, Plans <- {p1}, Keys <- {k1}, Clients <- {c1, c2}, Workers <- {w1},
  Graphs <- {1 :> {} @@ 2 :> {1}}, MaxAttempts <- 2, Events <- {"crash", "late"}

\* One record more than a batch, and one task at a time.
Records == INSTANCE EmbeddingQueue WITH
  Docs <- {e1, e2, e3}, MaxRetries <- 2, MaxParallel <- 1, BatchSize <- 2,
  Events <- {"error"}, stored <- vectors, task <- embed

\* Two runs of one workspace.
Streams == INSTANCE RunStream WITH
  Runs <- {r1, r2}, Threads <- {t1}, Workspaces <- {ws},
  InThread <- [s \in {r1, r2} |-> t1], InWorkspace <- [s \in {r1, r2} |-> ws],
  MaxChunks <- 0, MaxCancels <- 1, MaxFaults <- 0, MaxCrashes <- 1, Sweeps <- FALSE,
  queue <- chunks

\* Three requests, while connections fail and the task is cancelled.
Tunnel == INSTANCE GatewayTunnel WITH
  Requests <- {q1, q2, q3}, Workers <- {g1, g2}, MaxFrames <- 1, MaxFaults <- 1,
  MaxCancels <- 1, queue <- requests, spent <- faults

\* A job with an id, one without, and one that comes again.
Reviews == INSTANCE GatewayReviews WITH
  Messages <- {m1, m2, m3}, Deliveries <- {d1}, Workers <- {g1, g2},
  DeliveryOf <- (m1 :> d1) @@ (m2 :> None) @@ (m3 :> d1), Malformed <- {},
  MaxQueued <- 2, SeenLimit <- 2, Attempts <- 2, queue <- jobs, worker <- reviewer

\* Three calls for one intent, of two turns, under a watchdog.
Delegations == INSTANCE Delegation WITH
  Calls <- {x1, x2, x3}, Turns <- {a1, b1}, Identities <- {u1}, Correlations <- {i1},
  TurnOf <- (x1 :> a1) @@ (x2 :> a1) @@ (x3 :> b1),
  PlaceOf <- (x1 :> 1) @@ (x2 :> 2) @@ (x3 :> 3), Sequential <- {a1},
  IdentityOf <- [c \in {x1, x2, x3} |-> u1], CorrelationOf <- [c \in {x1, x2, x3} |-> i1],
  Watched <- {x1, x2, x3}, Budgeted <- TRUE, Cap <- 2, MaxFaults <- 1,
  call <- delegated, row <- childRow, faults <- stops

\* Two calls that ask one question, while a turn is stopped, a write fails and the process ends.
Answers == INSTANCE Questions WITH
  Keys <- {one}, Options <- {"yes"}, Asks <- {ask1, ask2}, Requests <- {put1},
  KeyOf <- [i \in {ask1, ask2, put1} |-> one], ReplyOf <- [i \in {put1} |-> "yes"],
  MaxStops <- 1, MaxErrors <- 1, MaxCrashes <- 1, spent <- errors

\* Three operations, one of two steps, on two connections.
Pool == INSTANCE SqlitePool WITH
  Tasks <- {o1, o2, o3}, Guarded <- {o1}, MinSize <- 1, MaxSize <- 2,
  MaxErrors <- 1, MaxCancels <- 1, MaxCloses <- 0,
  lock <- poolLock, task <- operation, writer <- locker, spent <- failed

\* Turns and a deletion of one thread, one after the other, while registrations and sweeps fail.
Sidebar == INSTANCE ThreadRows WITH
  Threads <- {h1}, Coroutines <- {s1}, Kinds <- {"turn", "delete"},
  Workspaces <- {ws}, Pins <- {}, MaxRequests <- 2, MaxFailures <- 1,
  lock <- deletion, requests <- asks

\* A goal of four turns, approved once more.
Goal == INSTANCE GoalLoop WITH
  Gates <- {gate1}, MaxGoalTurns <- 4, GateLimit <- 3, JudgeLimit <- 2, MaxResumes <- 1,
  at <- goal, failed <- unmet, taken <- turns

ASSUME /\ Records!Parameters /\ Streams!Parameters /\ Tunnel!Parameters
       /\ Reviews!Parameters /\ Delegations!Parameters /\ Answers!Parameters
       /\ Sidebar!Parameters /\ Goal!Parameters

-----------------------------------------------------------------------------
(* A behaviour of one of them.                                             *)

graphVars == <<graph, rest, stack, visiting, visited, verdict>>
dagVars == <<plan, dag, start, work, writer>>
recordVars == <<rec, vectors, embed, loop, paused, retry>>
turnVars ==
  <<stream, runner, chunks, first, registry, lockOf, holder, waiters, row, spent>>
tunnelVars == <<task, open, inbox, left, requests, worker, fate, faults>>
reviewVars ==
  <<reader, seen, jobs, reviewer, callback, phase, arrived, taken, told, unheard>>
childVars ==
  <<delegated, leader, future, inFlight, active, child, childRow, spawns, stopped, asked,
    stops>>
questionVars == <<question, event, lock, at, result, thread, tmp, file, errors>>
poolVars ==
  <<opened, size, idle, poolLock, made, operation, closing, begun, pending, locker, stored,
    failed>>
rowVars == <<rows, sessions, deleted, deletion, request, sweep, asks, failures>>
goalVars ==
  <<goal, turn, streak, signature, judgeFailures, unmet, outcome, recent, turns, resumes>>

liveVars ==
  <<part, graphVars, dagVars, recordVars, turnVars, tunnelVars, reviewVars, childVars,
    questionVars, poolVars, rowVars, goalVars, keptVars>>

LiveInit ==
  /\ part \in {"graphs", "executions", "records", "streams", "tunnel", "reviews",
               "delegations", "questions", "pool", "sidebar", "goal",
               "files", "pushed", "unhashed", "jobs", "cancelled", "restores", "unnamed"}
  /\ Init
  /\ part # "graphs" => graph = [s \in Stages |-> {}]
  /\ Executions!Init /\ Records!Init /\ Streams!Init /\ Tunnel!Init /\ Reviews!Init
  /\ Delegations!Init /\ Answers!Init /\ Pool!Init /\ Sidebar!Init
  /\ Goal!Init
  /\ KeptInit

\* The part p moves, and no other.
Moves(p) ==
  /\ part = p
  /\ UNCHANGED part
  /\ p # "graphs" => UNCHANGED graphVars
  /\ p # "executions" => UNCHANGED dagVars
  /\ p # "records" => UNCHANGED recordVars
  /\ p # "streams" => UNCHANGED turnVars
  /\ p # "tunnel" => UNCHANGED tunnelVars
  /\ p # "reviews" => UNCHANGED reviewVars
  /\ p # "delegations" => UNCHANGED childVars
  /\ p # "questions" => UNCHANGED questionVars
  /\ p # "pool" => UNCHANGED poolVars
  /\ p # "sidebar" => UNCHANGED rowVars
  /\ p # "goal" => UNCHANGED goalVars
  /\ p \notin {"files", "pushed", "unhashed"} => UNCHANGED fileVars
  /\ p \notin {"jobs", "cancelled"} => UNCHANGED jobVars
  /\ p \notin {"restores", "unnamed"} => UNCHANGED restoreVars

\* What a part of the files, the jobs and the restores leaves out: requests that do not
\* come, pushes, faults and crashes.
NoDownload(A) == \A a \in A : getting'[a] = "new"
NoJob(A) == \A a \in A : job'[a] = "new"
NoRestore(A) == \A a \in A : place'[a] = "idle"

\* A file of two revisions; a revision that is pushed to; and a file without a hash.
FileStep ==
  \/ Moves("files") /\ Files!Next
       /\ NoDownload({f3, f4, f5, i2}) /\ UNCHANGED remote
  \/ Moves("pushed") /\ Files!Next
       /\ NoDownload({f2, f4, f5, y1}) /\ lost'.crashes = 0
       /\ \A rev \in {tag, bare} : remote'[rev] = remote[rev]
  \/ Moves("unhashed") /\ Files!Next
       /\ NoDownload({f1, f2, f3, i2}) /\ UNCHANGED remote

\* Two jobs of one kind, of which one is retried after a restart, or cancelled while
\* writes fail.
JobStep ==
  \/ Moves("jobs") /\ Jobs!Next /\ NoJob({j4}) /\ unsaved'.faults = 0
  \/ Moves("cancelled") /\ Jobs!Next /\ NoJob({j3}) /\ unsaved'.crashes = 0

\* Two restores, of all and of the threads, beside two requests; and one that names no
\* category, beside a request and a stream.
RestoringStep ==
  \/ Moves("restores") /\ Restoring!Next /\ NoRestore({l1, n3})
  \/ Moves("unnamed") /\ Restoring!Next /\ NoRestore({z2, n1, n2})

LiveNext ==
  \/ Moves("graphs") /\ Next
  \/ Moves("executions") /\ Executions!Next
  \/ Moves("records") /\ Records!Next
  \/ Moves("streams") /\ Streams!Next
  \/ Moves("tunnel") /\ Tunnel!Next
  \/ Moves("reviews") /\ Reviews!Next
  \/ Moves("delegations") /\ Delegations!Next
  \/ Moves("questions") /\ Answers!Next
  \/ Moves("pool") /\ Pool!Next
  \/ Moves("sidebar") /\ Sidebar!Next
  \/ Moves("goal") /\ Goal!Next
  \/ FileStep \/ JobStep \/ RestoringStep

LiveFairness ==
  /\ WF_dagVars(part = "executions" /\ Executions!WorkerStep(w1))
  /\ \A s \in {1, 2} : WF_dagVars(part = "executions" /\ Executions!LeaseExpires(k1, s))
  /\ WF_dagVars(part = "executions" /\ Executions!RecoverExpiredClaims)
  /\ WF_recordVars(part = "records" /\ Records!LoopStep)
  /\ \A q \in {e1, e2, e3} : /\ WF_recordVars(part = "records" /\ Records!TaskStep(q))
                             /\ WF_recordVars(part = "records" /\ Records!Stalls(q))
  /\ \A s \in {r1, r2} : /\ WF_turnVars(part = "streams" /\ Streams!Generator(s))
                         /\ WF_turnVars(part = "streams" /\ Streams!Task(s))
  /\ WF_tunnelVars(part = "tunnel" /\ Tunnel!Loop)
  /\ \A w \in {g1, g2} : WF_tunnelVars(part = "tunnel" /\ Tunnel!Work(w))
  /\ WF_reviewVars(part = "reviews" /\ Reviews!PostRejection)
  /\ WF_reviewVars(part = "reviews" /\ Reviews!Stopping)
  /\ \A w \in {g1, g2} : WF_reviewVars(part = "reviews" /\ Reviews!Work(w))
  /\ \A m \in {m1, m2, m3} : WF_reviewVars(part = "reviews" /\ Reviews!PostShutdown(m))
  /\ \A c \in {x1, x2, x3} :
       /\ WF_childVars(part = "delegations" /\ Delegations!Own(c))
       /\ WF_childVars(/\ part = "delegations"
                       /\ child[c] # "silent" /\ Delegations!ChildEnds(c))
  /\ \A a \in {ask1, ask2} : WF_questionVars(part = "questions" /\ Answers!AskStep(a))
  /\ \A r \in {put1} : WF_questionVars(part = "questions" /\ Answers!ReplyStep(r))
  /\ \A x \in {ask1, ask2, put1} :
       WF_questionVars(part = "questions" /\ Answers!Write(x))
  /\ \A t \in {o1, o2, o3} :
       WF_poolVars(/\ part = "pool"
                   /\ Pool!Own(t) \/ (Pool!UpdateFails(t) /\ UNCHANGED failed))
  /\ \A c \in {s1} : WF_rowVars(part = "sidebar" /\ Sidebar!Step(c))
  /\ WF_rowVars(part = "sidebar" /\ Sidebar!Sweep)
  /\ WF_goalVars(part = "goal" /\ Goal!Work)
  /\ \A f \in {f1, f2} : WF_fileVars(part = "files" /\ Files!DownloadStep(f))
  /\ WF_fileVars(part = "files" /\ Files!DeleteStep(y1))
  /\ \A j \in {j1, j2, j4} :
       WF_jobVars(part = "cancelled" /\ job[j] # "new" /\ Jobs!RequestStep(j))
  /\ \A j \in {j1, j2} : WF_jobVars(part = "cancelled" /\ Jobs!TaskStep(j))
  /\ WF_jobVars(part = "cancelled" /\ Jobs!Write)
  /\ \A z \in {z1, z2} : WF_restoreVars(part = "restores" /\ Restoring!UserStep(z))
  /\ \A n \in {n1, n2} :
       /\ WF_restoreVars(part = "restores" /\ Restoring!Announce(n))
       /\ WF_restoreVars(part = "restores" /\ Restoring!RestoreStep(n))

\* The instance that is checked, of the files, the jobs and the restores.
EachRevision ==
  [r \in {f1, f3, i2} |-> main] @@ (f2 :> tag) @@ [r \in {f4, f5} |-> bare]
EachJob == (j1 :> j1) @@ (j2 :> j2) @@ (j3 :> j1) @@ (j4 :> j1)
OneKind == [i \in {j1, j2} |-> 1]
EachSelection == (n1 :> {"threads", "artifacts"}) @@ (n2 :> {"threads"}) @@ (n3 :> None)

LiveSpec == LiveInit /\ [][LiveNext]_liveVars /\ LiveFairness

-----------------------------------------------------------------------------
(* Properties: VerdictIsRight of DagValidation, and those of the parts.    *)

\* What has begun ends: an execution of a DAG, a run and its wait for the workspace, a
\* delegation and those that follow it, a question and its answer, an operation, the
\* turns towards a goal, a download and its cancellation, a job and its, a restore.
WorkEnds ==
  <>[](/\ Executions!ExecutionsOver /\ Streams!RunsOver /\ Delegations!CallsOver
       /\ Answers!CallsOver /\ Pool!TasksOver
       /\ part = "goal" => Goal!LoopOver
       /\ part = "files" => Files!DownloadsOver
       /\ part = "cancelled" => Jobs!JobsOver
       /\ part = "restores" => \A n \in {n1, n2} : Restoring!RestoreOver(n))

\* What was accepted is served: a request of the tunnel is forwarded, a review is told
\* its verdict, a record is embedded or given up.
AcceptedIsServed ==
  <>[](Tunnel!AcceptedIsForwarded /\ Reviews!JobsAreTold /\ Records!QueueDrained)

\* Whatever registration failed, a conversation comes to be seen in the sidebar, and
\* stays there until it is deleted, with the workspace of its session.
ConversationsAreSeen == <>[]Sidebar!RowsAgree
=============================================================================
