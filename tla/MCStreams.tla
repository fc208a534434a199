-------------------------------- MODULE MCStreams --------------------------------
(***************************************************************************)
(* What is connected: the stream of a run (RunStream), the tunnel to the   *)
(* gateway (GatewayTunnel) and the reviews that come through it            *)
(* (GatewayReviews).  These share no state in the code, so a behaviour of  *)
(* this instance runs one of them: part, chosen at the start, says which,  *)
(* and the variables of the others stay as they are.                       *)
(***************************************************************************)
EXTENDS Naturals, FiniteSets, TLC

CONSTANTS
  None, StopWorker,
  Runs, Threads, Workspaces, InThread, InWorkspace,
  MaxChunks, MaxCancels, MaxFaults, MaxCrashes, Sweeps,  \* of the streams
  Requests, Forwarders, MaxFrames, MaxBreaks, MaxStops,  \* of the tunnel
  Messages, Deliveries, Reviewers, DeliveryOf, Malformed,
  MaxQueued, SeenLimit, Attempts,                        \* of the reviews
  lone, r1, r2, r3, t1, w1,           \* runs, their thread and workspace
  m1, m2, m3, m4, m5, m6, m7,         \* messages with review jobs
  d1, d2, d3,                         \* deliveries
  k2                                  \* a worker

VARIABLES
  part,
  stream, runner, queue, first, registry, lockOf, holder, waiters, row, spent,
  task, open, inbox, left, requests, worker, fate, faults,
  reader, seen, jobs, reviewer, callback, phase, arrived, taken, told, unheard

\* Any runs, any requests and workers, any messages and workers (see Bounds).
Streams == INSTANCE RunStream
Tunnel == INSTANCE GatewayTunnel WITH
  Workers <- Forwarders, MaxFaults <- MaxBreaks, MaxCancels <- MaxStops,
  queue <- requests, spent <- faults
Reviews == INSTANCE GatewayReviews WITH
  Workers <- Reviewers, queue <- jobs, worker <- reviewer

ASSUME StreamParameters == Streams!Parameters
ASSUME TunnelParameters == Tunnel!Parameters
ASSUME ReviewParameters == Reviews!Parameters

streamVars ==
  <<stream, runner, queue, first, registry, lockOf, holder, waiters, row, spent>>
tunnelVars == <<task, open, inbox, left, requests, worker, fate, faults>>
reviewVars ==
  <<reader, seen, jobs, reviewer, callback, phase, arrived, taken, told, unheard>>
vars == <<part, streamVars, tunnelVars, reviewVars>>

Init ==
  /\ part \in {"serial", "outcomes", "tunnel", "verdicts", "window"}
  /\ Streams!Init /\ Tunnel!Init /\ Reviews!Init

Next ==
  /\ UNCHANGED part
  /\ \/ part \in {"serial", "outcomes"} /\ Streams!Next /\ UNCHANGED <<tunnelVars, reviewVars>>
     \/ part = "tunnel" /\ Tunnel!Next /\ UNCHANGED <<streamVars, reviewVars>>
     \/ part \in {"verdicts", "window"} /\ Reviews!Next /\ UNCHANGED <<streamVars, tunnelVars>>

Spec == Init /\ [][Next]_vars

-----------------------------------------------------------------------------
(* The instance that is checked.                                           *)

OneThread == [s \in Runs |-> t1]
OneWorkspace == [s \in Runs |-> IF s = lone THEN None ELSE w1]

\* A delivery that comes three times, two others, a message without an id and a
\* malformed one.
DeliveryOfEach ==
  (m1 :> d1) @@ (m2 :> None) @@ (m3 :> d1) @@ (m4 :> d2) @@ (m5 :> d2) @@ (m6 :> d3)
    @@ (m7 :> d1)

\* The runs: three of one workspace, whose answers have no chunks and which stop or are
\* cancelled; or one of chat mode whose store refuses writes, beside the sweep.
StreamBounds ==
  /\ part = "serial" =>
       /\ stream[lone] = "idle"
       /\ spent.cancels <= 1 /\ spent.faults = 0 /\ spent.crashes = 0
       /\ \A s \in Runs : /\ runner[s].chunks = 0 /\ ~row[s].abandoned
                         /\ runner[s].reason \in {None, "stop", "cancelled"}
  /\ part = "outcomes" => \A s \in Runs \ {lone} : stream[s] = "idle"

\* The reviews: two workers and retries; or three deliveries through a window of two,
\* before one worker whose POSTs are answered.
ReviewBounds ==
  /\ part = "verdicts" => arrived \subseteq {m1, m2, m3, m4}
  /\ part = "window" =>
       /\ arrived \subseteq {m1, m3, m5, m6, m7}
       /\ reviewer[k2].at \in {"none", "idle", "ended"}
       /\ \A p \in {reader.post} \cup {reviewer[k].post : k \in Reviewers}
                   \cup {callback[m] : m \in Messages} : p.tries \in {0, Attempts}

Bounds == StreamBounds /\ ReviewBounds

Symmetry ==
  Permutations({r1, r2, r3})

-----------------------------------------------------------------------------
(* Properties: those of the parts, each for the part that moves.           *)

\* No two engines work in one workspace (_workspace_run_lock).
RunsSerialized == Streams!TypeOK /\ Streams!RunsSerialized

\* The row of a run that is over tells how it ended, whatever the late writes of
\* the consumer and whenever the cancellation came, and a run is not announced
\* both completed and failed (_runner, _consume_remainder).
OutcomeIsTold == Streams!OutcomeIsTold /\ Streams!EventsAgree

\* A verdict in agent_runs is final, for late writes, crashes and the sweep too.
VerdictIsFinal == [][Streams!KeepsVerdicts]_row

\* A request in the queue of the tunnel is in front of a worker that reaches it, and
\* a connection ends only with its work done (_dispatch, _connect_once).
TunnelKeepsWork ==
  Tunnel!TypeOK /\ Tunnel!QueuedIsReached /\ Tunnel!NothingLeftBehind

\* A review job is told one verdict, by the workers, the rejections or stop(), and
\* was told it when stop() ends in time; a delivery is reviewed again only when
\* its id left the window.
ReviewsAreToldOnce ==
  Reviews!TypeOK /\ Reviews!OneVerdict /\ Reviews!ResolvedInTime /\ Reviews!ReviewedOnce
=============================================================================
