------------------------------- MODULE DagStore -------------------------------
(***************************************************************************)
(* Persistent plans of subagent stages (backend/scheduling/dag.py): plans  *)
(* that a person approves, executions bound to an idempotency key, and     *)
(* stages that workers claim under a lease, finish, lose and retry.        *)
(*                                                                         *)
(* Every worker and every caller has a connection of its own, as _get_db   *)
(* opens one per call.  The SELECTs of a method run before its transaction *)
(* and are steps of their own wherever another connection can change what  *)
(* they read; the statements from the first UPDATE or INSERT to commit are *)
(* one step.  An UPDATE that matches no row opens a transaction too:       *)
(* claim_ready_stage neither commits nor rolls it back, and its connection *)
(* then holds the only write lock of the database, `writer'.               *)
(*                                                                         *)
(* Abstractions.  An execution is identified by its idempotency key, which *)
(* is UNIQUE.  A plan hash is the dependency graph it was computed from.   *)
(* claim_token is the number of the attempt it was drawn for, as both are  *)
(* new with every claim of a stage; 0 is NULL.  claim_expires_at is the    *)
(* boolean `expired'.  Names, outputs, errors and all events but           *)
(* execution_finished are left out, and so are calls refused without a     *)
(* write (wrong run_id, empty approver, non-positive limits).              *)
(***************************************************************************)
EXTENDS DagGraph

CONSTANTS
  Plans,
  Keys,          \* idempotency keys
  Clients,       \* callers of start_execution
  Workers,       \* executors of stages, outside src/
  Graphs,        \* the dependencies a plan may be proposed with
  None,          \* no plan, no key, no worker
  MaxAttempts,   \* max_attempts, 3 by default in the code
  Events         \* what the environment may do in an instance; see AllEvents

AllEvents ==
  {"tamper",        \* stages_json is edited behind the store's back
   "cancel",        \* cancel_execution
   "crash",         \* a worker dies while it works on a stage
   "claim_crash",   \* a worker dies inside claim_ready_stage
   "late"}          \* the heartbeat of a live worker misses a whole lease

ASSUME GraphsAssumption == Graphs \subseteq [Stages -> SUBSET Stages]
ASSUME NoneAssumption == None \notin Plans \cup Keys \cup Workers
ASSUME AttemptsAssumption == MaxAttempts \in Nat \ {0}
ASSUME DagEventsAssumption == Events \subseteq AllEvents

VARIABLES
  plan,     \* the rows of vectora_dag_plans
  dag,      \* per key: the row of vectora_dag_executions with its stages
  start,    \* the call of start_execution each client is in
  work,     \* the call of claim_ready_stage, or the stage, each worker is in
  writer    \* the worker whose connection holds an open write transaction

vars == <<plan, dag, start, work, writer>>

StageStatus == {"pending", "running", "passed", "failed", "cancelled"}

Terminal == {"passed", "failed", "cancelled"}

Stage == [status : StageStatus, attempt : Nat, token : Nat, expired : BOOLEAN]

FreshStage == [status |-> "pending", attempt |-> 0, token |-> 0, expired |-> FALSE]

NoGraph == [s \in Stages |-> {}]

Dag ==
  [status   : {"absent", "running"} \cup Terminal,
   plan     : Plans \cup {None},
   graph    : GraphType,                  \* depends_on_json of the stages
   stage    : [Stages -> Stage],
   finished : Nat]                        \* events execution_finished

AbsentDag ==
  [status |-> "absent", plan |-> None, graph |-> NoGraph,
   stage |-> [s \in Stages |-> FreshStage], finished |-> 0]

Plan ==
  [status : {"absent", "draft", "approved"},
   graph  : GraphType,                    \* stages_json
   hash   : GraphType]                    \* plan_hash

AbsentPlan == [status |-> "absent", graph |-> NoGraph, hash |-> NoGraph]

Call ==
  [pc : {"idle", "called", "checked", "inserting", "started"}, plan : Plans \cup {None},
   key : Keys \cup {None}, graph : GraphType]

NoCall == [pc |-> "idle", plan |-> None, key |-> None, graph |-> NoGraph]

Work ==
  [pc : {"idle", "listing", "trying", "working"}, key : Keys \cup {None},
   listed : SUBSET Stages, stage : Stages \cup {0}, token : Nat]

NoWork == [pc |-> "idle", key |-> None, listed |-> {}, stage |-> 0, token |-> 0]

TypeOK ==
  /\ plan \in [Plans -> Plan]
  /\ dag \in [Keys -> Dag]
  /\ start \in [Clients -> Call]
  /\ work \in [Workers -> Work]
  /\ writer \in Workers \cup {None}

Init ==
  /\ plan = [p \in Plans |-> AbsentPlan]
  /\ dag = [k \in Keys |-> AbsentDag]
  /\ start = [c \in Clients |-> NoCall]
  /\ work = [w \in Workers |-> NoWork]
  /\ writer = None

-----------------------------------------------------------------------------
(* Plans.                                                                  *)

CreatePlan(p, g) ==
  /\ writer = None
  /\ plan[p].status = "absent"
  /\ Acyclic(g)
  /\ plan' = [plan EXCEPT ![p] = [status |-> "draft", graph |-> g, hash |-> g]]
  /\ UNCHANGED <<dag, start, work, writer>>

\* The person approves the hash of what they were shown.
ApprovePlan(p, shown) ==
  /\ writer = None
  /\ plan[p].status = "draft"
  /\ plan[p].hash = shown
  /\ plan' = [plan EXCEPT ![p].status = "approved"]
  /\ UNCHANGED <<dag, start, work, writer>>

Tamper(p, g) ==
  /\ "tamper" \in Events
  /\ plan[p].status # "absent"
  /\ plan' = [plan EXCEPT ![p].graph = g]
  /\ UNCHANGED <<dag, start, work, writer>>

-----------------------------------------------------------------------------
(* start_execution.                                                        *)

\* Mutant: the hash is not computed again before the execution.
ExecutableUnhashed(p) == plan[p].status = "approved" /\ Acyclic(plan[p].graph)

Executable(p) ==
  /\ plan[p].status = "approved"
  /\ Acyclic(plan[p].graph)
  /\ plan[p].graph = plan[p].hash

StartExecution(c, p, k) ==
  /\ start[c] = NoCall
  /\ start' = [start EXCEPT ![c] = [NoCall EXCEPT !.pc = "called", !.plan = p, !.key = k]]
  /\ UNCHANGED <<plan, dag, work, writer>>

\* The SELECT of the plan; raises unless what was approved can be executed.
ReadPlan(c) ==
  /\ start[c].pc = "called"
  /\ start' = [start EXCEPT ![c] =
       IF Executable(@.plan) THEN [@ EXCEPT !.pc = "checked", !.graph = plan[start[c].plan].graph]
                             ELSE NoCall]
  /\ UNCHANGED <<plan, dag, work, writer>>

\* The SELECT of the execution; raises if the key belongs to another plan.
ReadExecution(c) ==
  /\ start[c].pc = "checked"
  /\ LET bound == dag[start[c].key].plan IN
       start' = [start EXCEPT ![c] =
         IF bound = None THEN [@ EXCEPT !.pc = "inserting"]
         ELSE IF bound = @.plan THEN [@ EXCEPT !.pc = "started"]
         ELSE NoCall]
  /\ UNCHANGED <<plan, dag, work, writer>>

InsertExecution(c) ==
  /\ start[c].pc = "inserting"
  /\ writer = None
  /\ dag[start[c].key].status = "absent"
  /\ dag' = [dag EXCEPT ![start[c].key] =
       [AbsentDag EXCEPT !.status = "running", !.plan = start[c].plan,
                         !.graph = start[c].graph]]
  /\ start' = [start EXCEPT ![c].pc = "started"]
  /\ UNCHANGED <<plan, work, writer>>

\* IntegrityError: rollback, and start_execution is called again with the same
\* arguments.
InsertConflict(c) ==
  /\ start[c].pc = "inserting"
  /\ writer = None
  /\ dag[start[c].key].status # "absent"
  /\ start' = [start EXCEPT ![c].pc = "called"]
  /\ UNCHANGED <<plan, dag, work, writer>>

\* The caller goes on with the DAGExecution it got, or gave up on the lock.
CallReturns(c) ==
  /\ \/ start[c].pc = "started"
     \/ start[c].pc = "inserting" /\ writer # None
  /\ start' = [start EXCEPT ![c] = NoCall]
  /\ UNCHANGED <<plan, dag, work, writer>>

-----------------------------------------------------------------------------
(* What a transaction makes of the rows of one execution.                  *)

In(d, status) == {s \in Stages : d.stage[s].status = status}

\* The CAS by which _refresh_execution_status publishes a terminal status.
Finished(d, status) ==
  IF d.status = "running"
    THEN [d EXCEPT !.status = status, !.finished = @ + 1] ELSE d

\* The stages in S leave the claim they may be under.
Released(d, S, status) ==
  [d EXCEPT !.stage = [s \in Stages |->
     IF s \in S THEN [d.stage[s] EXCEPT !.status = status, !.token = 0, !.expired = FALSE]
                ELSE d.stage[s]]]

\* Mutant: the failure is published while claims are active.
RefreshedAtOnce(d) ==
  IF In(d, "failed") # {}
    THEN Finished(Released(d, In(d, "pending"), "failed"), "failed")
    ELSE IF In(d, "pending") \cup In(d, "running") # {} THEN d
         ELSE Finished(d, "passed")

\* _refresh_execution_status: a failure waits for the active claims, then
\* takes the pending stages with it.
Refreshed(d) ==
  IF In(d, "failed") # {}
    THEN IF In(d, "running") # {} THEN d
         ELSE Finished(Released(d, In(d, "pending"), "failed"), "failed")
    ELSE IF In(d, "pending") \cup In(d, "running") # {} THEN d
         ELSE Finished(d, "passed")

Expired(d) == {s \in In(d, "running") : d.stage[s].expired}

\* Mutant: the attempts are compared with the wrong operator.
RetryableOnceMore(d) == {s \in Expired(d) : d.stage[s].attempt <= MaxAttempts}

Retryable(d) == {s \in Expired(d) : d.stage[s].attempt < MaxAttempts}

\* The statement on S, then a refresh per row of S; a third changes nothing.
Settled(d, S, status) ==
  IF S = {} THEN d
  ELSE IF \E s \in S : S = {s} THEN Refreshed(Released(d, S, status))
  ELSE Refreshed(Refreshed(Released(d, S, status)))

\* recover_expired_claims, one transaction: what may be retried is pending
\* again, what is exhausted fails.
Recovered(d) ==
  LET retried == Settled(d, Retryable(d), "pending")
  IN  Settled(retried, Expired(retried), "failed")

-----------------------------------------------------------------------------
(* claim_ready_stage.                                                      *)

CanWrite(w) == writer \in {None, w}

\* The SELECTs of the execution's status and of a failed stage; a stage that
\* failed stays so, and both hold when the first is read.
ClaimCheck(w, k) ==
  /\ work[w] = NoWork
  /\ dag[k].status = "running"
  /\ In(dag[k], "failed") = {}
  /\ work' = [work EXCEPT ![w] = [NoWork EXCEPT !.pc = "listing", !.key = k]]
  /\ UNCHANGED <<plan, dag, start, writer>>

\* The SELECT of the pending stages.
ClaimList(w) ==
  /\ work[w].pc = "listing"
  /\ LET d == dag[work[w].key] IN
       work' = [work EXCEPT ![w].pc = "trying", ![w].listed =
                  {s \in In(d, "pending") : d.stage[s].attempt < MaxAttempts}]
  /\ UNCHANGED <<plan, dag, start, writer>>

\* Mutant: one dependency that passed is enough.
SomeDependencyPassed(d, s) ==
  d.graph[s] = {} \/ d.graph[s] \cap In(d, "passed") # {}

DependenciesPassed(d, s) == d.graph[s] \subseteq In(d, "passed")

\* The loop over the listed stages, in the order of their rows.
Considers(w, s) ==
  /\ work[w].pc = "trying"
  /\ s \in work[w].listed
  /\ \A other \in work[w].listed : s <= other

ClaimSkip(w, s) ==
  /\ Considers(w, s)
  /\ ~DependenciesPassed(dag[work[w].key], s)
  /\ work' = [work EXCEPT ![w].listed = @ \ {s}]
  /\ UNCHANGED <<plan, dag, start, writer>>

\* Mutant: the claim leaves the taxonomy.
ClaimMisnamed(d, s) ==
  [d EXCEPT !.stage[s] = [status |-> "claimed", attempt |-> @.attempt + 1,
                          token |-> @.attempt + 1, expired |-> FALSE]]

Claim(d, s) ==
  [d EXCEPT !.stage[s] = [status |-> "running", attempt |-> @.attempt + 1,
                          token |-> @.attempt + 1, expired |-> FALSE]]

\* Mutant: the UPDATE does not look at the status again.
ClaimListed(w, s) ==
  /\ Considers(w, s)
  /\ CanWrite(w)
  /\ LET d == dag[work[w].key] IN
       /\ DependenciesPassed(d, s)
       /\ dag' = [dag EXCEPT ![work[w].key] = Claim(d, s)]
       /\ work' = [work EXCEPT ![w] = [@ EXCEPT
            !.pc = "working", !.listed = {}, !.stage = s,
            !.token = d.stage[s].attempt + 1]]
  /\ writer' = None
  /\ UNCHANGED <<plan, start>>

\* UPDATE ... WHERE status = 'pending', and commit; a dependency that passed
\* stays so.
ClaimStage(w, s) ==
  /\ Considers(w, s)
  /\ CanWrite(w)
  /\ LET d == dag[work[w].key] IN
       /\ DependenciesPassed(d, s)
       /\ d.stage[s].status = "pending"
       /\ dag' = [dag EXCEPT ![work[w].key] = Claim(d, s)]
       /\ work' = [work EXCEPT ![w] = [@ EXCEPT
            !.pc = "working", !.listed = {}, !.stage = s,
            !.token = d.stage[s].attempt + 1]]
  /\ writer' = None
  /\ UNCHANGED <<plan, start>>

\* The UPDATE matches no row: its transaction stays open.
ClaimLost(w, s) ==
  /\ Considers(w, s)
  /\ CanWrite(w)
  /\ LET d == dag[work[w].key] IN
       /\ DependenciesPassed(d, s)
       /\ d.stage[s].status # "pending"
  /\ work' = [work EXCEPT ![w].listed = @ \ {s}]
  /\ writer' = w
  /\ UNCHANGED <<plan, dag, start>>

\* "database is locked" leaves claim_ready_stage as an exception.
ClaimLocked(w, s) ==
  /\ Considers(w, s)
  /\ ~CanWrite(w)
  /\ DependenciesPassed(dag[work[w].key], s)
  /\ work' = [work EXCEPT ![w] = NoWork]
  /\ UNCHANGED <<plan, dag, start, writer>>

ClaimNone(w) ==
  /\ work[w].pc = "trying"
  /\ work[w].listed = {}
  /\ work' = [work EXCEPT ![w] = NoWork]
  /\ UNCHANGED <<plan, dag, start, writer>>

-----------------------------------------------------------------------------
(* Stages under a claim.                                                   *)

\* Mutant: the token of the claim is not compared.
AnyClaim(w, d, s) == d.stage[s].status = "running" /\ ~d.stage[s].expired

\* The WHERE clause shared by finish_stage and heartbeat_stage.
OwnsClaim(w, d, s) ==
  /\ d.stage[s].status = "running"
  /\ d.stage[s].token = work[w].token
  /\ ~d.stage[s].expired

FinishStage(w, outcome) ==
  /\ work[w].pc = "working"
  /\ CanWrite(w)
  /\ LET k == work[w].key  s == work[w].stage IN
       /\ OwnsClaim(w, dag[k], s)
       /\ dag' = [dag EXCEPT ![k] = Refreshed(Released(@, {s}, outcome))]
  /\ work' = [work EXCEPT ![w] = NoWork]
  /\ writer' = None
  /\ UNCHANGED <<plan, start>>

\* No row matches: rollback, and DAGValidationError.
FinishRejected(w) ==
  /\ work[w].pc = "working"
  /\ CanWrite(w)
  /\ ~OwnsClaim(w, dag[work[w].key], work[w].stage)
  /\ work' = [work EXCEPT ![w] = NoWork]
  /\ writer' = None
  /\ UNCHANGED <<plan, dag, start>>

FinishLocked(w) ==
  /\ work[w].pc = "working"
  /\ ~CanWrite(w)
  /\ work' = [work EXCEPT ![w] = NoWork]
  /\ UNCHANGED <<plan, dag, start, writer>>

\* The worker's process ends, and its connection with it.
WorkerDies(w) ==
  /\ work[w] # NoWork \/ writer = w
  /\ (IF work[w].pc = "working" THEN "crash" ELSE "claim_crash") \in Events
  /\ work' = [work EXCEPT ![w] = NoWork]
  /\ writer' = IF writer = w THEN None ELSE writer
  /\ UNCHANGED <<plan, dag, start>>

CancelExecution(k) ==
  /\ "cancel" \in Events
  /\ writer = None
  /\ dag[k].status = "running"
  /\ dag' = [dag EXCEPT ![k] =
       Finished(Released(@, In(@, "pending") \cup In(@, "running"), "cancelled"),
                "cancelled")]
  /\ UNCHANGED <<plan, start, work, writer>>

\* The scheduler's tick.
RecoverExpiredClaims ==
  /\ writer = None
  /\ dag' = [k \in Keys |-> Recovered(dag[k])]
  /\ UNCHANGED <<plan, start, work, writer>>

WorksOn(w, k, s) ==
  /\ work[w].pc = "working"
  /\ work[w].key = k
  /\ work[w].stage = s
  /\ work[w].token = dag[k].stage[s].token

\* stage_lease_watchdog renews the lease three times per lease, unless its
\* worker is gone, too late, or kept from writing.
LeaseExpires(k, s) ==
  /\ s \in In(dag[k], "running")
  /\ ~dag[k].stage[s].expired
  /\ "late" \in Events \/ \A w \in Workers : WorksOn(w, k, s) => ~CanWrite(w)
  /\ dag' = [dag EXCEPT ![k].stage[s].expired = TRUE]
  /\ UNCHANGED <<plan, start, work, writer>>

-----------------------------------------------------------------------------

WorkerStep(w) ==
  \/ ClaimList(w) \/ ClaimNone(w)
  \/ FinishRejected(w) \/ FinishLocked(w)
  \/ \E k \in Keys : ClaimCheck(w, k)
  \/ \E s \in Stages : ClaimSkip(w, s) \/ ClaimStage(w, s) \/ ClaimLost(w, s)
                       \/ ClaimLocked(w, s)
  \/ \E outcome \in {"passed", "failed"} : FinishStage(w, outcome)

ClientStep(c) ==
  \/ ReadPlan(c) \/ ReadExecution(c)
  \/ InsertExecution(c) \/ InsertConflict(c) \/ CallReturns(c)
  \/ \E p \in Plans, k \in Keys : StartExecution(c, p, k)

PlanStep ==
  \E p \in Plans, g \in Graphs : CreatePlan(p, g) \/ ApprovePlan(p, g) \/ Tamper(p, g)

Next ==
  \/ PlanStep
  \/ \E c \in Clients : ClientStep(c)
  \/ \E w \in Workers : WorkerStep(w) \/ WorkerDies(w)
  \/ \E k \in Keys : CancelExecution(k) \/ \E s \in Stages : LeaseExpires(k, s)
  \/ RecoverExpiredClaims

Spec == Init /\ [][Next]_vars

\* Workers poll and finish what they claim (they are outside src/), tick()
\* calls recover_expired_dag_claims every minute, leases run out.
Fairness ==
  /\ \A w \in Workers : WF_vars(WorkerStep(w))
  /\ \A k \in Keys, s \in Stages : WF_vars(LeaseExpires(k, s))
  /\ WF_vars(RecoverExpiredClaims)

FairSpec == Spec /\ Fairness

-----------------------------------------------------------------------------
(* Properties.                                                             *)

\* Nothing but the plan a person approved is executed: the rows of an
\* execution are the graph whose hash was approved, whatever happened to
\* stages_json before, between or after.
ExecutedAsApproved ==
  \A k \in Keys : dag[k].status # "absent" =>
    /\ dag[k].plan \in Plans
    /\ plan[dag[k].plan].status = "approved"
    /\ dag[k].graph = plan[dag[k].plan].hash

\* A key serves one plan: a caller that got an execution got its own plan's,
\* also when two callers insert the same key at the same time.
KeyServesOnePlan ==
  \A c \in Clients : start[c].pc = "started" => dag[start[c].key].plan = start[c].plan

\* A stage runs or has passed only on top of everything it depends on, through
\* retries, recoveries and stale lists of pending stages.
StartsAfterDependencies ==
  \A k \in Keys, s \in Stages :
    dag[k].stage[s].status \in {"running", "passed"} =>
      dag[k].graph[s] \subseteq In(dag[k], "passed")

\* A stage that waits can still be claimed: recovery never leaves a pending
\* stage without attempts, which every later claim would skip for ever.
PendingHasAttempts ==
  \A k \in Keys, s \in Stages :
    /\ dag[k].stage[s].attempt <= MaxAttempts
    /\ dag[k].status = "running" /\ dag[k].stage[s].status = "pending"
         => dag[k].stage[s].attempt < MaxAttempts

\* An execution is never stuck: with no stage running and none failed, some
\* pending stage has all its dependencies.
NeverStuck ==
  \A k \in Keys :
    /\ dag[k].status = "running"
    /\ In(dag[k], "running") = {}
    /\ In(dag[k], "failed") = {}
    => \E s \in In(dag[k], "pending") : dag[k].graph[s] \subseteq In(dag[k], "passed")

\* An execution that runs can go on, whoever died at its stages.
ExecutionsGoOn == PendingHasAttempts /\ NeverStuck

\* The execution's status is what its stages say, and nothing runs under an
\* execution that ended: neither a failure nor a sibling that passed after it,
\* nor a cancellation, leaves a claim or a pending stage behind.
StatusMatchesStages ==
  \A k \in Keys :
    /\ dag[k].status = "passed" => In(dag[k], "passed") = Stages
    /\ dag[k].status \in {"failed", "cancelled"} =>
         In(dag[k], "pending") \cup In(dag[k], "running") = {}
    /\ dag[k].status = "failed" => In(dag[k], "failed") # {}
    /\ dag[k].status = "running" => In(dag[k], "cancelled") = {}

\* execution_finished is published exactly once per execution that ends.
FinishedOnce ==
  \A k \in Keys : dag[k].finished = IF dag[k].status \in Terminal THEN 1 ELSE 0

\* An execution ends when its stages say so, and says it once.
EndsAreSound == StatusMatchesStages /\ FinishedOnce

\* A stage passes only by the worker that made its last claim and still holds
\* it: one that lost its lease to another worker cannot finish in its place.
ResultComesFromOwner ==
  [][\A k \in Keys, s \in Stages :
       dag[k].stage[s].status # "passed" /\ dag'[k].stage[s].status = "passed" =>
         /\ ~dag[k].stage[s].expired
         /\ \E w \in Workers : /\ WorksOn(w, k, s) /\ work'[w] = NoWork
                               /\ \A v \in Workers \ {w} : work'[v] = work[v]]_vars

\* A result is final: a stage that passed keeps its result, and an execution
\* that ended changes no more, whoever still works on it or cancels it late.
ResultsAreFinal ==
  [][\A k \in Keys :
       /\ dag[k].status \in Terminal => dag'[k] = dag[k]
       /\ \A s \in Stages : dag[k].stage[s].status = "passed" =>
            dag'[k].stage[s] = dag[k].stage[s]]_vars

\* No execution is under way.  A key starts one execution, so with a single worker,
\* however often it dies at work, this holds from some point on.
ExecutionsOver == \A k \in Keys : dag[k].status # "running"

=============================================================================
