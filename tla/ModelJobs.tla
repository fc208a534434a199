------------------------------- MODULE ModelJobs -------------------------------
(***************************************************************************)
(* Jobs of the Docker Model Runner (backend/services/                      *)
(* docker_model_runner.py, and the handlers of jobs in                     *)
(* backend/api/handlers/provider_routing.py): a request makes a job, or    *)
(* retries an interrupted one, saves it and creates a task; the task runs  *)
(* docker commands and saves its progress; a DELETE cancels the task and   *)
(* waits for it; a restart turns what was unfinished into interrupted.     *)
(*                                                                         *)
(* A job is named after the request that made it, and a task after the     *)
(* request that created it, of which it is the rest: a starter is new,     *)
(* restored, saving, then a task that is queued, opening (saves "pulling", *)
(* before the try), pulling, noting (saves), running, checking (saves),    *)
(* probing, inspecting, stopping (docker stop), closing (saves how it      *)
(* ended), ending (saves, in the finally), and over.  A DELETE is new,     *)
(* restored, waiting for a task or marking, and over.                      *)
(*                                                                         *)
(* Abstractions.  A docker command succeeds, fails, or is killed with its  *)
(* task.  Configuring belongs to running, and a job of either kind may     *)
(* have a context to configure or not.  Phases, percentages and output     *)
(* are left out, and so is the limit of jobs that the file keeps.  The     *)
(* lock of the file serves in the order in which snapshots were taken; a   *)
(* thread writes the file in one step, and goes on when its task is        *)
(* cancelled.                                                              *)
(***************************************************************************)
EXTENDS Integers, Sequences

CONSTANTS
  Creates, Retries, Cancels,  \* requests
  JobOf,       \* of each request; of one that makes a job, itself
  SpecOf,      \* reference, operation and context of each job
  Starts,      \* jobs that start a model; the others prepare it
  Patient,     \* whether clients cancel only what they were told has started
  None,
  MaxFaults,   \* bound on reads and writes that fail
  MaxCrashes   \* bound on restarts

Starters == Creates \cup Retries
Actors == Starters \cup Cancels
Final == {"completed", "failed", "cancelled", "interrupted"}
Unfinished == {"queued", "running"}

\* The values of the constants a configuration may take.
Parameters ==
  /\ None \notin Actors
  /\ Creates \cap Retries = {} /\ Starters \cap Cancels = {}
  /\ JobOf \in [Actors -> Creates] /\ \A j \in Creates : JobOf[j] = j
  /\ DOMAIN SpecOf = Creates /\ Starts \subseteq Creates
  /\ Patient \in BOOLEAN /\ {MaxFaults, MaxCrashes} \subseteq Nat

VARIABLES
  loaded,    \* _jobs_loaded
  status,    \* _jobs: the status of each job
  task,      \* _job_tasks
  at,        \* position of each request
  outcome,   \* the status a task that stops a model will set
  hit,       \* tasks that a cancellation has not reached yet
  cut,       \* jobs left by a task cancelled, or failing, out of its try, or twice
  snapshot,  \* what each actor writes, or wrote
  saved,     \* whether it is written
  queue,     \* who waits for _jobs_store_lock, after the one that holds it
  stale,     \* what threads of cancelled tasks still write
  file, spent

memory == <<loaded, status, task>>
store == <<snapshot, saved, queue, stale, file>>
vars == <<memory, at, outcome, hit, cut, store, spent>>

Snapshots == [Creates -> Final \cup Unfinished \cup {"none"}]

TypeOK ==
  /\ loaded \in BOOLEAN /\ status \in Snapshots
  /\ task \in [Creates -> Starters \cup {None}]
  /\ at \in [Actors -> {"new", "restored", "saving", "queued", "opening", "pulling", "noting",
                        "running", "checking", "probing", "inspecting", "stopping",
                        "closing", "ending", "waiting", "marking", "over"}]
  /\ outcome \in [Starters -> Final \cup {"none"}]
  /\ hit \subseteq Starters /\ cut \subseteq Creates
  /\ snapshot \in [Actors -> Snapshots] /\ saved \in [Actors -> {"no", "yes", "failed"}]
  /\ queue \in Seq(Actors) /\ stale \subseteq Snapshots /\ file \in Snapshots
  /\ spent \in [faults : 0..MaxFaults, crashes : 0..MaxCrashes]

NoJobs == [j \in Creates |-> "none"]

Init ==
  /\ loaded = FALSE /\ status = NoJobs /\ task = [j \in Creates |-> None]
  /\ at = [a \in Actors |-> "new"]
  /\ outcome = [a \in Starters |-> "none"]
  /\ hit = {} /\ cut = {}
  /\ snapshot = [a \in Actors |-> NoJobs] /\ saved = [a \in Actors |-> "no"]
  /\ queue = <<>> /\ stale = {} /\ file = NoJobs
  /\ spent = [faults |-> 0, crashes |-> 0]

Go(a, position) == at' = [at EXCEPT ![a] = position]
Over(a) == at[a] = "over"

\* The thread of an actor that leaves its write: it goes on, or had not begun.
Left(a) == IF queue # <<>> /\ Head(queue) = a THEN {{}, {snapshot[a]}} ELSE {{}}
Waits(a) == {n \in 1..Len(queue) : queue[n] = a}
Others(a) ==
  IF Waits(a) = {} THEN queue
  ELSE LET n == CHOOSE n \in Waits(a) : TRUE IN
       SubSeq(queue, 1, n - 1) \o SubSeq(queue, n + 1, Len(queue))
Abandon(a) ==
  /\ \E left \in Left(a) : stale' = stale \cup left
  /\ queue' = Others(a)
  /\ UNCHANGED <<snapshot, saved, file>>

\* _persist_jobs: the snapshot is taken before the lock is awaited.
Persist(a, values) ==
  /\ snapshot' = [snapshot EXCEPT ![a] = values]
  /\ saved' = [saved EXCEPT ![a] = "no"]
  /\ \E left \in Left(a) : stale' = stale \cup left
  /\ queue' = Append(Others(a), a)
  /\ UNCHANGED file

\* The job of an actor has a status, which is saved.
Set(a, value) ==
  /\ status' = [status EXCEPT ![JobOf[a]] = value]
  /\ Persist(a, status')

Write ==
  /\ queue # <<>>
  /\ file' = snapshot[Head(queue)]
  /\ saved' = [saved EXCEPT ![Head(queue)] = "yes"]
  /\ queue' = Tail(queue)
  /\ UNCHANGED <<memory, at, outcome, hit, cut, snapshot, stale, spent>>

WriteFails ==
  /\ queue # <<>> /\ spent.faults < MaxFaults
  /\ spent' = [spent EXCEPT !.faults = @ + 1]
  /\ saved' = [saved EXCEPT ![Head(queue)] = "failed"]
  /\ queue' = Tail(queue)
  /\ UNCHANGED <<memory, at, outcome, hit, cut, snapshot, stale, file>>

WriteStale(values) ==
  /\ values \in stale
  /\ file' = values
  /\ stale' = stale \ {values}
  /\ UNCHANGED <<memory, at, outcome, hit, cut, snapshot, saved, queue, spent>>

-----------------------------------------------------------------------------
(* Requests.                                                               *)

\* restore_model_jobs, for the first request: unfinished jobs have no process any more.
Restored == [j \in Creates |-> IF file[j] \in Unfinished THEN "interrupted" ELSE file[j]]

Restore(a) ==
  /\ at[a] = "new" /\ ~loaded
  /\ loaded' = TRUE
  /\ status' = Restored
  /\ Go(a, "restored")
  /\ IF Restored # file THEN Persist(a, Restored)
     ELSE saved' = [saved EXCEPT ![a] = "yes"] /\ UNCHANGED <<snapshot, queue, stale, file>>
  /\ UNCHANGED <<task, outcome, hit, cut, spent>>

\* A file that cannot be read counts as one without jobs.
Unreadable(a) ==
  /\ at[a] = "new" /\ ~loaded
  /\ spent.faults < MaxFaults
  /\ spent' = [spent EXCEPT !.faults = @ + 1]
  /\ loaded' = TRUE /\ status' = NoJobs
  /\ Go(a, "restored")
  /\ saved' = [saved EXCEPT ![a] = "yes"]
  /\ UNCHANGED <<task, outcome, hit, cut, snapshot, queue, stale, file>>

Ready(a) ==
  \/ at[a] = "new" /\ loaded
  \/ at[a] = "restored" /\ saved[a] = "yes"

\* create_model_job: an unfinished job of the same kind is returned instead.
Same(j) == \E k \in Creates : SpecOf[k] = SpecOf[j] /\ status[k] \in Unfinished

Create(a) ==
  /\ Ready(a)
  /\ IF Same(a) THEN Go(a, "over") /\ UNCHANGED <<status, store>>
     ELSE Go(a, "saving") /\ Set(a, "queued")
  /\ UNCHANGED <<loaded, task, outcome, hit, cut, spent>>

Retry(a) ==
  /\ Ready(a)
  /\ IF status[JobOf[a]] # "interrupted" THEN Go(a, "over") /\ UNCHANGED <<status, store>>
     ELSE Go(a, "saving") /\ Set(a, "queued")
  /\ UNCHANGED <<loaded, task, outcome, hit, cut, spent>>

Schedule(a) ==
  /\ at[a] = "saving" /\ saved[a] = "yes"
  /\ task' = [task EXCEPT ![JobOf[a]] = a]
  /\ Go(a, "queued")
  /\ UNCHANGED <<loaded, status, outcome, hit, cut, store, spent>>

\* cancel_model_job: the task is cancelled and awaited; a job without one is marked.
Live(j) == task[j] # None /\ ~Over(task[j])

Cancel(c) ==
  LET j == JobOf[c] IN
  /\ Ready(c)
  /\ Patient => \A a \in Starters : JobOf[a] = j => at[a] # "saving"
  /\ \/ /\ Live(j) /\ Go(c, "waiting")
        /\ hit' = hit \cup {task[j]}
        /\ UNCHANGED <<status, store>>
     \/ /\ ~Live(j) /\ status[j] \in Unfinished
        /\ Go(c, "marking") /\ Set(c, "interrupted")
        /\ UNCHANGED hit
     \/ /\ ~Live(j) /\ status[j] \notin Unfinished
        /\ Go(c, "over") /\ UNCHANGED <<status, hit, store>>
  /\ UNCHANGED <<loaded, task, outcome, cut, spent>>

Answer(c) ==
  /\ \/ at[c] = "waiting" /\ ~Live(JobOf[c])
     \/ at[c] = "marking" /\ saved[c] # "no"
  /\ Go(c, "over")
  /\ UNCHANGED <<memory, outcome, hit, cut, store, spent>>

\* A write that fails ends a request; a job that was to be started keeps its status.
RequestFails(a) ==
  /\ at[a] \in {"restored", "saving"} /\ saved[a] = "failed"
  /\ cut' = IF at[a] = "saving" THEN cut \cup {JobOf[a]} ELSE cut
  /\ Go(a, "over")
  /\ UNCHANGED <<memory, outcome, hit, store, spent>>

-----------------------------------------------------------------------------
(* The task: _run_job.                                                     *)

Runs(a, position) == at[a] = position /\ a \notin hit

\* It opens, before the try.
Begin(a) ==
  /\ Runs(a, "queued")
  /\ Go(a, "opening") /\ Set(a, "running")
  /\ UNCHANGED <<loaded, task, outcome, hit, cut, spent>>

\* Progress is saved, and the next command follows; a model that is only prepared is
\* configured, if its job has a context.
After == [opening |-> "pulling", noting |-> "running", checking |-> "probing"]

Saved(a) ==
  /\ at[a] \in DOMAIN After /\ a \notin hit /\ saved[a] = "yes"
  /\ \/ Go(a, After[at[a]])
     \/ at[a] = "noting" /\ JobOf[a] \notin Starts /\ Go(a, "inspecting")
  /\ UNCHANGED <<memory, outcome, hit, cut, store, spent>>

\* A command succeeds: its progress is saved, or the model is inspected.
Command(a) ==
  /\ at[a] \in {"pulling", "running", "probing"} /\ a \notin hit
  /\ \/ at[a] = "pulling" /\ Go(a, "noting") /\ Persist(a, status)
     \/ at[a] = "running" /\ JobOf[a] \in Starts /\ Go(a, "checking") /\ Persist(a, status)
     \/ /\ at[a] = "probing" \/ (at[a] = "running" /\ JobOf[a] \notin Starts)
        /\ Go(a, "inspecting") /\ UNCHANGED store
  /\ UNCHANGED <<memory, outcome, hit, cut, spent>>

Complete(a) ==
  /\ Runs(a, "inspecting")
  /\ Go(a, "closing") /\ Set(a, "completed")
  /\ UNCHANGED <<loaded, task, outcome, hit, cut, spent>>

\* The except clauses: a model that was started is stopped, and the job has its end.
Started(a) ==
  JobOf[a] \in Starts /\ at[a] \in {"checking", "probing", "inspecting", "closing"}

Handle(a, value) ==
  /\ outcome' = [outcome EXCEPT ![a] = value]
  /\ IF Started(a) THEN Go(a, "stopping") /\ Abandon(a) /\ UNCHANGED status
     ELSE Go(a, "closing") /\ Set(a, value)

\* In the try: no except clause has been entered.
InTry(a) ==
  \/ at[a] \in {"pulling", "noting", "running", "checking", "probing", "inspecting"}
  \/ at[a] = "closing" /\ outcome[a] = "none"

Fails(a) ==
  /\ a \notin hit /\ InTry(a)
  /\ \/ at[a] \in {"pulling", "running", "probing"}
     \/ at[a] \in {"noting", "checking", "closing"} /\ saved[a] = "failed"
  /\ Handle(a, "failed")
  /\ UNCHANGED <<loaded, task, hit, cut, spent>>

StopModel(a) ==
  /\ Runs(a, "stopping")
  /\ Go(a, "closing") /\ Set(a, outcome[a])
  /\ UNCHANGED <<loaded, task, outcome, hit, cut, spent>>

\* The end is saved, or not, and the finally saves once more.
Close(a) ==
  /\ Runs(a, "closing")
  /\ saved[a] # "no" /\ (InTry(a) => saved[a] = "yes")
  /\ Go(a, "ending") /\ Persist(a, status)
  /\ UNCHANGED <<memory, outcome, hit, cut, spent>>

\* The task is forgotten, unless the last write failed.
End(a) ==
  /\ Runs(a, "ending") /\ saved[a] # "no"
  /\ task' = IF saved[a] = "yes" THEN [task EXCEPT ![JobOf[a]] = None] ELSE task
  /\ Go(a, "over")
  /\ UNCHANGED <<loaded, status, outcome, hit, cut, store, spent>>

\* Nothing catches a write that fails before the try.
OpeningFails(a) ==
  /\ Runs(a, "opening") /\ saved[a] = "failed"
  /\ cut' = cut \cup {JobOf[a]}
  /\ Go(a, "over")
  /\ UNCHANGED <<memory, outcome, hit, store, spent>>

\* A cancellation reaches the task where it waits: before the try, and in the finally,
\* it ends there; in the try it is handled; while a model is being stopped, or the end
\* saved, only the finally is left.
CutShort(a) ==
  /\ at[a] \in {"queued", "opening", "ending"}
  /\ cut' = IF at[a] = "ending" THEN cut ELSE cut \cup {JobOf[a]}
  /\ Go(a, "over") /\ Abandon(a)
  /\ UNCHANGED <<status, outcome>>

CutAgain(a) ==
  /\ at[a] \in {"stopping", "closing"} /\ ~InTry(a)
  /\ cut' = IF at[a] = "stopping" THEN cut \cup {JobOf[a]} ELSE cut
  /\ Go(a, "ending") /\ Persist(a, status)
  /\ UNCHANGED <<status, outcome>>

Reach(a) ==
  /\ a \in hit
  /\ hit' = hit \ {a}
  /\ \/ CutShort(a)
     \/ CutAgain(a)
     \/ InTry(a) /\ Handle(a, "cancelled") /\ UNCHANGED cut
  /\ UNCHANGED <<loaded, task, spent>>

-----------------------------------------------------------------------------

Crash ==
  /\ spent.crashes < MaxCrashes
  /\ spent' = [spent EXCEPT !.crashes = @ + 1]
  /\ loaded' = FALSE /\ status' = NoJobs /\ task' = [j \in Creates |-> None]
  /\ at' = [a \in Actors |-> IF at[a] = "new" THEN "new" ELSE "over"]
  /\ hit' = {} /\ cut' = {} /\ queue' = <<>> /\ stale' = {}
  /\ UNCHANGED <<outcome, snapshot, saved, file>>

\* A request that waited for the jobs to be restored, or for a task, goes on.
RequestStep(a) ==
  \/ a \in Creates /\ Create(a)
  \/ a \in Retries /\ Retry(a)
  \/ a \in Cancels /\ (Cancel(a) \/ Answer(a))
  \/ RequestFails(a)

TaskStep(a) ==
  \/ Schedule(a) \/ Begin(a) \/ Saved(a) \/ Command(a) \/ Complete(a)
  \/ StopModel(a) \/ Close(a) \/ End(a) \/ OpeningFails(a) \/ Reach(a) \/ Fails(a)

Next ==
  \/ \E a \in Actors : Restore(a) \/ Unreadable(a) \/ RequestStep(a)
  \/ \E a \in Starters : TaskStep(a)
  \/ Write \/ WriteFails
  \/ \E values \in stale : WriteStale(values)
  \/ Crash

Spec == Init /\ [][Next]_vars

\* Coroutines and threads go on, and docker commands end.
FairSpec ==
  /\ Spec
  /\ \A a \in Actors : WF_vars(at[a] # "new" /\ RequestStep(a))
  /\ \A a \in Starters : WF_vars(TaskStep(a))
  /\ WF_vars(Write)

-----------------------------------------------------------------------------
(* Properties.                                                             *)

NotBegun(a) == at[a] \in {"new", "restored"}

\* While nothing was cancelled and no read or write failed, the file is what memory says
\* whenever nobody writes: a restart finds every job as it was.
FileAgrees ==
  (/\ loaded /\ queue = <<>> /\ stale = {}
   /\ spent.faults = 0 /\ \A c \in Cancels : NotBegun(c)) => file = status

\* A job has one task at a time, if clients cancel only what has started.
OneTaskPerJob ==
  Patient => \A a, b \in Starters :
    (a # b /\ JobOf[a] = JobOf[b]) =>
      {at[a], at[b]} \cap {"new", "restored", "over"} # {}

\* Two unfinished jobs are not of one kind, if none is retried.
OneJobPerKind ==
  (Patient /\ \A r \in Retries : NotBegun(r)) => \A j, k \in Creates :
    (j # k /\ SpecOf[j] = SpecOf[k]) => ~({status[j], status[k]} \subseteq Unfinished)

\* A job that reads unfinished has a request or a task at work, unless one was cut short.
UnfinishedIsWorkedOn ==
  Patient => \A j \in Creates \ cut : status[j] \in Unfinished =>
    \E a \in Starters : JobOf[a] = j /\ at[a] \notin {"new", "restored", "over"}

\* Whatever fails or is cancelled, every request and every task that began ends.
JobsOver == \A a \in Actors : at[a] = "new" \/ Over(a)

-----------------------------------------------------------------------------
(* What a comment or a docstring says and the code does not keep.  TLC     *)
(* finds these violated, so no configuration checks them (see the README). *)

\* A retry makes no second process: nothing is pulled twice at a time.
NoDuplicates ==
  \A a, b \in Starters : (a # b /\ SpecOf[JobOf[a]] = SpecOf[JobOf[b]]) =>
    {at[a], at[b]} # {"pulling"}

\* A cancellation becomes a status that can be asked for.
CancellationIsSeen ==
  \A c \in Cancels : (at[c] = "waiting" /\ ~Live(JobOf[c])) =>
    status[JobOf[c]] \notin Unfinished

\* The end of a job survives a restart.
EndIsKept ==
  (loaded /\ queue = <<>> /\ stale = {} /\ spent.faults = 0) =>
    \A j \in Creates : status[j] \in Final => file[j] = status[j]

=============================================================================
