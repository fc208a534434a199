------------------------------- MODULE Kanban -------------------------------
(***************************************************************************)
(* The Kanban board of background tasks (backend/scheduling/kanban.py).    *)
(*                                                                         *)
(* One card per row of vectora_background_tasks, and the dependency links  *)
(* of vectora_task_links.  Every operation below is one SQLite             *)
(* transaction: the predicate of its WHERE clause is a guard, its SET list *)
(* is a row transform.  Reads that precede a write by an await are taken   *)
(* by the callers (module BackgroundRuns), which carry what they read.     *)
(*                                                                         *)
(* Abstractions.  The `version' column is left out: manual_transition      *)
(* compares status, updated_at and version in its WHERE clause, so it has  *)
(* an effect exactly when nothing changed since its read, and is modelled  *)
(* as one step.  claim_expires_at is the boolean `expired'; next_run_at is *)
(* its position relative to now: none, future, due, or late (older than    *)
(* CATCH_UP_GRACE).  The three block kinds that wait for a person are one. *)
(***************************************************************************)
EXTENDS Naturals, FiniteSets

CONSTANTS
  Tasks,                  \* identifiers of cards
  Runs,                   \* identifiers of runs (uuid4 in the code)
  NoRun,                  \* claim_lock IS NULL
  Trigger,                \* trigger_type of each task
  NeedsReview,            \* tasks whose trigger_config asks for a review
  BlockRecurrenceLimit,   \* BLOCK_RECURRENCE_LIMIT, 3 in the code
  MaxBlocks               \* bound: a block_count past it stays at it

ASSUME NoRunAssumption == NoRun \notin Runs
ASSUME TriggerAssumption == Trigger \in [Tasks -> {"interval", "once", "manual"}]
ASSUME LimitAssumption ==
  /\ BlockRecurrenceLimit \in Nat \ {0}
  /\ MaxBlocks \in Nat
  /\ BlockRecurrenceLimit <= MaxBlocks

VARIABLES
  card,    \* the rows of vectora_background_tasks
  links    \* the pairs <<parent, child>> of vectora_task_links

cardVars == <<card, links>>

KanbanStatuses ==
  {"triage", "todo", "scheduled", "ready", "running", "blocked", "review",
   "done", "archived"}

\* A row that was not created yet, or was deleted; ids are never reused.
NoRow == {"absent", "deleted"}

BlockKinds == {"none", "dependency", "person"}

Card ==
  [status  : KanbanStatuses \cup NoRow,
   kind    : BlockKinds,
   count   : 0..MaxBlocks,
   claim   : Runs \cup {NoRun},
   expired : BOOLEAN,
   enabled : BOOLEAN,
   due     : {"none", "future", "due", "late"}]

AbsentCard ==
  [status |-> "absent", kind |-> "none", count |-> 0, claim |-> NoRun,
   expired |-> FALSE, enabled |-> FALSE, due |-> "none"]

Exists(t) == card[t].status \notin NoRow

ManualTransitions ==
  {<<"todo", "ready">>, <<"todo", "triage">>, <<"ready", "triage">>,
   <<"blocked", "ready">>, <<"review", "ready">>, <<"done", "review">>}

-----------------------------------------------------------------------------
(* Row transforms: the SET lists.                                          *)

WithStatus(c, s) ==
  [c EXCEPT !.status = s,
            !.count  = IF s \in {"ready", "done"} THEN 0 ELSE @]

WithoutClaim(c) == [c EXCEPT !.claim = NoRun, !.expired = FALSE]

\* set_status under a run's claim: the recurrence advances with the release.
FencedStatus(c, t, s) ==
  [WithoutClaim(WithStatus(c, s)) EXCEPT
     !.due = IF Trigger[t] = "interval" /\ s \in {"ready", "done"}
             THEN "future" ELSE @]

\* Mutant: the target of a successful run leaves the taxonomy.
TargetOutsideTaxonomy(t) == IF Trigger[t] = "interval" THEN "queued" ELSE "done"

\* complete_run_and_set_status: where a successful run leaves its card.
Target(t) ==
  IF Trigger[t] = "interval" THEN "ready"
  ELSE IF t \in NeedsReview THEN "review" ELSE "done"

\* Mutant: the completion forgets the lock.
CompletedKeepsClaim(c, t) == WithStatus(c, Target(t))

Completed(c, t) == [FencedStatus(c, t, Target(t)) EXCEPT !.count = 0]

Claimed(c, r) == [c EXCEPT !.status = "running", !.claim = r, !.expired = FALSE]

StaleReleased(c) == [WithoutClaim(c) EXCEPT !.status = "ready"]

\* block_task: `seen' is the block_count its SELECT returned.
Blocked(c, kind, seen) ==
  IF kind = "dependency"
    THEN [WithoutClaim(c) EXCEPT !.status = "todo", !.kind = kind]
    ELSE [WithoutClaim(c) EXCEPT
            !.status = IF seen + 1 >= BlockRecurrenceLimit
                       THEN "triage" ELSE "blocked",
            !.kind   = kind,
            !.count  = IF seen < MaxBlocks THEN seen + 1 ELSE seen]

Unblocked(c) == [c EXCEPT !.status = "ready", !.kind = "none", !.count = 0]

Promoted(c) == [c EXCEPT !.status = "ready", !.kind = "none"]

-----------------------------------------------------------------------------
(* Predicates of the WHERE clauses.                                        *)

\* Mutant: claim_task looks at the column only.
ClaimableByStatus(t) == card[t].status \in {"ready", "scheduled"}

Claimable(t) == card[t].status \in {"ready", "scheduled"} /\ card[t].claim = NoRun

HoldsClaim(t, r) == Exists(t) /\ card[t].claim = r

HoldsLiveClaim(t, r) == HoldsClaim(t, r) /\ ~card[t].expired

\* Mutant: the resume takes over any card it may run, or that has a lock.
OwnOrTaken(t, r, free) == HoldsClaim(t, r) \/ card[t].status \in free \cup {"running"}

\* The WHERE clause shared by ensure_task_claim and cancel_run_and_block.
OwnOrFree(t, r, free) ==
  \/ HoldsClaim(t, r)
  \/ card[t].claim = NoRun /\ card[t].status \in free

-----------------------------------------------------------------------------
(* Writes of a single row.                                                 *)

Write(t, c) == card' = [card EXCEPT ![t] = c] /\ UNCHANGED links

\* An UPDATE without CAS and without a run: no row, no effect.
WriteIfExists(t, c) == IF Exists(t) THEN Write(t, c) ELSE UNCHANGED cardVars

\* create_task: a date in the future makes the card "scheduled".  A `once'
\* task may be created without a date; it then waits for a manual run.
CreateTask(t, dated) ==
  /\ card[t].status = "absent"
  /\ Trigger[t] = "interval" => dated
  /\ Trigger[t] = "manual" => ~dated
  /\ Write(t, [AbsentCard EXCEPT !.status  = IF dated THEN "scheduled" ELSE "ready",
                                 !.enabled = TRUE,
                                 !.due     = IF dated THEN "future" ELSE "none"])

DeleteTask(t) ==
  /\ Exists(t)
  /\ Write(t, [AbsentCard EXCEPT !.status = "deleted"])

SetStatus(t, s) == WriteIfExists(t, WithStatus(card[t], s))

ManualTransition(t, s) ==
  /\ <<card[t].status, s>> \in ManualTransitions
  /\ Write(t, IF card[t].status = "blocked" THEN Unblocked(card[t])
                                            ELSE WithStatus(card[t], s))

UnblockTask(t) == Exists(t) /\ Write(t, Unblocked(card[t]))

\* Mutant: only cards still in the running column are cleaned up.
ReleaseRunningOnly ==
  /\ card' = [t \in Tasks |->
                IF card[t].status = "running" /\ card[t].expired
                  THEN StaleReleased(card[t]) ELSE card[t]]
  /\ UNCHANGED links

ReleaseStaleClaims ==
  /\ card' = [t \in Tasks |->
                IF card[t].claim # NoRun /\ card[t].expired
                  THEN StaleReleased(card[t]) ELSE card[t]]
  /\ UNCHANGED links

-----------------------------------------------------------------------------
(* Dependencies.                                                           *)

Parents(t) == {p \in Tasks : <<p, t>> \in links}

\* Mutant: the cycle check looks at direct parents only.
DirectParents(t) == Parents(t)

\* _depende_de: the least set of cards that holds the parents of t and the
\* parents of each of its members.
DependeDe(t) ==
  {a \in Tasks : \A S \in SUBSET Tasks :
     Parents(t) \subseteq S /\ (\A s \in S : Parents(s) \subseteq S) => a \in S}

AddDependency(p, c) ==
  /\ p # c
  /\ c \notin DependeDe(p)
  /\ links' = links \cup {<<p, c>>}
  /\ UNCHANGED card

RemoveDependency(p, c) ==
  /\ <<p, c>> \in links
  /\ links' = links \ {<<p, c>>}
  /\ UNCHANGED card

\* recompute_ready joins the links with the rows: a deleted parent is ignored.
Promotable(t) ==
  /\ card[t].status = "todo"
  /\ Parents(t) # {}
  /\ \A p \in Parents(t) : Exists(p) => card[p].status = "done"

RecomputeReady ==
  /\ card' = [t \in Tasks |-> IF Promotable(t) THEN Promoted(card[t]) ELSE card[t]]
  /\ UNCHANGED links

ApproveReview(t) ==
  /\ card[t].status = "review"
  /\ Write(t, WithStatus(card[t], "done"))

=============================================================================
