------------------------------ MODULE RunLease ------------------------------
(***************************************************************************)
(* What the claim promises, without the board: every task has at most one  *)
(* holder, the lease passes from one run to another only through nobody,   *)
(* and a run is done only in the very step that gives its lease back.      *)
(* BackgroundRuns implements this with claim_lock and the status of the    *)
(* run's row; see the module BackgroundRunsLease.                          *)
(***************************************************************************)
CONSTANTS Tasks, Runs, NoRun

VARIABLES
  holder,     \* the run that holds each task, or NoRun
  outcome     \* "open" until the run is done, failed or cancelled

vars == <<holder, outcome>>

Init ==
  /\ holder = [t \in Tasks |-> NoRun]
  /\ outcome = [r \in Runs |-> "open"]

Acquire(t, r) ==
  /\ holder[t] = NoRun
  /\ outcome[r] = "open"
  /\ holder' = [holder EXCEPT ![t] = r]
  /\ UNCHANGED outcome

\* Leases that expired or were revoked; several at a time.
Release(S) ==
  /\ holder' = [t \in Tasks |-> IF t \in S THEN NoRun ELSE holder[t]]
  /\ UNCHANGED outcome

Finish(t, r) ==
  /\ holder[t] = r
  /\ outcome[r] = "open"
  /\ holder' = [holder EXCEPT ![t] = NoRun]
  /\ outcome' = [outcome EXCEPT ![r] = "done"]

\* A run that waits for a person may have lost its lease already.
Cancel(t, r) ==
  /\ holder[t] \in {r, NoRun}
  /\ outcome[r] = "open"
  /\ holder' = [holder EXCEPT ![t] = NoRun]
  /\ outcome' = [outcome EXCEPT ![r] = "cancelled"]

Fail(r) ==
  /\ outcome[r] \in {"open", "error"}
  /\ outcome' = [outcome EXCEPT ![r] = "error"]
  /\ UNCHANGED holder

Next ==
  \/ \E t \in Tasks, r \in Runs : Acquire(t, r) \/ Finish(t, r) \/ Cancel(t, r)
  \/ \E S \in SUBSET Tasks : Release(S)
  \/ \E r \in Runs : Fail(r)

Spec == Init /\ [][Next]_vars

=============================================================================
