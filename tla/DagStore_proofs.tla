---------------------------- MODULE DagStore_proofs ----------------------------
(***************************************************************************)
(* The safety of DagStore for every number of plans, keys, stages, callers *)
(* and workers.  The heart is one predicate on an execution's rows, Good,  *)
(* and one relation on two of its states, Advances.  Each statement of the *)
(* store is shown, as an operator on one execution, to lead from Good to   *)
(* Good and to advance it; the actions only choose the execution.          *)
(***************************************************************************)
EXTENDS DagStore, TLAPS

OnTop(d) ==
  \A s \in Stages : d.stage[s].status \in {"running", "passed"} =>
    d.graph[s] \subseteq In(d, "passed")

HasAttempts(d) ==
  \A s \in Stages :
    /\ d.stage[s].attempt <= MaxAttempts
    /\ d.status = "running" /\ d.stage[s].status = "pending" =>
         d.stage[s].attempt < MaxAttempts

Matches(d) ==
  /\ d.status = "passed" => In(d, "passed") = Stages
  /\ d.status \in {"failed", "cancelled"} =>
       In(d, "pending") \cup In(d, "running") = {}
  /\ d.status = "failed" => In(d, "failed") # {}
  /\ d.status = "running" => In(d, "cancelled") = {}

\* An execution that runs has neither ended nor lost its last claim to a
\* failure: _refresh_execution_status would have published it.
Undecided(d) ==
  d.status = "running" =>
    /\ In(d, "failed") # {} => In(d, "running") # {}
    /\ In(d, "pending") \cup In(d, "running") # {}

Good(d) ==
  /\ d \in Dag
  /\ Acyclic(d.graph)
  /\ d.status = "absent" => d = AbsentDag
  /\ OnTop(d) /\ HasAttempts(d) /\ Matches(d) /\ Undecided(d)
  /\ d.finished = IF d.status \in Terminal THEN 1 ELSE 0

\* Good, with the refresh of its status still to come.
Live(d) ==
  /\ d \in Dag
  /\ Acyclic(d.graph)
  /\ d.status = "running"
  /\ OnTop(d) /\ HasAttempts(d)
  /\ In(d, "cancelled") = {}
  /\ d.finished = 0

\* What no step does to an execution.
Advances(d, x) ==
  /\ x.plan = d.plan /\ x.graph = d.graph
  /\ x.status = "absent" <=> d.status = "absent"
  /\ d.status \in Terminal => x = d
  /\ \A s \in Stages : d.stage[s].status = "passed" => x.stage[s] = d.stage[s]

-----------------------------------------------------------------------------
(* One execution.                                                          *)

LEMMA ReleasedRows ==
  ASSUME NEW d \in Dag, NEW S \in SUBSET Stages, NEW status \in StageStatus
  PROVE  LET x == Released(d, S, status) IN
           /\ x \in Dag
           /\ x.status = d.status /\ x.plan = d.plan /\ x.graph = d.graph
           /\ x.finished = d.finished
           /\ \A s \in S : /\ x.stage[s].status = status
                           /\ x.stage[s].attempt = d.stage[s].attempt
           /\ \A s \in Stages \ S : x.stage[s] = d.stage[s]
PROOF
  <1> DEFINE row(s) == IF s \in S
               THEN [d.stage[s] EXCEPT !.status = status, !.token = 0, !.expired = FALSE]
               ELSE d.stage[s]
             rows == [s \in Stages |-> row(s)]
  <1>1. d.stage \in [Stages -> Stage]
    BY DEF Dag
  <1>2. ASSUME NEW s \in Stages
        PROVE  /\ row(s) \in Stage
               /\ s \in S => /\ row(s).status = status
                             /\ row(s).attempt = d.stage[s].attempt
               /\ s \notin S => row(s) = d.stage[s]
    <2>1. d.stage[s] \in Stage
      BY <1>1
    <2> QED
      BY <2>1 DEF Stage
  <1>3. Released(d, S, status) = [d EXCEPT !.stage = rows]
    BY DEF Released
  <1> HIDE DEF row
  <1>4. rows \in [Stages -> Stage] /\ \A s \in Stages : rows[s] = row(s)
    BY <1>2
  <1> HIDE DEF rows
  <1>5. /\ [d EXCEPT !.stage = rows] \in Dag
        /\ [d EXCEPT !.stage = rows].stage = rows
        /\ [d EXCEPT !.stage = rows].status = d.status
        /\ [d EXCEPT !.stage = rows].plan = d.plan
        /\ [d EXCEPT !.stage = rows].graph = d.graph
        /\ [d EXCEPT !.stage = rows].finished = d.finished
    BY <1>4 DEF Dag
  <1> QED
    BY <1>2, <1>3, <1>4, <1>5

LEMMA ReleasedNone ==
  ASSUME NEW d \in Dag, NEW status \in StageStatus
  PROVE  Released(d, {}, status) = d
PROOF
  <1>1. d.stage \in [Stages -> Stage]
    BY DEF Dag
  <1>2. Released(d, {}, status) = [d EXCEPT !.stage = [s \in Stages |-> d.stage[s]]]
    BY DEF Released
  <1>3. [s \in Stages |-> d.stage[s]] = d.stage
    BY <1>1
  <1>4. [d EXCEPT !.stage = d.stage] = d
    BY DEF Dag
  <1> QED
    BY <1>2, <1>3, <1>4

LEMMA FinishedRow ==
  ASSUME NEW d \in Dag, NEW status \in Terminal, d.status = "running", d.finished = 0
  PROVE  LET x == Finished(d, status) IN
           /\ x \in Dag
           /\ x.status = status /\ x.plan = d.plan /\ x.graph = d.graph
           /\ x.finished = 1 /\ x.stage = d.stage
PROOF
  <1> DEFINE x == [d EXCEPT !.status = status, !.finished = 1]
  <1>1. Finished(d, status) = x
    BY DEF Finished
  <1>2. /\ x.status = status /\ x.plan = d.plan /\ x.graph = d.graph
        /\ x.finished = 1 /\ x.stage = d.stage
    BY DEF Dag
  <1>3. x \in Dag
    BY DEF Dag
  <1> QED
    BY <1>1, <1>2, <1>3

\* Every stage has one of the five statuses.
LEMMA Partition ==
  ASSUME NEW d \in Dag, NEW s \in Stages
  PROVE  \E status \in StageStatus : s \in In(d, status)
PROOF
  <1>1. d.stage[s] \in Stage
    BY DEF Dag
  <1> QED
    BY <1>1 DEF Stage, In

\* _refresh_execution_status derives a good status from the stages.
LEMMA RefreshLive ==
  ASSUME NEW d, Live(d)
  PROVE  Good(Refreshed(d)) /\ Advances(d, Refreshed(d))
PROOF
  <1>1. d \in Dag
    BY DEF Live
  <1>2. CASE In(d, "failed") # {} /\ In(d, "running") # {}
    <2>1. Refreshed(d) = d
      BY <1>2 DEF Refreshed
    <2> QED
      BY <1>2, <2>1 DEF Live, Good, Matches, Undecided, Terminal, Advances
  <1>3. CASE In(d, "failed") # {} /\ In(d, "running") = {}
    <2> DEFINE x == Released(d, In(d, "pending"), "failed")
               y == Finished(x, "failed")
    <2>1. Refreshed(d) = y
      BY <1>3 DEF Refreshed
    <2>2. /\ x \in Dag
          /\ x.status = d.status /\ x.plan = d.plan /\ x.graph = d.graph
          /\ x.finished = d.finished
          /\ \A s \in In(d, "pending") : /\ x.stage[s].status = "failed"
                                         /\ x.stage[s].attempt = d.stage[s].attempt
          /\ \A s \in Stages \ In(d, "pending") : x.stage[s] = d.stage[s]
      <3>1. In(d, "pending") \in SUBSET Stages /\ "failed" \in StageStatus
        BY DEF In, StageStatus
      <3> QED
        BY <1>1, <3>1, ReleasedRows
    <2> HIDE DEF x
    <2>3. /\ y \in Dag
          /\ y.status = "failed" /\ y.plan = d.plan /\ y.graph = d.graph
          /\ y.finished = 1 /\ y.stage = x.stage
      BY <2>2, FinishedRow DEF Live, Terminal
    <2> HIDE DEF y
    <2>4. In(y, "passed") = In(d, "passed")
      BY <2>2, <2>3 DEF In
    <2>5. /\ In(y, "pending") \cup In(y, "running") = {}
          /\ In(y, "failed") # {}
      <3>1. \A s \in Stages : s \in In(d, "pending") => y.stage[s].status = "failed"
        BY <2>2, <2>3
      <3>2. \A s \in Stages : s \notin In(d, "pending") => y.stage[s] = d.stage[s]
        BY <2>2, <2>3
      <3>3. PICK f \in In(d, "failed") : TRUE
        BY <1>3
      <3>4. f \in In(y, "failed")
        BY <3>1, <3>2, <3>3 DEF In
      <3>5. ASSUME NEW s \in Stages
            PROVE  s \notin In(y, "pending") /\ s \notin In(y, "running")
        BY <1>3, <3>1, <3>2 DEF In
      <3> QED
        BY <3>4, <3>5 DEF In
    <2>6. OnTop(y)
      <3> SUFFICES ASSUME NEW s \in Stages, y.stage[s].status \in {"running", "passed"}
                   PROVE  y.graph[s] \subseteq In(y, "passed")
        BY DEF OnTop
      <3>1. s \in In(d, "passed")
        BY <2>4, <2>5 DEF In
      <3> QED
        BY <2>3, <2>4, <3>1 DEF Live, OnTop, In
    <2>7. HasAttempts(y)
      BY <2>2, <2>3 DEF HasAttempts, Live
    <2>8. Advances(d, y)
      BY <2>2, <2>3 DEF Advances, Live, In, Terminal
    <2>9. Good(y)
      BY <2>3, <2>5, <2>6, <2>7 DEF Good, Live, Matches, Undecided, Terminal
    <2> QED
      BY <2>1, <2>8, <2>9
  <1>4. CASE In(d, "failed") = {} /\ In(d, "pending") \cup In(d, "running") # {}
    <2>1. Refreshed(d) = d
      BY <1>4 DEF Refreshed
    <2> QED
      BY <1>4, <2>1 DEF Live, Good, Matches, Undecided, Terminal, Advances
  <1>5. CASE In(d, "failed") = {} /\ In(d, "pending") \cup In(d, "running") = {}
    <2> DEFINE y == Finished(d, "passed")
    <2>1. Refreshed(d) = y
      BY <1>5 DEF Refreshed
    <2>2. /\ y \in Dag
          /\ y.status = "passed" /\ y.plan = d.plan /\ y.graph = d.graph
          /\ y.finished = 1 /\ y.stage = d.stage
      BY <1>1, FinishedRow DEF Live, Terminal
    <2> HIDE DEF y
    <2>3. \A status \in StageStatus : In(y, status) = In(d, status)
      BY <2>2 DEF In
    <2>4. In(d, "passed") = Stages
      BY <1>1, <1>5, Partition DEF Live, StageStatus, In
    <2>5. OnTop(y) /\ HasAttempts(y)
      BY <2>2, <2>3 DEF OnTop, HasAttempts, Live, StageStatus
    <2>6. Matches(y)
      BY <2>2, <2>3, <2>4 DEF Matches, StageStatus
    <2>7. Advances(d, y)
      BY <2>2 DEF Advances, Live, Terminal
    <2>8. Good(y)
      BY <2>2, <2>5, <2>6 DEF Good, Live, Undecided, Terminal
    <2> QED
      BY <2>1, <2>7, <2>8
  <1> QED
    BY <1>2, <1>3, <1>4, <1>5

\* A second refresh in the same transaction changes nothing.
LEMMA RefreshGood ==
  ASSUME NEW d, Good(d), d.status # "absent"
  PROVE  Refreshed(d) = d
PROOF
  <1>1. d \in Dag /\ d.status \in {"running", "passed", "failed", "cancelled"}
    BY DEF Good, Dag, Terminal
  <1>2. CASE d.status = "running"
    BY <1>2 DEF Good, Undecided, Refreshed
  <1>3. CASE d.status # "running"
    <2>1. In(d, "pending") \cup In(d, "running") = {}
      BY <1>1, <1>3 DEF Good, Matches, In
    <2>2. Released(d, {}, "failed") = d
      BY <1>1, ReleasedNone DEF StageStatus
    <2>3. Finished(d, "failed") = d /\ Finished(d, "passed") = d
      BY <1>3 DEF Finished
    <2>4. In(d, "pending") = {} /\ In(d, "running") = {}
      BY <2>1
    <2> QED
      BY <2>1, <2>2, <2>3, <2>4 DEF Refreshed
  <1> QED
    BY <1>2, <1>3

LEMMA AdvancesTwice ==
  ASSUME NEW d, NEW x, NEW y, Advances(d, x), Advances(x, y)
  PROVE  Advances(d, y)
PROOF
  BY DEF Advances

\* Claims that are taken back or given up in one statement, then a refresh for
\* each of them.
LEMMA SettledGood ==
  ASSUME NEW d, Good(d), d.status = "running",
         NEW S \in SUBSET In(d, "running"), NEW status \in {"pending", "failed"},
         status = "pending" => \A s \in S : d.stage[s].attempt < MaxAttempts
  PROVE  Good(Settled(d, S, status)) /\ Advances(d, Settled(d, S, status))
PROOF
  <1> DEFINE x == Released(d, S, status)
             y == Refreshed(x)
  <1>1. CASE S = {}
    BY <1>1 DEF Settled, Advances
  <1>2. CASE S # {}
    <2>1. /\ x \in Dag
          /\ x.status = d.status /\ x.plan = d.plan /\ x.graph = d.graph
          /\ x.finished = d.finished
          /\ \A s \in S : /\ x.stage[s].status = status
                          /\ x.stage[s].attempt = d.stage[s].attempt
          /\ \A s \in Stages \ S : x.stage[s] = d.stage[s]
      <3>1. d \in Dag /\ S \in SUBSET Stages /\ status \in StageStatus
        BY DEF Good, In, StageStatus
      <3> QED
        BY <3>1, ReleasedRows
    <2> HIDE DEF x
    <2>2. In(x, "passed") = In(d, "passed") /\ In(x, "cancelled") = {}
      BY <2>1 DEF In, Good, Matches
    <2>3. OnTop(x)
      <3> SUFFICES ASSUME NEW s \in Stages, x.stage[s].status \in {"running", "passed"}
                   PROVE  x.graph[s] \subseteq In(x, "passed")
        BY DEF OnTop
      <3>1. s \notin S
        BY <2>1
      <3> QED
        BY <2>1, <2>2, <3>1 DEF Good, OnTop
    <2>4. HasAttempts(x)
      BY <2>1 DEF HasAttempts, Good
    <2>5. Live(x)
      BY <2>1, <2>2, <2>3, <2>4 DEF Live, Good, Terminal
    <2>6. Good(y) /\ Advances(x, y)
      BY <2>5, RefreshLive
    <2>7. Advances(d, x)
      BY <2>1 DEF Advances, Terminal, In
    <2>8. Advances(d, y)
      BY <2>6, <2>7, AdvancesTwice
    <2>9. y.status # "absent"
      BY <2>1, <2>6 DEF Advances
    <2>10. Refreshed(y) = y
      BY <2>6, <2>9, RefreshGood
    <2>11. Settled(d, S, status) = y
      BY <1>2, <2>10 DEF Settled, x
    <2> QED
      BY <2>6, <2>8, <2>11
  <1> QED
    BY <1>1, <1>2

LEMMA RecoveredGood ==
  ASSUME NEW d, Good(d)
  PROVE  Good(Recovered(d)) /\ Advances(d, Recovered(d))
PROOF
  <1> DEFINE x == Settled(d, Retryable(d), "pending")
             y == Settled(x, Expired(x), "failed")
  <1>1. Recovered(d) = y
    BY DEF Recovered
  <1>2. ASSUME NEW e, Good(e), e.status # "running"
        PROVE  Expired(e) = {} /\ Retryable(e) = {}
    <2>1. In(e, "running") = {}
      <3>1. CASE e.status = "absent"
        BY <1>2, <3>1 DEF Good, AbsentDag, FreshStage, In
      <3>2. CASE e.status = "passed"
        BY <1>2, <3>2 DEF Good, Matches, In
      <3>3. CASE e.status \in {"failed", "cancelled"}
        BY <1>2, <3>3 DEF Good, Matches
      <3> QED
        BY <1>2, <3>1, <3>2, <3>3 DEF Good, Dag, Terminal
    <2> QED
      BY <2>1 DEF Expired, Retryable
  <1>3. Good(x) /\ Advances(d, x)
    <2>1. CASE d.status = "running"
      <3>1. Retryable(d) \in SUBSET In(d, "running")
        BY DEF Retryable, Expired
      <3>2. \A s \in Retryable(d) : d.stage[s].attempt < MaxAttempts
        BY DEF Retryable
      <3> QED
        BY <2>1, <3>1, <3>2, SettledGood
    <2>2. CASE d.status # "running"
      <3>1. x = d
        BY <1>2, <2>2 DEF Settled
      <3> QED
        BY <3>1 DEF Advances
    <2> QED
      BY <2>1, <2>2
  <1> HIDE DEF x
  <1>4. Good(y) /\ Advances(x, y)
    <2>1. CASE x.status = "running"
      <3>1. Expired(x) \in SUBSET In(x, "running")
        BY DEF Expired
      <3> QED
        BY <1>3, <2>1, <3>1, SettledGood
    <2>2. CASE x.status # "running"
      <3>1. y = x
        BY <1>2, <1>3, <2>2 DEF Settled
      <3> QED
        BY <1>3, <3>1 DEF Advances
    <2> QED
      BY <2>1, <2>2
  <1> HIDE DEF y
  <1> QED
    BY <1>1, <1>3, <1>4, AdvancesTwice

\* A statement that rewrites the row of one stage.
LEMMA RowWritten ==
  ASSUME NEW d \in Dag, NEW s \in Stages, NEW row \in Stage
  PROVE  LET x == [d EXCEPT !.stage = [d.stage EXCEPT ![s] = row]] IN
           /\ x \in Dag
           /\ x.status = d.status /\ x.plan = d.plan /\ x.graph = d.graph
           /\ x.finished = d.finished
           /\ x.stage[s] = row
           /\ \A t \in Stages \ {s} : x.stage[t] = d.stage[t]
PROOF
  <1> DEFINE rows == [d.stage EXCEPT ![s] = row]
             x == [d EXCEPT !.stage = rows]
  <1>1. /\ rows \in [Stages -> Stage]
        /\ rows[s] = row
        /\ \A t \in Stages \ {s} : rows[t] = d.stage[t]
    BY DEF Dag
  <1> HIDE DEF rows
  <1>2. /\ x \in Dag
        /\ x.status = d.status /\ x.plan = d.plan /\ x.graph = d.graph
        /\ x.finished = d.finished /\ x.stage = rows
    BY <1>1 DEF Dag
  <1> QED
    BY <1>1, <1>2 DEF rows

\* The status of an execution with a stage that runs.
LEMMA RunningUnderRunning ==
  ASSUME NEW d, Good(d), NEW s \in Stages, d.stage[s].status = "running"
  PROVE  d.status = "running"
PROOF
  <1>1. d.status # "absent"
    BY DEF Good, AbsentDag, FreshStage
  <1>2. s \in In(d, "running") /\ s \notin In(d, "passed")
    BY DEF In
  <1> QED
    BY <1>1, <1>2 DEF Good, Matches, Dag, Terminal

LEMMA ClaimGood ==
  ASSUME NEW d, Good(d), d.status # "absent", NEW s \in Stages,
         d.stage[s].status = "pending", DependenciesPassed(d, s)
  PROVE  Good(Claim(d, s)) /\ Advances(d, Claim(d, s))
PROOF
  <1> DEFINE row == [status |-> "running", attempt |-> d.stage[s].attempt + 1,
                     token |-> d.stage[s].attempt + 1, expired |-> FALSE]
             x == [d EXCEPT !.stage = [d.stage EXCEPT ![s] = row]]
  <1>1. d \in Dag /\ d.stage[s] \in Stage
    BY DEF Good, Dag
  <1>2. Claim(d, s) = x
    BY <1>1 DEF Claim, Dag
  <1>3. d.status = "running"
    <2>1. s \in In(d, "pending") /\ s \notin In(d, "passed")
      BY DEF In
    <2> QED
      BY <1>1, <2>1 DEF Good, Matches, Dag, Terminal
  <1>4. d.stage[s].attempt \in Nat /\ d.stage[s].attempt < MaxAttempts
    BY <1>1, <1>3 DEF Good, HasAttempts, Stage
  <1>5. /\ row \in Stage /\ row.status = "running"
        /\ row.attempt <= MaxAttempts
    BY <1>4, AttemptsAssumption DEF Stage, StageStatus
  <1> HIDE DEF row
  <1>6. /\ x \in Dag
        /\ x.status = d.status /\ x.plan = d.plan /\ x.graph = d.graph
        /\ x.finished = d.finished
        /\ x.stage[s] = row
        /\ \A t \in Stages \ {s} : x.stage[t] = d.stage[t]
    BY <1>1, <1>5, RowWritten
  <1> HIDE DEF x
  <1>7. /\ In(x, "passed") = In(d, "passed") /\ In(x, "failed") = In(d, "failed")
        /\ In(x, "cancelled") = In(d, "cancelled") /\ s \in In(x, "running")
    BY <1>5, <1>6 DEF In
  <1>8. OnTop(x)
    <2> SUFFICES ASSUME NEW t \in Stages, x.stage[t].status \in {"running", "passed"}
                 PROVE  x.graph[t] \subseteq In(x, "passed")
      BY DEF OnTop
    <2>1. CASE t = s
      BY <1>6, <1>7, <2>1 DEF DependenciesPassed
    <2>2. CASE t # s
      BY <1>6, <1>7, <2>2 DEF Good, OnTop
    <2> QED
      BY <2>1, <2>2
  <1>9. HasAttempts(x)
    BY <1>5, <1>6 DEF HasAttempts, Good
  <1>10. Matches(x) /\ Undecided(x)
    BY <1>3, <1>6, <1>7 DEF Matches, Undecided, Good
  <1>11. Advances(d, x)
    BY <1>3, <1>6 DEF Advances, Terminal
  <1>12. Good(x)
    BY <1>3, <1>6, <1>8, <1>9, <1>10 DEF Good
  <1> QED
    BY <1>2, <1>11, <1>12

LEMMA FinishGood ==
  ASSUME NEW d, Good(d), NEW s \in Stages, d.stage[s].status = "running",
         NEW outcome \in {"passed", "failed"}
  PROVE  LET y == Refreshed(Released(d, {s}, outcome)) IN Good(y) /\ Advances(d, y)
PROOF
  <1> DEFINE x == Released(d, {s}, outcome)
             y == Refreshed(x)
  <1>1. d \in Dag /\ {s} \in SUBSET Stages /\ outcome \in StageStatus
    BY DEF Good, StageStatus
  <1>2. /\ x \in Dag
        /\ x.status = d.status /\ x.plan = d.plan /\ x.graph = d.graph
        /\ x.finished = d.finished
        /\ \A t \in {s} : /\ x.stage[t].status = outcome
                          /\ x.stage[t].attempt = d.stage[t].attempt
        /\ \A t \in Stages \ {s} : x.stage[t] = d.stage[t]
    BY <1>1, ReleasedRows
  <1> HIDE DEF x
  <1>3. d.status = "running"
    BY RunningUnderRunning
  <1>4. In(d, "passed") \subseteq In(x, "passed") /\ In(x, "cancelled") = {}
    BY <1>2, <1>3 DEF In, Good, Matches
  <1>5. OnTop(x)
    <2> SUFFICES ASSUME NEW t \in Stages, x.stage[t].status \in {"running", "passed"}
                 PROVE  x.graph[t] \subseteq In(x, "passed")
      BY DEF OnTop
    <2>1. d.stage[t].status \in {"running", "passed"}
      BY <1>2
    <2> QED
      BY <1>2, <1>4, <2>1 DEF Good, OnTop
  <1>6. HasAttempts(x)
    BY <1>2 DEF HasAttempts, Good
  <1>7. Live(x)
    BY <1>2, <1>3, <1>4, <1>5, <1>6 DEF Live, Good, Terminal
  <1>8. Good(y) /\ Advances(x, y)
    BY <1>7, RefreshLive
  <1>9. Advances(d, x)
    BY <1>2, <1>3 DEF Advances, Terminal
  <1> QED
    BY <1>8, <1>9, AdvancesTwice DEF x

LEMMA CancelGood ==
  ASSUME NEW d, Good(d), d.status = "running"
  PROVE  LET S == In(d, "pending") \cup In(d, "running")
             y == Finished(Released(d, S, "cancelled"), "cancelled")
         IN  Good(y) /\ Advances(d, y)
PROOF
  <1> DEFINE S == In(d, "pending") \cup In(d, "running")
             x == Released(d, S, "cancelled")
             y == Finished(x, "cancelled")
  <1>1. d \in Dag /\ S \in SUBSET Stages /\ "cancelled" \in StageStatus
    BY DEF Good, StageStatus, In
  <1>2. \A s \in Stages : s \in S <=> d.stage[s].status \in {"pending", "running"}
    BY DEF In
  <1> HIDE DEF S
  <1>3. /\ x \in Dag
        /\ x.status = d.status /\ x.plan = d.plan /\ x.graph = d.graph
        /\ x.finished = d.finished
        /\ \A s \in S : /\ x.stage[s].status = "cancelled"
                        /\ x.stage[s].attempt = d.stage[s].attempt
        /\ \A s \in Stages \ S : x.stage[s] = d.stage[s]
    BY <1>1, ReleasedRows
  <1> HIDE DEF x
  <1>4. /\ y \in Dag
        /\ y.status = "cancelled" /\ y.plan = d.plan /\ y.graph = d.graph
        /\ y.finished = 1 /\ y.stage = x.stage
    BY <1>3, FinishedRow DEF Good, Terminal
  <1> HIDE DEF y
  <1>5. ASSUME NEW s \in Stages
        PROVE  /\ y.stage[s].status \notin {"pending", "running"}
               /\ d.stage[s].status = "passed" <=> y.stage[s].status = "passed"
               /\ d.stage[s].status = "passed" => y.stage[s] = d.stage[s]
               /\ y.stage[s].attempt = d.stage[s].attempt
    BY <1>2, <1>3, <1>4
  <1>6. OnTop(y) /\ HasAttempts(y)
    BY <1>4, <1>5 DEF OnTop, HasAttempts, Good, In
  <1>7. Matches(y)
    BY <1>4, <1>5 DEF Matches, In
  <1>8. Good(y)
    BY <1>4, <1>6, <1>7 DEF Good, Undecided, Terminal
  <1>9. Advances(d, y)
    BY <1>4, <1>5 DEF Advances, Terminal
  <1> QED
    BY <1>8, <1>9 DEF y, x, S

LEMMA ExpireGood ==
  ASSUME NEW d, Good(d), NEW s \in Stages, d.stage[s].status = "running"
  PROVE  LET x == [d EXCEPT !.stage[s].expired = TRUE] IN Good(x) /\ Advances(d, x)
PROOF
  <1> DEFINE row == [d.stage[s] EXCEPT !.expired = TRUE]
             x == [d EXCEPT !.stage = [d.stage EXCEPT ![s] = row]]
  <1>1. d \in Dag /\ d.stage[s] \in Stage
    BY DEF Good, Dag
  <1>2. [d EXCEPT !.stage[s].expired = TRUE] = x
    BY <1>1 DEF Dag
  <1>3. /\ row \in Stage /\ row.status = "running"
        /\ row.attempt = d.stage[s].attempt
    BY <1>1 DEF Stage
  <1> HIDE DEF row
  <1>4. /\ x \in Dag
        /\ x.status = d.status /\ x.plan = d.plan /\ x.graph = d.graph
        /\ x.finished = d.finished
        /\ x.stage[s] = row
        /\ \A t \in Stages \ {s} : x.stage[t] = d.stage[t]
    BY <1>1, <1>3, RowWritten
  <1> HIDE DEF x
  <1>5. \A t \in Stages : /\ x.stage[t].status = d.stage[t].status
                          /\ x.stage[t].attempt = d.stage[t].attempt
    BY <1>3, <1>4
  <1>6. \A status : In(x, status) = In(d, status)
    BY <1>5 DEF In
  <1>7. d.status = "running"
    BY RunningUnderRunning
  <1>8. OnTop(x) /\ HasAttempts(x) /\ Matches(x) /\ Undecided(x)
    <2>1. OnTop(x)
      BY <1>4, <1>5, <1>6 DEF OnTop, Good
    <2>2. HasAttempts(x)
      BY <1>4, <1>5 DEF HasAttempts, Good
    <2>3. Matches(x) /\ Undecided(x)
      BY <1>4, <1>6 DEF Matches, Undecided, Good
    <2> QED
      BY <2>1, <2>2, <2>3
  <1>9. Good(x)
    BY <1>4, <1>7, <1>8 DEF Good
  <1>10. Advances(d, x)
    BY <1>4, <1>7 DEF Advances, Terminal
  <1> QED
    BY <1>2, <1>9, <1>10

-----------------------------------------------------------------------------
(* The store.                                                              *)

\* What a call of start_execution has read still holds when it inserts: a plan
\* that is approved stays so, under the same hash.
CallOK(x) ==
  /\ x.pc # "idle" => x.plan \in Plans /\ x.key \in Keys
  /\ x.pc \in {"checked", "inserting"} =>
       /\ plan[x.plan].status = "approved"
       /\ x.graph = plan[x.plan].hash
       /\ Acyclic(x.graph)
  /\ x.pc = "started" => dag[x.key].plan = x.plan

\* A worker is in an execution that exists.
WorkOK(x) ==
  /\ x.pc # "idle" => x.key \in Keys /\ dag[x.key].status # "absent"
  /\ x.pc = "working" => x.stage \in Stages

IInv ==
  /\ TypeOK
  /\ \A k \in Keys : Good(dag[k])
  /\ ExecutedAsApproved
  /\ \A c \in Clients : CallOK(start[c])
  /\ \A w \in Workers : WorkOK(work[w])

\* What ResultsAreFinal says of a step.
Final ==
  \A k \in Keys :
    /\ dag[k].status \in Terminal => dag'[k] = dag[k]
    /\ \A s \in Stages : dag[k].stage[s].status = "passed" =>
         dag'[k].stage[s] = dag[k].stage[s]

\* The executions advance, and the rest of the store stays consistent with them.
LEMMA DagsAdvance ==
  ASSUME IInv, UNCHANGED <<plan, start>>,
         dag' \in [Keys -> Dag],
         \A k \in Keys : Good(dag'[k]) /\ Advances(dag[k], dag'[k]),
         work' \in [Workers -> Work], writer' \in Workers \cup {None},
         \A w \in Workers : WorkOK(work'[w])
  PROVE  IInv' /\ Final
PROOF
  <1>1. TypeOK'
    BY DEF IInv, TypeOK
  <1>2. ExecutedAsApproved'
    BY DEF IInv, ExecutedAsApproved, Advances
  <1>3. ASSUME NEW c \in Clients PROVE CallOK(start[c])'
    <2>1. CallOK(start[c])
      BY DEF IInv
    <2> QED
      BY <2>1 DEF CallOK, Advances
  <1>4. ASSUME NEW w \in Workers PROVE WorkOK(work[w])'
    <2>1. WorkOK(work'[w])
      OBVIOUS
    <2> QED
      BY <2>1 DEF WorkOK, Advances
  <1>5. \A k \in Keys : Good(dag[k])'
    BY DEF Good
  <1>6. Final
    BY DEF Final, Advances
  <1> QED
    BY <1>1, <1>2, <1>3, <1>4, <1>5, <1>6 DEF IInv

\* One execution advances, and one worker goes on.
LEMMA WorkerAdvances ==
  ASSUME IInv, UNCHANGED <<plan, start>>,
         NEW k \in Keys, NEW d, Good(d), Advances(dag[k], d),
         dag' = [dag EXCEPT ![k] = d],
         NEW w \in Workers, NEW x \in Work, WorkOK(x),
         work' = [work EXCEPT ![w] = x], writer' \in Workers \cup {None}
  PROVE  IInv' /\ Final
PROOF
  <1>1. d \in Dag /\ dag \in [Keys -> Dag] /\ work \in [Workers -> Work]
    BY DEF Good, IInv, TypeOK
  <1>2. dag' \in [Keys -> Dag] /\ work' \in [Workers -> Work]
    BY <1>1
  <1>3. \A j \in Keys : dag'[j] = IF j = k THEN d ELSE dag[j]
    BY <1>1
  <1>4. \A v \in Workers : work'[v] = IF v = w THEN x ELSE work[v]
    BY <1>1
  <1>5. \A j \in Keys : Good(dag'[j])
    BY <1>3 DEF IInv
  <1>6. \A j \in Keys : Advances(dag[j], dag'[j])
    BY <1>3 DEF Advances
  <1>7. \A v \in Workers : WorkOK(work'[v])
    BY <1>4 DEF IInv
  <1> QED
    BY <1>2, <1>5, <1>6, <1>7, DagsAdvance

\* Only one worker goes on.
LEMMA WorkerMoves ==
  ASSUME IInv, UNCHANGED <<plan, start, dag>>,
         NEW w \in Workers, NEW x \in Work, WorkOK(x),
         work' = [work EXCEPT ![w] = x], writer' \in Workers \cup {None}
  PROVE  IInv' /\ Final
PROOF
  <1>1. dag' \in [Keys -> Dag] /\ work \in [Workers -> Work]
    BY DEF IInv, TypeOK
  <1>2. work' \in [Workers -> Work]
    BY <1>1
  <1>3. \A v \in Workers : work'[v] = IF v = w THEN x ELSE work[v]
    BY <1>1
  <1>4. \A j \in Keys : Good(dag'[j]) /\ Advances(dag[j], dag'[j])
    BY DEF IInv, Advances
  <1>5. \A v \in Workers : WorkOK(work'[v])
    BY <1>3 DEF IInv
  <1> QED
    BY <1>1, <1>2, <1>4, <1>5, DagsAdvance

\* Only one caller goes on.
LEMMA CallerMoves ==
  ASSUME IInv, UNCHANGED <<plan, dag, work, writer>>,
         NEW c \in Clients, NEW x \in Call, CallOK(x),
         start' = [start EXCEPT ![c] = x]
  PROVE  IInv' /\ Final
PROOF
  <1>1. start \in [Clients -> Call]
    BY DEF IInv, TypeOK
  <1>2. \A e \in Clients : start'[e] = IF e = c THEN x ELSE start[e]
    BY <1>1
  <1>3. TypeOK'
    BY <1>1 DEF IInv, TypeOK
  <1>4. ASSUME NEW e \in Clients PROVE CallOK(start[e])'
    <2>1. CallOK(start'[e])
      BY <1>2 DEF IInv
    <2> QED
      BY <2>1 DEF CallOK
  <1>5. ASSUME NEW w \in Workers PROVE WorkOK(work[w])'
    BY DEF IInv, WorkOK
  <1>6. (\A k \in Keys : Good(dag[k]))' /\ ExecutedAsApproved'
    BY DEF IInv, ExecutedAsApproved
  <1> QED
    BY <1>3, <1>4, <1>5, <1>6 DEF IInv, Final

LEMMA NoWorkOK == NoWork \in Work /\ WorkOK(NoWork)
PROOF
  BY DEF NoWork, Work, WorkOK

LEMMA NoCallOK == NoCall \in Call /\ CallOK(NoCall)
PROOF
  BY DEF NoCall, NoGraph, GraphType, Call, CallOK

-----------------------------------------------------------------------------
(* The actions of a worker.                                                *)

LEMMA GivesUp ==
  ASSUME IInv, UNCHANGED <<plan, start, dag>>, NEW w \in Workers,
         work' = [work EXCEPT ![w] = NoWork], writer' \in Workers \cup {None}
  PROVE  IInv' /\ Final
PROOF
  BY NoWorkOK, WorkerMoves

LEMMA ClaimCheckStep ==
  ASSUME IInv, NEW w \in Workers, NEW k \in Keys, ClaimCheck(w, k)
  PROVE  IInv' /\ Final
PROOF
  <1> DEFINE x == [NoWork EXCEPT !.pc = "listing", !.key = k]
  <1>1. x \in Work /\ WorkOK(x)
    BY DEF ClaimCheck, NoWork, Work, WorkOK
  <1>2. writer' \in Workers \cup {None}
    BY DEF ClaimCheck, IInv, TypeOK
  <1>3. work' = [work EXCEPT ![w] = x] /\ UNCHANGED <<plan, start, dag>>
    BY DEF ClaimCheck
  <1> HIDE DEF x
  <1> QED
    BY <1>1, <1>2, <1>3, WorkerMoves

\* A worker between listing and claiming.
LEMMA Lists ==
  ASSUME IInv, UNCHANGED <<plan, start, dag>>, NEW w \in Workers,
         work[w].pc # "idle", work[w].pc # "working", NEW S \in SUBSET Stages,
         \/ work' = [work EXCEPT ![w].listed = S]
         \/ work' = [work EXCEPT ![w].pc = "trying", ![w].listed = S],
         writer' \in Workers \cup {None}
  PROVE  IInv' /\ Final
PROOF
  <1>1. work \in [Workers -> Work] /\ work[w] \in Work /\ WorkOK(work[w])
    BY DEF IInv, TypeOK
  <1>2. CASE work' = [work EXCEPT ![w].listed = S]
    <2> DEFINE x == [work[w] EXCEPT !.listed = S]
    <2>1. x \in Work /\ WorkOK(x)
      BY <1>1 DEF Work, WorkOK
    <2>2. work' = [work EXCEPT ![w] = x]
      BY <1>1, <1>2
    <2> HIDE DEF x
    <2> QED
      BY <2>1, <2>2, WorkerMoves
  <1>3. CASE work' = [work EXCEPT ![w].pc = "trying", ![w].listed = S]
    <2> DEFINE x == [work[w] EXCEPT !.pc = "trying", !.listed = S]
    <2>1. x \in Work /\ WorkOK(x)
      BY <1>1 DEF Work, WorkOK
    <2>2. work' = [work EXCEPT ![w] = x]
      BY <1>1, <1>3
    <2> HIDE DEF x
    <2> QED
      BY <2>1, <2>2, WorkerMoves
  <1> QED
    BY <1>2, <1>3

LEMMA ListStep ==
  ASSUME IInv, NEW w \in Workers,
         \/ ClaimList(w)
         \/ \E s \in Stages : ClaimSkip(w, s) \/ ClaimLost(w, s)
  PROVE  IInv' /\ Final
PROOF
  <1>1. CASE ClaimList(w)
    <2>1. PICK S \in SUBSET Stages :
            work' = [work EXCEPT ![w].pc = "trying", ![w].listed = S]
      BY <1>1 DEF ClaimList, In
    <2>2. /\ UNCHANGED <<plan, start, dag>> /\ work[w].pc = "listing"
          /\ writer' \in Workers \cup {None}
      BY <1>1 DEF ClaimList, IInv, TypeOK
    <2> QED
      BY <2>1, <2>2, Lists
  <1>2. CASE \E s \in Stages : ClaimSkip(w, s) \/ ClaimLost(w, s)
    <2>1. PICK s \in Stages : ClaimSkip(w, s) \/ ClaimLost(w, s)
      BY <1>2
    <2>2. work[w].listed \ {s} \in SUBSET Stages /\ work \in [Workers -> Work]
      BY DEF IInv, TypeOK, Work
    <2>3. /\ work' = [work EXCEPT ![w].listed = @ \ {s}]
          /\ UNCHANGED <<plan, start, dag>> /\ work[w].pc = "trying"
          /\ writer' \in Workers \cup {None}
      BY <2>1 DEF ClaimSkip, ClaimLost, Considers, IInv, TypeOK
    <2>4. work' = [work EXCEPT ![w].listed = work[w].listed \ {s}]
      BY <2>2, <2>3
    <2> QED
      BY <2>2, <2>3, <2>4, Lists
  <1> QED
    BY <1>1, <1>2

LEMMA ClaimStageStep ==
  ASSUME IInv, NEW w \in Workers, NEW s \in Stages, ClaimStage(w, s)
  PROVE  IInv' /\ Final
PROOF
  <1> DEFINE k == work[w].key
             d == dag[k]
             x == [work[w] EXCEPT !.pc = "working", !.listed = {}, !.stage = s,
                                  !.token = d.stage[s].attempt + 1]
  <1>1. work \in [Workers -> Work] /\ work[w] \in Work /\ WorkOK(work[w])
    BY DEF IInv, TypeOK
  <1>2. k \in Keys /\ d.status # "absent"
    BY <1>1 DEF ClaimStage, Considers, WorkOK
  <1>3. Good(d) /\ d \in Dag /\ d.stage[s] \in Stage
    BY <1>2 DEF IInv, Good, Dag
  <1>4. d.stage[s].attempt + 1 \in Nat
    BY <1>3 DEF Stage
  <1>5. x \in Work /\ WorkOK(x)
    <2>1. x \in Work
      BY <1>1, <1>4 DEF Work
    <2>2. x.key = k /\ x.stage = s
      BY <1>1 DEF Work
    <2> HIDE DEF x
    <2> QED
      BY <1>2, <2>1, <2>2 DEF WorkOK
  <1>6. Good(Claim(d, s)) /\ Advances(d, Claim(d, s))
    BY <1>2, <1>3, ClaimGood DEF ClaimStage
  <1>7. /\ dag' = [dag EXCEPT ![k] = Claim(d, s)]
        /\ work' = [work EXCEPT ![w] = x]
        /\ UNCHANGED <<plan, start>>
        /\ writer' \in Workers \cup {None}
    BY <1>1 DEF ClaimStage
  <1> HIDE DEF x
  <1> QED
    BY <1>2, <1>5, <1>6, <1>7, WorkerAdvances

LEMMA FinishStageStep ==
  ASSUME IInv, NEW w \in Workers, NEW outcome \in {"passed", "failed"},
         FinishStage(w, outcome)
  PROVE  IInv' /\ Final
PROOF
  <1> DEFINE k == work[w].key
             s == work[w].stage
             d == dag[k]
             y == Refreshed(Released(d, {s}, outcome))
  <1>1. k \in Keys /\ s \in Stages /\ d.stage[s].status = "running"
    BY DEF IInv, FinishStage, OwnsClaim, WorkOK
  <1>2. Good(d)
    BY <1>1 DEF IInv
  <1>3. Good(y) /\ Advances(d, y)
    <2> HIDE DEF d
    <2> QED
      BY <1>1, <1>2, FinishGood
  <1>4. dag' = [dag EXCEPT ![k] = y]
    BY <1>1 DEF FinishStage, IInv, TypeOK
  <1>5. /\ work' = [work EXCEPT ![w] = NoWork]
        /\ UNCHANGED <<plan, start>>
        /\ writer' \in Workers \cup {None}
    BY DEF FinishStage
  <1> HIDE DEF y
  <1> QED
    BY <1>1, <1>3, <1>4, <1>5, NoWorkOK, WorkerAdvances

LEMMA WorkerKeepsInv ==
  ASSUME IInv, NEW w \in Workers, WorkerStep(w) \/ WorkerDies(w)
  PROVE  IInv' /\ Final
PROOF
  <1>1. CASE ClaimNone(w) \/ FinishRejected(w) \/ FinishLocked(w) \/ WorkerDies(w)
    <2>1. /\ UNCHANGED <<plan, start, dag>> /\ work' = [work EXCEPT ![w] = NoWork]
          /\ writer' \in Workers \cup {None}
      BY <1>1 DEF ClaimNone, FinishRejected, FinishLocked, WorkerDies, IInv, TypeOK
    <2> QED
      BY <2>1, GivesUp
  <1>2. ASSUME NEW s \in Stages, ClaimLocked(w, s) PROVE IInv' /\ Final
    <2>1. /\ UNCHANGED <<plan, start, dag>> /\ work' = [work EXCEPT ![w] = NoWork]
          /\ writer' \in Workers \cup {None}
      BY <1>2 DEF ClaimLocked, IInv, TypeOK
    <2> QED
      BY <2>1, GivesUp
  <1>3. ASSUME NEW k \in Keys, ClaimCheck(w, k) PROVE IInv' /\ Final
    BY <1>3, ClaimCheckStep
  <1>4. CASE ClaimList(w) \/ \E s \in Stages : ClaimSkip(w, s) \/ ClaimLost(w, s)
    BY <1>4, ListStep
  <1>5. ASSUME NEW s \in Stages, ClaimStage(w, s) PROVE IInv' /\ Final
    BY <1>5, ClaimStageStep
  <1>6. ASSUME NEW outcome \in {"passed", "failed"}, FinishStage(w, outcome)
        PROVE  IInv' /\ Final
    BY <1>6, FinishStageStep
  <1> QED
    BY <1>1, <1>2, <1>3, <1>4, <1>5, <1>6 DEF WorkerStep

-----------------------------------------------------------------------------
(* The actions of a caller.                                                *)

LEMMA StartStep ==
  ASSUME IInv, NEW c \in Clients, NEW p \in Plans, NEW k \in Keys,
         StartExecution(c, p, k)
  PROVE  IInv' /\ Final
PROOF
  <1> DEFINE x == [NoCall EXCEPT !.pc = "called", !.plan = p, !.key = k]
  <1>1. x \in Call /\ CallOK(x)
    BY DEF NoCall, NoGraph, GraphType, Call, CallOK
  <1>2. start' = [start EXCEPT ![c] = x] /\ UNCHANGED <<plan, dag, work, writer>>
    BY DEF StartExecution
  <1> HIDE DEF x
  <1> QED
    BY <1>1, <1>2, CallerMoves

LEMMA ReadPlanStep ==
  ASSUME IInv, NEW c \in Clients, ReadPlan(c)
  PROVE  IInv' /\ Final
PROOF
  <1> DEFINE p == start[c].plan
             x == [start[c] EXCEPT !.pc = "checked", !.graph = plan[p].graph]
  <1>1. start \in [Clients -> Call] /\ start[c] \in Call /\ CallOK(start[c])
    BY DEF IInv, TypeOK
  <1>2. p \in Plans /\ start[c].key \in Keys /\ plan[p] \in Plan
    BY <1>1 DEF ReadPlan, CallOK, IInv, TypeOK
  <1>3. CASE Executable(p)
    <2>1. plan[p].graph \in GraphType
      BY <1>2 DEF Plan
    <2>2. /\ x \in Call /\ x.pc = "checked" /\ x.plan = p
          /\ x.key = start[c].key /\ x.graph = plan[p].graph
      BY <1>1, <2>1 DEF Call
    <2>3. start' = [start EXCEPT ![c] = x] /\ UNCHANGED <<plan, dag, work, writer>>
      BY <1>1, <1>3 DEF ReadPlan
    <2> HIDE DEF x
    <2>4. CallOK(x)
      BY <1>2, <1>3, <2>2 DEF CallOK, Executable
    <2> QED
      BY <2>2, <2>3, <2>4, CallerMoves
  <1>4. CASE ~Executable(p)
    <2>1. start' = [start EXCEPT ![c] = NoCall] /\ UNCHANGED <<plan, dag, work, writer>>
      BY <1>1, <1>4 DEF ReadPlan
    <2> QED
      BY <2>1, NoCallOK, CallerMoves
  <1> QED
    BY <1>3, <1>4

\* A caller that goes on with what it has read.
LEMMA CallerGoesTo ==
  ASSUME IInv, UNCHANGED <<plan, dag, work, writer>>, NEW c \in Clients,
         NEW pc \in {"called", "inserting", "started"}, start[c].pc # "idle",
         pc = "inserting" => start[c].pc = "checked",
         pc = "started" => dag[start[c].key].plan = start[c].plan,
         start' = [start EXCEPT ![c] = [start[c] EXCEPT !.pc = pc]]
  PROVE  IInv' /\ Final
PROOF
  <1> DEFINE x == [start[c] EXCEPT !.pc = pc]
  <1>1. start[c] \in Call /\ CallOK(start[c])
    BY DEF IInv, TypeOK
  <1>2. /\ x \in Call /\ x.pc = pc /\ x.plan = start[c].plan
        /\ x.key = start[c].key /\ x.graph = start[c].graph
    BY <1>1 DEF Call
  <1> HIDE DEF x
  <1>3. CallOK(x)
    BY <1>1, <1>2 DEF CallOK
  <1> QED
    BY <1>2, <1>3, CallerMoves DEF x

LEMMA ReadExecutionStep ==
  ASSUME IInv, NEW c \in Clients, ReadExecution(c)
  PROVE  IInv' /\ Final
PROOF
  <1> DEFINE bound == dag[start[c].key].plan
  <1>1. /\ start \in [Clients -> Call] /\ start[c].pc = "checked"
        /\ UNCHANGED <<plan, dag, work, writer>>
    BY DEF ReadExecution, IInv, TypeOK
  <1>2. CASE bound = None
    <2>1. start' = [start EXCEPT ![c] = [start[c] EXCEPT !.pc = "inserting"]]
      BY <1>1, <1>2 DEF ReadExecution
    <2> QED
      BY <1>1, <2>1, CallerGoesTo
  <1>3. CASE bound # None /\ bound = start[c].plan
    <2>1. start' = [start EXCEPT ![c] = [start[c] EXCEPT !.pc = "started"]]
      BY <1>1, <1>3 DEF ReadExecution
    <2> QED
      BY <1>1, <1>3, <2>1, CallerGoesTo
  <1>4. CASE bound # None /\ bound # start[c].plan
    <2>1. start' = [start EXCEPT ![c] = NoCall]
      BY <1>1, <1>4 DEF ReadExecution
    <2> QED
      BY <1>1, <2>1, NoCallOK, CallerMoves
  <1> QED
    BY <1>2, <1>3, <1>4

LEMMA InsertConflictStep ==
  ASSUME IInv, NEW c \in Clients, InsertConflict(c)
  PROVE  IInv' /\ Final
PROOF
  <1>1. /\ start \in [Clients -> Call] /\ start[c].pc = "inserting"
        /\ UNCHANGED <<plan, dag, work, writer>>
        /\ start' = [start EXCEPT ![c].pc = "called"]
    BY DEF InsertConflict, IInv, TypeOK
  <1>2. start' = [start EXCEPT ![c] = [start[c] EXCEPT !.pc = "called"]]
    BY <1>1
  <1> QED
    BY <1>1, <1>2, CallerGoesTo

LEMMA NoGraphAcyclic == Acyclic(NoGraph)
PROOF
  BY DEF Acyclic, NoGraph

LEMMA AbsentGood == Good(AbsentDag)
PROOF
  <1>1. FreshStage \in Stage
    BY DEF FreshStage, Stage, StageStatus
  <1>2. NoGraph \in GraphType
    BY DEF NoGraph, GraphType
  <1>3. AbsentDag \in Dag
    BY <1>1, <1>2 DEF AbsentDag, Dag
  <1>4. OnTop(AbsentDag) /\ HasAttempts(AbsentDag)
    BY AttemptsAssumption DEF OnTop, HasAttempts, AbsentDag, FreshStage
  <1>5. Acyclic(AbsentDag.graph)
    BY NoGraphAcyclic DEF AbsentDag
  <1> QED
    BY <1>3, <1>4, <1>5 DEF Good, Matches, Undecided, AbsentDag, Terminal

\* The row and the stages that start_execution inserts.
NewDag(p, g) == [AbsentDag EXCEPT !.status = "running", !.plan = p, !.graph = g]

LEMMA NewGood ==
  ASSUME NEW p \in Plans, NEW g \in GraphType, Acyclic(g)
  PROVE  LET d == NewDag(p, g)
         IN  Good(d) /\ d.plan = p /\ d.graph = g /\ d.status = "running"
PROOF
  <1> DEFINE d == NewDag(p, g)
  <1> USE DEF NewDag
  <1>1. AbsentDag \in Dag
    BY AbsentGood DEF Good
  <1>2. d \in Dag /\ d.plan = p /\ d.graph = g /\ d.status = "running"
    BY <1>1 DEF Dag
  <1>3. d.finished = 0 /\ \A s \in Stages : d.stage[s] = FreshStage
    BY DEF AbsentDag
  <1> HIDE DEF d
  <1>4. In(d, "pending") = Stages
    BY <1>3 DEF In, FreshStage
  <1>5. In(d, "failed") = {} /\ In(d, "cancelled") = {}
    BY <1>3 DEF In, FreshStage
  <1>6. OnTop(d) /\ HasAttempts(d)
    BY <1>3, AttemptsAssumption DEF OnTop, HasAttempts, FreshStage
  <1>7. Matches(d) /\ Undecided(d)
    BY <1>2, <1>4, <1>5, StagesAssumption DEF Matches, Undecided
  <1>8. Good(d)
    BY <1>2, <1>3, <1>6, <1>7 DEF Good, Terminal
  <1> QED
    BY <1>2, <1>8 DEF d

\* The new execution has the graph that was checked, and no other caller had
\* been given the key.
LEMMA InsertExecutionStep ==
  ASSUME IInv, NEW c \in Clients, InsertExecution(c)
  PROVE  IInv' /\ Final
PROOF
  <1> DEFINE k == start[c].key
             p == start[c].plan
             g == start[c].graph
             d == NewDag(p, g)
             x == [start[c] EXCEPT !.pc = "started"]
  <1>1. /\ start \in [Clients -> Call] /\ start[c] \in Call /\ CallOK(start[c])
        /\ dag \in [Keys -> Dag]
    BY DEF IInv, TypeOK
  <1>2. /\ p \in Plans /\ k \in Keys /\ g \in GraphType
        /\ plan[p].status = "approved" /\ g = plan[p].hash /\ Acyclic(g)
    BY <1>1 DEF InsertExecution, CallOK, Call
  <1>3. dag[k] = AbsentDag
    BY <1>2 DEF InsertExecution, IInv, Good
  <1>4. Good(d) /\ d.plan = p /\ d.graph = g /\ d.status = "running"
    BY <1>2, NewGood
  <1>5. /\ dag' = [dag EXCEPT ![k] = d]
        /\ start' = [start EXCEPT ![c] = x]
        /\ UNCHANGED <<plan, work, writer>>
    BY <1>1, <1>2 DEF InsertExecution, NewDag
  <1>6. x \in Call /\ x.pc = "started" /\ x.plan = p /\ x.key = k
    BY <1>1 DEF Call
  <1> HIDE DEF d, x
  <1>7. /\ \A j \in Keys : dag'[j] = IF j = k THEN d ELSE dag[j]
        /\ \A e \in Clients : start'[e] = IF e = c THEN x ELSE start[e]
        /\ plan' = plan /\ work' = work /\ writer' = writer
    BY <1>1, <1>5
  <1>8. TypeOK'
    <2>1. d \in Dag
      BY <1>4 DEF Good
    <2> QED
      BY <1>1, <1>5, <1>6, <2>1 DEF IInv, TypeOK
  <1>9. (\A j \in Keys : Good(dag[j]))'
    BY <1>4, <1>7 DEF IInv
  <1>10. ExecutedAsApproved'
    BY <1>2, <1>4, <1>7 DEF IInv, ExecutedAsApproved
  <1>11. ASSUME NEW e \in Clients PROVE CallOK(start[e])'
    <2>1. CASE e = c
      BY <1>2, <1>4, <1>6, <1>7, <2>1 DEF CallOK
    <2>2. CASE e # c
      <3>1. CallOK(start[e]) /\ start'[e] = start[e]
        BY <1>7, <2>2 DEF IInv
      <3>2. start[e].pc = "started" => start[e].key # k
        BY <1>3, <3>1, NoneAssumption DEF CallOK, AbsentDag
      <3> QED
        BY <1>7, <3>1, <3>2 DEF CallOK
    <2> QED
      BY <2>1, <2>2
  <1>12. ASSUME NEW w \in Workers PROVE WorkOK(work[w])'
    <2>1. WorkOK(work[w])
      BY DEF IInv
    <2> QED
      BY <1>4, <1>7, <2>1 DEF WorkOK
  <1>13. Final
    BY <1>3, <1>7 DEF Final, AbsentDag, FreshStage, Terminal
  <1> QED
    BY <1>8, <1>9, <1>10, <1>11, <1>12, <1>13 DEF IInv

LEMMA CallReturnsStep ==
  ASSUME IInv, NEW c \in Clients, CallReturns(c)
  PROVE  IInv' /\ Final
PROOF
  <1>1. start' = [start EXCEPT ![c] = NoCall] /\ UNCHANGED <<plan, dag, work, writer>>
    BY DEF CallReturns
  <1> QED
    BY <1>1, NoCallOK, CallerMoves

-----------------------------------------------------------------------------
(* Plans, cancellation, recovery and the clock.                            *)

\* Nothing that is approved is lost when a plan's row changes.
LEMMA PlanChanges ==
  ASSUME IInv, UNCHANGED <<dag, start, work, writer>>, plan' \in [Plans -> Plan],
         \A p \in Plans : plan[p].status = "approved" =>
           plan'[p].status = "approved" /\ plan'[p].hash = plan[p].hash
  PROVE  IInv' /\ Final
PROOF
  <1>1. TypeOK' /\ ExecutedAsApproved'
    BY DEF IInv, TypeOK, ExecutedAsApproved
  <1>2. ASSUME NEW c \in Clients PROVE CallOK(start[c])'
    <2>1. CallOK(start[c])
      BY DEF IInv
    <2> QED
      BY <2>1 DEF CallOK
  <1>3. ASSUME NEW w \in Workers PROVE WorkOK(work[w])'
    BY DEF IInv, WorkOK
  <1> QED
    BY <1>1, <1>2, <1>3 DEF IInv, Final

LEMMA PlanStepInv ==
  ASSUME IInv, PlanStep
  PROVE  IInv' /\ Final
PROOF
  <1>1. PICK p \in Plans, g \in Graphs :
          CreatePlan(p, g) \/ ApprovePlan(p, g) \/ Tamper(p, g)
    BY DEF PlanStep
  <1>2. plan \in [Plans -> Plan] /\ plan[p] \in Plan /\ g \in GraphType
    BY GraphsAssumption DEF IInv, TypeOK, GraphType
  <1>3. ASSUME NEW x \in Plan, plan' = [plan EXCEPT ![p] = x],
               UNCHANGED <<dag, start, work, writer>>,
               plan[p].status = "approved" =>
                 x.status = "approved" /\ x.hash = plan[p].hash
        PROVE  IInv' /\ Final
    <2>1. plan' \in [Plans -> Plan]
      BY <1>2, <1>3
    <2>2. \A q \in Plans : plan'[q] = IF q = p THEN x ELSE plan[q]
      BY <1>2, <1>3
    <2> QED
      BY <1>3, <2>1, <2>2, PlanChanges
  <1>4. CASE CreatePlan(p, g)
    <2> DEFINE x == [status |-> "draft", graph |-> g, hash |-> g]
    <2>1. x \in Plan
      BY <1>2 DEF Plan
    <2>2. /\ plan' = [plan EXCEPT ![p] = x] /\ plan[p].status = "absent"
          /\ UNCHANGED <<dag, start, work, writer>>
      BY <1>4 DEF CreatePlan
    <2> HIDE DEF x
    <2> QED
      BY <1>3, <2>1, <2>2
  <1>5. CASE ApprovePlan(p, g)
    <2> DEFINE x == [plan[p] EXCEPT !.status = "approved"]
    <2>1. x \in Plan /\ x.hash = plan[p].hash /\ x.status = "approved"
      BY <1>2 DEF Plan
    <2>2. /\ plan' = [plan EXCEPT ![p] = x]
          /\ UNCHANGED <<dag, start, work, writer>>
      BY <1>2, <1>5 DEF ApprovePlan
    <2> HIDE DEF x
    <2> QED
      BY <1>3, <2>1, <2>2
  <1>6. CASE Tamper(p, g)
    <2> DEFINE x == [plan[p] EXCEPT !.graph = g]
    <2>1. x \in Plan /\ x.hash = plan[p].hash /\ x.status = plan[p].status
      BY <1>2 DEF Plan
    <2>2. /\ plan' = [plan EXCEPT ![p] = x]
          /\ UNCHANGED <<dag, start, work, writer>>
      BY <1>2, <1>6 DEF Tamper
    <2> HIDE DEF x
    <2> QED
      BY <1>3, <2>1, <2>2
  <1> QED
    BY <1>1, <1>4, <1>5, <1>6

\* Executions advance on their own.
LEMMA OnlyDagsAdvance ==
  ASSUME IInv, UNCHANGED <<plan, start, work, writer>>, dag' \in [Keys -> Dag],
         \A k \in Keys : Good(dag'[k]) /\ Advances(dag[k], dag'[k])
  PROVE  IInv' /\ Final
PROOF
  <1>1. work' \in [Workers -> Work] /\ writer' \in Workers \cup {None}
    BY DEF IInv, TypeOK
  <1>2. \A w \in Workers : WorkOK(work'[w])
    BY DEF IInv
  <1> QED
    BY <1>1, <1>2, DagsAdvance

LEMMA DagAdvances ==
  ASSUME IInv, UNCHANGED <<plan, start, work, writer>>,
         NEW k \in Keys, NEW d, Good(d), Advances(dag[k], d),
         dag' = [dag EXCEPT ![k] = d]
  PROVE  IInv' /\ Final
PROOF
  <1>1. d \in Dag /\ dag \in [Keys -> Dag]
    BY DEF Good, IInv, TypeOK
  <1>2. /\ dag' \in [Keys -> Dag]
        /\ \A j \in Keys : dag'[j] = IF j = k THEN d ELSE dag[j]
    BY <1>1
  <1>3. \A j \in Keys : Good(dag'[j]) /\ Advances(dag[j], dag'[j])
    BY <1>2 DEF IInv, Advances
  <1> QED
    BY <1>2, <1>3, OnlyDagsAdvance

LEMMA CancelStep ==
  ASSUME IInv, NEW k \in Keys, CancelExecution(k)
  PROVE  IInv' /\ Final
PROOF
  <1> DEFINE d == dag[k]
             S == In(d, "pending") \cup In(d, "running")
             y == Finished(Released(d, S, "cancelled"), "cancelled")
  <1>1. Good(d) /\ d.status = "running"
    BY DEF IInv, CancelExecution
  <1>2. Good(y) /\ Advances(d, y)
    <2> HIDE DEF d
    <2> QED
      BY <1>1, CancelGood
  <1>3. dag' = [dag EXCEPT ![k] = y] /\ UNCHANGED <<plan, start, work, writer>>
    BY DEF CancelExecution, IInv, TypeOK
  <1> HIDE DEF y
  <1> QED
    BY <1>2, <1>3, DagAdvances

LEMMA LeaseStep ==
  ASSUME IInv, NEW k \in Keys, NEW s \in Stages, LeaseExpires(k, s)
  PROVE  IInv' /\ Final
PROOF
  <1> DEFINE d == dag[k]
             x == [d EXCEPT !.stage[s].expired = TRUE]
  <1>1. Good(d) /\ d.stage[s].status = "running"
    BY DEF IInv, LeaseExpires, In
  <1>2. Good(x) /\ Advances(d, x)
    <2> HIDE DEF d
    <2> QED
      BY <1>1, ExpireGood
  <1>3. dag' = [dag EXCEPT ![k] = x] /\ UNCHANGED <<plan, start, work, writer>>
    BY DEF LeaseExpires, IInv, TypeOK
  <1> HIDE DEF x
  <1> QED
    BY <1>2, <1>3, DagAdvances

LEMMA RecoverStep ==
  ASSUME IInv, RecoverExpiredClaims
  PROVE  IInv' /\ Final
PROOF
  <1>1. /\ \A k \in Keys : dag'[k] = Recovered(dag[k])
        /\ dag' = [k \in Keys |-> Recovered(dag[k])]
        /\ UNCHANGED <<plan, start, work, writer>>
    BY DEF RecoverExpiredClaims
  <1>2. \A k \in Keys : Good(dag'[k]) /\ Advances(dag[k], dag'[k])
    BY <1>1, RecoveredGood DEF IInv
  <1>3. dag' \in [Keys -> Dag]
    BY <1>1, <1>2 DEF Good
  <1> QED
    BY <1>1, <1>2, <1>3, OnlyDagsAdvance

-----------------------------------------------------------------------------
(* The invariant.                                                          *)

LEMMA InitIInv == Init => IInv
PROOF
  <1> SUFFICES ASSUME Init PROVE IInv
    OBVIOUS
  <1>1. \A k \in Keys : dag[k] = AbsentDag
    BY DEF Init
  <1>2. AbsentPlan \in Plan
    BY DEF AbsentPlan, Plan, NoGraph, GraphType
  <1>3. TypeOK
    <2>1. AbsentDag \in Dag
      BY AbsentGood DEF Good
    <2> QED
      BY <1>2, <2>1, NoWorkOK, NoCallOK DEF Init, TypeOK
  <1>4. ExecutedAsApproved
    BY <1>1 DEF ExecutedAsApproved, AbsentDag
  <1>5. /\ \A k \in Keys : Good(dag[k])
        /\ \A c \in Clients : CallOK(start[c])
        /\ \A w \in Workers : WorkOK(work[w])
    BY <1>1, AbsentGood, NoWorkOK, NoCallOK DEF Init
  <1> QED
    BY <1>3, <1>4, <1>5 DEF IInv

LEMMA NextIInv == IInv /\ Next => IInv' /\ Final
PROOF
  <1> SUFFICES ASSUME IInv, Next PROVE IInv' /\ Final
    OBVIOUS
  <1>1. CASE PlanStep
    BY <1>1, PlanStepInv
  <1>2. ASSUME NEW c \in Clients, ClientStep(c) PROVE IInv' /\ Final
    BY <1>2, StartStep, ReadPlanStep, ReadExecutionStep, InsertExecutionStep,
       InsertConflictStep, CallReturnsStep DEF ClientStep
  <1>3. ASSUME NEW w \in Workers, WorkerStep(w) \/ WorkerDies(w) PROVE IInv' /\ Final
    BY <1>3, WorkerKeepsInv
  <1>4. ASSUME NEW k \in Keys, CancelExecution(k) PROVE IInv' /\ Final
    BY <1>4, CancelStep
  <1>5. ASSUME NEW k \in Keys, NEW s \in Stages, LeaseExpires(k, s)
        PROVE  IInv' /\ Final
    BY <1>5, LeaseStep
  <1>6. CASE RecoverExpiredClaims
    BY <1>6, RecoverStep
  <1> QED
    BY <1>1, <1>2, <1>3, <1>4, <1>5, <1>6 DEF Next

LEMMA StutterIInv == IInv /\ UNCHANGED vars => IInv' /\ Final
PROOF
  <1> SUFFICES ASSUME IInv, UNCHANGED vars PROVE IInv' /\ Final
    OBVIOUS
  <1>1. UNCHANGED <<dag, start, work, writer>> /\ plan' = plan
    BY DEF vars
  <1>2. plan' \in [Plans -> Plan]
    BY <1>1 DEF IInv, TypeOK
  <1> QED
    BY <1>1, <1>2, PlanChanges

LEMMA Invariant == Spec => []IInv
PROOF
  <1>1. IInv /\ [Next]_vars => IInv'
    BY NextIInv, StutterIInv
  <1> QED
    BY <1>1, InitIInv, PTL DEF Spec

\* Plans, executions, stages, calls and workers have their types.
THEOREM TypeCorrect == Spec => []TypeOK
PROOF
  <1>1. IInv => TypeOK
    BY DEF IInv
  <1> QED
    BY <1>1, Invariant, PTL

\* Only the graph a person approved is executed, though stages_json may be
\* edited at any moment and the row is read before the execution is inserted.
THEOREM OnlyApprovedIsExecuted == Spec => []ExecutedAsApproved
PROOF
  <1>1. IInv => ExecutedAsApproved
    BY DEF IInv
  <1> QED
    BY <1>1, Invariant, PTL

\* A caller of start_execution is given an execution of its own plan.
THEOREM KeyIsBound == Spec => []KeyServesOnePlan
PROOF
  <1>1. IInv => KeyServesOnePlan
    BY DEF IInv, CallOK, KeyServesOnePlan
  <1> QED
    BY <1>1, Invariant, PTL

\* A stage runs or has passed only on top of stages that passed.
THEOREM DependenciesFirst == Spec => []StartsAfterDependencies
PROOF
  <1>1. IInv => StartsAfterDependencies
    BY DEF IInv, Good, OnTop, StartsAfterDependencies
  <1> QED
    BY <1>1, Invariant, PTL

\* The status of an execution is what its stages say.
THEOREM StatusIsDerived == Spec => []StatusMatchesStages
PROOF
  <1>1. IInv => StatusMatchesStages
    BY DEF IInv, Good, Matches, StatusMatchesStages
  <1> QED
    BY <1>1, Invariant, PTL

\* No pending stage is out of attempts.
THEOREM PendingIsClaimable == Spec => []PendingHasAttempts
PROOF
  <1>1. IInv => PendingHasAttempts
    BY DEF IInv, Good, HasAttempts, PendingHasAttempts
  <1> QED
    BY <1>1, Invariant, PTL

\* The end of an execution is published once.
THEOREM EndIsPublishedOnce == Spec => []FinishedOnce
PROOF
  <1>1. IInv => FinishedOnce
    BY DEF IInv, Good, FinishedOnce
  <1> QED
    BY <1>1, Invariant, PTL

\* An execution that runs can go on: the graph it was checked with is acyclic,
\* so among the stages that wait one depends only on stages that passed.
THEOREM ExecutionCanGoOn == Spec => []NeverStuck
PROOF
  <1>1. IInv => NeverStuck
    <2> SUFFICES ASSUME IInv, NEW k \in Keys, dag[k].status = "running",
                        In(dag[k], "running") = {}, In(dag[k], "failed") = {}
                 PROVE  \E s \in In(dag[k], "pending") :
                          dag[k].graph[s] \subseteq In(dag[k], "passed")
      BY DEF NeverStuck
    <2> DEFINE d == dag[k]
               S == In(d, "pending")
    <2>1. Good(d)
      BY DEF IInv
    <2>2. S \in (SUBSET Stages) \ {{}}
      BY <2>1 DEF Good, Undecided, In
    <2>3. PICK s \in S : d.graph[s] \cap S = {}
      BY <2>1, <2>2 DEF Good, Acyclic
    <2>4. d \in Dag /\ d.graph[s] \subseteq Stages
      BY <2>1, <2>2, <2>3 DEF Good, Dag, GraphType
    <2>5. ASSUME NEW t \in Stages, t \notin S PROVE t \in In(d, "passed")
      <3>1. PICK status \in StageStatus : t \in In(d, status)
        BY <2>4, Partition
      <3>2. In(d, "cancelled") = {}
        BY <2>1 DEF Good, Matches
      <3> QED
        BY <2>5, <3>1, <3>2 DEF StageStatus
    <2> QED
      BY <2>3, <2>4, <2>5
  <1> QED
    BY <1>1, Invariant, PTL

\* Some stage of an execution that runs can always be claimed, now or when those that
\* run are over.
THEOREM ExecutionsStayAlive == Spec => []ExecutionsGoOn
PROOF
  <1>1. PendingHasAttempts /\ NeverStuck => ExecutionsGoOn
    BY DEF ExecutionsGoOn
  <1> QED
    BY <1>1, PendingIsClaimable, ExecutionCanGoOn, PTL

\* The end of an execution agrees with its stages and is published once.
THEOREM EndsStaySound == Spec => []EndsAreSound
PROOF
  <1>1. StatusMatchesStages /\ FinishedOnce => EndsAreSound
    BY DEF EndsAreSound
  <1> QED
    BY <1>1, StatusIsDerived, EndIsPublishedOnce, PTL

\* A stage that passed and an execution that ended change no more.
THEOREM ResultsStay == Spec => ResultsAreFinal
PROOF
  <1>1. IInv /\ [Next]_vars => [Final]_vars
    BY NextIInv, StutterIInv
  <1> QED
    BY <1>1, Invariant, PTL DEF Spec, ResultsAreFinal, Final

-----------------------------------------------------------------------------
(* Who makes a stage pass.                                                 *)

\* No stage passes that had not passed.
NonePasses(d, x) ==
  \A s \in Stages : x.stage[s].status = "passed" => d.stage[s].status = "passed"

\* The status of an execution is published without a change of its stages.
LEMMA FinishedStages ==
  ASSUME NEW d \in Dag, NEW status \in Terminal
  PROVE  Finished(d, status) \in Dag /\ Finished(d, status).stage = d.stage
PROOF
  <1> DEFINE n == d.finished + 1
             x == [d EXCEPT !.status = status, !.finished = n]
  <1>1. n \in Nat
    BY DEF Dag
  <1>2. Finished(d, status) = IF d.status = "running" THEN x ELSE d
    BY DEF Finished
  <1> HIDE DEF n
  <1>3. x \in Dag /\ x.stage = d.stage
    BY <1>1 DEF Dag
  <1> QED
    BY <1>2, <1>3

LEMMA ReleasedNonePasses ==
  ASSUME NEW d \in Dag, NEW S \in SUBSET Stages,
         NEW status \in StageStatus, status # "passed"
  PROVE  /\ Released(d, S, status) \in Dag
         /\ NonePasses(d, Released(d, S, status))
PROOF
  <1> DEFINE x == Released(d, S, status)
  <1>1. /\ x \in Dag
        /\ \A s \in S : x.stage[s].status = status
        /\ \A s \in Stages \ S : x.stage[s] = d.stage[s]
    BY ReleasedRows
  <1> HIDE DEF x
  <1>2. NonePasses(d, x)
    BY <1>1 DEF NonePasses
  <1> QED
    BY <1>1, <1>2 DEF x

LEMMA RefreshedNonePasses ==
  ASSUME NEW d \in Dag
  PROVE  Refreshed(d) \in Dag /\ NonePasses(d, Refreshed(d))
PROOF
  <1> DEFINE x == Released(d, In(d, "pending"), "failed")
  <1>1. x \in Dag /\ NonePasses(d, x)
    BY ReleasedNonePasses DEF StageStatus, In
  <1>2. Finished(x, "failed") \in Dag /\ Finished(x, "failed").stage = x.stage
    BY <1>1, FinishedStages DEF Terminal
  <1>3. Finished(d, "passed") \in Dag /\ Finished(d, "passed").stage = d.stage
    BY FinishedStages DEF Terminal
  <1>4. NonePasses(d, Finished(x, "failed"))
    BY <1>1, <1>2 DEF NonePasses
  <1>5. NonePasses(d, Finished(d, "passed")) /\ NonePasses(d, d)
    BY <1>3 DEF NonePasses
  <1> HIDE DEF x
  <1>6. Refreshed(d) \in {d, Finished(x, "failed"), Finished(d, "passed")}
    BY DEF Refreshed, x
  <1> QED
    BY <1>2, <1>3, <1>4, <1>5, <1>6

LEMMA NonePassesTwice ==
  ASSUME NEW d, NEW x, NEW y, NonePasses(d, x), NonePasses(x, y)
  PROVE  NonePasses(d, y)
PROOF
  BY DEF NonePasses

LEMMA SettledNonePasses ==
  ASSUME NEW d \in Dag, NEW S \in SUBSET Stages, NEW status \in {"pending", "failed"}
  PROVE  Settled(d, S, status) \in Dag /\ NonePasses(d, Settled(d, S, status))
PROOF
  <1> DEFINE x == Released(d, S, status)
  <1>1. x \in Dag /\ NonePasses(d, x)
    BY ReleasedNonePasses DEF StageStatus
  <1>2. Refreshed(x) \in Dag /\ NonePasses(d, Refreshed(x))
    BY <1>1, RefreshedNonePasses, NonePassesTwice
  <1>3. Refreshed(Refreshed(x)) \in Dag /\ NonePasses(d, Refreshed(Refreshed(x)))
    BY <1>2, RefreshedNonePasses, NonePassesTwice
  <1>4. NonePasses(d, d)
    BY DEF NonePasses
  <1> HIDE DEF x
  <1>5. Settled(d, S, status) \in {d, Refreshed(x), Refreshed(Refreshed(x))}
    BY DEF Settled, x
  <1> QED
    BY <1>2, <1>3, <1>4, <1>5

LEMMA RecoveredNonePasses ==
  ASSUME NEW d \in Dag
  PROVE  NonePasses(d, Recovered(d))
PROOF
  <1> DEFINE x == Settled(d, Retryable(d), "pending")
  <1>1. x \in Dag /\ NonePasses(d, x)
    BY SettledNonePasses DEF Retryable, Expired, In
  <1>2. NonePasses(x, Settled(x, Expired(x), "failed"))
    <2> HIDE DEF x
    <2> QED
      BY <1>1, SettledNonePasses DEF Expired, In
  <1> QED
    BY <1>1, <1>2, NonePassesTwice DEF Recovered

\* What ResultComesFromOwner says of a step.
Earned ==
  \A k \in Keys, s \in Stages :
    dag[k].stage[s].status # "passed" /\ dag'[k].stage[s].status = "passed" =>
      /\ ~dag[k].stage[s].expired
      /\ \E w \in Workers : /\ WorksOn(w, k, s) /\ work'[w] = NoWork
                            /\ \A v \in Workers \ {w} : work'[v] = work[v]

\* A step that makes no stage pass.
LEMMA NoneEarned ==
  ASSUME \A k \in Keys : NonePasses(dag[k], dag'[k])
  PROVE  Earned
PROOF
  BY DEF Earned, NonePasses

LEMMA NoneEarnedOfOne ==
  ASSUME IInv, NEW k \in Keys, NEW d, dag' = [dag EXCEPT ![k] = d], NonePasses(dag[k], d)
  PROVE  Earned
PROOF
  <1>1. \A j \in Keys : dag'[j] = IF j = k THEN d ELSE dag[j]
    BY DEF IInv, TypeOK
  <1> QED
    BY <1>1, NoneEarned DEF NonePasses

LEMMA FinishEarns ==
  ASSUME IInv, NEW w \in Workers, NEW outcome \in {"passed", "failed"},
         FinishStage(w, outcome)
  PROVE  Earned
PROOF
  <1> DEFINE k == work[w].key
             s == work[w].stage
             x == Released(dag[k], {s}, outcome)
  <1>1. /\ k \in Keys /\ s \in Stages /\ work[w].pc = "working"
        /\ OwnsClaim(w, dag[k], s)
        /\ dag' = [dag EXCEPT ![k] = Refreshed(x)]
        /\ work' = [work EXCEPT ![w] = NoWork]
    BY DEF IInv, WorkOK, FinishStage, TypeOK
  <1>2. dag \in [Keys -> Dag] /\ work \in [Workers -> Work]
    BY DEF IInv, TypeOK
  <1>3. x \in Dag /\ \A t \in Stages \ {s} : x.stage[t] = dag[k].stage[t]
    BY <1>1, <1>2, ReleasedRows DEF StageStatus
  <1>4. NonePasses(x, Refreshed(x))
    BY <1>3, RefreshedNonePasses
  <1> HIDE DEF x
  <1>5. SUFFICES ASSUME NEW j \in Keys, NEW t \in Stages,
                        dag[j].stage[t].status # "passed", dag'[j].stage[t].status = "passed"
                 PROVE  /\ ~dag[j].stage[t].expired
                        /\ WorksOn(w, j, t) /\ work'[w] = NoWork
                        /\ \A v \in Workers \ {w} : work'[v] = work[v]
    BY DEF Earned
  <1>6. j = k
    BY <1>1, <1>2, <1>5
  <1>7. dag'[k] = Refreshed(x)
    BY <1>1, <1>2
  <1>8. t = s
    BY <1>3, <1>4, <1>5, <1>6, <1>7 DEF NonePasses
  <1> QED
    BY <1>1, <1>2, <1>6, <1>8 DEF WorksOn, OwnsClaim

LEMMA NextEarns == IInv /\ [Next]_vars => Earned
PROOF
  <1> SUFFICES ASSUME IInv, [Next]_vars PROVE Earned
    OBVIOUS
  <1>1. dag \in [Keys -> Dag]
    BY DEF IInv, TypeOK
  <1>2. CASE dag' = dag
    BY <1>2, NoneEarned DEF NonePasses
  <1>3. ASSUME NEW c \in Clients, InsertExecution(c) PROVE Earned
    <2>1. start[c].key \in Keys
      BY <1>3 DEF InsertExecution, IInv, CallOK
    <2> DEFINE d == [AbsentDag EXCEPT !.status = "running", !.plan = start[c].plan,
                                      !.graph = start[c].graph]
    <2>2. NonePasses(dag[start[c].key], d)
      BY DEF NonePasses, AbsentDag, FreshStage
    <2>3. dag' = [dag EXCEPT ![start[c].key] = d]
      BY <1>3 DEF InsertExecution
    <2> HIDE DEF d
    <2> QED
      BY <2>1, <2>2, <2>3, NoneEarnedOfOne
  <1>4. ASSUME NEW w \in Workers, NEW s \in Stages, ClaimStage(w, s) PROVE Earned
    <2>1. work[w].key \in Keys
      BY <1>4 DEF ClaimStage, Considers, IInv, WorkOK
    <2>2. NonePasses(dag[work[w].key], Claim(dag[work[w].key], s))
      <3>1. /\ dag[work[w].key] \in Dag
            /\ dag[work[w].key].stage \in [Stages -> Stage]
        BY <1>1, <2>1 DEF Dag
      <3> QED
        BY <3>1 DEF NonePasses, Claim, Dag
    <2> QED
      BY <1>4, <2>1, <2>2, NoneEarnedOfOne DEF ClaimStage
  <1>5. ASSUME NEW w \in Workers, NEW outcome \in {"passed", "failed"},
               FinishStage(w, outcome)
        PROVE  Earned
    BY <1>5, FinishEarns
  <1>6. ASSUME NEW k \in Keys, CancelExecution(k) PROVE Earned
    <2> DEFINE x == Released(dag[k], In(dag[k], "pending") \cup In(dag[k], "running"),
                             "cancelled")
    <2>1. x \in Dag /\ NonePasses(dag[k], x)
      BY <1>1, ReleasedNonePasses DEF StageStatus, In
    <2> HIDE DEF x
    <2>2. NonePasses(dag[k], Finished(x, "cancelled"))
      BY <2>1, FinishedStages DEF NonePasses, Terminal
    <2>3. dag' = [dag EXCEPT ![k] = Finished(x, "cancelled")]
      BY <1>1, <1>6 DEF CancelExecution, x
    <2> QED
      BY <2>2, <2>3, NoneEarnedOfOne
  <1>7. ASSUME NEW k \in Keys, NEW s \in Stages, LeaseExpires(k, s) PROVE Earned
    <2> DEFINE d == [dag[k] EXCEPT !.stage[s].expired = TRUE]
    <2>1. dag[k] \in Dag /\ dag[k].stage \in [Stages -> Stage]
      BY <1>1 DEF Dag
    <2>2. NonePasses(dag[k], d)
      BY <2>1 DEF NonePasses, Dag, Stage
    <2>3. dag' = [dag EXCEPT ![k] = d]
      BY <1>1, <1>7 DEF LeaseExpires
    <2> HIDE DEF d
    <2> QED
      BY <2>2, <2>3, NoneEarnedOfOne
  <1>8. CASE RecoverExpiredClaims
    BY <1>1, <1>8, RecoveredNonePasses, NoneEarned DEF RecoverExpiredClaims
  <1>9. CASE UNCHANGED vars
    BY <1>2, <1>9 DEF vars
  <1>10. CASE PlanStep
    BY <1>2, <1>10 DEF PlanStep, CreatePlan, ApprovePlan, Tamper
  <1>11. ASSUME NEW c \in Clients, ClientStep(c) PROVE Earned
    BY <1>2, <1>3, <1>11 DEF ClientStep, ReadPlan, ReadExecution, InsertConflict,
      CallReturns, StartExecution
  <1>12. ASSUME NEW w \in Workers, WorkerStep(w) \/ WorkerDies(w) PROVE Earned
    BY <1>2, <1>4, <1>5, <1>12 DEF WorkerStep, WorkerDies, ClaimList, ClaimNone,
      FinishRejected, FinishLocked, ClaimCheck, ClaimSkip, ClaimLost, ClaimLocked
  <1> QED
    BY <1>6, <1>7, <1>8, <1>9, <1>10, <1>11, <1>12 DEF Next

\* A stage passes by its worker, which works on it under a claim that it still has
\* (finish_stage): no result comes from a worker whose claim was taken back.
THEOREM ResultsAreEarned == Spec => ResultComesFromOwner
PROOF
  <1>1. IInv /\ [Next]_vars => [Earned]_vars
    BY NextEarns
  <1> QED
    BY <1>1, Invariant, PTL DEF Spec, ResultComesFromOwner, Earned

=============================================================================
