--------------------------- MODULE MCStreams_proofs ---------------------------
(***************************************************************************)
(* Proofs about what is connected, for any runs, threads and workspaces,   *)
(* any bounds, and any instance of the tunnel and the reviews.             *)
(*                                                                         *)
(* A step of a stream moves one run, but for a cancellation and a crash,   *)
(* so most of the invariant speaks of one run at a time: RunOK relates the *)
(* positions of its generator and its runner, the queue between them and   *)
(* its row.  What two runs share is the lock of their workspace (LocksOK): *)
(* whoever is in holds the lock that the registry names, and whoever waits *)
(* waits at that lock.                                                     *)
(***************************************************************************)
EXTENDS MCStreams, SequenceTheorems, FiniteSetTheorems, TLAPS

Starting == {"starting", "registered", "announced"}
Early == {"scheduled", "thinking", "answered"}
Open == {"running", "verifying", "waiting_approval"}

\* What the row must hold when a runner with record r has ended by itself.
ToldOf(r, x) ==
  CASE r.reason = "stop" -> {IF r.empty THEN "failed" ELSE r.verdict}
    [] r.reason = "cancelled" ->
         {IF r.verdict # None THEN r.verdict
          ELSE IF "run_failed" \in x.events THEN "failed" ELSE "cancelled"}
    [] r.reason = "interrupted" -> {"waiting_approval", "running"}
    [] r.reason = "noop" -> {"running"}
    [] OTHER -> {"failed"}

\* The same before the outcome is persisted: only verdicts and what the loop gave up
\* are in the row.
Foretold(r, x) ==
  /\ r.reason # None
  /\ ~x.lost =>
       /\ r.verdict # None => r.reason \in {"stop", "cancelled"} /\ ~r.empty
                              /\ x.agent = r.verdict
       /\ r.verdict = None =>
            IF "run_failed" \in x.events
            THEN /\ x.agent = "failed"
                 /\ r.reason \in {"stop", "loop_cap_exceeded", "max_iterations", "cancelled"}
            ELSE /\ r.reason \in {"interrupted", "error", "noop", "cancelled"}
                 /\ x.agent \in Open
                 /\ r.reason = "interrupted" => x.agent \in {"waiting_approval", "running"}
                 /\ r.reason \in {"error", "noop"} => x.agent = "running"

\* A run that was announced completed has not failed, and does not.
CompletedAlone(r, x) ==
  "run_completed" \in x.events =>
    /\ "run_failed" \notin x.events
    /\ r.at \notin {"none"} \cup Early
    /\ ~r.empty /\ r.reason \in {None, "stop", "cancelled"}

RunOK(st, r, q, x) ==
  /\ st \in Streams!Positions /\ r \in Streams!Runner /\ x \in Streams!Row
  /\ q \in Seq({"chunk", "sentinel"})
  /\ st \in {"idle", "waiting"} \cup Starting => r.at = "none"
  /\ st \in {"leaving", "over"} => r.at \in {"none", "ended"}
  /\ st = "announced" => x.agent = "running"
  /\ r.at = "none" =>
       /\ st \in {"idle", "waiting", "over"} \cup Starting /\ q = <<>>
       /\ x.agent \in {"none", "running"}
       /\ ~r.sent
  /\ r.at \in {"none"} \cup Early \cup {"verifying"} =>
       r.reason = None /\ r.verdict = None /\ ~r.empty
  /\ r.at \in {"none"} \cup Early => x.events = {}
  /\ r.at \in Early => x.agent = "running"
  /\ r.at = "verifying" =>
       x.agent \in {"running", "verifying"} /\ "run_failed" \notin x.events
  /\ r.at \in {"returning", "ending"} => Foretold(r, x)
  /\ r.reason = "stop" /\ ~r.empty => r.verdict # None
  /\ r.sent => r.at = "ended"
  /\ \A i \in DOMAIN q : q[i] = "sentinel" => r.sent
  /\ r.at = "settled" \/ r.sent => x.lost \/ x.agent \in ToldOf(r, x)
  /\ CompletedAlone(r, x)

RunsOK ==
  /\ stream \in [Runs -> Streams!Positions]
  /\ runner \in [Runs -> Streams!Runner]
  /\ queue \in [Runs -> Seq({"chunk", "sentinel"})]
  /\ row \in [Runs -> Streams!Row]
  /\ \A s \in Runs : RunOK(stream[s], runner[s], queue[s], row[s])

\* Between the lock and its release.
Inside == Starting \cup {"streaming", "leaving", "aborting", "draining"}

LockOK(s) ==
  /\ InWorkspace[s] = None => lockOf[s] = None
  /\ InWorkspace[s] # None /\ stream[s] \in Inside \cup {"waiting"} =>
       lockOf[s] # None /\ registry[InWorkspace[s]] = lockOf[s]
  /\ InWorkspace[s] # None /\ stream[s] \in Inside => holder[lockOf[s]] = s
  /\ stream[s] = "waiting" =>
       /\ InWorkspace[s] # None
       /\ \E i \in DOMAIN waiters[lockOf[s]] : waiters[lockOf[s]][i] = s
  /\ stream[s] = "idle" =>   \* nobody knows the lock it would make
       /\ lockOf[s] = None /\ holder[s] = None /\ waiters[s] = <<>>
       /\ \A w \in Workspaces : registry[w] # s
       /\ \A u \in Runs : lockOf[u] # s

LocksTyped ==
  /\ registry \in [Workspaces -> Runs \cup {None}]
  /\ lockOf \in [Runs -> Runs \cup {None}]
  /\ holder \in [Runs -> Runs \cup {None}]
  /\ waiters \in [Runs -> Seq(Runs)]

LocksOK == LocksTyped /\ \A s \in Runs : LockOK(s)

StreamInv ==
  /\ RunsOK /\ LocksOK
  /\ first \in [Runs -> [started : BOOLEAN, empty : BOOLEAN]]
  /\ spent \in [cancels : Nat, faults : Nat, crashes : Nat]

-----------------------------------------------------------------------------
(* Rows.                                                                   *)

LEMMA NoneIsNothing == None \notin Runs \cup Workspaces \cup Streams!Verdicts \cup Streams!Reasons
BY StreamParameters DEF Streams!Parameters

Statuses == {"running", "waiting_approval", "verifying", "passed", "degraded", "failed",
             "cancelled", "completed"}

LEMMA UpdatedRow ==
  ASSUME NEW x \in Streams!Row, NEW status \in Statuses
  PROVE  LET y == Streams!Updated(x, status) IN
           /\ y \in Streams!Row /\ y.events = x.events /\ y.lost = x.lost
           /\ y.agent = IF x.agent \in Streams!TerminalAgent \cup {"none"} THEN x.agent
                        ELSE IF status = "completed" THEN "passed" ELSE status
BY DEF Streams!Updated, Streams!Row, Streams!Canonical, Streams!Legacy, Statuses,
  Streams!TerminalAgent, Streams!TerminalSession

LEMMA WithOutcomeRow ==
  ASSUME NEW x \in Streams!Row, NEW status \in {"failed", "cancelled"}
  PROVE  LET y == Streams!WithOutcome(x, status) IN
           /\ y \in Streams!Row /\ y.lost = x.lost
           /\ y.events = x.events \cup {IF status = "failed" THEN "run_failed"
                                        ELSE "run_cancelled"}
           /\ y.agent = IF x.agent \in Streams!TerminalAgent \cup {"none"} THEN x.agent
                        ELSE status
<1>1. status \in Statuses
  BY DEF Statuses
<1> DEFINE u == Streams!Updated(x, status)
<1>2. /\ u \in Streams!Row /\ u.events = x.events /\ u.lost = x.lost
      /\ u.agent = IF x.agent \in Streams!TerminalAgent \cup {"none"} THEN x.agent
                   ELSE status
  BY <1>1, UpdatedRow
<1> HIDE DEF u
<1> QED BY <1>2 DEF Streams!WithOutcome, u, Streams!Row

LEMMA GivenUpRow ==
  ASSUME NEW x \in Streams!Row
  PROVE  LET y == Streams!GivenUp(x) IN
           /\ y \in Streams!Row /\ y.lost = x.lost
           /\ y.events = x.events \cup {"run_failed"}
           /\ y.agent = IF x.agent \in Streams!TerminalAgent \cup {"none"} THEN x.agent
                        ELSE "failed"
<1> DEFINE u == Streams!Updated(x, "failed")
<1>1. /\ u \in Streams!Row /\ u.events = x.events /\ u.lost = x.lost
      /\ u.agent = IF x.agent \in Streams!TerminalAgent \cup {"none"} THEN x.agent
                   ELSE "failed"
  BY UpdatedRow DEF Statuses
<1> HIDE DEF u
<1> QED BY <1>1 DEF Streams!GivenUp, u, Streams!Row

LEMMA WithAnswerRow ==
  ASSUME NEW x \in Streams!Row
  PROVE  LET y == Streams!WithAnswer(x) IN
           /\ y \in Streams!Row /\ y.lost = x.lost /\ y.events = x.events
           /\ y.agent = x.agent
BY DEF Streams!WithAnswer, Streams!Row, Streams!TerminalSession

LEMMA LostRow ==
  ASSUME NEW x \in Streams!Row
  PROVE  LET y == [x EXCEPT !.lost = TRUE] IN
           /\ y \in Streams!Row /\ y.lost /\ y.events = x.events /\ y.agent = x.agent
BY DEF Streams!Row

-----------------------------------------------------------------------------
(* One run.                                                                *)

\* A write that fails is noted in the row.
LEMMA LostOK ==
  ASSUME NEW st, NEW r, NEW q, NEW x, RunOK(st, r, q, x)
  PROVE  RunOK(st, r, q, [x EXCEPT !.lost = TRUE])
<1> DEFINE y == [x EXCEPT !.lost = TRUE]
<1>1. y \in Streams!Row /\ y.lost /\ y.events = x.events /\ y.agent = x.agent
  BY LostRow DEF RunOK
<1> HIDE DEF y
<1>2. RunOK(st, r, q, y)
  BY <1>1 DEF RunOK, Foretold, CompletedAlone
<1> QED BY <1>2 DEF y

\* `streaming' for an old chunk, whenever it is written.
LEMMA LateRunningOK ==
  ASSUME NEW st, NEW r, NEW q, NEW x, RunOK(st, r, q, x)
  PROVE  RunOK(st, r, q, Streams!Updated(x, "running"))
<1> DEFINE y == Streams!Updated(x, "running")
<1>1. /\ y \in Streams!Row /\ y.events = x.events /\ y.lost = x.lost
      /\ y.agent = IF x.agent \in Streams!TerminalAgent \cup {"none"} THEN x.agent
                   ELSE "running"
  BY UpdatedRow DEF RunOK, Statuses
<1> HIDE DEF y
<1>2. x.agent \in {"none"} \cup Open \cup Streams!TerminalAgent
  BY DEF RunOK, Streams!Row, Open
<1>3. ToldOf(r, y) = ToldOf(r, x)
  BY <1>1 DEF ToldOf
<1>4. x.agent # y.agent => x.agent \in Open /\ y.agent = "running"
  BY <1>1, <1>2
<1>5. x.agent \in ToldOf(r, x) => y.agent \in ToldOf(r, x)
  <2>1. CASE x.agent = y.agent
    BY <2>1
  <2>2. CASE x.agent \in Open /\ y.agent = "running"
    <3>1. /\ r.reason \in Streams!Reasons \cup {None}
          /\ r.verdict \in Streams!Verdicts \cup {None}
          /\ r.reason = "stop" /\ ~r.empty => r.verdict # None
      BY DEF RunOK, Streams!Runner
    <3> QED BY <2>2, <3>1, NoneIsNothing DEF ToldOf, Open, Streams!Verdicts, Streams!Reasons
  <2> QED BY <1>4, <2>1, <2>2
<1>6. Foretold(r, x) => Foretold(r, y)
  BY <1>1, <1>4 DEF Foretold, Open, RunOK, Streams!Runner, Streams!Verdicts
<1>7. RunOK(st, r, q, y)
  BY <1>1, <1>3, <1>4, <1>5, <1>6 DEF RunOK, CompletedAlone, Open
<1> QED BY <1>7 DEF y

\* A cancellation in the body of a runner, in its finally, or before its first step.
LEMMA InterruptedOK ==
  ASSUME NEW st, NEW r, NEW q, NEW x, RunOK(st, r, q, x)
  PROVE  RunOK(st, Streams!Interrupted(r), q, x)
<1> DEFINE i == Streams!Interrupted(r)
<1>1. CASE r.at \in Streams!Body
  <2>1. /\ i \in Streams!Runner /\ i.at = "ending" /\ i.reason = "cancelled"
        /\ i.empty = r.empty /\ i.verdict = r.verdict /\ i.sent = r.sent
    BY <1>1 DEF Streams!Interrupted, RunOK, Streams!Runner, Streams!Live, Streams!Closing,
      Streams!Reasons
  <2> HIDE DEF i
  <2>2. r.at \in {"thinking", "answered", "verifying", "returning"}
    BY <1>1 DEF Streams!Body
  <2>3. Foretold(i, x)
    <3>1. CASE r.at = "returning"
      BY <2>1, <3>1, NoneIsNothing DEF RunOK, Foretold, Open, Streams!Reasons
    <3>2. CASE r.at = "verifying"
      BY <2>1, <3>2, NoneIsNothing DEF RunOK, Foretold, Open, Streams!Reasons
    <3>3. CASE r.at \in {"thinking", "answered"}
      BY <2>1, <3>3, NoneIsNothing DEF RunOK, Foretold, Early, Open, Streams!Reasons
    <3> QED BY <2>2, <3>1, <3>2, <3>3
  <2>4. CompletedAlone(i, x)
    BY <2>1, <2>2 DEF RunOK, CompletedAlone, Early
  <2>5. RunOK(st, i, q, x)
    BY <2>1, <2>2, <2>3, <2>4, NoneIsNothing DEF RunOK, Early, Streams!Reasons
  <2> QED BY <2>5 DEF i
<1>2. CASE r.at \notin Streams!Body /\ r.at \in Streams!Live
  <2>1. /\ i \in Streams!Runner /\ i.at = "ended" /\ i.reason = r.reason
        /\ i.empty = r.empty /\ i.verdict = r.verdict /\ i.sent = r.sent
    BY <1>2 DEF Streams!Interrupted, RunOK, Streams!Runner
  <2> HIDE DEF i
  <2>2. r.at \in {"scheduled", "ending", "settled"}
    BY <1>2 DEF Streams!Body, Streams!Live, Streams!Closing
  <2>3. RunOK(st, i, q, x)
    BY <2>1, <2>2 DEF RunOK, CompletedAlone, Early
  <2> QED BY <2>3 DEF i
<1>3. CASE r.at \notin Streams!Body /\ r.at \notin Streams!Live
  BY <1>3 DEF Streams!Interrupted
<1> QED BY <1>1, <1>2, <1>3

-----------------------------------------------------------------------------
(* Steps of one run: its generator.                                        *)

LEMMA OneRunMoves ==
  ASSUME RunsOK, NEW s \in Runs, NEW st, NEW r, NEW q, NEW x, RunOK(st, r, q, x),
         stream' = [stream EXCEPT ![s] = st], runner' = [runner EXCEPT ![s] = r],
         queue' = [queue EXCEPT ![s] = q], row' = [row EXCEPT ![s] = x]
  PROVE  RunsOK'
<1>1. /\ st \in Streams!Positions /\ r \in Streams!Runner /\ x \in Streams!Row
      /\ q \in Seq({"chunk", "sentinel"})
  BY DEF RunOK
<1>2. /\ stream' \in [Runs -> Streams!Positions] /\ runner' \in [Runs -> Streams!Runner]
      /\ queue' \in [Runs -> Seq({"chunk", "sentinel"})] /\ row' \in [Runs -> Streams!Row]
  BY <1>1 DEF RunsOK
<1>3. ASSUME NEW u \in Runs
      PROVE  RunOK(stream'[u], runner'[u], queue'[u], row'[u])
  <2>1. CASE u = s
    BY <2>1 DEF RunsOK
  <2>2. CASE u # s
    BY <2>2 DEF RunsOK
  <2> QED BY <2>1, <2>2
<1> QED BY <1>2, <1>3 DEF RunsOK, RunOK, Foretold, CompletedAlone, ToldOf

\* The generator moves, and nothing else.
LEMMA GeneratorMoves ==
  ASSUME RunsOK, NEW s \in Runs, NEW st, RunOK(st, runner[s], queue[s], row[s]),
         Streams!Move(s, st), UNCHANGED <<runner, queue, row>>
  PROVE  RunsOK'
<1> DEFINE r == runner[s]
           q == queue[s]
           x == row[s]
<1>1. /\ runner' = [runner EXCEPT ![s] = r]
      /\ queue' = [queue EXCEPT ![s] = q] /\ row' = [row EXCEPT ![s] = x]
  BY DEF RunsOK
<1>2. stream' = [stream EXCEPT ![s] = st] /\ RunOK(st, r, q, x)
  BY DEF Streams!Move
<1> HIDE DEF r, q, x
<1> QED BY <1>1, <1>2, OneRunMoves

\* A write is made, or noted as lost.
LEMMA RunWrites ==
  ASSUME RunsOK, NEW s \in Runs, NEW st, NEW r, NEW q, NEW new, RunOK(st, r, q, new),
         RunOK(st, r, q, [row[s] EXCEPT !.lost = TRUE]),
         stream' = [stream EXCEPT ![s] = st], runner' = [runner EXCEPT ![s] = r],
         queue' = [queue EXCEPT ![s] = q], Streams!Write(s, new)
  PROVE  RunsOK'
<1>1. CASE row' = [row EXCEPT ![s] = new]
  BY <1>1, OneRunMoves
<1>2. CASE row' = [row EXCEPT ![s].lost = TRUE]
  <2>1. row' = [row EXCEPT ![s] = [row[s] EXCEPT !.lost = TRUE]]
    BY <1>2 DEF RunsOK
  <2> QED BY <2>1, OneRunMoves
<1> QED BY <1>1, <1>2 DEF Streams!Write

LEMMA AtTheLock ==
  ASSUME RunsOK, NEW s \in Runs,
         Streams!Enter(s) \/ Streams!Acquire(s) \/ Streams!LeaveQueue(s)
           \/ Streams!FailToStart(s)
  PROVE  RunsOK'
<1>1. RunOK(stream[s], runner[s], queue[s], row[s])
  BY DEF RunsOK
<1>2. PICK st \in {"starting", "waiting", "over"} :
        /\ Streams!Move(s, st) /\ UNCHANGED <<runner, queue, row>>
        /\ stream[s] \in {"idle", "waiting"} \cup Starting
  BY Zenon DEF Streams!Enter, Streams!Acquire, Streams!LeaveQueue, Streams!FailToStart, Starting,
    Streams!Starting
<1>3. RunOK(st, runner[s], queue[s], row[s])
  BY <1>1, <1>2 DEF RunOK, Starting, Streams!Positions
<1> QED BY <1>2, <1>3, GeneratorMoves

LEMMA StartRunKeeps ==
  ASSUME RunsOK, NEW s \in Runs, Streams!StartRun(s)
  PROVE  RunsOK'
<1> DEFINE x == [row[s] EXCEPT !.session = "running"]
<1>1. RunOK(stream[s], runner[s], queue[s], row[s]) /\ stream[s] = "starting"
  BY DEF RunsOK, Streams!StartRun
<1>2. x \in Streams!Row /\ x.agent = row[s].agent /\ x.events = row[s].events
  BY <1>1 DEF RunOK, Streams!Row
<1>3. /\ stream' = [stream EXCEPT ![s] = "registered"] /\ row' = [row EXCEPT ![s] = x]
      /\ runner' = [runner EXCEPT ![s] = runner[s]]
      /\ queue' = [queue EXCEPT ![s] = queue[s]]
  BY DEF Streams!StartRun, Streams!Move, RunsOK
<1> HIDE DEF x
<1>4. RunOK("registered", runner[s], queue[s], x)
  BY <1>1, <1>2 DEF RunOK, Starting, Streams!Positions, CompletedAlone
<1> QED BY <1>3, <1>4, OneRunMoves

LEMMA UpsertRunKeeps ==
  ASSUME RunsOK, NEW s \in Runs, Streams!UpsertRun(s)
  PROVE  RunsOK'
<1> DEFINE x == [row[s] EXCEPT !.agent = "running"]
<1>1. RunOK(stream[s], runner[s], queue[s], row[s]) /\ stream[s] = "registered"
  BY DEF RunsOK, Streams!UpsertRun
<1>2. x \in Streams!Row /\ x.agent = "running" /\ x.events = row[s].events
  BY <1>1 DEF RunOK, Streams!Row
<1>3. /\ stream' = [stream EXCEPT ![s] = "announced"] /\ row' = [row EXCEPT ![s] = x]
      /\ runner' = [runner EXCEPT ![s] = runner[s]]
      /\ queue' = [queue EXCEPT ![s] = queue[s]]
  BY DEF Streams!UpsertRun, Streams!Move, RunsOK
<1> HIDE DEF x
<1>4. RunOK("announced", runner[s], queue[s], x)
  BY <1>1, <1>2 DEF RunOK, Starting, Streams!Positions, CompletedAlone
<1> QED BY <1>3, <1>4, OneRunMoves

LEMMA SpawnKeeps ==
  ASSUME RunsOK, NEW s \in Runs, Streams!Spawn(s)
  PROVE  RunsOK'
<1> DEFINE r == [runner[s] EXCEPT !.at = "scheduled"]
<1>1. RunOK(stream[s], runner[s], queue[s], row[s]) /\ stream[s] = "announced"
  BY DEF RunsOK, Streams!Spawn
<1>2. /\ r \in Streams!Runner /\ r.at = "scheduled" /\ r.reason = runner[s].reason
      /\ r.verdict = runner[s].verdict /\ r.empty = runner[s].empty
      /\ r.sent = runner[s].sent
  BY <1>1 DEF RunOK, Streams!Runner, Streams!Live
<1>3. /\ stream' = [stream EXCEPT ![s] = "streaming"] /\ runner' = [runner EXCEPT ![s] = r]
      /\ queue' = [queue EXCEPT ![s] = queue[s]] /\ row' = [row EXCEPT ![s] = row[s]]
  BY DEF Streams!Spawn, Streams!Move, RunsOK
<1> HIDE DEF r
<1>4. RunOK("streaming", r, queue[s], row[s])
  BY <1>1, <1>2 DEF RunOK, Starting, Early, Streams!Positions, CompletedAlone
<1> QED BY <1>3, <1>4, OneRunMoves

\* What is left of a queue has the sentinel only if the queue had it.
LEMMA TailOK ==
  ASSUME NEW st, NEW r, NEW q, NEW x, RunOK(st, r, q, x), q # <<>>
  PROVE  /\ RunOK(st, r, Tail(q), x) /\ Head(q) \in {"chunk", "sentinel"}
         /\ Head(q) = "sentinel" => r.sent
<1>1. q \in Seq({"chunk", "sentinel"}) /\ \A i \in DOMAIN q : q[i] = "sentinel" => r.sent
  BY DEF RunOK
<1>2. /\ Tail(q) \in Seq({"chunk", "sentinel"})
      /\ \A i \in DOMAIN Tail(q) : i + 1 \in DOMAIN q /\ Tail(q)[i] = q[i + 1]
      /\ Head(q) = q[1] /\ 1 \in DOMAIN q
  BY <1>1
<1>3. r.at # "none"
  BY DEF RunOK
<1> DEFINE left_q == Tail(q)
<1>4. \A i \in DOMAIN left_q : left_q[i] = "sentinel" => r.sent
  BY <1>1, <1>2
<1> HIDE DEF left_q
<1>5. RunOK(st, r, left_q, x)
  BY <1>2, <1>3, <1>4 DEF RunOK, left_q
<1> QED BY <1>1, <1>2, <1>5 DEF left_q

LEMMA ConsumeKeeps ==
  ASSUME RunsOK, NEW s \in Runs, Streams!Consume(s)
  PROVE  RunsOK'
<1> DEFINE q == Tail(queue[s])
<1>1. /\ RunOK(stream[s], runner[s], queue[s], row[s]) /\ stream[s] = "streaming"
      /\ queue[s] # <<>>
  BY DEF RunsOK, Streams!Consume
<1>2. /\ RunOK(stream[s], runner[s], q, row[s])
      /\ Head(queue[s]) = "sentinel" => runner[s].sent
  BY <1>1, TailOK
<1>3. queue' = [queue EXCEPT ![s] = q] /\ runner' = [runner EXCEPT ![s] = runner[s]]
  BY DEF Streams!Consume, Streams!locks, RunsOK
<1> HIDE DEF q
<1>4. CASE Head(queue[s]) = "sentinel"
  <2>1. /\ stream' = [stream EXCEPT ![s] = "leaving"]
        /\ row' = [row EXCEPT ![s] = row[s]]
    BY <1>4 DEF Streams!Consume, Streams!Move, RunsOK
  <2>2. RunOK("leaving", runner[s], q, row[s])
    BY <1>1, <1>2, <1>4 DEF RunOK, Starting, Streams!Positions
  <2> QED BY <1>3, <2>1, <2>2, OneRunMoves
<1>5. CASE Head(queue[s]) # "sentinel"
  <2>1. stream' = [stream EXCEPT ![s] = stream[s]]
    BY <1>5 DEF Streams!Consume, RunsOK
  <2>2. CASE first[s].started
    <3>1. row' = [row EXCEPT ![s] = row[s]]
      BY <1>5, <2>2 DEF Streams!Consume, RunsOK
    <3> QED BY <1>2, <1>3, <2>1, <3>1, OneRunMoves
  <2>3. CASE ~first[s].started
    <3>1. Streams!Write(s, Streams!Updated(row[s], "running"))
      BY <1>5, <2>3 DEF Streams!Consume
    <3> QED BY <1>2, <1>3, <2>1, <3>1, LateRunningOK, LostOK, RunWrites
  <2> QED BY <2>2, <2>3
<1> QED BY <1>4, <1>5

LEMMA DisconnectKeeps ==
  ASSUME RunsOK, NEW s \in Runs, Streams!Disconnect(s)
  PROVE  RunsOK'
<1>1. /\ RunOK(stream[s], runner[s], queue[s], row[s]) /\ stream[s] = "streaming"
      /\ Streams!Move(s, "draining") /\ UNCHANGED <<runner, queue, row>>
  BY DEF RunsOK, Streams!Disconnect
<1>2. RunOK("draining", runner[s], queue[s], row[s])
  BY <1>1 DEF RunOK, Starting, Streams!Positions
<1> QED BY <1>1, <1>2, GeneratorMoves

LEMMA DrainChunkKeeps ==
  ASSUME RunsOK, NEW s \in Runs, Streams!DrainChunk(s)
  PROVE  RunsOK'
<1> DEFINE q == Tail(queue[s])
<1>1. RunOK(stream[s], runner[s], queue[s], row[s]) /\ queue[s] # <<>>
  BY DEF RunsOK, Streams!DrainChunk
<1>2. RunOK(stream[s], runner[s], q, row[s])
  BY <1>1, TailOK
<1>3. /\ queue' = [queue EXCEPT ![s] = q] /\ runner' = [runner EXCEPT ![s] = runner[s]]
      /\ stream' = [stream EXCEPT ![s] = stream[s]]
      /\ Streams!Write(s, Streams!Updated(row[s], "running"))
  BY DEF Streams!DrainChunk, Streams!locks, RunsOK
<1> HIDE DEF q
<1> QED BY <1>2, <1>3, LateRunningOK, LostOK, RunWrites

\* `completed' after a drain changes nothing in agent_runs: the verdict is there.
LEMMA DrainSentinelKeeps ==
  ASSUME RunsOK, NEW s \in Runs, Streams!DrainSentinel(s)
  PROVE  RunsOK'
<1> DEFINE q == Tail(queue[s])
           x == Streams!Updated(row[s], "completed")
<1>1. /\ RunOK(stream[s], runner[s], queue[s], row[s]) /\ stream[s] = "draining"
      /\ queue[s] # <<>> /\ Head(queue[s]) = "sentinel"
  BY DEF RunsOK, Streams!DrainSentinel
<1>2. RunOK(stream[s], runner[s], q, row[s]) /\ runner[s].sent
  BY <1>1, TailOK
<1>3. /\ queue' = [queue EXCEPT ![s] = q] /\ runner' = [runner EXCEPT ![s] = runner[s]]
      /\ stream' = [stream EXCEPT ![s] = "over"]
  BY DEF Streams!DrainSentinel, Streams!Move, RunsOK
<1> HIDE DEF q
<1>4. RunOK("over", runner[s], q, row[s])
  BY <1>1, <1>2 DEF RunOK, Starting, Streams!Positions
<1>5. CASE runner[s].reason = "stop" /\ ~first[s].empty
  <2>1. Streams!Write(s, x)
    BY <1>5 DEF Streams!DrainSentinel
  <2>2. /\ x \in Streams!Row /\ x.events = row[s].events /\ x.lost = row[s].lost
        /\ x.agent = IF row[s].agent \in Streams!TerminalAgent \cup {"none"}
                     THEN row[s].agent ELSE "passed"
    BY <1>1, UpdatedRow DEF RunOK, Statuses
  <2> HIDE DEF x
  <2>3. ToldOf(runner[s], x) = ToldOf(runner[s], row[s])
    BY <2>2 DEF ToldOf
  <2>4. row[s].lost \/ x.agent = row[s].agent
    <3>1. row[s].agent \in ToldOf(runner[s], row[s]) =>
            row[s].agent \in Streams!TerminalAgent
      BY <1>2, <1>5 DEF RunOK, ToldOf, Streams!Runner, Streams!Verdicts,
        Streams!TerminalAgent
    <3> QED BY <1>2, <2>2, <3>1 DEF RunOK
  <2>5. RunOK("over", runner[s], q, x)
    BY <1>2, <1>4, <2>2, <2>3, <2>4 DEF RunOK, CompletedAlone, Starting, Early
  <2> QED BY <1>3, <1>4, <2>1, <2>5, LostOK, RunWrites
<1>6. CASE ~(runner[s].reason = "stop" /\ ~first[s].empty)
  <2>1. row' = [row EXCEPT ![s] = row[s]]
    BY <1>6 DEF Streams!DrainSentinel, RunsOK
  <2> QED BY <1>3, <1>4, <2>1, OneRunMoves
<1> QED BY <1>5, <1>6

LEMMA FinishKeeps ==
  ASSUME RunsOK, NEW s \in Runs, Streams!Finish(s)
  PROVE  RunsOK'
<1>1. /\ RunOK(stream[s], runner[s], queue[s], row[s]) /\ runner[s].at = "ended"
      /\ Streams!Move(s, "over") /\ UNCHANGED <<runner, queue, row>>
  BY DEF RunsOK, Streams!Finish
<1>2. RunOK("over", runner[s], queue[s], row[s])
  BY <1>1 DEF RunOK, Starting, Streams!Positions
<1> QED BY <1>1, <1>2, GeneratorMoves

-----------------------------------------------------------------------------
(* Steps of one run: its runner.                                           *)

\* A runner at work has a generator that reads its queue, or awaits it.
LEMMA AtWork ==
  ASSUME NEW st, NEW r, NEW q, NEW x, RunOK(st, r, q, x), r.at \in Streams!Live
  PROVE  st \in {"streaming", "aborting", "draining"} /\ ~r.sent
BY DEF RunOK, Streams!Positions, Streams!Live, Streams!Body, Streams!Closing, Starting

LEMMA TaskMoves ==
  ASSUME RunsOK, NEW s \in Runs, NEW r, NEW q, RunOK(stream[s], r, q, row[s]),
         runner' = [runner EXCEPT ![s] = r], queue' = [queue EXCEPT ![s] = q],
         UNCHANGED <<stream, row>>
  PROVE  RunsOK'
<1> DEFINE st == stream[s]
           x == row[s]
<1>1. stream' = [stream EXCEPT ![s] = st] /\ row' = [row EXCEPT ![s] = x]
  BY DEF RunsOK
<1>2. RunOK(st, r, q, x)
  OBVIOUS
<1> HIDE DEF st, x
<1> QED BY <1>1, <1>2, OneRunMoves

LEMMA TaskWrites ==
  ASSUME RunsOK, NEW s \in Runs, NEW r, NEW new,
         RunOK(stream[s], r, queue[s], new),
         RunOK(stream[s], r, queue[s], [row[s] EXCEPT !.lost = TRUE]),
         runner' = [runner EXCEPT ![s] = r], UNCHANGED <<stream, queue>>,
         Streams!Write(s, new)
  PROVE  RunsOK'
<1> DEFINE st == stream[s]
           q == queue[s]
<1>1. stream' = [stream EXCEPT ![s] = st] /\ queue' = [queue EXCEPT ![s] = q]
  BY DEF RunsOK
<1>2. RunOK(st, r, q, new) /\ RunOK(st, r, q, [row[s] EXCEPT !.lost = TRUE])
  OBVIOUS
<1> HIDE DEF st, q
<1> QED BY <1>1, <1>2, RunWrites

LEMMA BeginKeeps ==
  ASSUME RunsOK, NEW s \in Runs, Streams!Begin(s)
  PROVE  RunsOK'
<1> DEFINE r == [runner[s] EXCEPT !.at = "thinking"]
           q == queue[s]
<1>1. RunOK(stream[s], runner[s], q, row[s]) /\ runner[s].at = "scheduled"
  BY DEF RunsOK, Streams!Begin
<1>2. /\ r \in Streams!Runner /\ r.at = "thinking" /\ r.reason = runner[s].reason
      /\ r.verdict = runner[s].verdict /\ r.empty = runner[s].empty
      /\ r.sent = runner[s].sent
  BY <1>1 DEF RunOK, Streams!Runner, Streams!Live, Streams!Body
<1>3. /\ runner' = [runner EXCEPT ![s] = r] /\ queue' = [queue EXCEPT ![s] = q]
      /\ UNCHANGED <<stream, row>>
  BY DEF Streams!Begin, RunsOK
<1>4. stream[s] \in {"streaming", "aborting", "draining"}
  BY <1>1, AtWork DEF Streams!Live
<1> HIDE DEF r, q
<1>5. RunOK(stream[s], r, q, row[s])
  BY <1>1, <1>2, <1>4 DEF RunOK, Early, Starting, CompletedAlone
<1> QED BY <1>3, <1>5, TaskMoves

LEMMA ChunkKeeps ==
  ASSUME RunsOK, NEW s \in Runs, Streams!Chunk(s)
  PROVE  RunsOK'
<1> DEFINE r == [runner[s] EXCEPT !.chunks = @ + 1]
           q == Append(queue[s], "chunk")
<1>1. /\ RunOK(stream[s], runner[s], queue[s], row[s]) /\ runner[s].at = "thinking"
      /\ runner[s].chunks < MaxChunks
  BY DEF RunsOK, Streams!Chunk
<1>2. /\ r \in Streams!Runner /\ r.at = "thinking" /\ r.reason = runner[s].reason
      /\ r.verdict = runner[s].verdict /\ r.empty = runner[s].empty
      /\ r.sent = runner[s].sent
  <2>1. runner[s] \in Streams!Runner /\ MaxChunks \in Nat
    BY <1>1, StreamParameters DEF RunOK, Streams!Parameters
  <2>2. runner[s].chunks + 1 \in 0..MaxChunks
    BY <1>1, <2>1 DEF Streams!Runner
  <2> QED BY <1>1, <2>1, <2>2 DEF Streams!Runner
<1>3. /\ q \in Seq({"chunk", "sentinel"})
      /\ \A i \in DOMAIN q : q[i] = "sentinel" => r.sent
  BY <1>1, <1>2 DEF RunOK
<1>4. /\ runner' = [runner EXCEPT ![s] = r] /\ queue' = [queue EXCEPT ![s] = q]
      /\ UNCHANGED <<stream, row>>
  BY DEF Streams!Chunk, RunsOK
<1> HIDE DEF r, q
<1>5. RunOK(stream[s], r, q, row[s])
  BY <1>1, <1>2, <1>3 DEF RunOK, Early, Starting, CompletedAlone
<1> QED BY <1>4, <1>5, TaskMoves

\* Row x, or row y noted as lost, after a step that leaves the loop for a reason.
LEMMA LoopLeft ==
  ASSUME NEW st, NEW r, NEW q, NEW x, RunOK(st, r, q, x), r.at = "thinking",
         NEW t \in Streams!Runner, t.at \in {"returning", "ending"},
         t.verdict = r.verdict, t.sent = r.sent,
         NEW y \in Streams!Row, y.events \in {{}, {"run_failed"}},
         Foretold(t, y), t.reason = "stop" => t.empty
  PROVE  RunOK(st, t, q, y)
<1>1. st \in {"streaming", "aborting", "draining"} /\ ~r.sent
  BY AtWork DEF Streams!Live, Streams!Body
<1> QED BY <1>1 DEF RunOK, Starting, Early, CompletedAlone

LEMMA AskApprovalKeeps ==
  ASSUME RunsOK, NEW s \in Runs, Streams!AskApproval(s)
  PROVE  RunsOK'
<1> DEFINE r == [runner[s] EXCEPT !.at = "returning", !.reason = "interrupted"]
           x == Streams!Updated(row[s], "waiting_approval")
           y == [row[s] EXCEPT !.lost = TRUE]
<1>1. RunOK(stream[s], runner[s], queue[s], row[s]) /\ runner[s].at = "thinking"
  BY DEF RunsOK, Streams!AskApproval
<1>2. /\ r \in Streams!Runner /\ r.at = "returning" /\ r.reason = "interrupted"
      /\ r.verdict = runner[s].verdict /\ r.empty = runner[s].empty
      /\ r.sent = runner[s].sent
  BY <1>1 DEF RunOK, Streams!Runner, Streams!Live, Streams!Body, Streams!Reasons
<1>3. /\ x \in Streams!Row /\ x.events = row[s].events
      /\ x.agent = IF row[s].agent \in Streams!TerminalAgent \cup {"none"}
                   THEN row[s].agent ELSE "waiting_approval"
  BY <1>1, UpdatedRow DEF RunOK, Statuses
<1>4. y \in Streams!Row /\ y.lost /\ y.events = row[s].events
  BY <1>1, LostRow DEF RunOK
<1>5. /\ runner' = [runner EXCEPT ![s] = r] /\ UNCHANGED <<stream, queue>>
      /\ Streams!Write(s, x)
  BY DEF Streams!AskApproval, Streams!Step, RunsOK
<1>6. /\ row[s].events = {} /\ row[s].agent = "running" /\ runner[s].verdict = None
  BY <1>1 DEF RunOK, Early
<1> HIDE DEF r, x, y
<1>7. Foretold(r, x) /\ Foretold(r, y)
  BY <1>2, <1>3, <1>4, <1>6, NoneIsNothing
    DEF Foretold, Open, Streams!Reasons, Streams!TerminalAgent
<1>8. RunOK(stream[s], r, queue[s], x) /\ RunOK(stream[s], r, queue[s], y)
  BY <1>1, <1>2, <1>3, <1>4, <1>6, <1>7, LoopLeft
<1> QED BY <1>5, <1>8, TaskWrites DEF y

LEMMA EmptyResponseKeeps ==
  ASSUME RunsOK, NEW s \in Runs, Streams!EmptyResponse(s)
  PROVE  RunsOK'
<1> DEFINE r == [runner[s] EXCEPT !.at = "returning", !.reason = "stop", !.empty = TRUE]
           x == Streams!GivenUp(row[s])
           y == [row[s] EXCEPT !.lost = TRUE]
<1>1. RunOK(stream[s], runner[s], queue[s], row[s]) /\ runner[s].at = "thinking"
  BY DEF RunsOK, Streams!EmptyResponse
<1>2. /\ r \in Streams!Runner /\ r.at = "returning" /\ r.reason = "stop"
      /\ r.verdict = runner[s].verdict /\ r.empty /\ r.sent = runner[s].sent
  BY <1>1 DEF RunOK, Streams!Runner, Streams!Live, Streams!Body, Streams!Reasons
<1>3. /\ x \in Streams!Row /\ x.events = row[s].events \cup {"run_failed"}
      /\ x.agent = IF row[s].agent \in Streams!TerminalAgent \cup {"none"}
                   THEN row[s].agent ELSE "failed"
  BY <1>1, GivenUpRow DEF RunOK
<1>4. y \in Streams!Row /\ y.lost /\ y.events = row[s].events
  BY <1>1, LostRow DEF RunOK
<1>5. /\ runner' = [runner EXCEPT ![s] = r] /\ UNCHANGED <<stream, queue>>
      /\ Streams!Write(s, x)
  BY DEF Streams!EmptyResponse, RunsOK
<1>6. /\ row[s].events = {} /\ row[s].agent = "running" /\ runner[s].verdict = None
  BY <1>1 DEF RunOK, Early
<1> HIDE DEF r, x, y
<1>7. Foretold(r, x) /\ Foretold(r, y)
  BY <1>2, <1>3, <1>4, <1>6, NoneIsNothing
    DEF Foretold, Open, Streams!Reasons, Streams!TerminalAgent
<1>8. RunOK(stream[s], r, queue[s], x) /\ RunOK(stream[s], r, queue[s], y)
  BY <1>1, <1>2, <1>3, <1>4, <1>6, <1>7, LoopLeft
<1> QED BY <1>5, <1>8, TaskWrites DEF y

LEMMA GiveUpKeeps ==
  ASSUME RunsOK, NEW s \in Runs, Streams!GiveUp(s)
  PROVE  RunsOK'
<1>0. PICK reason \in {"loop_cap_exceeded", "max_iterations"} :
        Streams!Step(s, "returning", reason)
  BY DEF Streams!GiveUp
<1> DEFINE r == [runner[s] EXCEPT !.at = "returning", !.reason = reason]
           x == Streams!GivenUp(row[s])
           y == [row[s] EXCEPT !.lost = TRUE]
<1>1. RunOK(stream[s], runner[s], queue[s], row[s]) /\ runner[s].at = "thinking"
  BY DEF RunsOK, Streams!GiveUp
<1>2. /\ r \in Streams!Runner /\ r.at = "returning" /\ r.reason = reason
      /\ r.verdict = runner[s].verdict /\ r.empty = runner[s].empty
      /\ r.sent = runner[s].sent
  BY <1>1 DEF RunOK, Streams!Runner, Streams!Live, Streams!Body, Streams!Reasons
<1>3. /\ x \in Streams!Row /\ x.events = row[s].events \cup {"run_failed"}
      /\ x.agent = IF row[s].agent \in Streams!TerminalAgent \cup {"none"}
                   THEN row[s].agent ELSE "failed"
  BY <1>1, GivenUpRow DEF RunOK
<1>4. y \in Streams!Row /\ y.lost /\ y.events = row[s].events
  BY <1>1, LostRow DEF RunOK
<1>5. /\ runner' = [runner EXCEPT ![s] = r] /\ UNCHANGED <<stream, queue>>
      /\ Streams!Write(s, x)
  BY <1>0 DEF Streams!GiveUp, Streams!Step, RunsOK
<1>6. /\ row[s].events = {} /\ row[s].agent = "running" /\ runner[s].verdict = None
  BY <1>1 DEF RunOK, Early
<1> HIDE DEF r, x, y
<1>7. Foretold(r, x) /\ Foretold(r, y)
  BY <1>2, <1>3, <1>4, <1>6, NoneIsNothing
    DEF Foretold, Open, Streams!Reasons, Streams!TerminalAgent
<1>8. RunOK(stream[s], r, queue[s], x) /\ RunOK(stream[s], r, queue[s], y)
  BY <1>1, <1>2, <1>3, <1>4, <1>6, <1>7, LoopLeft
<1> QED BY <1>5, <1>8, TaskWrites DEF y

LEMMA LeaveKeeps ==
  ASSUME RunsOK, NEW s \in Runs, Streams!Leave(s)
  PROVE  RunsOK'
<1>0. PICK reason \in {"error", "noop"} : Streams!Step(s, "ending", reason)
  BY DEF Streams!Leave
<1> DEFINE r == [runner[s] EXCEPT !.at = "ending", !.reason = reason]
           q == queue[s]
<1>1. RunOK(stream[s], runner[s], q, row[s]) /\ runner[s].at = "thinking"
  BY DEF RunsOK, Streams!Leave
<1>2. /\ r \in Streams!Runner /\ r.at = "ending" /\ r.reason = reason
      /\ r.verdict = runner[s].verdict /\ r.empty = runner[s].empty
      /\ r.sent = runner[s].sent
  BY <1>1 DEF RunOK, Streams!Runner, Streams!Live, Streams!Closing, Streams!Reasons
<1>3. /\ runner' = [runner EXCEPT ![s] = r] /\ queue' = [queue EXCEPT ![s] = q]
      /\ UNCHANGED <<stream, row>>
  BY <1>0 DEF Streams!Leave, Streams!Step, RunsOK
<1>4. /\ row[s].events = {} /\ row[s].agent = "running" /\ runner[s].verdict = None
      /\ row[s] \in Streams!Row
  BY <1>1 DEF RunOK, Early
<1> HIDE DEF r, q
<1>5. Foretold(r, row[s])
  BY <1>2, <1>4, NoneIsNothing DEF Foretold, Open, Streams!Reasons
<1>6. RunOK(stream[s], r, q, row[s])
  BY <1>1, <1>2, <1>4, <1>5, LoopLeft
<1> QED BY <1>3, <1>6, TaskMoves

LEMMA AnswerKeeps ==
  ASSUME RunsOK, NEW s \in Runs, Streams!Answer(s)
  PROVE  RunsOK'
<1> DEFINE r == [runner[s] EXCEPT !.at = "answered"]
           x == Streams!WithAnswer(row[s])
           q == queue[s]
           st == stream[s]
<1>1. RunOK(st, runner[s], q, row[s]) /\ runner[s].at = "thinking"
  BY DEF RunsOK, Streams!Answer
<1>2. /\ r \in Streams!Runner /\ r.at = "answered" /\ r.reason = runner[s].reason
      /\ r.verdict = runner[s].verdict /\ r.empty = runner[s].empty
      /\ r.sent = runner[s].sent
  BY <1>1 DEF RunOK, Streams!Runner, Streams!Live, Streams!Body
<1>3. /\ x \in Streams!Row /\ x.events = row[s].events /\ x.agent = row[s].agent
  BY <1>1, WithAnswerRow DEF RunOK
<1>4. /\ runner' = [runner EXCEPT ![s] = r] /\ queue' = [queue EXCEPT ![s] = q]
      /\ stream' = [stream EXCEPT ![s] = st] /\ row' = [row EXCEPT ![s] = x]
  BY DEF Streams!Answer, RunsOK
<1>5. st \in {"streaming", "aborting", "draining"} /\ ~runner[s].sent
  BY <1>1, AtWork DEF Streams!Live, Streams!Body
<1> HIDE DEF r, x, q, st
<1>6. RunOK(st, r, q, x)
  BY <1>1, <1>2, <1>3, <1>5 DEF RunOK, Early, Starting, CompletedAlone
<1> QED BY <1>4, <1>6, OneRunMoves

LEMMA CompleteKeeps ==
  ASSUME RunsOK, NEW s \in Runs, Streams!Complete(s)
  PROVE  RunsOK'
<1> DEFINE r == [runner[s] EXCEPT !.at = "verifying"]
           u == Streams!Updated(row[s], "verifying")
           x == [u EXCEPT !.events = @ \cup {"run_completed"}]
           y == [row[s] EXCEPT !.lost = TRUE]
<1>1. RunOK(stream[s], runner[s], queue[s], row[s]) /\ runner[s].at = "answered"
  BY DEF RunsOK, Streams!Complete
<1>2. /\ r \in Streams!Runner /\ r.at = "verifying" /\ r.reason = runner[s].reason
      /\ r.verdict = runner[s].verdict /\ r.empty = runner[s].empty
      /\ r.sent = runner[s].sent
  BY <1>1 DEF RunOK, Streams!Runner, Streams!Live, Streams!Body
<1>3. /\ u \in Streams!Row /\ u.events = row[s].events
      /\ u.agent = IF row[s].agent \in Streams!TerminalAgent \cup {"none"}
                   THEN row[s].agent ELSE "verifying"
  BY <1>1, UpdatedRow DEF RunOK, Statuses
<1>4. y \in Streams!Row /\ y.lost /\ y.events = row[s].events /\ y.agent = row[s].agent
  BY <1>1, LostRow DEF RunOK
<1>5. /\ runner' = [runner EXCEPT ![s] = r] /\ UNCHANGED <<stream, queue>>
      /\ Streams!Write(s, x)
  BY DEF Streams!Complete, RunsOK
<1>6. row[s].events = {} /\ row[s].agent = "running"
  BY <1>1 DEF RunOK, Early
<1>7. stream[s] \in {"streaming", "aborting", "draining"} /\ ~runner[s].sent
  BY <1>1, AtWork DEF Streams!Live, Streams!Body
<1> HIDE DEF u
<1>8. /\ x \in Streams!Row /\ x.events = {"run_completed"} /\ x.agent = "verifying"
  BY <1>3, <1>6 DEF Streams!Row, Streams!TerminalAgent
<1> HIDE DEF r, x, y
<1>9. RunOK(stream[s], r, queue[s], x) /\ RunOK(stream[s], r, queue[s], y)
  BY <1>1, <1>2, <1>4, <1>6, <1>7, <1>8 DEF RunOK, Early, Starting, CompletedAlone
<1> QED BY <1>5, <1>9, TaskWrites DEF y

LEMMA JudgeKeeps ==
  ASSUME RunsOK, NEW s \in Runs, Streams!Judge(s)
  PROVE  RunsOK'
<1>0. PICK v \in Streams!Verdicts :
        /\ runner' = [runner EXCEPT ![s].at = "returning", ![s].reason = "stop",
                                    ![s].verdict = v]
        /\ Streams!Write(s, Streams!Updated(row[s], v))
  BY DEF Streams!Judge
<1> DEFINE r == [runner[s] EXCEPT !.at = "returning", !.reason = "stop", !.verdict = v]
           x == Streams!Updated(row[s], v)
           y == [row[s] EXCEPT !.lost = TRUE]
<1>1. RunOK(stream[s], runner[s], queue[s], row[s]) /\ runner[s].at = "verifying"
  BY DEF RunsOK, Streams!Judge
<1>2. /\ r \in Streams!Runner /\ r.at = "returning" /\ r.reason = "stop"
      /\ r.verdict = v /\ r.empty = runner[s].empty /\ r.sent = runner[s].sent
  BY <1>1 DEF RunOK, Streams!Runner, Streams!Live, Streams!Body, Streams!Reasons
<1>3. /\ x \in Streams!Row /\ x.events = row[s].events
      /\ x.agent = IF row[s].agent \in Streams!TerminalAgent \cup {"none"}
                   THEN row[s].agent ELSE v
  BY <1>1, UpdatedRow DEF RunOK, Statuses, Streams!Verdicts
<1>4. y \in Streams!Row /\ y.lost /\ y.events = row[s].events
  BY <1>1, LostRow DEF RunOK
<1>5. /\ runner' = [runner EXCEPT ![s] = r] /\ UNCHANGED <<stream, queue>>
      /\ Streams!Write(s, x)
  BY <1>0 DEF Streams!Judge, RunsOK
<1>6. stream[s] \in {"streaming", "aborting", "draining"} /\ ~runner[s].sent
  BY <1>1, AtWork DEF Streams!Live, Streams!Body
<1>7. /\ row[s].agent \in {"running", "verifying"} /\ ~runner[s].empty /\ v # None
      /\ "run_failed" \notin row[s].events
  BY <1>1, NoneIsNothing DEF RunOK
<1> HIDE DEF r, x, y
<1>8. Foretold(r, x) /\ Foretold(r, y)
  BY <1>2, <1>3, <1>4, <1>7, NoneIsNothing
    DEF Foretold, Streams!Reasons, Streams!TerminalAgent
<1>9. RunOK(stream[s], r, queue[s], x) /\ RunOK(stream[s], r, queue[s], y)
  BY <1>1, <1>2, <1>3, <1>4, <1>6, <1>7, <1>8 DEF RunOK, Early, Starting, CompletedAlone
<1> QED BY <1>5, <1>9, TaskWrites DEF y

LEMMA ReturnKeeps ==
  ASSUME RunsOK, NEW s \in Runs, Streams!Return(s)
  PROVE  RunsOK'
<1> DEFINE r == [runner[s] EXCEPT !.at = "ending"]
           q == queue[s]
<1>1. RunOK(stream[s], runner[s], q, row[s]) /\ runner[s].at = "returning"
  BY DEF RunsOK, Streams!Return
<1>2. /\ r \in Streams!Runner /\ r.at = "ending" /\ r.reason = runner[s].reason
      /\ r.verdict = runner[s].verdict /\ r.empty = runner[s].empty
      /\ r.sent = runner[s].sent
  BY <1>1 DEF RunOK, Streams!Runner, Streams!Live, Streams!Closing
<1>3. /\ runner' = [runner EXCEPT ![s] = r] /\ queue' = [queue EXCEPT ![s] = q]
      /\ UNCHANGED <<stream, row>>
  BY DEF Streams!Return, RunsOK
<1>4. stream[s] \in {"streaming", "aborting", "draining"} /\ ~runner[s].sent
  BY <1>1, AtWork DEF Streams!Live, Streams!Body
<1> HIDE DEF r, q
<1>5. RunOK(stream[s], r, q, row[s])
  BY <1>1, <1>2, <1>4 DEF RunOK, Early, Starting, CompletedAlone, Foretold
<1> QED BY <1>3, <1>5, TaskMoves

\* What a runner persists says how it ended: the verdict and what the loop gave up
\* are there already, and the rest is written here.
LEMMA OutcomeTold ==
  ASSUME RunsOK, NEW s \in Runs, runner[s].at = "ending"
  PROVE  LET x == Streams!Outcome(s) IN
           /\ x \in Streams!Row /\ x.lost = row[s].lost
           /\ x.lost \/ x.agent \in ToldOf(runner[s], x)
           /\ CompletedAlone(runner[s], x)
<1> DEFINE r == runner[s]
           x == Streams!Outcome(s)
<1>1. /\ row[s] \in Streams!Row /\ Foretold(r, row[s]) /\ CompletedAlone(r, row[s])
      /\ r.reason = "stop" /\ ~r.empty => r.verdict # None
      /\ r.reason \in Streams!Reasons \cup {None} /\ r.at = "ending"
      /\ r.verdict \in Streams!Verdicts \cup {None}
  BY DEF RunsOK, RunOK, Streams!Runner
<1> DEFINE f == Streams!WithOutcome(row[s], "failed")
           c == Streams!WithOutcome(row[s], "cancelled")
           d == Streams!Updated(row[s], "completed")
<1>2. /\ f \in Streams!Row /\ f.lost = row[s].lost
      /\ f.events = row[s].events \cup {"run_failed"}
      /\ f.agent = IF row[s].agent \in Streams!TerminalAgent \cup {"none"}
                   THEN row[s].agent ELSE "failed"
  BY <1>1, WithOutcomeRow
<1>3. /\ c \in Streams!Row /\ c.lost = row[s].lost
      /\ c.events = row[s].events \cup {"run_cancelled"}
      /\ c.agent = IF row[s].agent \in Streams!TerminalAgent \cup {"none"}
                   THEN row[s].agent ELSE "cancelled"
  BY <1>1, WithOutcomeRow
<1>4. /\ d \in Streams!Row /\ d.lost = row[s].lost /\ d.events = row[s].events
      /\ d.agent = IF row[s].agent \in Streams!TerminalAgent \cup {"none"}
                   THEN row[s].agent ELSE "passed"
  BY <1>1, UpdatedRow DEF Statuses
<1>5. x = CASE r.reason \in {"error", "loop_cap_exceeded"} -> f
            [] r.reason = "cancelled" -> c
            [] r.reason = "stop" /\ r.empty -> f
            [] r.reason = "stop" /\ ~r.empty -> d
            [] OTHER -> row[s]
  BY DEF Streams!Outcome
<1> HIDE DEF r, x, f, c, d
<1>6. CASE r.reason \in {"error", "loop_cap_exceeded"}
  <2>1. x = f
    BY <1>5, <1>6
  <2>2. row[s].lost \/ row[s].agent \in Open \cup {"failed"}
    BY <1>1, <1>6 DEF Foretold
  <2>3. x.lost \/ x.agent = "failed"
    BY <1>2, <2>1, <2>2 DEF Open, Streams!TerminalAgent
  <2>4. "run_completed" \notin x.events
    BY <1>1, <1>2, <1>6, <2>1, NoneIsNothing DEF CompletedAlone, Streams!Reasons
  <2> QED BY <1>2, <1>6, <2>1, <2>3, <2>4 DEF ToldOf, CompletedAlone, x, r
<1>7. CASE r.reason = "cancelled"
  <2>1. x = c
    BY <1>5, <1>7
  <2>2. "run_failed" \in c.events <=> "run_failed" \in row[s].events
    BY <1>3
  <2>3. x.lost \/ x.agent \in ToldOf(r, x)
    <3>1. CASE r.verdict # None
      BY <1>1, <1>3, <1>7, <2>1, <3>1
        DEF Foretold, ToldOf, Streams!Verdicts, Streams!TerminalAgent
    <3>2. CASE r.verdict = None /\ "run_failed" \in row[s].events
      BY <1>1, <1>3, <1>7, <2>1, <2>2, <3>2 DEF Foretold, ToldOf, Streams!TerminalAgent
    <3>3. CASE r.verdict = None /\ "run_failed" \notin row[s].events
      BY <1>1, <1>3, <1>7, <2>1, <2>2, <3>3 DEF Foretold, ToldOf, Open, Streams!TerminalAgent
    <3> QED BY <3>1, <3>2, <3>3
  <2>4. CompletedAlone(r, x)
    BY <1>1, <1>3, <2>1 DEF CompletedAlone
  <2> QED BY <1>3, <2>1, <2>3, <2>4 DEF x, r
<1>8. CASE r.reason = "stop" /\ r.empty
  <2>1. x = f
    BY <1>5, <1>8
  <2>2. row[s].lost \/ row[s].agent = "failed"
    BY <1>1, <1>8 DEF Foretold
  <2>3. x.lost \/ x.agent = "failed"
    BY <1>2, <2>1, <2>2 DEF Streams!TerminalAgent
  <2>4. "run_completed" \notin x.events
    BY <1>1, <1>2, <1>8, <2>1 DEF CompletedAlone
  <2> QED BY <1>2, <1>8, <2>1, <2>3, <2>4 DEF ToldOf, CompletedAlone, x, r
<1>9. CASE r.reason = "stop" /\ ~r.empty
  <2>1. x = d
    BY <1>5, <1>9
  <2>2. row[s].lost \/ row[s].agent = r.verdict
    BY <1>1, <1>9 DEF Foretold
  <2>3. x.lost \/ x.agent = r.verdict
    BY <1>1, <1>4, <1>9, <2>1, <2>2 DEF Streams!Verdicts, Streams!TerminalAgent
  <2>4. CompletedAlone(r, x)
    BY <1>1, <1>4, <2>1 DEF CompletedAlone
  <2> QED BY <1>4, <1>9, <2>1, <2>3, <2>4 DEF ToldOf, x, r
<1>10. CASE r.reason \in {"max_iterations", "interrupted", "noop"}
  <2>1. x = row[s]
    BY <1>5, <1>10
  <2>2. row[s].lost \/ row[s].agent \in ToldOf(r, row[s])
    BY <1>1, <1>10 DEF Foretold, ToldOf
  <2> QED BY <1>1, <2>1, <2>2 DEF x, r
<1> QED BY <1>1, <1>6, <1>7, <1>8, <1>9, <1>10 DEF Foretold, Streams!Reasons

LEMMA SettleKeeps ==
  ASSUME RunsOK, NEW s \in Runs, Streams!Settle(s)
  PROVE  RunsOK'
<1> DEFINE r == [runner[s] EXCEPT !.at = "settled"]
           x == Streams!Outcome(s)
           y == [row[s] EXCEPT !.lost = TRUE]
<1>1. RunOK(stream[s], runner[s], queue[s], row[s]) /\ runner[s].at = "ending"
  BY DEF RunsOK, Streams!Settle
<1>2. /\ r \in Streams!Runner /\ r.at = "settled" /\ r.reason = runner[s].reason
      /\ r.verdict = runner[s].verdict /\ r.empty = runner[s].empty
      /\ r.sent = runner[s].sent
  BY <1>1 DEF RunOK, Streams!Runner, Streams!Live, Streams!Closing
<1>3. /\ x \in Streams!Row
      /\ x.lost \/ x.agent \in ToldOf(runner[s], x)
      /\ CompletedAlone(runner[s], x)
  BY <1>1, OutcomeTold
<1>4. y \in Streams!Row /\ y.lost /\ y.events = row[s].events
  BY <1>1, LostRow DEF RunOK
<1>5. /\ runner' = [runner EXCEPT ![s] = r] /\ UNCHANGED <<stream, queue>>
      /\ Streams!Write(s, x)
  BY DEF Streams!Settle, RunsOK
<1>6. stream[s] \in {"streaming", "aborting", "draining"} /\ ~runner[s].sent
  BY <1>1, AtWork DEF Streams!Live, Streams!Closing
<1> HIDE DEF r, x, y
<1>7. /\ x \in Streams!Row
      /\ x.lost \/ x.agent \in ToldOf(r, x)
      /\ CompletedAlone(r, x)
  BY <1>2, <1>3 DEF ToldOf, CompletedAlone, Early
<1>8. RunOK(stream[s], r, queue[s], x) /\ RunOK(stream[s], r, queue[s], y)
  BY <1>1, <1>2, <1>4, <1>6, <1>7 DEF RunOK, Early, Starting, CompletedAlone
<1> QED BY <1>5, <1>8, TaskWrites DEF y

LEMMA PutSentinelKeeps ==
  ASSUME RunsOK, NEW s \in Runs, Streams!PutSentinel(s)
  PROVE  RunsOK'
<1> DEFINE r == [runner[s] EXCEPT !.at = "ended", !.sent = TRUE]
           q == Append(queue[s], "sentinel")
<1>1. RunOK(stream[s], runner[s], queue[s], row[s]) /\ runner[s].at = "settled"
  BY DEF RunsOK, Streams!PutSentinel
<1>2. /\ r \in Streams!Runner /\ r.at = "ended" /\ r.reason = runner[s].reason
      /\ r.verdict = runner[s].verdict /\ r.empty = runner[s].empty /\ r.sent
  BY <1>1 DEF RunOK, Streams!Runner
<1>3. /\ q \in Seq({"chunk", "sentinel"})
      /\ \A i \in DOMAIN q : q[i] = "sentinel" => r.sent
  BY <1>1, <1>2 DEF RunOK
<1>4. /\ runner' = [runner EXCEPT ![s] = r] /\ queue' = [queue EXCEPT ![s] = q]
      /\ UNCHANGED <<stream, row>>
  BY DEF Streams!PutSentinel, RunsOK
<1>5. stream[s] \in {"streaming", "aborting", "draining"}
  BY <1>1, AtWork DEF Streams!Live, Streams!Closing
<1> HIDE DEF r, q
<1>6. ToldOf(r, row[s]) = ToldOf(runner[s], row[s])
  BY <1>2 DEF ToldOf
<1>7. RunOK(stream[s], r, q, row[s])
  BY <1>1, <1>2, <1>3, <1>5, <1>6 DEF RunOK, Early, Starting, CompletedAlone
<1> QED BY <1>4, <1>7, TaskMoves

\* Every step of a runner.
LEMMA TaskKeeps ==
  ASSUME RunsOK, NEW s \in Runs, Streams!Task(s)
  PROVE  RunsOK'
BY BeginKeeps, ChunkKeeps, AskApprovalKeeps, EmptyResponseKeeps, GiveUpKeeps, LeaveKeeps,
  AnswerKeeps, CompleteKeeps, JudgeKeeps, ReturnKeeps, SettleKeeps, PutSentinelKeeps
  DEF Streams!Task

-----------------------------------------------------------------------------
(* Steps of one run and of several: cancellation, crash, sweep.            *)

LEMMA AbortKeeps ==
  ASSUME RunsOK, NEW s \in Runs, Streams!Abort(s)
  PROVE  RunsOK'
<1> DEFINE r == Streams!Interrupted(runner[s])
           q == queue[s]
           x == row[s]
<1>1. /\ RunOK(stream[s], runner[s], q, x) /\ stream[s] \in {"streaming", "aborting"}
  BY DEF RunsOK, Streams!Abort
<1>2. /\ stream' = [stream EXCEPT ![s] = "aborting"] /\ runner' = [runner EXCEPT ![s] = r]
      /\ queue' = [queue EXCEPT ![s] = q] /\ row' = [row EXCEPT ![s] = x]
  BY DEF Streams!Abort, Streams!Move, RunsOK
<1>3. RunOK("aborting", runner[s], q, x)
  BY <1>1 DEF RunOK, Starting, Streams!Positions
<1>4. RunOK("aborting", r, q, x)
  BY <1>3, InterruptedOK
<1> HIDE DEF r, q, x
<1> QED BY <1>2, <1>4, OneRunMoves

LEMMA ReconcileKeeps ==
  ASSUME RunsOK, NEW s \in Runs, Streams!Reconcile(s)
  PROVE  RunsOK'
<1> DEFINE st == stream[s]
           r == runner[s]
           q == queue[s]
           x == [row[s] EXCEPT !.session = "failed", !.abandoned = TRUE]
<1>1. RunOK(st, r, q, row[s])
  BY DEF RunsOK
<1>2. /\ x \in Streams!Row /\ x.agent = row[s].agent /\ x.events = row[s].events
      /\ x.lost = row[s].lost
  BY <1>1 DEF RunOK, Streams!Row, Streams!TerminalSession
<1>3. /\ stream' = [stream EXCEPT ![s] = st] /\ row' = [row EXCEPT ![s] = x]
      /\ runner' = [runner EXCEPT ![s] = r] /\ queue' = [queue EXCEPT ![s] = q]
  BY DEF Streams!Reconcile, RunsOK
<1> HIDE DEF st, r, q, x
<1>4. RunOK(st, r, q, x)
  BY <1>1, <1>2 DEF RunOK, CompletedAlone, Foretold, ToldOf
<1> QED BY <1>3, <1>4, OneRunMoves

LEMMA CancelRunsKeeps ==
  ASSUME RunsOK, NEW t, Streams!CancelRuns(t)
  PROVE  RunsOK'
<1>1. PICK swallowed : runner' = [u \in Runs |-> IF InThread[u] = t /\ u \notin swallowed
                                  THEN Streams!Interrupted(runner[u]) ELSE runner[u]]
  BY DEF Streams!CancelRuns
<1>2. UNCHANGED <<stream, queue, row>>
  BY DEF Streams!CancelRuns
<1>3. ASSUME NEW u \in Runs
      PROVE  RunOK(stream'[u], runner'[u], queue'[u], row'[u])
  <2>1. RunOK(stream[u], runner[u], queue[u], row[u])
    BY DEF RunsOK
  <2>2. RunOK(stream[u], Streams!Interrupted(runner[u]), queue[u], row[u])
    BY <2>1, InterruptedOK
  <2>3. runner'[u] = Streams!Interrupted(runner[u]) \/ runner'[u] = runner[u]
    BY <1>1
  <2> QED BY <1>2, <2>1, <2>2, <2>3
<1>4. runner' \in [Runs -> Streams!Runner]
  <2>1. \A u \in Runs : runner'[u] \in Streams!Runner
    BY <1>3 DEF RunOK
  <2> QED BY <1>1, <2>1
<1> QED BY <1>2, <1>3, <1>4 DEF RunsOK, RunOK, Foretold, CompletedAlone, ToldOf

LEMMA CrashKeeps ==
  ASSUME RunsOK, Streams!Crash
  PROVE  RunsOK'
<1>1. /\ stream' = [u \in Runs |-> IF stream[u] = "idle" THEN "idle" ELSE "over"]
      /\ runner' = [u \in Runs |-> IF runner[u].at \in Streams!Live
                                   THEN [runner[u] EXCEPT !.at = "ended", !.cut = TRUE]
                                   ELSE runner[u]]
      /\ queue' = [u \in Runs |-> <<>>] /\ row' = row
  BY DEF Streams!Crash
<1>2. ASSUME NEW u \in Runs
      PROVE  RunOK(stream'[u], runner'[u], queue'[u], row'[u])
  <2> DEFINE r == runner'[u]
  <2>1. RunOK(stream[u], runner[u], queue[u], row[u])
    BY DEF RunsOK
  <2>2. /\ r \in Streams!Runner /\ r.reason = runner[u].reason
        /\ r.verdict = runner[u].verdict /\ r.empty = runner[u].empty
        /\ r.sent = runner[u].sent
        /\ r.at = IF runner[u].at \in Streams!Live THEN "ended" ELSE runner[u].at
    BY <1>1, <2>1 DEF RunOK, Streams!Runner
  <2>3. /\ stream'[u] = IF stream[u] = "idle" THEN "idle" ELSE "over"
        /\ queue'[u] = <<>> /\ row'[u] = row[u]
    BY <1>1
  <2>4. queue'[u] \in Seq({"chunk", "sentinel"}) /\ DOMAIN queue'[u] = {}
    BY <2>3
  <2>5. r.at \in {"none", "ended"} /\ (stream[u] = "idle" => r.at = "none")
    BY <2>1, <2>2 DEF RunOK, Streams!Runner, Streams!Live, Streams!Body, Streams!Closing
  <2>6. r.at = "none" => runner[u].at = "none"
    BY <2>2
  <2>7. ToldOf(r, row[u]) = ToldOf(runner[u], row[u])
    BY <2>2 DEF ToldOf
  <2> HIDE DEF r
  <2>8. RunOK(stream'[u], r, queue'[u], row'[u])
    BY <2>1, <2>2, <2>3, <2>4, <2>5, <2>6, <2>7
      DEF RunOK, Starting, Early, CompletedAlone, Streams!Positions
  <2> QED BY <2>8 DEF r
<1>3. /\ stream' \in [Runs -> Streams!Positions] /\ runner' \in [Runs -> Streams!Runner]
      /\ queue' \in [Runs -> Seq({"chunk", "sentinel"})] /\ row' \in [Runs -> Streams!Row]
  <2>1. \A u \in Runs : /\ stream'[u] \in Streams!Positions /\ runner'[u] \in Streams!Runner
                        /\ queue'[u] \in Seq({"chunk", "sentinel"})
    BY <1>2 DEF RunOK
  <2> QED BY <1>1, <2>1 DEF RunsOK
<1> QED BY <1>2, <1>3 DEF RunsOK, RunOK, Foretold, CompletedAlone, ToldOf

LEMMA RunsKept ==
  ASSUME RunsOK, Streams!Next
  PROVE  RunsOK'
<1>1. ASSUME NEW s \in Runs, Streams!Generator(s)
      PROVE  RunsOK'
  BY <1>1, AtTheLock, StartRunKeeps, UpsertRunKeeps, SpawnKeeps, ConsumeKeeps,
    DrainChunkKeeps, DrainSentinelKeeps, FinishKeeps DEF Streams!Generator
<1>2. ASSUME NEW s \in Runs,
             Streams!Enter(s) \/ Streams!LeaveQueue(s) \/ Streams!FailToStart(s)
               \/ Streams!Disconnect(s) \/ Streams!Abort(s) \/ Streams!Reconcile(s)
      PROVE  RunsOK'
  BY <1>2, AtTheLock, DisconnectKeeps, AbortKeeps, ReconcileKeeps
<1> QED BY <1>1, <1>2, TaskKeeps, CancelRunsKeeps, CrashKeeps DEF Streams!Next

-----------------------------------------------------------------------------
(* The lock of a workspace.                                                *)

LEMMA Homes ==
  ASSUME NEW s \in Runs
  PROVE  InWorkspace[s] \in Workspaces \cup {None} /\ s # None
BY StreamParameters, NoneIsNothing DEF Streams!Parameters

\* A run that keeps its lock stays inside or outside; nobody else is concerned.
LEMMA LocksStay ==
  ASSUME RunsOK, LocksOK, NEW s \in Runs, UNCHANGED <<registry, lockOf, holder, waiters>>,
         \/ stream' = stream
         \/ stream[s] \in Inside /\ \E st \in Inside : stream' = [stream EXCEPT ![s] = st]
  PROVE  LocksOK'
<1>1. LocksTyped'
  BY DEF LocksOK, LocksTyped
<1>2. ASSUME NEW u \in Runs
      PROVE  LockOK(u)'
  <2>1. stream'[u] = stream[u] \/ (stream[u] \in Inside /\ stream'[u] \in Inside)
    BY DEF RunsOK
  <2>2. LockOK(u)
    BY DEF LocksOK
  <2>3. CASE stream'[u] = stream[u]
    BY <2>2, <2>3 DEF LockOK
  <2>4. CASE stream[u] \in Inside /\ stream'[u] \in Inside
    BY <2>2, <2>4 DEF LockOK, Inside, Starting
  <2> QED BY <2>1, <2>3, <2>4
<1> QED BY <1>1, <1>2 DEF LocksOK

LEMMA EnterLocks ==
  ASSUME RunsOK, LocksOK, NEW s \in Runs, Streams!Enter(s)
  PROVE  LocksOK'
<1> DEFINE w == InWorkspace[s]
           l == IF w # None /\ registry[w] # None THEN registry[w] ELSE s
<1>0. /\ stream[s] = "idle" /\ w \in Workspaces \cup {None} /\ s # None
      /\ stream \in [Runs -> Streams!Positions] /\ LocksTyped /\ LockOK(s)
      /\ l \in Runs /\ l # None
  BY Homes, NoneIsNothing DEF LocksOK, LocksTyped, RunsOK, Streams!Enter
<1>1. CASE w = None
  <2>1. /\ stream' = [stream EXCEPT ![s] = "starting"]
        /\ UNCHANGED <<registry, lockOf, holder, waiters>>
    BY <1>1 DEF Streams!Enter, Streams!Move, Streams!locks
  <2>2. LocksTyped'
    BY <1>0, <2>1 DEF LocksTyped
  <2>3. ASSUME NEW u \in Runs
        PROVE  LockOK(u)'
    <3>1. LockOK(u)
      BY DEF LocksOK
    <3>2. CASE u = s
      BY <1>0, <1>1, <2>1, <3>1, <3>2 DEF LockOK
    <3>3. CASE u # s
      BY <1>0, <2>1, <3>1, <3>3 DEF LockOK
    <3> QED BY <3>2, <3>3
  <2> QED BY <2>2, <2>3 DEF LocksOK
<1>2. CASE w # None
  <2>1. /\ registry' = [registry EXCEPT ![w] = l] /\ lockOf' = [lockOf EXCEPT ![s] = l]
        /\ w \in Workspaces
    BY <1>0, <1>2 DEF Streams!Enter
  <2>2. \/ registry[w] = None /\ l = s /\ holder[s] = None /\ waiters[s] = <<>>
        \/ registry[w] = l /\ l # s
    BY <1>0, <1>2, <2>1 DEF LockOK
  <2>3. ASSUME NEW u \in Runs, stream[u] \in Inside \cup {"waiting"}
        PROVE  /\ u # s /\ LockOK(u)
               /\ InWorkspace[u] # None => /\ registry'[InWorkspace[u]] = registry[InWorkspace[u]]
                                           /\ InWorkspace[u] \in Workspaces
    <3>1. u # s /\ LockOK(u)
      BY <1>0, <2>3 DEF LocksOK, Inside, Starting
    <3>2. ASSUME InWorkspace[u] # None
          PROVE  /\ registry'[InWorkspace[u]] = registry[InWorkspace[u]]
                 /\ InWorkspace[u] \in Workspaces
      <4>1. InWorkspace[u] \in Workspaces /\ registry[InWorkspace[u]] # None
        BY <2>3, <3>1, <3>2, Homes DEF LockOK
      <4>2. CASE InWorkspace[u] = w
        BY <1>0, <2>1, <2>2, <4>1, <4>2 DEF LocksTyped
      <4>3. CASE InWorkspace[u] # w
        BY <1>0, <2>1, <4>1, <4>3 DEF LocksTyped
      <4> QED BY <4>1, <4>2, <4>3
    <3> QED BY <3>1, <3>2
  <2>4. ASSUME NEW u \in Runs, u # s, stream[u] = "idle"
        PROVE  /\ u # l /\ lockOf'[u] = None /\ LockOK(u)
               /\ \A v \in Workspaces : registry'[v] # u
               /\ \A v \in Runs : lockOf'[v] # u
    <3>1. LockOK(u)
      BY DEF LocksOK
    <3>2. u # l
      BY <2>1, <2>2, <2>4, <3>1 DEF LockOK
    <3> QED BY <1>0, <2>1, <2>4, <3>1, <3>2 DEF LockOK, LocksTyped
  <2>5. CASE holder[l] = None /\ waiters[l] = <<>>
    <3>1. /\ stream' = [stream EXCEPT ![s] = "starting"]
          /\ holder' = [holder EXCEPT ![l] = s] /\ waiters' = waiters
      BY <1>2, <2>5 DEF Streams!Enter, Streams!Move
    <3>2. LocksTyped'
      BY <1>0, <2>1, <3>1 DEF LocksTyped
    <3> HIDE DEF w, l
    <3>3. ASSUME NEW u \in Runs
          PROVE  LockOK(u)'
      <4>1. CASE u = s
        <5>1. stream'[s] = "starting" /\ lockOf'[s] = l /\ registry'[w] = l /\ holder'[l] = s
          BY <1>0, <2>1, <3>1 DEF LocksTyped
        <5> QED BY <1>0, <1>2, <4>1, <5>1 DEF LockOK, w
      <4>2. CASE u # s /\ stream[u] \in Inside \cup {"waiting"}
        <5>1. LockOK(u) /\ stream'[u] = stream[u] /\ lockOf'[u] = lockOf[u]
          BY <1>0, <2>1, <2>3, <3>1, <4>2 DEF LocksTyped
        <5>2. InWorkspace[u] # None /\ stream[u] \in Inside => lockOf[u] # l
          BY <1>0, <2>5, <4>2, <5>1, NoneIsNothing DEF LockOK
        <5>3. InWorkspace[u] # None /\ stream[u] \in Inside => holder'[lockOf[u]] = holder[lockOf[u]]
          BY <1>0, <3>1, <5>1, <5>2 DEF LockOK, LocksTyped
        <5>4. stream[u] # "idle"
          BY <4>2 DEF Inside, Starting
        <5> QED BY <2>3, <3>1, <4>2, <5>1, <5>3, <5>4 DEF LockOK
      <4>3. CASE u # s /\ stream[u] = "idle"
        <5>1. stream'[u] = "idle" /\ holder'[u] = holder[u] /\ waiters'[u] = waiters[u]
          BY <1>0, <2>4, <3>1, <4>3 DEF LocksTyped
        <5> QED BY <2>4, <4>3, <5>1 DEF LockOK, Inside, Starting
      <4>4. CASE u # s /\ stream[u] = "over"
        <5>1. stream'[u] = "over" /\ lockOf'[u] = lockOf[u] /\ LockOK(u)
          BY <1>0, <2>1, <3>1, <4>4 DEF LocksTyped, LocksOK
        <5> QED BY <5>1 DEF LockOK, Inside, Starting
      <4> QED BY <1>0, <4>1, <4>2, <4>3, <4>4 DEF Streams!Positions, Inside, Starting
    <3> QED BY <3>2, <3>3 DEF LocksOK
  <2>6. CASE ~(holder[l] = None /\ waiters[l] = <<>>)
    <3>1. /\ stream' = [stream EXCEPT ![s] = "waiting"]
          /\ waiters' = [waiters EXCEPT ![l] = Append(@, s)] /\ holder' = holder
      BY <1>2, <2>6 DEF Streams!Enter, Streams!Move
    <3>2. l # s /\ waiters[l] \in Seq(Runs)
      BY <1>0, <2>2, <2>6 DEF LocksTyped
    <3> HIDE DEF w, l
    <3>3. /\ waiters'[l] = Append(waiters[l], s)
          /\ \A v \in Runs \ {l} : waiters'[v] = waiters[v]
          /\ waiters'[l] \in Seq(Runs)
      BY <1>0, <3>1, <3>2 DEF LocksTyped
    <3>4. /\ Len(waiters[l]) + 1 \in DOMAIN waiters'[l]
          /\ waiters'[l][Len(waiters[l]) + 1] = s
          /\ \A i \in DOMAIN waiters[l] : i \in DOMAIN waiters'[l]
                                          /\ waiters'[l][i] = waiters[l][i]
      BY <3>2, <3>3
    <3>5. LocksTyped'
      BY <1>0, <2>1, <3>1, <3>2 DEF LocksTyped
    <3>6. ASSUME NEW u \in Runs
          PROVE  LockOK(u)'
      <4>1. CASE u = s
        <5>1. stream'[s] = "waiting" /\ lockOf'[s] = l /\ registry'[w] = l
          BY <1>0, <2>1, <3>1 DEF LocksTyped
        <5>2. "waiting" \notin Inside
          BY DEF Inside, Starting
        <5> QED BY <1>0, <1>2, <3>4, <4>1, <5>1, <5>2 DEF LockOK, w
      <4>2. CASE u # s /\ stream[u] \in Inside \cup {"waiting"}
        <5>1. LockOK(u) /\ stream'[u] = stream[u] /\ lockOf'[u] = lockOf[u]
          BY <1>0, <2>1, <2>3, <3>1, <4>2 DEF LocksTyped
        <5>2. stream[u] # "idle"
          BY <4>2 DEF Inside, Starting
        <5>3. stream[u] = "waiting" =>
                \E i \in DOMAIN waiters'[lockOf[u]] : waiters'[lockOf[u]][i] = u
          <6>1. SUFFICES ASSUME stream[u] = "waiting"
                         PROVE  \E i \in DOMAIN waiters'[lockOf[u]] : waiters'[lockOf[u]][i] = u
            OBVIOUS
          <6>2. lockOf[u] \in Runs
            BY <1>0, <5>1, <6>1 DEF LockOK, LocksTyped
          <6> QED BY <3>3, <3>4, <5>1, <6>1, <6>2 DEF LockOK
        <5> QED BY <2>3, <3>1, <4>2, <5>1, <5>2, <5>3 DEF LockOK
      <4>3. CASE u # s /\ stream[u] = "idle"
        <5>1. stream'[u] = "idle" /\ holder'[u] = holder[u] /\ waiters'[u] = waiters[u]
          BY <1>0, <2>4, <3>1, <3>3, <4>3 DEF LocksTyped
        <5> QED BY <2>4, <4>3, <5>1 DEF LockOK, Inside, Starting
      <4>4. CASE u # s /\ stream[u] = "over"
        <5>1. stream'[u] = "over" /\ lockOf'[u] = lockOf[u] /\ LockOK(u)
          BY <1>0, <2>1, <3>1, <4>4 DEF LocksTyped, LocksOK
        <5> QED BY <5>1 DEF LockOK, Inside, Starting
      <4> QED BY <1>0, <4>1, <4>2, <4>3, <4>4 DEF Streams!Positions, Inside, Starting
    <3> QED BY <3>5, <3>6 DEF LocksOK
  <2> QED BY <2>5, <2>6
<1> QED BY <1>1, <1>2

\* The queue of lock l lost one run that is not u: u, if it waits, still does.
LEMMA StillWaiting ==
  ASSUME RunsOK, LocksOK, NEW l \in Runs, NEW rest \in Seq(Runs), NEW u \in Runs,
         waiters' = [waiters EXCEPT ![l] = rest],
         UNCHANGED <<registry, lockOf>>, stream'[u] = stream[u],
         stream[u] = "waiting" /\ lockOf[u] = l => \E i \in DOMAIN rest : rest[i] = u,
         InWorkspace[u] # None /\ stream[u] \in Inside => holder'[lockOf[u]] = u,
         stream[u] = "idle" => u # l /\ holder'[u] = holder[u]
  PROVE  LockOK(u)'
<1>1. LocksTyped /\ LockOK(u)
  BY DEF LocksOK
<1>2. waiters'[l] = rest /\ \A v \in Runs \ {l} : waiters'[v] = waiters[v]
  BY <1>1 DEF LocksTyped
<1>3. stream[u] = "waiting" =>
        \E i \in DOMAIN waiters'[lockOf[u]] : waiters'[lockOf[u]][i] = u
  <2>1. SUFFICES ASSUME stream[u] = "waiting"
                 PROVE  \E i \in DOMAIN waiters'[lockOf[u]] : waiters'[lockOf[u]][i] = u
    OBVIOUS
  <2>2. lockOf[u] \in Runs
    BY <1>1, <2>1 DEF LockOK, LocksTyped
  <2> QED BY <1>1, <1>2, <2>1, <2>2 DEF LockOK
<1>4. stream[u] = "idle" => waiters'[u] = waiters[u]
  BY <1>2
<1> QED BY <1>1, <1>3, <1>4 DEF LockOK

LEMMA AcquireLocks ==
  ASSUME RunsOK, LocksOK, NEW s \in Runs, Streams!Acquire(s)
  PROVE  LocksOK'
<1> DEFINE l == lockOf[s]
           rest == Tail(waiters[l])
<1>1. /\ stream[s] = "waiting" /\ holder[l] = None /\ Head(waiters[l]) = s
      /\ holder' = [holder EXCEPT ![l] = s] /\ waiters' = [waiters EXCEPT ![l] = rest]
      /\ stream' = [stream EXCEPT ![s] = "starting"] /\ UNCHANGED <<registry, lockOf>>
  BY DEF Streams!Acquire, Streams!Move
<1>2. LocksTyped /\ LockOK(s) /\ stream \in [Runs -> Streams!Positions]
  BY DEF LocksOK, RunsOK
<1>3. /\ InWorkspace[s] # None /\ l \in Runs /\ waiters[l] \in Seq(Runs) /\ waiters[l] # <<>>
      /\ registry[InWorkspace[s]] = l
  BY <1>1, <1>2 DEF LockOK, LocksTyped
<1>4. /\ rest \in Seq(Runs) /\ waiters[l][1] = s
      /\ \A i \in DOMAIN waiters[l] : i = 1 \/ (i - 1 \in DOMAIN rest /\ rest[i - 1] = waiters[l][i])
  BY <1>1, <1>3
<1> HIDE DEF l, rest
<1>5. LocksTyped'
  BY <1>1, <1>2, <1>3, <1>4 DEF LocksTyped
<1>6. ASSUME NEW u \in Runs
      PROVE  LockOK(u)'
  <2>1. CASE u = s
    <3>1. stream'[s] = "starting" /\ lockOf'[s] = l /\ holder'[l] = s
      BY <1>1, <1>2, <1>3 DEF LocksTyped, l
    <3>2. registry'[InWorkspace[s]] = l /\ l # None
      BY <1>1, <1>3, NoneIsNothing
    <3> QED BY <1>3, <2>1, <3>1, <3>2 DEF LockOK
  <2>2. CASE u # s
    <3>1. LockOK(u) /\ stream'[u] = stream[u]
      BY <1>1, <1>2, <2>2 DEF LocksOK
    <3>2. ASSUME stream[u] = "waiting", lockOf[u] = l
          PROVE  \E i \in DOMAIN rest : rest[i] = u
      <4>1. PICK i \in DOMAIN waiters[l] : waiters[l][i] = u
        BY <3>1, <3>2 DEF LockOK
      <4> QED BY <1>4, <2>2, <4>1
    <3>3. ASSUME InWorkspace[u] # None, stream[u] \in Inside
          PROVE  holder'[lockOf[u]] = u
      <4>1. lockOf[u] \in Runs /\ holder[lockOf[u]] = u /\ u # None
        BY <1>2, <3>1, <3>3, NoneIsNothing DEF LockOK, LocksTyped
      <4>2. lockOf[u] # l
        BY <1>1, <4>1
      <4> QED BY <1>1, <1>2, <4>1, <4>2 DEF LocksTyped
    <3>4. ASSUME stream[u] = "idle"
          PROVE  u # l /\ holder'[u] = holder[u]
      <4>1. u # l
        BY <3>1, <3>4 DEF LockOK, l
      <4> QED BY <1>1, <1>2, <4>1 DEF LocksTyped
    <3> QED BY <1>1, <1>3, <1>4, <3>1, <3>2, <3>3, <3>4, StillWaiting
  <2> QED BY <2>1, <2>2
<1> QED BY <1>5, <1>6 DEF LocksOK

LEMMA RemovedFrom ==
  ASSUME NEW seq \in Seq(Runs), NEW i \in DOMAIN seq
  PROVE  LET rest == Streams!RemoveAt(seq, i) IN
           /\ rest \in Seq(Runs)
           /\ \A j \in DOMAIN seq : j = i \/ \E k \in DOMAIN rest : rest[k] = seq[j]
<1> DEFINE before == SubSeq(seq, 1, i - 1)
           after == SubSeq(seq, i + 1, Len(seq))
           rest == before \o after
<1>1. /\ i \in 1..Len(seq) /\ DOMAIN seq = 1..Len(seq) /\ Len(seq) \in Nat
  OBVIOUS
<1>2. /\ before \in Seq(Runs) /\ Len(before) = i - 1
      /\ \A j \in 1..(i - 1) : before[j] = seq[j]
  BY <1>1
<1>3. /\ after \in Seq(Runs) /\ Len(after) = Len(seq) - i
      /\ \A j \in 1..(Len(seq) - i) : after[j] = seq[i + j]
  BY <1>1
<1> HIDE DEF before, after
<1>4. rest \in Seq(Runs)
  BY <1>2, <1>3
<1>5. ASSUME NEW j \in DOMAIN seq, j # i
      PROVE  \E k \in DOMAIN rest : rest[k] = seq[j]
  <2>1. CASE j < i
    <3>1. j \in DOMAIN rest /\ rest[j] = seq[j]
      BY <1>1, <1>2, <1>3, <2>1
    <3> QED BY <3>1
  <2>2. CASE j > i
    <3>1. j - 1 \in DOMAIN rest /\ rest[j - 1] = after[j - i] /\ j - i \in 1..(Len(seq) - i)
      BY <1>1, <1>2, <1>3, <2>2
    <3>2. rest[j - 1] = seq[j]
      BY <1>1, <1>3, <3>1
    <3> QED BY <3>1, <3>2
  <2> QED BY <1>1, <1>5, <2>1, <2>2
<1> QED BY <1>4, <1>5 DEF Streams!RemoveAt, before, after

LEMMA LeaveQueueLocks ==
  ASSUME RunsOK, LocksOK, NEW s \in Runs, Streams!LeaveQueue(s)
  PROVE  LocksOK'
<1> DEFINE l == lockOf[s]
<1>1. PICK i \in DOMAIN waiters[l] :
        /\ waiters[l][i] = s
        /\ waiters' = [waiters EXCEPT ![l] = Streams!RemoveAt(@, i)]
  BY DEF Streams!LeaveQueue
<1> DEFINE rest == Streams!RemoveAt(waiters[l], i)
<1>2. /\ stream[s] = "waiting" /\ stream' = [stream EXCEPT ![s] = "over"]
      /\ UNCHANGED <<registry, lockOf, holder>>
  BY DEF Streams!LeaveQueue, Streams!Move
<1>3. LocksTyped /\ LockOK(s) /\ stream \in [Runs -> Streams!Positions]
  BY DEF LocksOK, RunsOK
<1>4. l \in Runs /\ waiters[l] \in Seq(Runs)
  BY <1>2, <1>3 DEF LockOK, LocksTyped
<1>5. /\ rest \in Seq(Runs) /\ waiters' = [waiters EXCEPT ![l] = rest]
      /\ \A j \in DOMAIN waiters[l] : j = i \/ \E k \in DOMAIN rest : rest[k] = waiters[l][j]
  BY <1>1, <1>3, <1>4, RemovedFrom DEF LocksTyped
<1> HIDE DEF l, rest
<1>6. LocksTyped'
  BY <1>2, <1>3, <1>4, <1>5 DEF LocksTyped
<1>7. ASSUME NEW u \in Runs
      PROVE  LockOK(u)'
  <2>1. CASE u = s
    <3>1. stream'[s] = "over" /\ lockOf'[s] = lockOf[s]
      BY <1>2, <1>3
    <3> QED BY <1>3, <2>1, <3>1 DEF LockOK, Inside, Starting
  <2>2. CASE u # s
    <3>1. LockOK(u) /\ stream'[u] = stream[u]
      BY <1>2, <1>3, <2>2 DEF LocksOK
    <3>2. ASSUME stream[u] = "waiting", lockOf[u] = l
          PROVE  \E k \in DOMAIN rest : rest[k] = u
      <4>1. PICK j \in DOMAIN waiters[l] : waiters[l][j] = u
        BY <3>1, <3>2 DEF LockOK
      <4> QED BY <1>1, <1>5, <2>2, <4>1
    <3>3. InWorkspace[u] # None /\ stream[u] \in Inside => holder'[lockOf[u]] = u
      BY <1>2, <3>1 DEF LockOK
    <3>4. stream[u] = "idle" => u # l /\ holder'[u] = holder[u]
      BY <1>2, <3>1 DEF LockOK, l
    <3> QED BY <1>2, <1>4, <1>5, <3>1, <3>2, <3>3, <3>4, StillWaiting
  <2> QED BY <2>1, <2>2
<1> QED BY <1>6, <1>7 DEF LocksOK

LEMMA ReleaseLocks ==
  ASSUME RunsOK, LocksOK, NEW s \in Runs, stream[s] \in Inside,
         Streams!Release(s), Streams!Move(s, "over")
  PROVE  LocksOK'
<1> DEFINE l == lockOf[s]
           w == InWorkspace[s]
<1>1. /\ stream' = [stream EXCEPT ![s] = "over"] /\ UNCHANGED <<lockOf, waiters>>
  BY DEF Streams!Release, Streams!Move
<1>2. /\ LocksTyped /\ LockOK(s) /\ stream \in [Runs -> Streams!Positions]
      /\ w \in Workspaces \cup {None} /\ l \in Runs \cup {None}
  BY Homes DEF LocksOK, RunsOK, LocksTyped
<1>3. CASE l = None
  <2>1. UNCHANGED <<registry, holder>>
    BY <1>3 DEF Streams!Release
  <2>2. w = None
    BY <1>2, <1>3 DEF LockOK
  <2>3. LocksTyped'
    BY <1>1, <1>2, <2>1 DEF LocksTyped
  <2>4. ASSUME NEW u \in Runs
        PROVE  LockOK(u)'
    <3>1. LockOK(u)
      BY DEF LocksOK
    <3>2. CASE u = s
      <4>1. stream'[u] = "over"
        BY <1>1, <1>2, <3>2
      <4> QED BY <1>1, <3>1, <4>1 DEF LockOK, Inside, Starting
    <3>3. CASE u # s
      <4>1. stream'[u] = stream[u]
        BY <1>1, <1>2, <3>3
      <4> QED BY <1>1, <2>1, <3>1, <4>1 DEF LockOK
    <3> QED BY <3>2, <3>3
  <2> QED BY <2>3, <2>4 DEF LocksOK
<1>4. CASE l # None
  <2>1. /\ l \in Runs /\ w \in Workspaces /\ w # None /\ registry[w] = l /\ holder[l] = s
        /\ s # None
    BY <1>2, <1>4, NoneIsNothing DEF LockOK
  <2>2. /\ holder' = [holder EXCEPT ![l] = None]
        /\ registry' = [registry EXCEPT ![w] = IF waiters[l] = <<>> THEN None ELSE registry[w]]
    BY <1>4, <2>1 DEF Streams!Release, Streams!Unregistered
  <2>3. LocksTyped'
    BY <1>1, <1>2, <2>1, <2>2 DEF LocksTyped
  <2>4. ASSUME NEW u \in Runs
        PROVE  LockOK(u)'
    <3>1. LockOK(u)
      BY DEF LocksOK
    <3>2. CASE u = s
      <4>1. stream'[u] = "over"
        BY <1>1, <1>2, <3>2
      <4> QED BY <1>1, <3>1, <4>1 DEF LockOK, Inside, Starting
    <3>3. CASE u # s
      <4>1. stream'[u] = stream[u]
        BY <1>1, <1>2, <3>3
      <4>2. ASSUME InWorkspace[u] # None, stream[u] \in Inside
            PROVE  /\ holder'[lockOf[u]] = u
                   /\ registry'[InWorkspace[u]] = lockOf[u]
        <5>1. /\ lockOf[u] \in Runs /\ holder[lockOf[u]] = u
              /\ registry[InWorkspace[u]] = lockOf[u] /\ InWorkspace[u] \in Workspaces
          BY <1>2, <3>1, <4>2, Homes DEF LockOK, LocksTyped
        <5>2. lockOf[u] # l /\ InWorkspace[u] # w
          BY <2>1, <3>3, <5>1
        <5> QED BY <1>2, <2>1, <2>2, <5>1, <5>2 DEF LocksTyped
      <4>3. ASSUME stream[u] = "waiting"
            PROVE  registry'[InWorkspace[u]] = lockOf[u]
        <5>1. /\ registry[InWorkspace[u]] = lockOf[u] /\ InWorkspace[u] \in Workspaces
              /\ waiters[lockOf[u]] # <<>>
          BY <1>2, <3>1, <4>3, Homes DEF LockOK, LocksTyped
        <5>2. CASE InWorkspace[u] = w
          BY <1>2, <2>1, <2>2, <5>1, <5>2 DEF LocksTyped
        <5>3. CASE InWorkspace[u] # w
          BY <1>2, <2>1, <2>2, <5>1, <5>3 DEF LocksTyped
        <5> QED BY <5>2, <5>3
      <4>4. ASSUME stream[u] = "idle"
            PROVE  holder'[u] = None /\ \A v \in Workspaces : registry'[v] # u
        <5>1. /\ \A v \in Workspaces : registry[v] # u
              /\ u # l /\ holder[u] = None
          BY <2>1, <3>1, <4>4 DEF LockOK
        <5>2. u # None
          BY NoneIsNothing
        <5> QED BY <1>2, <2>1, <2>2, <5>1, <5>2 DEF LocksTyped
      <4> QED BY <1>1, <3>1, <4>1, <4>2, <4>3, <4>4 DEF LockOK, Inside, Starting
    <3> QED BY <3>2, <3>3
  <2> QED BY <2>3, <2>4 DEF LocksOK
<1> QED BY <1>3, <1>4

LEMMA CrashLocks ==
  ASSUME Streams!Crash
  PROVE  LocksOK'
<1>1. /\ stream' = [u \in Runs |-> IF stream[u] = "idle" THEN "idle" ELSE "over"]
      /\ registry' = [w \in Workspaces |-> None] /\ lockOf' = [u \in Runs |-> None]
      /\ holder' = [u \in Runs |-> None] /\ waiters' = [u \in Runs |-> <<>>]
  BY DEF Streams!Crash
<1>2. LocksTyped'
  BY <1>1 DEF LocksTyped
<1>3. ASSUME NEW u \in Runs
      PROVE  LockOK(u)'
  <2>1. stream'[u] \in {"idle", "over"} /\ lockOf'[u] = None /\ holder'[u] = None
        /\ waiters'[u] = <<>>
    BY <1>1
  <2>2. u # None
    BY NoneIsNothing
  <2> QED BY <1>1, <2>1, <2>2 DEF LockOK, Inside, Starting
<1> QED BY <1>2, <1>3 DEF LocksOK

LEMMA LocksKept ==
  ASSUME RunsOK, LocksOK, Streams!Next
  PROVE  LocksOK'
<1> USE DEF Streams!locks
<1>1. ASSUME NEW s \in Runs, Streams!Task(s) \/ Streams!Reconcile(s)
      PROVE  LocksOK'
  <2>1. stream' = stream /\ UNCHANGED <<registry, lockOf, holder, waiters>>
    BY <1>1 DEF Streams!Task, Streams!Begin, Streams!Chunk, Streams!AskApproval,
      Streams!EmptyResponse, Streams!GiveUp, Streams!Leave, Streams!Answer,
      Streams!Complete, Streams!Judge, Streams!Return, Streams!Settle,
      Streams!PutSentinel, Streams!Reconcile
  <2> QED BY <2>1, LocksStay
<1>2. ASSUME NEW s \in Runs,
             Streams!StartRun(s) \/ Streams!UpsertRun(s) \/ Streams!Spawn(s)
               \/ Streams!Disconnect(s) \/ Streams!Abort(s)
      PROVE  LocksOK'
  <2>1. /\ stream[s] \in Inside /\ UNCHANGED <<registry, lockOf, holder, waiters>>
        /\ \E st \in Inside : stream' = [stream EXCEPT ![s] = st]
    BY <1>2 DEF Streams!StartRun, Streams!UpsertRun, Streams!Spawn, Streams!Disconnect,
      Streams!Abort, Streams!Move, Inside, Starting
  <2> QED BY <2>1, LocksStay
<1>3. ASSUME NEW s \in Runs, Streams!Consume(s) \/ Streams!DrainChunk(s)
      PROVE  LocksOK'
  <2>1. /\ stream[s] \in Inside /\ UNCHANGED <<registry, lockOf, holder, waiters>>
        /\ \/ stream' = stream
           \/ \E st \in Inside : stream' = [stream EXCEPT ![s] = st]
    BY <1>3 DEF Streams!Consume, Streams!DrainChunk, Streams!Move, Inside, Starting
  <2> QED BY <2>1, LocksStay
<1>4. ASSUME NEW s \in Runs,
             Streams!FailToStart(s) \/ Streams!DrainSentinel(s) \/ Streams!Finish(s)
      PROVE  LocksOK'
  <2>1. stream[s] \in Inside /\ Streams!Release(s) /\ Streams!Move(s, "over")
    BY <1>4 DEF Streams!FailToStart, Streams!DrainSentinel, Streams!Finish, Inside,
      Starting, Streams!Starting
  <2> QED BY <2>1, ReleaseLocks
<1>5. ASSUME NEW t, Streams!CancelRuns(t)
      PROVE  LocksOK'
  <2>1. stream' = stream /\ UNCHANGED <<registry, lockOf, holder, waiters>>
    BY <1>5 DEF Streams!CancelRuns
  <2>2. PICK s \in Runs : runner[s].at \in Streams!Live
    BY <1>5 DEF Streams!CancelRuns
  <2> QED BY <2>1, <2>2, LocksStay
<1>6. ASSUME NEW s \in Runs, Streams!Generator(s)
      PROVE  LocksOK'
  BY <1>2, <1>3, <1>4, <1>6, AcquireLocks DEF Streams!Generator
<1> QED BY <1>1, <1>2, <1>4, <1>5, <1>6, EnterLocks, LeaveQueueLocks, CrashLocks
  DEF Streams!Next

-----------------------------------------------------------------------------
(* The invariant.                                                          *)

LEMMA WriteSpends ==
  ASSUME spent \in [cancels : Nat, faults : Nat, crashes : Nat],
         NEW s, NEW new, Streams!Write(s, new)
  PROVE  spent' \in [cancels : Nat, faults : Nat, crashes : Nat]
BY DEF Streams!Write

LEMMA FirstTyped ==
  ASSUME RunsOK, first \in [Runs -> [started : BOOLEAN, empty : BOOLEAN]], Streams!Next
  PROVE  first' \in [Runs -> [started : BOOLEAN, empty : BOOLEAN]]
<1>1. ASSUME NEW s \in Runs, Streams!Consume(s)
      PROVE  first' \in [Runs -> [started : BOOLEAN, empty : BOOLEAN]]
  BY <1>1 DEF Streams!Consume
<1>2. ASSUME NEW s \in Runs, Streams!Disconnect(s)
      PROVE  first' \in [Runs -> [started : BOOLEAN, empty : BOOLEAN]]
  <2>1. runner[s].empty \in BOOLEAN /\ first' = [first EXCEPT ![s].empty = runner[s].empty]
    BY <1>2 DEF Streams!Disconnect, RunsOK, Streams!Runner
  <2> QED BY <2>1
<1>3. ASSUME NEW s \in Runs, Streams!Task(s)
      PROVE  first' = first
  BY <1>3 DEF Streams!Task, Streams!Begin, Streams!Chunk, Streams!AskApproval,
    Streams!EmptyResponse, Streams!GiveUp, Streams!Leave, Streams!Answer,
    Streams!Complete, Streams!Judge, Streams!Return, Streams!Settle, Streams!PutSentinel
<1>4. ASSUME NEW s \in Runs, Streams!Generator(s), ~Streams!Consume(s)
      PROVE  first' = first
  BY <1>4 DEF Streams!Generator, Streams!Acquire, Streams!StartRun, Streams!UpsertRun,
    Streams!Spawn, Streams!DrainChunk, Streams!DrainSentinel, Streams!Finish
<1>5. ASSUME NEW s \in Runs,
             Streams!Enter(s) \/ Streams!LeaveQueue(s) \/ Streams!FailToStart(s)
               \/ Streams!Abort(s) \/ Streams!Reconcile(s)
      PROVE  first' = first
  BY <1>5 DEF Streams!Enter, Streams!LeaveQueue, Streams!FailToStart, Streams!Abort,
    Streams!Reconcile
<1>6. (\E t \in Threads : Streams!CancelRuns(t)) \/ Streams!Crash => first' = first
  BY DEF Streams!CancelRuns, Streams!Crash
<1> QED BY <1>1, <1>2, <1>3, <1>4, <1>5, <1>6 DEF Streams!Next

LEMMA SpentTyped ==
  ASSUME spent \in [cancels : Nat, faults : Nat, crashes : Nat], Streams!Next
  PROVE  spent' \in [cancels : Nat, faults : Nat, crashes : Nat]
<1>1. ASSUME NEW s \in Runs, Streams!Task(s)
      PROVE  spent' = spent \/ \E new : Streams!Write(s, new)
  <2>1. CASE Streams!Begin(s) \/ Streams!Chunk(s) \/ Streams!Leave(s) \/ Streams!Answer(s)
             \/ Streams!Return(s) \/ Streams!PutSentinel(s)
    BY <2>1 DEF Streams!Begin, Streams!Chunk, Streams!Leave, Streams!Answer,
      Streams!Return, Streams!PutSentinel
  <2>2. CASE Streams!AskApproval(s)
    BY <2>2 DEF Streams!AskApproval
  <2>3. CASE Streams!EmptyResponse(s)
    BY <2>3 DEF Streams!EmptyResponse
  <2>4. CASE Streams!GiveUp(s)
    BY <2>4 DEF Streams!GiveUp
  <2>5. CASE Streams!Complete(s)
    BY <2>5 DEF Streams!Complete
  <2>6. CASE Streams!Judge(s)
    BY <2>6 DEF Streams!Judge
  <2>7. CASE Streams!Settle(s)
    BY <2>7 DEF Streams!Settle
  <2> QED BY <1>1, <2>1, <2>2, <2>3, <2>4, <2>5, <2>6, <2>7 DEF Streams!Task
<1>2. ASSUME NEW s \in Runs, Streams!Generator(s)
      PROVE  spent' = spent \/ \E new : Streams!Write(s, new)
  <2>1. CASE Streams!Acquire(s) \/ Streams!StartRun(s) \/ Streams!UpsertRun(s)
             \/ Streams!Spawn(s) \/ Streams!Finish(s)
    BY <2>1 DEF Streams!Acquire, Streams!StartRun, Streams!UpsertRun, Streams!Spawn,
      Streams!Finish
  <2>2. CASE Streams!Consume(s)
    BY <2>2 DEF Streams!Consume
  <2>3. CASE Streams!DrainChunk(s)
    BY <2>3 DEF Streams!DrainChunk
  <2>4. CASE Streams!DrainSentinel(s)
    BY <2>4 DEF Streams!DrainSentinel
  <2> QED BY <1>2, <2>1, <2>2, <2>3, <2>4 DEF Streams!Generator
<1>3. ASSUME NEW s \in Runs,
             Streams!Enter(s) \/ Streams!LeaveQueue(s) \/ Streams!FailToStart(s)
               \/ Streams!Disconnect(s) \/ Streams!Reconcile(s)
      PROVE  spent' = spent
  BY <1>3 DEF Streams!Enter, Streams!LeaveQueue, Streams!FailToStart, Streams!Disconnect,
    Streams!Reconcile
<1>4. ASSUME NEW s \in Runs, Streams!Abort(s)
      PROVE  spent' = [spent EXCEPT !.cancels = @ + 1]
  BY <1>4 DEF Streams!Abort
<1>5. (\E t \in Threads : Streams!CancelRuns(t)) => spent' = [spent EXCEPT !.cancels = @ + 1]
  BY DEF Streams!CancelRuns
<1>6. Streams!Crash => spent' = [spent EXCEPT !.crashes = @ + 1]
  BY DEF Streams!Crash
<1> QED BY <1>1, <1>2, <1>3, <1>4, <1>5, <1>6, WriteSpends DEF Streams!Next

LEMMA StreamsInit == Init => StreamInv
<1> SUFFICES ASSUME Streams!Init PROVE StreamInv
  BY DEF Init
<1> USE NoneIsNothing DEF Streams!Init
<1>1. ASSUME NEW s \in Runs
      PROVE  RunOK(stream[s], runner[s], queue[s], row[s]) /\ LockOK(s)
  <2>1. /\ stream[s] = "idle" /\ queue[s] = <<>> /\ row[s] \in Streams!Row
        /\ row[s].agent = "none" /\ row[s].events = {}
        /\ runner[s].at = "none" /\ ~runner[s].sent /\ runner[s].reason = None
        /\ runner[s].verdict = None /\ ~runner[s].empty
    BY DEF Streams!Row
  <2>2. runner[s] \in Streams!Runner
    BY StreamParameters DEF Streams!Parameters, Streams!Runner
  <2>3. queue[s] \in Seq({"chunk", "sentinel"}) /\ DOMAIN queue[s] = {}
    OBVIOUS
  <2>4. RunOK(stream[s], runner[s], queue[s], row[s])
    BY <2>1, <2>2, <2>3 DEF RunOK, Starting, Early, CompletedAlone, Streams!Positions,
      Streams!Reasons
  <2>5. LockOK(s)
    BY DEF LockOK, Inside, Starting
  <2> QED BY <2>4, <2>5
<1>2. /\ stream \in [Runs -> Streams!Positions] /\ runner \in [Runs -> Streams!Runner]
      /\ queue \in [Runs -> Seq({"chunk", "sentinel"})] /\ row \in [Runs -> Streams!Row]
  <2>1. \A s \in Runs : /\ stream[s] \in Streams!Positions /\ runner[s] \in Streams!Runner
                        /\ queue[s] \in Seq({"chunk", "sentinel"}) /\ row[s] \in Streams!Row
    BY <1>1 DEF RunOK
  <2> QED BY <2>1
<1>3. LocksTyped
  BY DEF LocksTyped
<1>4. /\ first \in [Runs -> [started : BOOLEAN, empty : BOOLEAN]]
      /\ spent \in [cancels : Nat, faults : Nat, crashes : Nat]
  OBVIOUS
<1> QED BY <1>1, <1>2, <1>3, <1>4 DEF StreamInv, RunsOK, LocksOK

LEMMA StreamsStutter ==
  ASSUME StreamInv, UNCHANGED streamVars
  PROVE  StreamInv'
<1>1. RunsOK'
  <2>1. UNCHANGED <<stream, runner, queue, row>> /\ RunsOK
    BY DEF StreamInv, streamVars
  <2>2. \A s \in Runs : RunOK(stream'[s], runner'[s], queue'[s], row'[s])
    BY <2>1 DEF RunsOK
  <2> QED BY <2>1, <2>2 DEF RunsOK, RunOK, Foretold, CompletedAlone, ToldOf
<1>2. LocksOK'
  <2>1. LocksTyped'
    BY DEF StreamInv, LocksOK, LocksTyped, streamVars
  <2>2. ASSUME NEW s \in Runs
        PROVE  LockOK(s)'
    <3>1. LockOK(s)
      BY DEF StreamInv, LocksOK
    <3> QED BY <3>1 DEF LockOK, streamVars
  <2> QED BY <2>1, <2>2 DEF LocksOK
<1> QED BY <1>1, <1>2 DEF StreamInv, streamVars

LEMMA StreamsStep == StreamInv /\ [Next]_vars => StreamInv'
<1> SUFFICES ASSUME StreamInv, [Next]_vars PROVE StreamInv'
  OBVIOUS
<1>1. CASE Streams!Next
  <2>1. RunsOK' /\ LocksOK'
    BY <1>1, RunsKept, LocksKept DEF StreamInv
  <2>2. /\ first' \in [Runs -> [started : BOOLEAN, empty : BOOLEAN]]
        /\ spent' \in [cancels : Nat, faults : Nat, crashes : Nat]
    BY <1>1, FirstTyped, SpentTyped DEF StreamInv
  <2> QED BY <2>1, <2>2 DEF StreamInv
<1>2. CASE UNCHANGED streamVars
  BY <1>2, StreamsStutter
<1> QED BY <1>1, <1>2 DEF Next, vars

LEMMA StreamsInvariant == Spec => []StreamInv
BY StreamsInit, StreamsStep, PTL DEF Spec

-----------------------------------------------------------------------------
(* Theorems.                                                               *)

\* No two engines work in one workspace, for any runs and workspaces: whoever has a
\* runner at work is inside, and holds the one lock that the registry names
\* (_workspace_run_lock, and its release in the generator and in the drain).
THEOREM OneEngineAWorkspace == Spec => []RunsSerialized
<1>1. StreamInv => Streams!TypeOK
  BY DEF StreamInv, RunsOK, LocksOK, LocksTyped, Streams!TypeOK
<1>2. StreamInv => Streams!RunsSerialized
  <2> SUFFICES ASSUME StreamInv, NEW s \in Runs, NEW t \in Runs, s # t,
                      InWorkspace[s] = InWorkspace[t], InWorkspace[s] # None,
                      runner[s].at \in Streams!Live, runner[t].at \in Streams!Live
               PROVE  FALSE
    BY DEF Streams!RunsSerialized
  <2>1. stream[s] \in Inside /\ stream[t] \in Inside
    BY AtWork DEF StreamInv, RunsOK, Inside
  <2>2. LockOK(s) /\ LockOK(t)
    BY DEF StreamInv, LocksOK
  <2> QED BY <2>1, <2>2 DEF LockOK
<1> QED BY <1>1, <1>2, StreamsInvariant, PTL DEF RunsSerialized

\* When the sentinel of a run was put, its row tells how it ended, unless a write of
\* that run failed; and a run is not announced both completed and failed (_runner and
\* its finally, _consume_remainder, append_terminal_outcome).
THEOREM RunsTellTheirOutcome == Spec => []OutcomeIsTold
<1>1. ASSUME NEW s
      PROVE  Streams!Told(s) = ToldOf(runner[s], row[s])
  BY DEF Streams!Told, ToldOf
<1>2. StreamInv => Streams!OutcomeIsTold
  BY <1>1 DEF StreamInv, RunsOK, RunOK, Streams!OutcomeIsTold
<1>3. StreamInv => Streams!EventsAgree
  BY DEF StreamInv, RunsOK, RunOK, CompletedAlone, Streams!EventsAgree
<1> QED BY <1>2, <1>3, StreamsInvariant, PTL DEF OutcomeIsTold

LEMMA VerdictsWrite ==
  ASSUME RunsOK, NEW s \in Runs, NEW new, Streams!Write(s, new),
         row[s].agent \in Streams!TerminalAgent => new.agent = row[s].agent
  PROVE  Streams!KeepsVerdicts
<1> SUFFICES ASSUME NEW u \in Runs, row[u].agent \in Streams!TerminalAgent
             PROVE  row'[u].agent = row[u].agent
  BY DEF Streams!KeepsVerdicts
<1>1. CASE row' = [row EXCEPT ![s] = new]
  BY <1>1 DEF RunsOK
<1>2. CASE row' = [row EXCEPT ![s].lost = TRUE]
  <2>1. row[u] \in Streams!Row /\ row \in [Runs -> Streams!Row]
    BY DEF RunsOK
  <2> QED BY <1>2, <2>1 DEF Streams!Row
<1> QED BY <1>1, <1>2 DEF Streams!Write

LEMMA TaskVerdicts ==
  ASSUME RunsOK, NEW s \in Runs, Streams!Task(s)
  PROVE  Streams!KeepsVerdicts
<1>1. row[s] \in Streams!Row /\ RunOK(stream[s], runner[s], queue[s], row[s])
      /\ row \in [Runs -> Streams!Row]
  BY DEF RunsOK
<1>2. CASE Streams!Begin(s) \/ Streams!Chunk(s) \/ Streams!Leave(s) \/ Streams!Return(s)
           \/ Streams!PutSentinel(s)
  BY <1>2 DEF Streams!Begin, Streams!Chunk, Streams!Leave, Streams!Return,
    Streams!PutSentinel, Streams!KeepsVerdicts
<1>3. CASE Streams!AskApproval(s)
  <2>1. Streams!Write(s, Streams!Updated(row[s], "waiting_approval"))
    BY <1>3 DEF Streams!AskApproval
  <2> QED BY <1>1, <2>1, UpdatedRow, VerdictsWrite DEF Statuses
<1>4. CASE Streams!EmptyResponse(s) \/ Streams!GiveUp(s)
  <2>1. Streams!Write(s, Streams!GivenUp(row[s]))
    BY <1>4 DEF Streams!EmptyResponse, Streams!GiveUp
  <2> QED BY <1>1, <2>1, GivenUpRow, VerdictsWrite
<1>5. CASE Streams!Answer(s)
  <2>1. row' = [row EXCEPT ![s] = Streams!WithAnswer(row[s])]
    BY <1>5 DEF Streams!Answer
  <2>2. Streams!WithAnswer(row[s]).agent = row[s].agent
    BY <1>1, WithAnswerRow
  <2> QED BY <1>1, <2>1, <2>2 DEF Streams!KeepsVerdicts
<1>6. CASE Streams!Complete(s)
  <2> DEFINE u == Streams!Updated(row[s], "verifying")
             new == [u EXCEPT !.events = @ \cup {"run_completed"}]
  <2>1. Streams!Write(s, new)
    BY <1>6 DEF Streams!Complete
  <2>2. /\ u \in Streams!Row
        /\ row[s].agent \in Streams!TerminalAgent => u.agent = row[s].agent
    BY <1>1, UpdatedRow DEF Statuses
  <2> HIDE DEF u
  <2>3. new.agent = u.agent
    BY <2>2 DEF Streams!Row
  <2> HIDE DEF new
  <2> QED BY <2>1, <2>2, <2>3, VerdictsWrite
<1>7. CASE Streams!Judge(s)
  <2>1. PICK v \in Streams!Verdicts : Streams!Write(s, Streams!Updated(row[s], v))
    BY <1>7 DEF Streams!Judge
  <2>2. v \in Statuses
    BY DEF Statuses, Streams!Verdicts
  <2> QED BY <1>1, <2>1, <2>2, UpdatedRow, VerdictsWrite
<1>8. CASE Streams!Settle(s)
  <2>1. Streams!Write(s, Streams!Outcome(s))
    BY <1>8 DEF Streams!Settle
  <2> DEFINE f == Streams!WithOutcome(row[s], "failed")
             c == Streams!WithOutcome(row[s], "cancelled")
             d == Streams!Updated(row[s], "completed")
  <2>2. row[s].agent \in Streams!TerminalAgent =>
          f.agent = row[s].agent /\ c.agent = row[s].agent /\ d.agent = row[s].agent
    BY <1>1, WithOutcomeRow, UpdatedRow DEF Statuses
  <2>3. Streams!Outcome(s) \in {f, c, d, row[s]}
    BY DEF Streams!Outcome
  <2> HIDE DEF f, c, d
  <2>4. row[s].agent \in Streams!TerminalAgent => Streams!Outcome(s).agent = row[s].agent
    BY <2>2, <2>3
  <2> QED BY <2>1, <2>4, VerdictsWrite
<1> QED BY <1>2, <1>3, <1>4, <1>5, <1>6, <1>7, <1>8 DEF Streams!Task

LEMMA GeneratorVerdicts ==
  ASSUME RunsOK, NEW s \in Runs, Streams!Generator(s)
  PROVE  Streams!KeepsVerdicts
<1>1. row[s] \in Streams!Row /\ RunOK(stream[s], runner[s], queue[s], row[s])
      /\ row \in [Runs -> Streams!Row]
  BY DEF RunsOK
<1>2. CASE row' = row
  BY <1>2 DEF Streams!KeepsVerdicts
<1>3. CASE Streams!StartRun(s)
  <2>1. row' = [row EXCEPT ![s] = [row[s] EXCEPT !.session = "running"]]
    BY <1>1, <1>3 DEF Streams!StartRun
  <2>2. [row[s] EXCEPT !.session = "running"].agent = row[s].agent
    BY <1>1 DEF Streams!Row
  <2> QED BY <1>1, <2>1, <2>2 DEF Streams!KeepsVerdicts
<1>4. CASE Streams!UpsertRun(s)   \* the row has no verdict yet
  <2>1. row[s].agent \in {"none", "running"}
    BY <1>1, <1>4 DEF Streams!UpsertRun, RunOK, Starting
  <2> QED BY <1>1, <1>4, <2>1
    DEF Streams!UpsertRun, Streams!KeepsVerdicts, Streams!TerminalAgent
<1>5. ASSUME NEW status \in {"running", "completed"},
             Streams!Write(s, Streams!Updated(row[s], status))
      PROVE  Streams!KeepsVerdicts
  <2>1. status \in Statuses
    BY DEF Statuses
  <2> QED BY <1>1, <1>5, <2>1, UpdatedRow, VerdictsWrite
<1>6. CASE Streams!Acquire(s) \/ Streams!Spawn(s) \/ Streams!Finish(s)
  BY <1>2, <1>6 DEF Streams!Acquire, Streams!Spawn, Streams!Finish
<1>7. CASE Streams!Consume(s)
  BY <1>2, <1>5, <1>7 DEF Streams!Consume
<1>8. CASE Streams!DrainChunk(s)
  BY <1>5, <1>8 DEF Streams!DrainChunk
<1>9. CASE Streams!DrainSentinel(s)
  BY <1>2, <1>5, <1>9 DEF Streams!DrainSentinel
<1> QED BY <1>3, <1>4, <1>6, <1>7, <1>8, <1>9 DEF Streams!Generator

\* A verdict in agent_runs is final: every later write is guarded, and the one that is
\* not (upsert_agent_run) comes before the runner is spawned.
THEOREM VerdictsAreFinal == Spec => VerdictIsFinal
<1>1. ASSUME RunsOK, Streams!Next
      PROVE  Streams!KeepsVerdicts
  <2>1. ASSUME NEW s \in Runs, Streams!Reconcile(s)
        PROVE  Streams!KeepsVerdicts
    <3>1. /\ row' = [row EXCEPT ![s] = [row[s] EXCEPT !.session = "failed",
                                                      !.abandoned = TRUE]]
          /\ row[s] \in Streams!Row /\ row \in [Runs -> Streams!Row]
      BY <1>1, <2>1 DEF Streams!Reconcile, RunsOK
    <3>2. [row[s] EXCEPT !.session = "failed", !.abandoned = TRUE].agent = row[s].agent
      BY <3>1 DEF Streams!Row
    <3> QED BY <3>1, <3>2 DEF Streams!KeepsVerdicts
  <2>2. ASSUME NEW s \in Runs,
               Streams!Enter(s) \/ Streams!LeaveQueue(s) \/ Streams!FailToStart(s)
                 \/ Streams!Disconnect(s) \/ Streams!Abort(s)
        PROVE  row' = row
    BY <2>2 DEF Streams!Enter, Streams!LeaveQueue, Streams!FailToStart,
      Streams!Disconnect, Streams!Abort
  <2>3. (\E t \in Threads : Streams!CancelRuns(t)) \/ Streams!Crash => row' = row
    BY DEF Streams!CancelRuns, Streams!Crash
  <2>4. row' = row => Streams!KeepsVerdicts
    BY DEF Streams!KeepsVerdicts
  <2> QED BY <1>1, <2>1, <2>2, <2>3, <2>4, TaskVerdicts, GeneratorVerdicts DEF Streams!Next
<1>2. StreamInv /\ [Next]_vars => [Streams!KeepsVerdicts]_row
  BY <1>1 DEF StreamInv, Next, vars, streamVars
<1> QED BY <1>2, StreamsInvariant, PTL DEF Spec, VerdictIsFinal

-----------------------------------------------------------------------------
(* The tunnel.  A sentinel is put only when nothing else will be, so the   *)
(* queue is requests and then sentinels; a worker that took a sentinel saw *)
(* every request before it leave the queue.  Nothing is counted.           *)

Serving == {"connecting", "reading", "putting"}
Resting == {"registering", "sleeping", "over", "dead"}

FramesOK ==
  /\ \A i \in DOMAIN inbox : inbox[i].kind = "items" => inbox[i].items # <<>>
  /\ task.at = "putting" => left # <<>>
  /\ task.at \in Serving => task.stops = 0
  /\ task.at = "stopping" => task.stops < Tunnel!Cardinality(Forwarders)

QueueOK ==
  /\ \A i, j \in DOMAIN requests :
       i < j /\ requests[i] = StopWorker => requests[j] = StopWorker
  /\ (\E w \in Forwarders : worker[w] = "stopped") =>
       \A i \in DOMAIN requests : requests[i] = StopWorker
  /\ task.at \in Serving =>
       /\ \A i \in DOMAIN requests : requests[i] # StopWorker
       /\ \A w \in Forwarders : worker[w] # "stopped"
  /\ task.at \in Resting => \A w \in Forwarders : worker[w] = "stopped"

FatesOK ==
  \A r \in Requests :
    /\ fate[r] = "queued" => \E i \in DOMAIN requests : requests[i] = r
    /\ fate[r] = "forwarding" => \E w \in Forwarders : worker[w] = r

TunnelInv == Tunnel!TypeOK /\ FramesOK /\ QueueOK /\ FatesOK

LEMMA SameSets ==
  ASSUME NEW S
  PROVE  Tunnel!Cardinality(S) = Cardinality(S) /\ (Tunnel!IsFiniteSet(S) <=> IsFiniteSet(S))
<1>1. Tunnel!Cardinality(S) = Cardinality(S)
  BY Zenon DEF Tunnel!Cardinality, Cardinality
<1>2. Tunnel!IsFiniteSet(S) <=> IsFiniteSet(S)
  BY Zenon DEF Tunnel!IsFiniteSet, IsFiniteSet
<1> QED BY <1>1, <1>2

LEMMA TunnelFacts ==
  /\ Forwarders # {}
  /\ Tunnel!Cardinality(Forwarders) \in Nat /\ Tunnel!Cardinality(Forwarders) > 0
  /\ \A r \in Requests : r # StopWorker /\ r # "idle" /\ r # "stopped"
  /\ StopWorker \notin Requests
<1>1. /\ IsFiniteSet(Forwarders) /\ Forwarders # {}
      /\ {None, StopWorker, "idle", "stopped"} \cap Requests = {}
  BY TunnelParameters, SameSets DEF Tunnel!Parameters
<1>2. Cardinality(Forwarders) \in Nat
  BY <1>1, FS_CardinalityType
<1>3. Cardinality(Forwarders) # 0
  BY <1>1, FS_EmptySet
<1>4. Tunnel!Cardinality(Forwarders) = Cardinality(Forwarders)
  BY SameSets
<1> QED BY <1>1, <1>2, <1>3, <1>4

LEMMA TunnelInit == Init => TunnelInv
<1> SUFFICES ASSUME Tunnel!Init PROVE TunnelInv
  BY DEF Init
<1>1. Tunnel!TypeOK
  <2>1. task \in [at : Tunnel!Positions, reason : {None, "clean", "error", "cancelled"},
                 stops : 0..Tunnel!Cardinality(Forwarders)]
    BY TunnelFacts DEF Tunnel!Init, Tunnel!Positions
  <2>2. /\ inbox \in Seq([kind : {"ping", "items"}, items : Seq(Requests)])
        /\ left \in Seq(Requests) /\ requests \in Seq(Requests \cup {StopWorker})
        /\ Len(requests) = 0
    BY DEF Tunnel!Init
  <2>3. /\ fate \in [Requests -> Tunnel!Fates] /\ faults \in [faults : Nat, cancels : Nat]
        /\ worker \in [Forwarders -> Requests \cup {"idle", "stopped"}] /\ open \in BOOLEAN
    BY DEF Tunnel!Init, Tunnel!Fates
  <2> QED BY <2>1, <2>2, <2>3, TunnelFacts DEF Tunnel!TypeOK, Tunnel!QueueSize
<1>2. DOMAIN requests = {} /\ DOMAIN inbox = {}
  BY DEF Tunnel!Init
<1> QED BY <1>1, <1>2 DEF TunnelInv, FramesOK, QueueOK, FatesOK, Serving, Tunnel!Init

LEMMA RemoteSendsKeeps ==
  ASSUME TunnelInv, NEW items \in Tunnel!Frames, Tunnel!RemoteSends(items)
  PROVE  TunnelInv'
<1> DEFINE frame == [kind |-> IF items = <<>> THEN "ping" ELSE "items", items |-> items]
<1>1. items \in Seq(Requests)
  <2>1. CASE items = <<>>
    BY <2>1
  <2>2. ASSUME NEW r \in Requests, items = <<r>>
        PROVE  items \in Seq(Requests)
    BY <2>2
  <2>3. ASSUME NEW r \in Requests, NEW q \in Requests, items = <<r, q>>
        PROVE  items \in Seq(Requests)
    BY <2>3
  <2> QED BY <2>1, <2>2, <2>3 DEF Tunnel!Frames
<1>2. /\ inbox \in Seq([kind : {"ping", "items"}, items : Seq(Requests)])
      /\ inbox' = Append(inbox, frame)
      /\ UNCHANGED <<task, open, left, requests, worker, faults>>
  BY DEF TunnelInv, Tunnel!TypeOK, Tunnel!RemoteSends
<1>3. frame \in [kind : {"ping", "items"}, items : Seq(Requests)]
      /\ (frame.kind = "items" => frame.items # <<>>)
  BY <1>1
<1> HIDE DEF frame
<1>4. /\ inbox' \in Seq([kind : {"ping", "items"}, items : Seq(Requests)])
      /\ \A i \in DOMAIN inbox' : inbox'[i] = frame \/ (i \in DOMAIN inbox /\ inbox'[i] = inbox[i])
  BY <1>2, <1>3
<1>5. /\ fate' \in [Requests -> Tunnel!Fates]
      /\ \A r \in Requests : fate'[r] = "sent" \/ fate'[r] = fate[r]
  BY DEF TunnelInv, Tunnel!TypeOK, Tunnel!RemoteSends, Tunnel!Fates
<1>6. Tunnel!TypeOK'
  BY <1>2, <1>4, <1>5 DEF TunnelInv, Tunnel!TypeOK, Tunnel!QueueSize
<1>7. FramesOK' /\ QueueOK' /\ FatesOK'
  BY <1>2, <1>3, <1>4, <1>5 DEF TunnelInv, FramesOK, QueueOK, FatesOK
<1> QED BY <1>6, <1>7 DEF TunnelInv

\* A new connection, from a task that had nothing left to do.
LEMMA ConnectingKeeps ==
  ASSUME TunnelInv, Tunnel!Connecting, UNCHANGED <<open, inbox, left, fate>>,
         faults' \in [faults : Nat, cancels : Nat],
         \A r \in Requests : fate[r] \notin {"queued", "forwarding"}
  PROVE  TunnelInv'
<1>1. /\ task' = [at |-> "connecting", reason |-> None, stops |-> 0] /\ requests' = <<>>
      /\ worker' = [w \in Forwarders |-> "idle"] /\ DOMAIN requests' = {}
  BY DEF Tunnel!Connecting
<1>2. Tunnel!TypeOK'
  BY <1>1, TunnelFacts DEF TunnelInv, Tunnel!TypeOK, Tunnel!QueueSize, Tunnel!Positions
<1>3. FramesOK' /\ QueueOK' /\ FatesOK'
  BY <1>1 DEF TunnelInv, FramesOK, QueueOK, FatesOK, Serving, Resting
<1> QED BY <1>2, <1>3 DEF TunnelInv

\* Nothing is in the queue or with a worker once every worker has stopped.
LEMMA StoppedIsDone ==
  ASSUME TunnelInv, \A w \in Forwarders : worker[w] = "stopped"
  PROVE  \A r \in Requests : fate[r] \notin {"queued", "forwarding"}
<1>1. \A i \in DOMAIN requests : requests[i] = StopWorker
  BY TunnelFacts DEF TunnelInv, QueueOK
<1> QED BY <1>1, TunnelFacts DEF TunnelInv, FatesOK

LEMMA FaultSpends ==
  ASSUME TunnelInv, Tunnel!Fault
  PROVE  faults' \in [faults : Nat, cancels : Nat]
<1>1. faults \in [faults : Nat, cancels : Nat]
  BY DEF TunnelInv, Tunnel!TypeOK
<1>2. faults' = [faults EXCEPT !.faults = faults.faults + 1]
  BY DEF Tunnel!Fault
<1> QED BY <1>1, <1>2

\* The connection is given up: the sentinels come next.
LEMMA DisconnectOK ==
  ASSUME TunnelInv, task.at \in Serving, NEW reason \in {"clean", "error", "cancelled"},
         Tunnel!Disconnect(reason), faults' \in [faults : Nat, cancels : Nat]
  PROVE  TunnelInv'
<1>1. /\ task' = [task EXCEPT !.at = "stopping", !.reason = reason] /\ inbox' = <<>>
      /\ left' = <<>> /\ open' = FALSE /\ UNCHANGED <<requests, worker>>
      /\ DOMAIN inbox' = {}
  BY DEF Tunnel!Disconnect
<1>2. /\ task' \in [at : Tunnel!Positions, reason : {None, "clean", "error", "cancelled"},
                    stops : 0..Tunnel!Cardinality(Forwarders)]
      /\ task'.at = "stopping" /\ task'.stops = task.stops
  BY <1>1 DEF TunnelInv, Tunnel!TypeOK, Tunnel!Positions
<1>3. /\ fate' \in [Requests -> Tunnel!Fates]
      /\ \A r \in Requests : fate'[r] = "lost" \/ fate'[r] = fate[r]
  BY DEF TunnelInv, Tunnel!TypeOK, Tunnel!Disconnect, Tunnel!Fates
<1>4. Tunnel!TypeOK'
  <2>1. /\ inbox' \in Seq([kind : {"ping", "items"}, items : Seq(Requests)])
        /\ left' \in Seq(Requests)
    BY <1>1
  <2> QED BY <1>1, <1>2, <1>3, <2>1 DEF TunnelInv, Tunnel!TypeOK, Tunnel!QueueSize
<1>5. FramesOK' /\ QueueOK' /\ FatesOK'
  BY <1>1, <1>2, <1>3, TunnelFacts
    DEF TunnelInv, FramesOK, QueueOK, FatesOK, Serving, Resting
<1> QED BY <1>4, <1>5 DEF TunnelInv

LEMMA LoopKeeps ==
  ASSUME TunnelInv, Tunnel!Loop
  PROVE  TunnelInv'
<1>0. faults \in [faults : Nat, cancels : Nat]
  BY DEF TunnelInv, Tunnel!TypeOK
<1>1. CASE Tunnel!Register
  <2>1. \A r \in Requests : fate[r] \notin {"queued", "forwarding"}
    BY <1>1, StoppedIsDone DEF TunnelInv, QueueOK, Tunnel!Register, Resting
  <2>2. CASE Tunnel!Connecting /\ UNCHANGED faults
    BY <1>0, <1>1, <2>1, <2>2, ConnectingKeeps DEF Tunnel!Register
  <2>3. CASE Tunnel!Fault /\ task' = [task EXCEPT !.at = "dead"] /\ UNCHANGED <<requests, worker>>
    <3>1. /\ task' \in [at : Tunnel!Positions, reason : {None, "clean", "error", "cancelled"},
                        stops : 0..Tunnel!Cardinality(Forwarders)]
          /\ task'.at = "dead" /\ UNCHANGED <<open, inbox, left, fate>>
      BY <1>1, <2>3 DEF TunnelInv, Tunnel!TypeOK, Tunnel!Positions, Tunnel!Register
    <3>2. Tunnel!TypeOK'
      BY <2>3, <3>1, FaultSpends DEF TunnelInv, Tunnel!TypeOK, Tunnel!QueueSize
    <3>3. \A w \in Forwarders : worker[w] = "stopped"
      BY <1>1 DEF TunnelInv, QueueOK, Tunnel!Register, Resting
    <3>4. FramesOK' /\ QueueOK' /\ FatesOK'
      BY <2>3, <3>1, <3>3 DEF TunnelInv, FramesOK, QueueOK, FatesOK, Serving
    <3> QED BY <3>2, <3>4 DEF TunnelInv
  <2> QED BY <1>1, <2>2, <2>3 DEF Tunnel!Register
<1>2. CASE Tunnel!Connect
  <2>1. CASE /\ task' = [task EXCEPT !.at = "reading"] /\ open' = TRUE
             /\ UNCHANGED <<inbox, left, requests, worker, fate, faults>>
    <3>1. /\ task' \in [at : Tunnel!Positions, reason : {None, "clean", "error", "cancelled"},
                        stops : 0..Tunnel!Cardinality(Forwarders)]
          /\ task'.at = "reading" /\ task'.stops = task.stops /\ task.at = "connecting"
      BY <1>2, <2>1 DEF TunnelInv, Tunnel!TypeOK, Tunnel!Positions, Tunnel!Connect
    <3>2. Tunnel!TypeOK'
      BY <2>1, <3>1 DEF TunnelInv, Tunnel!TypeOK, Tunnel!QueueSize
    <3>3. FramesOK' /\ QueueOK' /\ FatesOK'
      BY <2>1, <3>1 DEF TunnelInv, FramesOK, QueueOK, FatesOK, Serving, Resting
    <3> QED BY <3>2, <3>3 DEF TunnelInv
  <2>2. CASE Tunnel!Fault /\ Tunnel!Disconnect("error")
    BY <1>2, <2>2, DisconnectOK, FaultSpends DEF Tunnel!Connect, Serving
  <2> QED BY <1>2, <2>1, <2>2 DEF Tunnel!Connect
<1>3. CASE Tunnel!Hangup
  BY <1>0, <1>3, DisconnectOK DEF Tunnel!Hangup, Serving
<1>4. CASE Tunnel!Pong
  <2>1. CASE open
    <3>1. /\ inbox' = Tail(inbox) /\ inbox # <<>>
          /\ UNCHANGED <<task, open, left, requests, worker, fate, faults>>
      BY <1>4, <2>1 DEF Tunnel!Pong
    <3>2. /\ inbox' \in Seq([kind : {"ping", "items"}, items : Seq(Requests)])
          /\ \A i \in DOMAIN inbox' : i + 1 \in DOMAIN inbox /\ inbox'[i] = inbox[i + 1]
      BY <3>1 DEF TunnelInv, Tunnel!TypeOK
    <3>3. Tunnel!TypeOK'
      BY <3>1, <3>2 DEF TunnelInv, Tunnel!TypeOK, Tunnel!QueueSize
    <3>4. FramesOK' /\ QueueOK' /\ FatesOK'
      BY <3>1, <3>2 DEF TunnelInv, FramesOK, QueueOK, FatesOK
    <3> QED BY <3>3, <3>4 DEF TunnelInv
  <2>2. CASE ~open
    BY <1>0, <1>4, <2>2, DisconnectOK DEF Tunnel!Pong, Serving
  <2> QED BY <2>1, <2>2
<1>5. CASE Tunnel!Dispatch
  <2>1. /\ inbox' = Tail(inbox) /\ inbox # <<>> /\ left' = Head(inbox).items
        /\ Head(inbox).kind = "items" /\ task' = [task EXCEPT !.at = "putting"]
        /\ task.at = "reading" /\ UNCHANGED <<open, requests, worker, fate, faults>>
    BY <1>5 DEF Tunnel!Dispatch
  <2>2. /\ inbox' \in Seq([kind : {"ping", "items"}, items : Seq(Requests)])
        /\ \A i \in DOMAIN inbox' : i + 1 \in DOMAIN inbox /\ inbox'[i] = inbox[i + 1]
        /\ 1 \in DOMAIN inbox /\ Head(inbox) = inbox[1]
        /\ inbox[1] \in [kind : {"ping", "items"}, items : Seq(Requests)]
    <3> DEFINE Frame == [kind : {"ping", "items"}, items : Seq(Requests)]
    <3>1. inbox \in Seq(Frame) /\ inbox # <<>> /\ inbox' = Tail(inbox)
      BY <2>1 DEF TunnelInv, Tunnel!TypeOK
    <3> HIDE DEF Frame
    <3>2. /\ inbox' \in Seq(Frame) /\ 1 \in DOMAIN inbox /\ Head(inbox) = inbox[1]
          /\ \A i \in DOMAIN inbox' : i + 1 \in DOMAIN inbox /\ inbox'[i] = inbox[i + 1]
          /\ inbox[1] \in Frame
      BY <3>1
    <3> QED BY <3>2 DEF Frame
  <2>3. left' \in Seq(Requests) /\ left' # <<>>
    BY <2>1, <2>2 DEF TunnelInv, FramesOK
  <2>4. /\ task' \in [at : Tunnel!Positions, reason : {None, "clean", "error", "cancelled"},
                      stops : 0..Tunnel!Cardinality(Forwarders)]
        /\ task'.at = "putting" /\ task'.stops = task.stops
    BY <2>1 DEF TunnelInv, Tunnel!TypeOK, Tunnel!Positions
  <2>5. Tunnel!TypeOK'
    BY <2>1, <2>2, <2>3, <2>4 DEF TunnelInv, Tunnel!TypeOK, Tunnel!QueueSize
  <2>6. FramesOK' /\ QueueOK' /\ FatesOK'
    BY <2>1, <2>2, <2>3, <2>4 DEF TunnelInv, FramesOK, QueueOK, FatesOK, Serving, Resting
  <2> QED BY <2>5, <2>6 DEF TunnelInv
<1>6. CASE Tunnel!Put
  <2> DEFINE r == Head(left)
  <2>1. /\ left # <<>> /\ left \in Seq(Requests) /\ task.at = "putting"
        /\ requests \in Seq(Requests \cup {StopWorker})
        /\ Len(requests) < Tunnel!Cardinality(Forwarders)
    BY <1>6 DEF TunnelInv, FramesOK, Tunnel!TypeOK, Tunnel!Put, Tunnel!QueueSize
  <2>2. r \in Requests /\ Tail(left) \in Seq(Requests)
    BY <2>1
  <2>3. /\ requests' = Append(requests, r) /\ left' = Tail(left)
        /\ fate' = [fate EXCEPT ![r] = "queued"]
        /\ task' = [task EXCEPT !.at = IF Tail(left) = <<>> THEN "reading" ELSE "putting"]
        /\ UNCHANGED <<open, inbox, worker, faults>>
    BY <1>6, <2>1 DEF Tunnel!Put
  <2>4. /\ task' \in [at : Tunnel!Positions, reason : {None, "clean", "error", "cancelled"},
                      stops : 0..Tunnel!Cardinality(Forwarders)]
        /\ task'.at = IF Tail(left) = <<>> THEN "reading" ELSE "putting"
        /\ task'.stops = task.stops
    BY <2>3 DEF TunnelInv, Tunnel!TypeOK, Tunnel!Positions
  <2> HIDE DEF r
  <2>5. /\ requests' \in Seq(Requests \cup {StopWorker})
        /\ Len(requests') <= Tunnel!Cardinality(Forwarders)
        /\ Len(requests') \in DOMAIN requests' /\ requests'[Len(requests')] = r
        /\ \A i \in DOMAIN requests : i \in DOMAIN requests' /\ requests'[i] = requests[i]
        /\ \A i \in DOMAIN requests' : requests'[i] = r \/ (i \in DOMAIN requests
                                                            /\ requests'[i] = requests[i])
    BY <2>1, <2>2, <2>3, TunnelFacts
  <2>6. /\ fate' \in [Requests -> Tunnel!Fates] /\ fate'[r] = "queued"
        /\ \A q \in Requests \ {r} : fate'[q] = fate[q]
    BY <2>2, <2>3 DEF TunnelInv, Tunnel!TypeOK, Tunnel!Fates
  <2>7. Tunnel!TypeOK'
    BY <2>2, <2>3, <2>4, <2>5, <2>6 DEF TunnelInv, Tunnel!TypeOK, Tunnel!QueueSize
  <2>8. FramesOK'
    BY <2>1, <2>3, <2>4 DEF TunnelInv, FramesOK, Serving
  <2>9. QueueOK'
    <3>1. /\ \A i \in DOMAIN requests' : requests'[i] # StopWorker
          /\ \A w \in Forwarders : worker'[w] # "stopped"
      BY <2>1, <2>2, <2>3, <2>5, TunnelFacts DEF TunnelInv, QueueOK, Serving
    <3> QED BY <2>4, <3>1 DEF QueueOK, Resting
  <2>10. FatesOK'
    BY <2>3, <2>5, <2>6 DEF TunnelInv, FatesOK
  <2> QED BY <2>7, <2>8, <2>9, <2>10 DEF TunnelInv
<1>7. CASE Tunnel!PutStop
  <2>1. /\ task.at = "stopping" /\ requests \in Seq(Requests \cup {StopWorker})
        /\ Len(requests) < Tunnel!Cardinality(Forwarders) /\ task.stops < Tunnel!Cardinality(Forwarders)
        /\ task.stops \in Nat
    BY <1>7 DEF TunnelInv, FramesOK, Tunnel!TypeOK, Tunnel!PutStop, Tunnel!QueueSize
  <2>2. /\ requests' = Append(requests, StopWorker)
        /\ task' = [task EXCEPT !.stops = task.stops + 1,
                                !.at = IF task.stops + 1 = Tunnel!Cardinality(Forwarders)
                                       THEN "joining" ELSE "stopping"]
        /\ UNCHANGED <<open, inbox, left, worker, fate, faults>>
    BY <1>7, <2>1 DEF Tunnel!PutStop
  <2>3. task.stops + 1 \in 0..Tunnel!Cardinality(Forwarders)
    BY <2>1, TunnelFacts
  <2>4. /\ task' \in [at : Tunnel!Positions, reason : {None, "clean", "error", "cancelled"},
                      stops : 0..Tunnel!Cardinality(Forwarders)]
        /\ task'.at = IF task.stops + 1 = Tunnel!Cardinality(Forwarders) THEN "joining" ELSE "stopping"
        /\ task'.stops = task.stops + 1
    BY <2>2, <2>3 DEF TunnelInv, Tunnel!TypeOK, Tunnel!Positions
  <2>5. /\ requests' \in Seq(Requests \cup {StopWorker})
        /\ Len(requests') <= Tunnel!Cardinality(Forwarders) /\ Len(requests') = Len(requests) + 1
        /\ requests'[Len(requests')] = StopWorker /\ DOMAIN requests' = 1..Len(requests')
        /\ DOMAIN requests = 1..Len(requests)
        /\ \A i \in DOMAIN requests : i \in DOMAIN requests' /\ requests'[i] = requests[i]
        /\ \A i \in DOMAIN requests' : i = Len(requests') \/ (i \in DOMAIN requests
                                                     /\ requests'[i] = requests[i])
    BY <2>1, <2>2, TunnelFacts
  <2>6. Tunnel!TypeOK'
    BY <2>2, <2>4, <2>5 DEF TunnelInv, Tunnel!TypeOK, Tunnel!QueueSize
  <2>7. FramesOK'
    BY <2>1, <2>2, <2>4, TunnelFacts DEF TunnelInv, FramesOK, Serving
  <2>8. QueueOK'
    <3>1. \A i, j \in DOMAIN requests' :
            i < j /\ requests'[i] = StopWorker => requests'[j] = StopWorker
      BY <2>1, <2>5 DEF TunnelInv, QueueOK
    <3>2. (\E w \in Forwarders : worker'[w] = "stopped") =>
            \A i \in DOMAIN requests' : requests'[i] = StopWorker
      BY <2>2, <2>5 DEF TunnelInv, QueueOK
    <3> QED BY <2>4, <3>1, <3>2 DEF QueueOK, Serving, Resting
  <2>9. FatesOK'
    BY <2>2, <2>5 DEF TunnelInv, FatesOK
  <2> QED BY <2>6, <2>7, <2>8, <2>9 DEF TunnelInv
<1>8. CASE Tunnel!Join
  <2>1. /\ \A w \in Forwarders : worker[w] = "stopped"
        /\ \A r \in Requests : fate[r] \notin {"queued", "forwarding"}
        /\ UNCHANGED <<open, inbox, left, fate, faults>>
    BY <1>8, StoppedIsDone DEF Tunnel!Join
  <2>2. CASE Tunnel!Connecting
    BY <1>0, <2>1, <2>2, ConnectingKeeps
  <2>3. CASE /\ \E at \in {"over", "sleeping"} : task' = [task EXCEPT !.at = at]
             /\ UNCHANGED <<requests, worker>>
    <3>1. /\ task' \in [at : Tunnel!Positions, reason : {None, "clean", "error", "cancelled"},
                        stops : 0..Tunnel!Cardinality(Forwarders)]
          /\ task'.at \in {"over", "sleeping"}
      BY <2>3 DEF TunnelInv, Tunnel!TypeOK, Tunnel!Positions
    <3>2. Tunnel!TypeOK'
      BY <2>1, <2>3, <3>1 DEF TunnelInv, Tunnel!TypeOK, Tunnel!QueueSize
    <3>3. FramesOK' /\ QueueOK' /\ FatesOK'
      BY <2>1, <2>3, <3>1 DEF TunnelInv, FramesOK, QueueOK, FatesOK, Serving
    <3> QED BY <3>2, <3>3 DEF TunnelInv
  <2> QED BY <1>8, <2>2, <2>3 DEF Tunnel!Join
<1>9. CASE Tunnel!Wake
  <2>1. \A r \in Requests : fate[r] \notin {"queued", "forwarding"}
    BY <1>9, StoppedIsDone DEF TunnelInv, QueueOK, Tunnel!Wake, Resting
  <2> QED BY <1>0, <1>9, <2>1, ConnectingKeeps DEF Tunnel!Wake
<1> QED BY <1>1, <1>2, <1>3, <1>4, <1>5, <1>6, <1>7, <1>8, <1>9 DEF Tunnel!Loop

LEMMA CancelKeeps ==
  ASSUME TunnelInv, Tunnel!Cancel
  PROVE  TunnelInv'
<1>1. faults' \in [faults : Nat, cancels : Nat]
  <2>1. faults \in [faults : Nat, cancels : Nat]
    BY DEF TunnelInv, Tunnel!TypeOK
  <2>2. faults' = [faults EXCEPT !.cancels = faults.cancels + 1]
    BY DEF Tunnel!Cancel
  <2> QED BY <2>1, <2>2
<1>2. CASE /\ task.at \in {"registering", "sleeping"}
           /\ task' = [task EXCEPT !.at = "over", !.reason = "cancelled"]
           /\ UNCHANGED <<open, inbox, left, requests, worker, fate>>
  <2>1. /\ task' \in [at : Tunnel!Positions, reason : {None, "clean", "error", "cancelled"},
                      stops : 0..Tunnel!Cardinality(Forwarders)]
        /\ task'.at = "over"
    BY <1>2 DEF TunnelInv, Tunnel!TypeOK, Tunnel!Positions
  <2>2. Tunnel!TypeOK'
    BY <1>1, <1>2, <2>1 DEF TunnelInv, Tunnel!TypeOK, Tunnel!QueueSize
  <2>3. FramesOK' /\ QueueOK' /\ FatesOK'
    BY <1>2, <2>1 DEF TunnelInv, FramesOK, QueueOK, FatesOK, Serving, Resting
  <2> QED BY <2>2, <2>3 DEF TunnelInv
<1>3. CASE task.at \in Serving /\ Tunnel!Disconnect("cancelled")
  BY <1>1, <1>3, DisconnectOK
<1>4. CASE Tunnel!KillWorkers
  <2>1. /\ task' = [task EXCEPT !.at = "over", !.reason = "cancelled"]
        /\ worker' = [w \in Forwarders |-> "stopped"] /\ requests' = <<>>
        /\ UNCHANGED <<open, inbox, left>>
    BY <1>4 DEF Tunnel!KillWorkers
  <2>2. /\ task' \in [at : Tunnel!Positions, reason : {None, "clean", "error", "cancelled"},
                      stops : 0..Tunnel!Cardinality(Forwarders)]
        /\ task'.at = "over"
    BY <2>1 DEF TunnelInv, Tunnel!TypeOK, Tunnel!Positions
  <2>3. /\ fate' \in [Requests -> Tunnel!Fates]
        /\ \A r \in Requests : fate'[r] \notin {"queued", "forwarding"}
    BY <1>4 DEF TunnelInv, Tunnel!TypeOK, Tunnel!KillWorkers, Tunnel!Fates
  <2>4. /\ requests' \in Seq(Requests \cup {StopWorker}) /\ Len(requests') = 0
        /\ DOMAIN requests' = {}
    BY <2>1
  <2>5. Tunnel!TypeOK'
    BY <1>1, <2>1, <2>2, <2>3, <2>4, TunnelFacts
      DEF TunnelInv, Tunnel!TypeOK, Tunnel!QueueSize
  <2>6. FramesOK' /\ QueueOK' /\ FatesOK'
    BY <2>1, <2>2, <2>3, <2>4 DEF TunnelInv, FramesOK, QueueOK, FatesOK, Serving
  <2> QED BY <2>5, <2>6 DEF TunnelInv
<1> QED BY <1>2, <1>3, <1>4 DEF Tunnel!Cancel, Serving

LEMMA TakeKeeps ==
  ASSUME TunnelInv, NEW k \in Forwarders, Tunnel!Take(k)
  PROVE  TunnelInv'
<1> DEFINE h == Head(requests)
<1>1. /\ worker[k] = "idle" /\ requests # <<>> /\ requests' = Tail(requests)
      /\ requests \in Seq(Requests \cup {StopWorker})
      /\ worker \in [Forwarders -> Requests \cup {"idle", "stopped"}]
      /\ fate \in [Requests -> Tunnel!Fates]
      /\ Len(requests) <= Tunnel!Cardinality(Forwarders)
      /\ UNCHANGED <<task, open, inbox, left, faults>>
  BY DEF Tunnel!Take, TunnelInv, Tunnel!TypeOK, Tunnel!QueueSize
<1>2. /\ requests' \in Seq(Requests \cup {StopWorker})
      /\ Len(requests') <= Tunnel!Cardinality(Forwarders)
      /\ \A i \in DOMAIN requests' : i + 1 \in DOMAIN requests /\ requests'[i] = requests[i + 1]
      /\ \A i \in DOMAIN requests : i = 1 \/ (i - 1 \in DOMAIN requests' /\ i > 1
                                             /\ requests'[i - 1] = requests[i])
      /\ 1 \in DOMAIN requests /\ h = requests[1] /\ h \in Requests \cup {StopWorker}
      /\ \A i \in DOMAIN requests' : i \in Nat /\ i > 0
  BY <1>1, TunnelFacts
<1>3. task.at \notin Resting
  BY <1>1 DEF TunnelInv, QueueOK
<1> HIDE DEF h
<1>4. \A i, j \in DOMAIN requests' :
        i < j /\ requests'[i] = StopWorker => requests'[j] = StopWorker
  <2> SUFFICES ASSUME NEW i \in DOMAIN requests', NEW j \in DOMAIN requests', i < j,
                      requests'[i] = StopWorker
               PROVE  requests'[j] = StopWorker
    OBVIOUS
  <2>1. /\ i + 1 \in DOMAIN requests /\ j + 1 \in DOMAIN requests /\ i + 1 < j + 1
        /\ requests'[i] = requests[i + 1] /\ requests'[j] = requests[j + 1]
    BY <1>2
  <2> QED BY <2>1 DEF TunnelInv, QueueOK
<1>5. FramesOK'
  BY <1>1 DEF TunnelInv, FramesOK
<1>6. CASE h = StopWorker
  <2>1. worker' = [worker EXCEPT ![k] = "stopped"] /\ fate' = fate
    BY <1>6 DEF Tunnel!Take, h
  <2>2. \A i \in DOMAIN requests' : requests'[i] = StopWorker
    <3> SUFFICES ASSUME NEW i \in DOMAIN requests' PROVE requests'[i] = StopWorker
      OBVIOUS
    <3>1. i + 1 \in DOMAIN requests /\ requests'[i] = requests[i + 1] /\ 1 < i + 1
      BY <1>2
    <3> QED BY <1>2, <1>6, <3>1 DEF TunnelInv, QueueOK
  <2>3. task.at \notin Serving
    BY <1>2, <1>6 DEF TunnelInv, QueueOK
  <2>4. QueueOK'
    BY <1>1, <1>3, <1>4, <2>2, <2>3 DEF QueueOK
  <2>5. \A r \in Requests :
          /\ worker[k] # r /\ r # h
          /\ \A w \in Forwarders \ {k} : worker'[w] = worker[w]
    BY <1>1, <1>6, <2>1, TunnelFacts
  <2>6. FatesOK'
    BY <1>2, <2>1, <2>5 DEF TunnelInv, FatesOK
  <2>7. Tunnel!TypeOK'
    <3>1. worker' \in [Forwarders -> Requests \cup {"idle", "stopped"}]
      BY <1>1, <2>1
    <3> QED BY <1>1, <1>2, <2>1, <3>1 DEF TunnelInv, Tunnel!TypeOK, Tunnel!QueueSize
  <2> QED BY <1>5, <2>4, <2>6, <2>7 DEF TunnelInv
<1>7. CASE h # StopWorker
  <2>1. /\ h \in Requests /\ worker' = [worker EXCEPT ![k] = h]
        /\ fate' = [fate EXCEPT ![h] = "forwarding"]
    BY <1>2, <1>7 DEF Tunnel!Take, h
  <2>2. \A w \in Forwarders : worker[w] # "stopped"
    BY <1>2, <1>7 DEF TunnelInv, QueueOK
  <2>3. \A w \in Forwarders : worker'[w] # "stopped"
    BY <1>1, <2>1, <2>2, TunnelFacts
  <2>4. task.at \in Serving => \A i \in DOMAIN requests' : requests'[i] # StopWorker
    BY <1>2 DEF TunnelInv, QueueOK
  <2>5. QueueOK'
    BY <1>1, <1>3, <1>4, <2>3, <2>4 DEF QueueOK
  <2>6. FatesOK'
    <3> SUFFICES ASSUME NEW r \in Requests
                 PROVE  /\ fate'[r] = "queued" => \E i \in DOMAIN requests' : requests'[i] = r
                        /\ fate'[r] = "forwarding" => \E w \in Forwarders : worker'[w] = r
      BY DEF FatesOK
    <3>1. CASE r = h
      BY <1>1, <2>1, <3>1
    <3>2. CASE r # h
      <4>1. fate'[r] = fate[r] /\ worker[k] # r
        BY <1>1, <2>1, <3>2, TunnelFacts
      <4>2. \A w \in Forwarders \ {k} : worker'[w] = worker[w]
        BY <1>1, <2>1
      <4>3. ASSUME fate'[r] = "queued"
            PROVE  \E i \in DOMAIN requests' : requests'[i] = r
        <5>1. PICK i \in DOMAIN requests : requests[i] = r
          BY <4>1, <4>3 DEF TunnelInv, FatesOK
        <5>2. i # 1
          BY <1>2, <3>2, <5>1
        <5>3. i - 1 \in DOMAIN requests' /\ requests'[i - 1] = requests[i]
          BY <1>2, <5>2
        <5> QED BY <5>1, <5>3
      <4>4. ASSUME fate'[r] = "forwarding"
            PROVE  \E w \in Forwarders : worker'[w] = r
        <5>1. PICK w \in Forwarders : worker[w] = r
          BY <4>1, <4>4 DEF TunnelInv, FatesOK
        <5> QED BY <4>1, <4>2, <5>1
      <4> QED BY <4>3, <4>4
    <3> QED BY <3>1, <3>2
  <2>7. Tunnel!TypeOK'
    <3>1. /\ worker' \in [Forwarders -> Requests \cup {"idle", "stopped"}]
          /\ fate' \in [Requests -> Tunnel!Fates]
      BY <1>1, <2>1 DEF Tunnel!Fates
    <3> QED BY <1>1, <1>2, <3>1 DEF TunnelInv, Tunnel!TypeOK, Tunnel!QueueSize
  <2> QED BY <1>5, <2>5, <2>6, <2>7 DEF TunnelInv
<1> QED BY <1>6, <1>7

LEMMA ForwardKeeps ==
  ASSUME TunnelInv, NEW k \in Forwarders, Tunnel!Finish(k)
  PROVE  TunnelInv'
<1> DEFINE q == worker[k]
<1>1. /\ q \in Requests /\ worker' = [worker EXCEPT ![k] = "idle"]
      /\ UNCHANGED <<task, open, inbox, left, requests, faults>>
      /\ worker \in [Forwarders -> Requests \cup {"idle", "stopped"}]
      /\ fate \in [Requests -> Tunnel!Fates]
  BY DEF Tunnel!Finish, TunnelInv, Tunnel!TypeOK
<1>2. PICK what \in {"answered", "failed", "undelivered"} : fate' = [fate EXCEPT ![q] = what]
  BY DEF Tunnel!Finish
<1> HIDE DEF q
<1>3. /\ worker' \in [Forwarders -> Requests \cup {"idle", "stopped"}]
      /\ fate' \in [Requests -> Tunnel!Fates]
  BY <1>1, <1>2 DEF Tunnel!Fates
<1>4. Tunnel!TypeOK'
  BY <1>1, <1>3 DEF TunnelInv, Tunnel!TypeOK, Tunnel!QueueSize
<1>5. \A w \in Forwarders : w # k => worker'[w] = worker[w]
  BY <1>1
<1>6. worker'[k] = "idle" /\ worker[k] # "stopped"
  BY <1>1, TunnelFacts DEF q
<1>7. FramesOK' /\ QueueOK'
  BY <1>1, <1>5, <1>6 DEF TunnelInv, FramesOK, QueueOK
<1>8. FatesOK'
  <2> SUFFICES ASSUME NEW r \in Requests
               PROVE  /\ fate'[r] = "queued" => \E i \in DOMAIN requests' : requests'[i] = r
                      /\ fate'[r] = "forwarding" => \E w \in Forwarders : worker'[w] = r
    BY DEF FatesOK
  <2>1. CASE r = q
    BY <1>1, <1>2, <2>1
  <2>2. CASE r # q
    <3>1. fate'[r] = fate[r]
      BY <1>1, <1>2, <2>2
    <3> QED BY <1>1, <1>5, <2>2, <3>1 DEF TunnelInv, FatesOK, q
  <2> QED BY <2>1, <2>2
<1> QED BY <1>4, <1>7, <1>8 DEF TunnelInv

LEMMA TunnelStep == TunnelInv /\ [Next]_vars => TunnelInv'
<1> SUFFICES ASSUME TunnelInv, [Next]_vars PROVE TunnelInv'
  OBVIOUS
<1>1. CASE UNCHANGED tunnelVars
  <2>1. Tunnel!TypeOK'
    BY <1>1 DEF TunnelInv, Tunnel!TypeOK, tunnelVars, Tunnel!QueueSize
  <2>2. FramesOK' /\ QueueOK' /\ FatesOK'
    BY <1>1 DEF TunnelInv, FramesOK, QueueOK, FatesOK, tunnelVars
  <2> QED BY <2>1, <2>2 DEF TunnelInv
<1>2. CASE Tunnel!RemoteCloses
  <2>1. /\ open' = FALSE /\ UNCHANGED <<task, inbox, left, requests, worker, fate>>
        /\ faults' \in [faults : Nat, cancels : Nat]
    BY <1>2, FaultSpends DEF Tunnel!RemoteCloses
  <2>2. Tunnel!TypeOK'
    BY <2>1 DEF TunnelInv, Tunnel!TypeOK, Tunnel!QueueSize
  <2>3. FramesOK' /\ QueueOK' /\ FatesOK'
    BY <2>1 DEF TunnelInv, FramesOK, QueueOK, FatesOK
  <2> QED BY <2>2, <2>3 DEF TunnelInv
<1>3. CASE Tunnel!Next
  BY <1>2, <1>3, RemoteSendsKeeps, LoopKeeps, CancelKeeps, TakeKeeps, ForwardKeeps
    DEF Tunnel!Next, Tunnel!Work
<1> QED BY <1>1, <1>3 DEF Next, vars

\* A request in the queue is reached, for any number of requests and workers and however
\* connections fail: no sentinel is before it, and no worker has stopped.  A connection
\* ends only with its work done (_dispatch, _forward_worker, the finally of
\* _connect_once).
THEOREM TunnelLosesNothing == Spec => []TunnelKeepsWork
<1>1. TunnelInv => Tunnel!QueuedIsReached
  <2> SUFFICES ASSUME TunnelInv, NEW i \in DOMAIN requests, requests[i] # StopWorker
               PROVE  Tunnel!Cardinality({j \in 1..(i - 1) : requests[j] = StopWorker})
                        < Tunnel!Cardinality({w \in Forwarders : worker[w] # "stopped"})
    BY DEF Tunnel!QueuedIsReached
  <2>1. requests \in Seq(Requests \cup {StopWorker})
    BY DEF TunnelInv, Tunnel!TypeOK
  <2>2. {j \in 1..(i - 1) : requests[j] = StopWorker} = {}
    <3> SUFFICES ASSUME NEW j \in 1..(i - 1), requests[j] = StopWorker PROVE FALSE
      OBVIOUS
    <3>1. j \in DOMAIN requests /\ j < i
      BY <2>1
    <3> QED BY <3>1 DEF TunnelInv, QueueOK
  <2>3. {w \in Forwarders : worker[w] # "stopped"} = Forwarders
    BY DEF TunnelInv, QueueOK
  <2>4. Tunnel!Cardinality({}) = 0
    BY SameSets, FS_EmptySet
  <2> QED BY <2>2, <2>3, <2>4, TunnelFacts
<1>2. TunnelInv => Tunnel!NothingLeftBehind
  BY StoppedIsDone DEF TunnelInv, QueueOK, Resting, Tunnel!NothingLeftBehind
<1>3. TunnelInv => TunnelKeepsWork
  BY <1>1, <1>2 DEF TunnelInv, TunnelKeepsWork
<1> QED BY <1>3, TunnelInit, TunnelStep, PTL DEF Spec

-----------------------------------------------------------------------------
(* The reviews of the gateway.  A job is in one place at a time: the queue,  *)
(* a worker, the POST of a rejection, or a callback that stop() scheduled;   *)
(* and what it was told follows from that place (PlaceOK, of each message    *)
(* by itself).  The window of known deliveries holds, without repetition,    *)
(* deliveries that came: while it was never full it holds all that entered   *)
(* the queue (WindowOK).                                                     *)

IsQueued(m) == \E i \in DOMAIN jobs : jobs[i] = m
WasTaken(m) == \E i \in DOMAIN taken : taken[i] = m

PostsOK ==
  /\ IF reader.at = "posting"
     THEN reader.post.msg \in Messages /\ reader.post.verdict \in Reviews!Verdicts
     ELSE reader.post.msg = None
  /\ \A w \in Reviewers :
       /\ reviewer[w].at \in {"reviewing", "posting"} => reviewer[w].post.msg \in Messages
       /\ reviewer[w].at = "posting" => reviewer[w].post.verdict \in Reviews!Verdicts
       /\ reviewer[w].at \notin {"reviewing", "posting"} => reviewer[w].post.msg = None

PhaseOK ==
  /\ phase = "running" =>
       /\ \A i \in DOMAIN jobs : jobs[i] # StopWorker
       /\ \A m \in Messages : callback[m].at = "none"
  /\ phase # "running" =>
       reader.at = "over" /\ \A i \in DOMAIN jobs : jobs[i] = StopWorker
  /\ phase \in {"callbacks", "stopped"} =>
       \A w \in Reviewers : reviewer[w].at \in {"none", "ended"}
  /\ phase = "stopped" => \A m \in Messages : callback[m].at # "posting"
  /\ \A i, j \in DOMAIN jobs : jobs[i] = jobs[j] /\ jobs[i] # StopWorker => i = j

PlaceOK(m) ==
  /\ m \notin arrived =>
       /\ ~IsQueued(m) /\ ~WasTaken(m) /\ told[m] = {} /\ callback[m].at = "none"
       /\ reader.post.msg # m /\ \A w \in Reviewers : reviewer[w].post.msg # m
  /\ IsQueued(m) =>
       /\ told[m] = {} /\ callback[m].at = "none"
       /\ reader.post.msg # m /\ \A w \in Reviewers : reviewer[w].post.msg # m
  /\ \A w \in Reviewers : reviewer[w].post.msg = m =>
       /\ told[m] \subseteq IF reviewer[w].at = "posting"
                            THEN {reviewer[w].post.verdict} ELSE {}
       /\ callback[m].at = "none" /\ reader.post.msg # m
       /\ \A v \in Reviewers : reviewer[v].post.msg = m => v = w
  /\ reader.post.msg = m =>
       told[m] \subseteq {reader.post.verdict} /\ callback[m].at = "none"
  /\ callback[m].at = "posting" => told[m] \subseteq {"shutdown"}
  /\ \A u, v \in told[m] : u = v
  /\ WasTaken(m) =>
       \/ IsQueued(m) \/ \E w \in Reviewers : reviewer[w].post.msg = m
       \/ callback[m].at # "none" \/ told[m] # {} \/ m \in unheard
  /\ callback[m].at = "ended" => told[m] # {} \/ m \in unheard

Delivered == {DeliveryOf[m] : m \in arrived} \ {None}
IsKnown(d) == \E i \in DOMAIN seen : seen[i] = d

WindowOK ==
  /\ IsFiniteSet(arrived)
  /\ \A i \in DOMAIN taken : taken[i] \in arrived
  /\ \A i \in DOMAIN seen : seen[i] \in Delivered
  /\ \A i, j \in DOMAIN seen : seen[i] = seen[j] => i = j
  /\ \A i \in DOMAIN taken :
       \/ DeliveryOf[taken[i]] = None \/ IsKnown(DeliveryOf[taken[i]])
       \/ Cardinality(Delivered) > SeenLimit
  /\ \A i, j \in DOMAIN taken :
       i < j /\ DeliveryOf[taken[i]] = DeliveryOf[taken[j]] /\ DeliveryOf[taken[i]] # None
         => Cardinality(Delivered) > SeenLimit

ReviewInv ==
  /\ Reviews!TypeOK /\ PostsOK /\ PhaseOK
  /\ \A m \in Messages : PlaceOK(m)
  /\ WindowOK

LEMMA SameReviewSets ==
  ASSUME NEW S
  PROVE  /\ Reviews!Cardinality(S) = Cardinality(S)
         /\ Reviews!IsFiniteSet(S) <=> IsFiniteSet(S)
<1>1. Reviews!Cardinality(S) = Cardinality(S)
  BY Zenon DEF Reviews!Cardinality, Cardinality
<1>2. Reviews!IsFiniteSet(S) <=> IsFiniteSet(S)
  BY Zenon DEF Reviews!IsFiniteSet, IsFiniteSet
<1> QED BY <1>1, <1>2

LEMMA ReviewFacts ==
  /\ IsFiniteSet(Reviewers) /\ Cardinality(Reviewers) <= MaxQueued
  /\ MaxQueued \in Nat \ {0} /\ SeenLimit \in Nat \ {0} /\ Attempts \in Nat \ {0}
  /\ None \notin Messages /\ StopWorker \notin Messages
  /\ DeliveryOf \in [Messages -> Deliveries \cup {None}] /\ None \notin Deliveries
<1>1. /\ Reviews!IsFiniteSet(Reviewers) /\ Reviews!Cardinality(Reviewers) <= MaxQueued
      /\ {MaxQueued, SeenLimit, Attempts} \subseteq Nat \ {0}
      /\ {None, StopWorker} \cap Messages = {}
      /\ DeliveryOf \in [Messages -> Deliveries \cup {None}] /\ None \notin Deliveries
  BY ReviewParameters DEF Reviews!Parameters
<1>2. IsFiniteSet(Reviewers) /\ Cardinality(Reviewers) <= MaxQueued
  BY <1>1, SameReviewSets
<1> QED BY <1>1, <1>2

\* A message that stays where it was, and was told nothing.
LEMMA Unaffected ==
  ASSUME NEW m \in Messages, PlaceOK(m),
         (m \in arrived') = (m \in arrived),
         IsQueued(m)' = IsQueued(m), WasTaken(m)' = WasTaken(m),
         told'[m] = told[m], callback'[m].at = callback[m].at,
         (m \in unheard') = (m \in unheard),
         reader'.post.msg = m =>
           reader.post.msg = m /\ reader'.post.verdict = reader.post.verdict,
         \A w \in Reviewers :
           /\ (reviewer'[w].post.msg = m) = (reviewer[w].post.msg = m)
           /\ reviewer[w].post.msg = m =>
                /\ reviewer'[w].at = reviewer[w].at
                /\ reviewer'[w].post.verdict = reviewer[w].post.verdict
  PROVE  PlaceOK(m)'
BY DEF PlaceOK

LEMMA ReviewInit == Init => ReviewInv
<1> SUFFICES ASSUME Reviews!Init PROVE ReviewInv
  BY DEF Init
<1> USE DEF Reviews!Init
<1>1. Reviews!TypeOK
  <2>1. Reviews!NotPosting \in Reviews!Posting /\ Attempts \in Nat
    BY ReviewFacts DEF Reviews!NotPosting, Reviews!Posting
  <2>2. <<>> \in Seq(Deliveries) /\ <<>> \in Seq(Messages \cup {StopWorker})
        /\ <<>> \in Seq(Messages) /\ Len(<<>>) = 0
    OBVIOUS
  <2> QED BY <2>1, <2>2, ReviewFacts DEF Reviews!TypeOK
<1>2. PostsOK
  BY DEF PostsOK, Reviews!NotPosting
<1>3. PhaseOK
  BY DEF PhaseOK
<1>4. \A m \in Messages : PlaceOK(m)
  BY ReviewFacts DEF PlaceOK, IsQueued, WasTaken, Reviews!NotPosting
<1>5. WindowOK
  BY FS_EmptySet DEF WindowOK
<1> QED BY <1>1, <1>2, <1>3, <1>4, <1>5 DEF ReviewInv

-----------------------------------------------------------------------------
(* The window: only an arrival changes it.                                 *)

LEMMA WindowSame ==
  ASSUME WindowOK, UNCHANGED <<arrived, taken, seen>>
  PROVE  WindowOK'
BY DEF WindowOK, Delivered, IsKnown

\* The set of deliveries that came is finite, and an arrival adds its own.
LEMMA DeliveredGrows ==
  ASSUME IsFiniteSet(arrived), arrived \subseteq Messages,
         NEW m \in Messages, arrived' = arrived \cup {m}
  PROVE  /\ IsFiniteSet(Delivered) /\ IsFiniteSet(Delivered')
         /\ Cardinality(Delivered) \in Nat /\ Cardinality(Delivered') \in Nat
         /\ Delivered \subseteq Delivered'
         /\ Delivered' \subseteq Delivered \cup {DeliveryOf[m]}
         /\ DeliveryOf[m] # None => DeliveryOf[m] \in Delivered'
         /\ Cardinality(Delivered) <= Cardinality(Delivered')
<1> DEFINE all == {DeliveryOf[x] : x \in arrived}
           f == [x \in arrived |-> DeliveryOf[x]]
<1>1. f \in Surjection(arrived, all)
  BY DEF Surjection
<1>2. IsFiniteSet(all)
  BY <1>1, FS_Surjection
<1>3. Delivered = all \ {None}
  BY DEF Delivered
<1>4. IsFiniteSet(Delivered)
  BY <1>2, <1>3, FS_Subset
<1>5. Delivered' = (all \cup {DeliveryOf[m]}) \ {None}
  BY DEF Delivered
<1>6. IsFiniteSet(all \cup {DeliveryOf[m]})
  BY <1>2, FS_AddElement
<1>7. IsFiniteSet(Delivered')
  BY <1>5, <1>6, FS_Subset
<1>8. Delivered \subseteq Delivered'
  BY <1>3, <1>5
<1>9. Cardinality(Delivered) <= Cardinality(Delivered')
  BY <1>7, <1>8, FS_Subset
<1>10. Cardinality(Delivered) \in Nat /\ Cardinality(Delivered') \in Nat
  BY <1>4, <1>7, FS_CardinalityType
<1> QED BY <1>3, <1>4, <1>5, <1>7, <1>8, <1>9, <1>10

\* A window that is full of different deliveries, none of them the one that arrives.
LEMMA WindowOverflows ==
  ASSUME NEW s \in Seq(Deliveries), NEW D, IsFiniteSet(D), NEW d \in D,
         \A i \in DOMAIN s : s[i] \in D /\ s[i] # d,
         \A i, j \in DOMAIN s : s[i] = s[j] => i = j
  PROVE  Cardinality(D) > Len(s)
<1> DEFINE f == [i \in 1..(Len(s) + 1) |-> IF i = Len(s) + 1 THEN d ELSE s[i]]
<1>1. Len(s) \in Nat /\ DOMAIN s = 1..Len(s)
  OBVIOUS
<1>2. f \in Injection(1..(Len(s) + 1), D)
  <2>1. f \in [1..(Len(s) + 1) -> D]
    BY <1>1
  <2>2. ASSUME NEW i \in 1..(Len(s) + 1), NEW j \in 1..(Len(s) + 1), f[i] = f[j]
        PROVE  i = j
    <3>1. CASE i = Len(s) + 1 /\ j = Len(s) + 1
      BY <3>1
    <3>2. CASE i # Len(s) + 1 /\ j = Len(s) + 1
      <4>1. i \in DOMAIN s
        BY <1>1, <3>2
      <4> QED BY <2>2, <3>2, <4>1
    <3>3. CASE i = Len(s) + 1 /\ j # Len(s) + 1
      <4>1. j \in DOMAIN s
        BY <1>1, <3>3
      <4> QED BY <2>2, <3>3, <4>1
    <3>4. CASE i # Len(s) + 1 /\ j # Len(s) + 1
      <4>1. i \in DOMAIN s /\ j \in DOMAIN s
        BY <1>1, <3>4
      <4> QED BY <2>2, <3>4, <4>1
    <3> QED BY <3>1, <3>2, <3>3, <3>4
  <2> HIDE DEF f
  <2>3. IsInjective(f)
    BY <2>1, <2>2 DEF IsInjective
  <2> QED BY Zenon, <2>1, <2>3 DEF Injection
<1>3. Cardinality(1..(Len(s) + 1)) = Len(s) + 1
  BY <1>1, FS_Interval
<1>4. Cardinality(1..(Len(s) + 1)) <= Cardinality(D)
  BY <1>2, FS_Injection
<1>5. Cardinality(D) \in Nat
  BY FS_CardinalityType
<1>6. Len(s) + 1 <= Cardinality(D)
  BY <1>3, <1>4
<1>7. \A n, k \in Nat : n + 1 <= k => k > n
  OBVIOUS
<1> QED BY <1>1, <1>5, <1>6, <1>7

\* What Remember makes of the window.
LEMMA RememberKeeps ==
  ASSUME seen \in Seq(Deliveries), Len(seen) <= SeenLimit, NEW d \in Deliveries,
         ~IsKnown(d),
         \A i, j \in DOMAIN seen : seen[i] = seen[j] => i = j,
         NEW s, s = Reviews!Remember(d)
  PROVE  /\ s \in Seq(Deliveries) /\ Len(s) <= SeenLimit
         /\ \A i \in DOMAIN s : s[i] = d \/ IsKnown(s[i])
         /\ \A i, j \in DOMAIN s : s[i] = s[j] => i = j
         /\ \E i \in DOMAIN s : s[i] = d
         /\ Len(seen) # SeenLimit =>
              \A x : IsKnown(x) => \E i \in DOMAIN s : s[i] = x
<1>1. SeenLimit \in Nat \ {0} /\ d # None
  BY ReviewFacts
<1>2. CASE Len(seen) = SeenLimit
  <2> DEFINE t == Tail(seen)
  <2>1. s = Append(t, d)
    BY <1>1, <1>2 DEF Reviews!Remember
  <2>2. /\ t \in Seq(Deliveries) /\ Len(t) = Len(seen) - 1
        /\ \A i \in 1..Len(t) : i + 1 \in 1..Len(seen) /\ t[i] = seen[i + 1]
    <3>1. seen # <<>> /\ Len(seen) \in Nat
      BY <1>1, <1>2
    <3>2. t \in Seq(Deliveries) /\ Len(t) = Len(seen) - 1
      BY <3>1, HeadTailProperties
    <3>3. \A i \in 1..Len(t) : t[i] = seen[i + 1]
      BY <3>1, HeadTailProperties
    <3> QED BY <3>1, <3>2, <3>3
  <2> HIDE DEF t
  <2>3. /\ s \in Seq(Deliveries) /\ Len(s) = Len(seen)
        /\ DOMAIN s = 1..Len(seen) /\ DOMAIN seen = 1..Len(seen)
        /\ s[Len(seen)] = d
        /\ \A i \in 1..(Len(seen) - 1) : s[i] = t[i]
    <3>1. Len(s) = Len(t) + 1 /\ s \in Seq(Deliveries) /\ s[Len(t) + 1] = d
      BY <2>1, <2>2, AppendProperties
    <3>2. \A i \in 1..Len(t) : s[i] = t[i]
      BY <2>1, <2>2, AppendProperties
    <3>3. Len(seen) \in Nat
      OBVIOUS
    <3>4. Len(t) = Len(seen) - 1 /\ Len(t) + 1 = Len(seen)
      BY <2>2, <3>3
    <3>5. DOMAIN s = 1..Len(s) /\ DOMAIN seen = 1..Len(seen)
      BY <3>1
    <3>6. s[Len(seen)] = d /\ Len(s) = Len(seen)
      BY Zenon, <3>1, <3>4
    <3>7. \A i \in 1..(Len(seen) - 1) : s[i] = t[i]
      BY Zenon, <3>2, <3>4
    <3> QED BY Zenon, <3>1, <3>5, <3>6, <3>7
  <2>4. \A i \in 1..(Len(seen) - 1) :
          i + 1 \in DOMAIN seen /\ s[i] = seen[i + 1] /\ s[i] # d
    <3> TAKE i \in 1..(Len(seen) - 1)
    <3>1. i \in 1..Len(t) /\ i + 1 \in 1..Len(seen) /\ t[i] = seen[i + 1]
      BY <2>2
    <3>2. s[i] = seen[i + 1] /\ i + 1 \in DOMAIN seen
      BY <2>3, <3>1
    <3> QED BY <3>2 DEF IsKnown
  <2>5. Len(seen) \in Nat \ {0}
    BY <1>1, <1>2
  <2>6. \A i \in DOMAIN s : s[i] = d \/ IsKnown(s[i])
    BY <2>3, <2>4, <2>5 DEF IsKnown
  <2>7. ASSUME NEW i \in DOMAIN s, NEW j \in DOMAIN s, s[i] = s[j] PROVE i = j
    <3>1. i \in 1..Len(seen) /\ j \in 1..Len(seen)
      BY <2>3
    <3>2. CASE i < Len(seen) /\ j < Len(seen)
      <4>1. i \in 1..(Len(seen) - 1) /\ j \in 1..(Len(seen) - 1)
        BY <2>5, <3>1, <3>2
      <4>2. i + 1 \in DOMAIN seen /\ j + 1 \in DOMAIN seen /\ seen[i + 1] = seen[j + 1]
        BY <2>4, <2>7, <4>1
      <4>3. i + 1 = j + 1
        BY <4>2
      <4> QED BY <3>1, <4>3
    <3>3. CASE i = Len(seen) /\ j # Len(seen)
      <4>1. j \in 1..(Len(seen) - 1)
        BY <2>5, <3>1, <3>3
      <4>2. s[j] # d /\ s[i] = d
        BY <2>3, <2>4, <3>3, <4>1
      <4> QED BY <2>7, <4>2
    <3>4. CASE i # Len(seen) /\ j = Len(seen)
      <4>1. i \in 1..(Len(seen) - 1)
        BY <2>5, <3>1, <3>4
      <4>2. s[i] # d /\ s[j] = d
        BY <2>3, <2>4, <3>4, <4>1
      <4> QED BY <2>7, <4>2
    <3> QED BY <2>5, <3>1, <3>2, <3>3, <3>4
  <2> QED BY <1>2, <2>3, <2>5, <2>6, <2>7
<1>3. CASE Len(seen) # SeenLimit
  <2>1. s = Append(seen, d)
    BY <1>1, <1>3 DEF Reviews!Remember
  <2>2. /\ s \in Seq(Deliveries) /\ Len(s) = Len(seen) + 1 /\ Len(seen) \in Nat
        /\ DOMAIN s = 1..(Len(seen) + 1) /\ DOMAIN seen = 1..Len(seen)
        /\ s[Len(seen) + 1] = d
        /\ \A i \in DOMAIN seen : s[i] = seen[i] /\ s[i] # d
    BY <1>1, <2>1 DEF IsKnown
  <2>3. Len(s) <= SeenLimit
    <3>1. \A n, k \in Nat : n <= k /\ n # k => n + 1 <= k
      OBVIOUS
    <3>2. SeenLimit \in Nat /\ Len(seen) <= SeenLimit
      BY <1>1
    <3>3. Len(seen) + 1 <= SeenLimit
      BY Zenon, <1>3, <2>2, <3>1, <3>2
    <3> QED BY Zenon, <2>2, <3>3
  <2>4. \A i \in DOMAIN s : s[i] = d \/ IsKnown(s[i])
    BY <2>2 DEF IsKnown
  <2>5. \A i, j \in DOMAIN s : s[i] = s[j] => i = j
    BY <2>2
  <2>6. \A x : IsKnown(x) => \E i \in DOMAIN s : s[i] = x
    BY <2>2 DEF IsKnown
  <2> QED BY <2>2, <2>3, <2>4, <2>5, <2>6
<1> QED BY <1>2, <1>3

LEMMA WindowArrives ==
  ASSUME ReviewInv, NEW m \in Messages, Reviews!Arrive(m)
  PROVE  WindowOK'
<1> DEFINE d == DeliveryOf[m]
           more == Cardinality(Delivered')
           known(x) == \E i \in DOMAIN seen' : seen'[i] = x
<1>1. /\ arrived' = arrived \cup {m} /\ m \notin arrived /\ arrived \subseteq Messages
      /\ seen \in Seq(Deliveries) /\ Len(seen) <= SeenLimit /\ taken \in Seq(Messages)
      /\ d \in Deliveries \cup {None} /\ None \notin Deliveries
  BY ReviewFacts DEF ReviewInv, Reviews!TypeOK, Reviews!Arrive
<1>2. /\ IsFiniteSet(arrived)
      /\ \A i \in DOMAIN taken : taken[i] \in arrived
      /\ \A i \in DOMAIN seen : seen[i] \in Delivered
      /\ \A i, j \in DOMAIN seen : seen[i] = seen[j] => i = j
      /\ \A i \in DOMAIN taken :
           \/ DeliveryOf[taken[i]] = None \/ IsKnown(DeliveryOf[taken[i]])
           \/ Cardinality(Delivered) > SeenLimit
      /\ \A i, j \in DOMAIN taken :
           i < j /\ DeliveryOf[taken[i]] = DeliveryOf[taken[j]] /\ DeliveryOf[taken[i]] # None
             => Cardinality(Delivered) > SeenLimit
  BY DEF ReviewInv, WindowOK
<1>3. /\ IsFiniteSet(Delivered') /\ Delivered \subseteq Delivered' /\ more \in Nat
      /\ d # None => d \in Delivered'
      /\ Cardinality(Delivered) \in Nat /\ Cardinality(Delivered) <= more
  BY <1>1, <1>2, DeliveredGrows
<1>4. SeenLimit \in Nat
  BY ReviewFacts
<1>5. Cardinality(Delivered) > SeenLimit => more > SeenLimit
  BY <1>3, <1>4
<1>6. IsFiniteSet(arrived')
  BY <1>1, <1>2, FS_AddElement
<1> HIDE DEF d, more
\* What the window becomes, and that it lost nothing or overflowed.
<1>7. CASE UNCHANGED <<seen, taken>>
  <2> QED BY <1>1, <1>2, <1>3, <1>5, <1>6, <1>7 DEF WindowOK, more, IsKnown
<1>8. CASE Reviews!Accept(m)
  <2>1. d \notin Reviews!Range(seen) /\ seen' = Reviews!Remember(d)
    BY <1>8 DEF Reviews!Accept, d
  <2>2. ~IsKnown(d)
    BY <2>1 DEF IsKnown, Reviews!Range
  <2>3. /\ \A i \in DOMAIN seen' : seen'[i] \in Delivered'
        /\ \A i, j \in DOMAIN seen' : seen'[i] = seen'[j] => i = j
        /\ d # None => \E i \in DOMAIN seen' : seen'[i] = d
        /\ \/ more > SeenLimit
           \/ \A x : IsKnown(x) => \E i \in DOMAIN seen' : seen'[i] = x
    <3>1. CASE d = None
      <4>1. seen' = seen
        BY <2>1, <3>1 DEF Reviews!Remember
      <4> QED BY <1>2, <1>3, <3>1, <4>1 DEF IsKnown
    <3>2. CASE d # None
      <4>1. d \in Deliveries
        BY <1>1, <3>2
      <4>2. /\ \A i \in DOMAIN seen' : seen'[i] = d \/ IsKnown(seen'[i])
            /\ \A i, j \in DOMAIN seen' : seen'[i] = seen'[j] => i = j
            /\ \E i \in DOMAIN seen' : seen'[i] = d
            /\ Len(seen) # SeenLimit =>
                 \A x : IsKnown(x) => \E i \in DOMAIN seen' : seen'[i] = x
        BY <1>1, <1>2, <2>1, <2>2, <4>1, RememberKeeps
      <4>3. \A i \in DOMAIN seen' : seen'[i] \in Delivered'
        BY <1>2, <1>3, <3>2, <4>2 DEF IsKnown
      <4>4. ASSUME Len(seen) = SeenLimit PROVE more > SeenLimit
        <5>1. \A i \in DOMAIN seen : seen[i] \in Delivered' /\ seen[i] # d
          BY <1>2, <1>3, <2>2 DEF IsKnown
        <5>2. d \in Delivered'
          BY <1>3, <3>2
        <5>3. Cardinality(Delivered') > Len(seen)
          BY <1>1, <1>2, <1>3, <5>1, <5>2, WindowOverflows
        <5> QED BY <4>4, <5>3 DEF more
      <4> QED BY <4>2, <4>3, <4>4
    <3> QED BY <3>1, <3>2
  <2>4. /\ d # None => known(d)
        /\ more > SeenLimit \/ \A x : IsKnown(x) => known(x)
    BY <2>3
  <2> HIDE DEF known
  <2>5. ASSUME NEW i \in DOMAIN taken
        PROVE  \/ DeliveryOf[taken[i]] = None \/ known(DeliveryOf[taken[i]])
               \/ more > SeenLimit
    BY <1>2, <1>5, <2>4
  <2>6. CASE taken' = taken
    BY <1>1, <1>2, <1>5, <1>6, <2>3, <2>5, <2>6 DEF WindowOK, more, IsKnown, known
  <2>7. CASE taken' = Append(taken, m)
    <3> DEFINE n == Len(taken)
    <3>1. /\ n \in Nat /\ DOMAIN taken = 1..n /\ DOMAIN taken' = 1..(n + 1)
          /\ taken'[n + 1] = m /\ \A i \in 1..n : taken'[i] = taken[i]
      BY <1>1, <2>7
    <3> HIDE DEF n
    <3>2. \A i \in DOMAIN taken' : i \in 1..n \/ i = n + 1
      BY <3>1
    <3>3. \A i \in DOMAIN taken' : taken'[i] \in arrived'
      BY <1>1, <1>2, <3>1, <3>2
    <3>4. ASSUME NEW i \in DOMAIN taken'
          PROVE  \/ DeliveryOf[taken'[i]] = None \/ known(DeliveryOf[taken'[i]])
                 \/ more > SeenLimit
      <4>1. CASE i = n + 1
        BY <2>4, <3>1, <4>1 DEF d
      <4>2. CASE i \in 1..n
        BY <2>5, <3>1, <4>2
      <4> QED BY <3>2, <4>1, <4>2
    <3>5. ASSUME NEW i \in DOMAIN taken', NEW j \in DOMAIN taken', i < j,
                 DeliveryOf[taken'[i]] = DeliveryOf[taken'[j]],
                 DeliveryOf[taken'[i]] # None
          PROVE  more > SeenLimit
      <4>1. i \in 1..n
        BY <3>1, <3>5
      <4>2. CASE j \in 1..n
        BY <1>2, <1>5, <3>1, <3>5, <4>1, <4>2
      <4>3. CASE j = n + 1
        <5>1. DeliveryOf[taken[i]] = d /\ d # None /\ i \in DOMAIN taken
          BY <3>1, <3>5, <4>1, <4>3 DEF d
        <5> QED BY <1>2, <1>5, <2>2, <5>1
      <4> QED BY <3>2, <4>2, <4>3
    <3> QED BY <1>6, <2>3, <3>3, <3>4, <3>5 DEF WindowOK, more, IsKnown, known
  <2> QED BY <1>8, <2>6, <2>7 DEF Reviews!Accept
<1> QED BY <1>7, <1>8 DEF Reviews!Arrive, Reviews!RefuseMalformed, Reviews!DropDuplicate

-----------------------------------------------------------------------------
(* The places of the jobs.                                                 *)

LEMMA AppendedOne ==
  ASSUME NEW S, NEW s \in Seq(S), NEW x \in S
  PROVE  /\ Append(s, x) \in Seq(S) /\ Len(Append(s, x)) = Len(s) + 1
         /\ \A y : (\E i \in DOMAIN Append(s, x) : Append(s, x)[i] = y)
                     <=> y = x \/ \E i \in DOMAIN s : s[i] = y
         /\ \A i \in DOMAIN Append(s, x) :
              \/ i \in DOMAIN s /\ Append(s, x)[i] = s[i]
              \/ i = Len(s) + 1 /\ Append(s, x)[i] = x
<1> DEFINE a == Append(s, x)
<1>1. /\ a \in Seq(S) /\ Len(a) = Len(s) + 1
      /\ Len(s) \in Nat /\ DOMAIN s = 1..Len(s)
      /\ DOMAIN a = 1..(Len(s) + 1)
      /\ a[Len(s) + 1] = x
      /\ \A i \in 1..Len(s) : a[i] = s[i]
  OBVIOUS
<1>2. \A i \in 1..(Len(s) + 1) : i \in 1..Len(s) \/ i = Len(s) + 1
  BY <1>1
<1>3. 1..Len(s) \subseteq 1..(Len(s) + 1) /\ Len(s) + 1 \in 1..(Len(s) + 1)
  BY <1>1
<1> HIDE DEF a
<1>4. \A i \in DOMAIN a :
        \/ i \in DOMAIN s /\ a[i] = s[i]
        \/ i = Len(s) + 1 /\ a[i] = x
  BY Zenon, <1>1, <1>2
<1>5. ASSUME NEW y
      PROVE  (\E i \in DOMAIN a : a[i] = y) <=> y = x \/ \E i \in DOMAIN s : s[i] = y
  <2>1. ASSUME NEW i \in DOMAIN s, s[i] = y PROVE \E j \in DOMAIN a : a[j] = y
    BY <1>1, <1>3, <2>1
  <2>2. ASSUME y = x PROVE \E j \in DOMAIN a : a[j] = y
    BY Zenon, <1>1, <1>3, <2>2
  <2> QED BY Zenon, <1>4, <2>1, <2>2
<1> QED BY Zenon, <1>1, <1>4, <1>5 DEF a

LEMMA TakenFirst ==
  ASSUME NEW S, NEW s \in Seq(S), s # <<>>
  PROVE  /\ Tail(s) \in Seq(S) /\ Len(Tail(s)) <= Len(s) /\ Head(s) \in S
         /\ 1 \in DOMAIN s /\ Head(s) = s[1]
         /\ \A i \in DOMAIN Tail(s) : i + 1 \in DOMAIN s /\ Tail(s)[i] = s[i + 1] /\ i \in Nat \ {0}
         /\ \A y : (\E i \in DOMAIN s : s[i] = y)
                     <=> y = Head(s) \/ \E i \in DOMAIN Tail(s) : Tail(s)[i] = y
<1> DEFINE t == Tail(s)
<1>1. /\ Len(s) \in Nat \ {0} /\ DOMAIN s = 1..Len(s) /\ Head(s) = s[1]
      /\ t \in Seq(S) /\ Len(t) = Len(s) - 1
      /\ \A i \in 1..Len(t) : t[i] = s[i + 1]
  BY HeadTailProperties
<1>2. DOMAIN t = 1..(Len(s) - 1)
  BY <1>1
<1> HIDE DEF t
<1>3. /\ 1 \in DOMAIN s /\ Len(t) <= Len(s)
      /\ \A i \in DOMAIN t : i + 1 \in DOMAIN s /\ t[i] = s[i + 1] /\ i \in Nat \ {0}
  BY <1>1, <1>2
<1>4. ASSUME NEW i \in DOMAIN s
      PROVE  i = 1 \/ \E j \in DOMAIN t : t[j] = s[i]
  <2>1. CASE i # 1
    <3>1. i - 1 \in DOMAIN t /\ (i - 1) + 1 = i
      BY <1>1, <1>2, <2>1
    <3>2. t[i - 1] = s[i]
      BY <1>3, <3>1
    <3> QED BY <3>1, <3>2
  <2> QED BY <2>1
<1>5. \A y : (\E i \in DOMAIN s : s[i] = y) <=> y = s[1] \/ \E i \in DOMAIN t : t[i] = y
  BY <1>3, <1>4
<1>6. Head(s) \in S
  BY HeadTailProperties
<1> QED BY <1>1, <1>3, <1>5, <1>6 DEF t

LEMMA ArriveKeeps ==
  ASSUME ReviewInv, NEW m \in Messages, Reviews!Arrive(m)
  PROVE  ReviewInv'
<1>1. /\ reader.at = "reading" /\ reader.post.msg = None /\ phase = "running"
      /\ arrived' = arrived \cup {m} /\ m \notin arrived
      /\ UNCHANGED <<callback, phase, told, unheard>>
      /\ \/ seen' = seen
         \/ /\ DeliveryOf[m] \notin Reviews!Range(seen)
            /\ seen' = Reviews!Remember(DeliveryOf[m])
  <2>1. /\ reader.at = "reading" /\ arrived' = arrived \cup {m} /\ m \notin arrived
        /\ UNCHANGED <<callback, phase, told, unheard>>
    BY DEF Reviews!Arrive
  <2>2. reader.post.msg = None /\ phase = "running"
    BY <2>1 DEF ReviewInv, PostsOK, PhaseOK
  <2>3. \/ seen' = seen
        \/ /\ DeliveryOf[m] \notin Reviews!Range(seen)
           /\ seen' = Reviews!Remember(DeliveryOf[m])
    BY DEF Reviews!Arrive, Reviews!RefuseMalformed, Reviews!DropDuplicate, Reviews!Accept
  <2> QED BY <2>1, <2>2, <2>3
\* Its workers start, or stay as they are.
<1>2. /\ reviewer' \in [Reviewers -> [at : {"none", "idle", "reviewing", "posting", "ended"},
                                      post : Reviews!Posting]]
      /\ \A w \in Reviewers :
           \/ reviewer'[w] = reviewer[w]
           \/ /\ reviewer[w].post.msg = None /\ reviewer[w].at = "none"
              /\ reviewer'[w] = [at |-> "idle", post |-> Reviews!NotPosting]
  <2>1. CASE reviewer' = reviewer
    BY <2>1 DEF ReviewInv, Reviews!TypeOK
  <2>2. CASE /\ \A w \in Reviewers : reviewer[w].at = "none"
             /\ reviewer' = [w \in Reviewers |-> [at |-> "idle", post |-> Reviews!NotPosting]]
    <3>1. Reviews!NotPosting \in Reviews!Posting
      BY ReviewFacts DEF Reviews!NotPosting, Reviews!Posting
    <3>2. \A w \in Reviewers : reviewer[w].post.msg = None
      BY <2>2 DEF ReviewInv, PostsOK
    <3> QED BY <2>2, <3>1, <3>2
  <2> QED
    BY <2>1, <2>2 DEF Reviews!Arrive, Reviews!RefuseMalformed, Reviews!DropDuplicate,
                      Reviews!Accept
\* It enters the queue, or is rejected, or is a duplicate.
<1>3. \/ /\ jobs' = Append(jobs, m) /\ taken' = Append(taken, m) /\ Len(jobs) < MaxQueued
         /\ reader' = reader
      \/ /\ jobs' = jobs /\ taken' = taken
         /\ \/ reader' = reader
            \/ \E v \in Reviews!Verdicts :
                 reader' = [at |-> "posting", post |-> Reviews!PostOf(m, v)]
  BY DEF Reviews!Arrive, Reviews!RefuseMalformed, Reviews!DropDuplicate, Reviews!Accept,
         Reviews!Reject, Reviews!Verdicts
<1>4. \/ reader' = reader
      \/ /\ reader'.at = "posting" /\ reader'.post.msg = m
         /\ reader'.post.verdict \in Reviews!Verdicts
         /\ reader' \in [at : {"reading", "posting", "over"}, post : Reviews!Posting]
  <2>1. ASSUME NEW v \in Reviews!Verdicts
        PROVE  Reviews!PostOf(m, v) \in Reviews!Posting /\ Reviews!PostOf(m, v).msg = m
               /\ Reviews!PostOf(m, v).verdict = v
    BY ReviewFacts DEF Reviews!PostOf, Reviews!Posting
  <2> QED BY <1>3, <2>1
<1>5. /\ jobs \in Seq(Messages \cup {StopWorker}) /\ taken \in Seq(Messages)
      /\ m \in Messages \cup {StopWorker} /\ Len(jobs) <= MaxQueued /\ MaxQueued \in Nat
  BY ReviewFacts DEF ReviewInv, Reviews!TypeOK
<1>6. /\ jobs' \in Seq(Messages \cup {StopWorker}) /\ taken' \in Seq(Messages)
      /\ Len(jobs') <= MaxQueued
  <2>1. CASE jobs' = jobs /\ taken' = taken
    BY <1>5, <2>1
  <2>2. CASE jobs' = Append(jobs, m) /\ taken' = Append(taken, m) /\ Len(jobs) < MaxQueued
    <3>1. jobs' \in Seq(Messages \cup {StopWorker}) /\ taken' \in Seq(Messages)
          /\ Len(jobs') = Len(jobs) + 1 /\ Len(jobs) \in Nat
      BY <1>5, <2>2, AppendedOne
    <3> QED BY <1>5, <2>2, <3>1
  <2> QED BY <1>3, <2>1, <2>2
<1>7. seen' \in Seq(Deliveries) /\ Len(seen') <= SeenLimit
  <2>1. CASE seen' = seen
    BY <2>1 DEF ReviewInv, Reviews!TypeOK
  <2>2. CASE DeliveryOf[m] # None /\ DeliveryOf[m] \notin Reviews!Range(seen)
             /\ seen' = Reviews!Remember(DeliveryOf[m])
    <3>1. ~IsKnown(DeliveryOf[m]) /\ DeliveryOf[m] \in Deliveries
      BY <2>2, ReviewFacts DEF IsKnown, Reviews!Range
    <3> QED BY <2>2, <3>1, RememberKeeps DEF ReviewInv, WindowOK, Reviews!TypeOK
  <2> QED BY <1>1, <2>1, <2>2 DEF Reviews!Remember
<1>8. Reviews!TypeOK'
  BY <1>1, <1>2, <1>4, <1>6, <1>7 DEF ReviewInv, Reviews!TypeOK
<1>9. PostsOK'
  <2>1. \A w \in Reviewers :
          \/ reviewer'[w] = reviewer[w]
          \/ reviewer'[w].at = "idle" /\ reviewer'[w].post.msg = None
    BY <1>2 DEF Reviews!NotPosting
  <2> QED BY <1>4, <2>1 DEF ReviewInv, PostsOK
<1>10. \A x \in Messages : x # m => IsQueued(x)' = IsQueued(x) /\ WasTaken(x)' = WasTaken(x)
  <2> TAKE x \in Messages
  <2> HAVE x # m
  <2>1. CASE jobs' = jobs /\ taken' = taken
    BY <2>1 DEF IsQueued, WasTaken
  <2>2. CASE jobs' = Append(jobs, m) /\ taken' = Append(taken, m)
    <3>1. (\E i \in DOMAIN Append(jobs, m) : Append(jobs, m)[i] = x)
            <=> (\E i \in DOMAIN jobs : jobs[i] = x)
      BY <1>5, AppendedOne
    <3>2. (\E i \in DOMAIN Append(taken, m) : Append(taken, m)[i] = x)
            <=> (\E i \in DOMAIN taken : taken[i] = x)
      BY <1>5, AppendedOne
    <3> QED BY <2>2, <3>1, <3>2 DEF IsQueued, WasTaken
  <2> QED BY <1>3, <2>1, <2>2
<1>11. ~IsQueued(m) /\ ~WasTaken(m) /\ told[m] = {} /\ callback[m].at = "none"
       /\ \A w \in Reviewers : reviewer'[w].post.msg # m
  <2>1. \A w \in Reviewers : reviewer[w].post.msg # m
    BY <1>1 DEF ReviewInv, PlaceOK
  <2> QED BY <1>1, <1>2, <2>1, ReviewFacts DEF ReviewInv, PlaceOK, Reviews!NotPosting
<1>12. PhaseOK'
  <2>1. ASSUME NEW i \in DOMAIN jobs', NEW j \in DOMAIN jobs', jobs'[i] = jobs'[j]
        PROVE  jobs'[i] # StopWorker /\ i = j
    <3>1. CASE jobs' = jobs
      BY <1>1, <2>1, <3>1 DEF ReviewInv, PhaseOK
    <3>2. CASE jobs' = Append(jobs, m)
      <4>1. \A k \in DOMAIN jobs' :
              \/ k \in DOMAIN jobs /\ jobs'[k] = jobs[k] /\ jobs[k] # m
              \/ k = Len(jobs) + 1 /\ jobs'[k] = m
        BY <1>5, <1>11, <3>2, AppendedOne DEF IsQueued
      <4>2. \A k, l \in DOMAIN jobs : jobs[k] # StopWorker /\ (jobs[k] = jobs[l] => k = l)
        BY <1>1 DEF ReviewInv, PhaseOK
      <4> QED BY <2>1, <4>1, <4>2, ReviewFacts
    <3> QED BY <1>3, <3>1, <3>2
  <2> QED BY <1>1, <2>1 DEF ReviewInv, PhaseOK
<1>13. ASSUME NEW x \in Messages PROVE PlaceOK(x)'
  <2>1. CASE x = m
    <3>1. WasTaken(m)' => IsQueued(m)'
      BY <1>3, <1>5, <1>11, AppendedOne DEF WasTaken, IsQueued
    <3>2. IsQueued(m)' => reader'.post.msg # m
      BY <1>1, <1>3, <1>11, ReviewFacts DEF IsQueued
    <3>3. m \in arrived' /\ told'[m] = {} /\ callback'[m].at = "none"
      BY <1>1, <1>11
    <3> QED BY <1>11, <2>1, <3>1, <3>2, <3>3 DEF PlaceOK
  <2>2. CASE x # m
    <3>1. PlaceOK(x) /\ (x \in arrived') = (x \in arrived)
      BY <1>1, <2>2 DEF ReviewInv
    <3>2. reader'.post.msg = x =>
            reader.post.msg = x /\ reader'.post.verdict = reader.post.verdict
      BY <1>4, <2>2
    <3>3. \A w \in Reviewers :
            /\ (reviewer'[w].post.msg = x) = (reviewer[w].post.msg = x)
            /\ reviewer[w].post.msg = x =>
                 /\ reviewer'[w].at = reviewer[w].at
                 /\ reviewer'[w].post.verdict = reviewer[w].post.verdict
      BY <1>2, ReviewFacts DEF Reviews!NotPosting
    <3>4. IsQueued(x)' = IsQueued(x) /\ WasTaken(x)' = WasTaken(x)
      BY <1>10, <2>2
    <3> QED BY <1>1, <3>1, <3>2, <3>3, <3>4, Unaffected
  <2> QED BY <2>1, <2>2
<1> QED BY <1>8, <1>9, <1>12, <1>13, WindowArrives DEF ReviewInv

\* What one attempt to post verdict v of message m does to the remote side.
LEMMA AttemptTells ==
  ASSUME ReviewInv, NEW m \in Messages, NEW v \in Reviews!Verdicts,
         told' = told \/ told' = [told EXCEPT ![m] = @ \cup {v}],
         unheard' = unheard \/ unheard' = unheard \cup {m}
  PROVE  /\ told' \in [Messages -> SUBSET Reviews!Verdicts] /\ unheard' \subseteq Messages
         /\ told'[m] = told[m] \/ told'[m] = told[m] \cup {v}
         /\ \A x \in Messages :
              x # m => told'[x] = told[x] /\ (x \in unheard') = (x \in unheard)
         /\ m \in unheard => m \in unheard'
<1>1. told \in [Messages -> SUBSET Reviews!Verdicts] /\ unheard \subseteq Messages
  BY DEF ReviewInv, Reviews!TypeOK
<1> QED BY <1>1

LEMMA PostRejectionKeeps ==
  ASSUME ReviewInv, Reviews!PostRejection
  PROVE  ReviewInv'
<1> DEFINE m == reader.post.msg
           v == reader.post.verdict
<1>1. /\ reader \in [at : {"reading", "posting", "over"}, post : Reviews!Posting]
      /\ told \in [Messages -> SUBSET Reviews!Verdicts]
      /\ reader.at = "posting" /\ m \in Messages /\ v \in Reviews!Verdicts
      /\ UNCHANGED <<seen, jobs, reviewer, callback, phase, arrived, taken>>
  BY DEF ReviewInv, Reviews!TypeOK, PostsOK, Reviews!PostRejection
<1>2. /\ told' = told \/ told' = [told EXCEPT ![m] = @ \cup {v}]
      /\ unheard' = unheard \/ unheard' = unheard \cup {m}
      /\ \/ /\ reader' = [at |-> "reading", post |-> Reviews!NotPosting]
            /\ told'[m] # {} \/ m \in unheard'
         \/ reader' = [reader EXCEPT !.post.tries = @ - 1] /\ reader.post.tries > 1
  BY <1>1 DEF Reviews!PostRejection, Reviews!Attempt
<1>3. /\ told' \in [Messages -> SUBSET Reviews!Verdicts] /\ unheard' \subseteq Messages
      /\ told'[m] = told[m] \/ told'[m] = told[m] \cup {v}
      /\ \A x \in Messages :
           x # m => told'[x] = told[x] /\ (x \in unheard') = (x \in unheard)
      /\ m \in unheard => m \in unheard'
  BY <1>1, <1>2, AttemptTells
<1>4. /\ reader' \in [at : {"reading", "posting", "over"}, post : Reviews!Posting]
      /\ \/ reader'.at = "reading" /\ reader'.post.msg = None
         \/ reader'.at = "posting" /\ reader'.post.msg = m /\ reader'.post.verdict = v
  <2>1. CASE reader' = [at |-> "reading", post |-> Reviews!NotPosting]
    BY <2>1, ReviewFacts DEF Reviews!NotPosting, Reviews!Posting
  <2>2. CASE reader' = [reader EXCEPT !.post.tries = @ - 1] /\ reader.post.tries > 1
    <3>1. reader.post \in Reviews!Posting /\ reader.post.tries \in 0..Attempts /\ Attempts \in Nat
      BY <1>1, ReviewFacts DEF Reviews!Posting
    <3>2. reader.post.tries - 1 \in 0..Attempts
      BY <2>2, <3>1
    <3>3. [reader.post EXCEPT !.tries = reader.post.tries - 1] \in Reviews!Posting
      BY <3>1, <3>2 DEF Reviews!Posting
    <3>4. reader' = [reader EXCEPT !.post = [reader.post EXCEPT !.tries = reader.post.tries - 1]]
      BY <2>2
    <3>5. reader'.at = "posting" /\ reader'.post = [reader.post EXCEPT !.tries = reader.post.tries - 1]
          /\ reader' \in [at : {"reading", "posting", "over"}, post : Reviews!Posting]
      BY <1>1, <3>3, <3>4
    <3>6. reader'.post.msg = m /\ reader'.post.verdict = v
      BY <3>1, <3>5 DEF Reviews!Posting
    <3> QED BY <3>5, <3>6
  <2> QED BY <1>2, <2>1, <2>2
<1>5. m # None /\ None \notin Messages
  BY <1>1, ReviewFacts
<1>6. Reviews!TypeOK' /\ PostsOK'
  <2>1. Reviews!TypeOK'
    BY <1>1, <1>3, <1>4 DEF ReviewInv, Reviews!TypeOK
  <2>2. PostsOK'
    BY <1>1, <1>4 DEF ReviewInv, PostsOK
  <2> QED BY <2>1, <2>2
<1>7. phase = "running"
  BY <1>1 DEF ReviewInv, PhaseOK
<1>8. PhaseOK'
  BY <1>1, <1>7 DEF ReviewInv, PhaseOK
<1>9. ASSUME NEW x \in Messages PROVE PlaceOK(x)'
  <2>1. PlaceOK(x) /\ IsQueued(x)' = IsQueued(x) /\ WasTaken(x)' = WasTaken(x)
    BY <1>1 DEF ReviewInv, IsQueued, WasTaken
  <2>2. CASE x = m
    <3>1. told[m] \subseteq {v} /\ told'[m] \subseteq {v}
      BY <1>3, <2>1, <2>2 DEF PlaceOK
    <3>2. /\ m \in arrived /\ ~IsQueued(m) /\ callback[m].at = "none"
          /\ \A w \in Reviewers : reviewer[w].post.msg # m
      BY <2>1, <2>2 DEF PlaceOK
    <3>3. told[m] # {} => told'[m] # {}
      BY <1>3
    <3> QED BY <1>1, <1>3, <1>4, <1>5, <2>1, <2>2, <3>1, <3>2, <3>3 DEF PlaceOK
  <2>3. CASE x # m
    <3>1. told'[x] = told[x] /\ (x \in unheard') = (x \in unheard)
      BY <1>3, <2>3
    <3>2. ~(reader'.post.msg = x)
      BY <1>4, <1>5, <2>3
    <3> HIDE DEF m, v
    <3> QED BY <1>1, <2>1, <3>1, <3>2, Unaffected
  <2> QED BY <2>2, <2>3
<1> QED BY <1>1, <1>6, <1>8, <1>9, WindowSame DEF ReviewInv

LEMMA PostReviewKeeps ==
  ASSUME ReviewInv, NEW w \in Reviewers, Reviews!PostReview(w)
  PROVE  ReviewInv'
<1> DEFINE m == reviewer[w].post.msg
           v == reviewer[w].post.verdict
           Types == [at : {"none", "idle", "reviewing", "posting", "ended"},
                     post : Reviews!Posting]
<1>1. /\ reviewer \in [Reviewers -> Types]
      /\ told \in [Messages -> SUBSET Reviews!Verdicts]
      /\ reviewer[w].at = "posting" /\ m \in Messages /\ v \in Reviews!Verdicts
      /\ UNCHANGED <<reader, seen, jobs, callback, phase, arrived, taken>>
  BY DEF ReviewInv, Reviews!TypeOK, PostsOK, Reviews!PostReview
<1>2. /\ told' = told \/ told' = [told EXCEPT ![m] = @ \cup {v}]
      /\ unheard' = unheard \/ unheard' = unheard \cup {m}
      /\ \/ /\ reviewer' = [reviewer EXCEPT ![w] = [at |-> "idle", post |-> Reviews!NotPosting]]
            /\ told'[m] # {} \/ m \in unheard'
         \/ /\ reviewer' = [reviewer EXCEPT ![w].post.tries = @ - 1]
            /\ reviewer[w].post.tries > 1
  <2>1. \/ /\ told' = [told EXCEPT ![m] = @ \cup {v}] /\ unheard' = unheard
           /\ reviewer' = [reviewer EXCEPT ![w] = [at |-> "idle", post |-> Reviews!NotPosting]]
        \/ \E reached \in BOOLEAN :
             /\ told' = IF reached THEN [told EXCEPT ![m] = @ \cup {v}] ELSE told
             /\ IF reviewer[w].post.tries > 1
                THEN /\ reviewer' = [reviewer EXCEPT ![w].post.tries = @ - 1]
                     /\ unheard' = unheard
                ELSE /\ reviewer' = [reviewer EXCEPT ![w] =
                                       [at |-> "idle", post |-> Reviews!NotPosting]]
                     /\ unheard' = IF told'[m] = {} THEN unheard \cup {m} ELSE unheard
    BY DEF Reviews!PostReview, Reviews!Attempt
  <2>2. told' = [told EXCEPT ![m] = @ \cup {v}] => told'[m] # {}
    BY <1>1
  <2> HIDE DEF m, v
  <2> QED BY <2>1, <2>2
<1>3. /\ told' \in [Messages -> SUBSET Reviews!Verdicts] /\ unheard' \subseteq Messages
      /\ told'[m] = told[m] \/ told'[m] = told[m] \cup {v}
      /\ \A x \in Messages :
           x # m => told'[x] = told[x] /\ (x \in unheard') = (x \in unheard)
      /\ m \in unheard => m \in unheard'
  BY <1>1, <1>2, AttemptTells
<1>4. /\ reviewer' \in [Reviewers -> Types]
      /\ \A u \in Reviewers : u # w => reviewer'[u] = reviewer[u]
      /\ \/ /\ reviewer'[w].at = "idle" /\ reviewer'[w].post.msg = None
            /\ told'[m] # {} \/ m \in unheard'
         \/ /\ reviewer'[w].at = "posting" /\ reviewer'[w].post.msg = m
            /\ reviewer'[w].post.verdict = v
  <2>1. CASE /\ reviewer' = [reviewer EXCEPT ![w] = [at |-> "idle", post |-> Reviews!NotPosting]]
             /\ told'[m] # {} \/ m \in unheard'
    <3>1. [at |-> "idle", post |-> Reviews!NotPosting] \in Types
      BY ReviewFacts DEF Reviews!NotPosting, Reviews!Posting
    <3>2. reviewer'[w] = [at |-> "idle", post |-> Reviews!NotPosting]
      BY <1>1, <2>1
    <3> QED BY <1>1, <2>1, <3>1, <3>2 DEF Reviews!NotPosting
  <2>2. CASE /\ reviewer' = [reviewer EXCEPT ![w].post.tries = @ - 1]
             /\ reviewer[w].post.tries > 1
    <3> DEFINE p == [reviewer[w].post EXCEPT !.tries = reviewer[w].post.tries - 1]
    <3>1. reviewer[w].post \in Reviews!Posting /\ reviewer[w].post.tries \in 0..Attempts
          /\ Attempts \in Nat
      BY <1>1, ReviewFacts DEF Reviews!Posting
    <3>2. reviewer[w].post.tries - 1 \in 0..Attempts
      BY <2>2, <3>1
    <3>3. p \in Reviews!Posting /\ p.msg = m /\ p.verdict = v
      BY <3>1, <3>2 DEF Reviews!Posting
    <3>4. reviewer' = [reviewer EXCEPT ![w] = [reviewer[w] EXCEPT !.post = p]]
      BY <2>2
    <3> HIDE DEF p
    <3>5. reviewer'[w] = [reviewer[w] EXCEPT !.post = p]
      BY <1>1, <3>4
    <3>6. [reviewer[w] EXCEPT !.post = p] \in Types
      BY <1>1, <3>3
    <3>7. reviewer'[w].at = "posting" /\ reviewer'[w].post = p
      BY <1>1, <3>5
    <3>8. reviewer' \in [Reviewers -> Types] /\ \A u \in Reviewers : u # w => reviewer'[u] = reviewer[u]
      BY <1>1, <3>4, <3>6
    <3> QED BY <3>3, <3>7, <3>8
  <2> QED BY <1>2, <2>1, <2>2
<1>5. m # None /\ None \notin Messages
  BY <1>1, ReviewFacts
<1>6. Reviews!TypeOK' /\ PostsOK'
  <2>1. Reviews!TypeOK'
    BY <1>1, <1>3, <1>4 DEF ReviewInv, Reviews!TypeOK
  <2>2. PostsOK'
    <3> SUFFICES ASSUME NEW u \in Reviewers
                 PROVE  /\ reviewer'[u].at \in {"reviewing", "posting"} =>
                             reviewer'[u].post.msg \in Messages
                        /\ reviewer'[u].at = "posting" =>
                             reviewer'[u].post.verdict \in Reviews!Verdicts
                        /\ reviewer'[u].at \notin {"reviewing", "posting"} =>
                             reviewer'[u].post.msg = None
      BY <1>1 DEF ReviewInv, PostsOK
    <3>1. CASE u = w
      BY <1>1, <1>4, <3>1
    <3>2. CASE u # w
      BY <1>4, <3>2 DEF ReviewInv, PostsOK
    <3> QED BY <3>1, <3>2
  <2> QED BY <2>1, <2>2
<1>7. phase \notin {"callbacks", "stopped"}
  BY <1>1 DEF ReviewInv, PhaseOK
<1>8. PhaseOK'
  BY <1>1, <1>7 DEF ReviewInv, PhaseOK
<1>9. ASSUME NEW x \in Messages PROVE PlaceOK(x)'
  <2>1. PlaceOK(x) /\ IsQueued(x)' = IsQueued(x) /\ WasTaken(x)' = WasTaken(x)
    BY <1>1 DEF ReviewInv, IsQueued, WasTaken
  <2>2. CASE x = m
    <3>1. told[m] \subseteq {v} /\ told'[m] \subseteq {v}
      BY <1>1, <1>3, <2>1, <2>2 DEF PlaceOK
    <3>2. /\ m \in arrived /\ ~IsQueued(m) /\ callback[m].at = "none" /\ reader.post.msg # m
          /\ \A u \in Reviewers : u # w => reviewer[u].post.msg # m
      BY <2>1, <2>2 DEF PlaceOK
    <3>3. told[m] # {} => told'[m] # {}
      BY <1>3
    <3>4. /\ x \in arrived' /\ ~IsQueued(x)' /\ callback'[x].at = "none" /\ reader'.post.msg # x
          /\ \A u \in Reviewers : u # w => reviewer'[u].post.msg # x
          /\ \A s, t \in told'[x] : s = t
      BY <1>1, <1>4, <2>1, <2>2, <3>1, <3>2
    <3>5. CASE reviewer'[w].post.msg = None /\ (told'[m] # {} \/ m \in unheard')
      BY <1>5, <2>2, <3>4, <3>5 DEF PlaceOK
    <3>6. CASE /\ reviewer'[w].at = "posting" /\ reviewer'[w].post.msg = m
               /\ reviewer'[w].post.verdict = v
      BY <2>2, <3>1, <3>4, <3>6 DEF PlaceOK
    <3> QED BY <1>4, <3>5, <3>6
  <2>3. CASE x # m
    <3>1. told'[x] = told[x] /\ (x \in unheard') = (x \in unheard)
      BY <1>3, <2>3
    <3>2. \A u \in Reviewers :
            /\ (reviewer'[u].post.msg = x) = (reviewer[u].post.msg = x)
            /\ reviewer[u].post.msg = x => reviewer'[u] = reviewer[u]
      BY <1>4, <1>5, <2>3
    <3> HIDE DEF m, v
    <3> QED BY <1>1, <2>1, <3>1, <3>2, Unaffected
  <2> QED BY <2>2, <2>3
<1> QED BY <1>1, <1>6, <1>8, <1>9, WindowSame DEF ReviewInv

LEMMA PostShutdownKeeps ==
  ASSUME ReviewInv, NEW m \in Messages, Reviews!PostShutdown(m)
  PROVE  ReviewInv'
<1> DEFINE Types == [at : {"none", "posting", "ended", "cut"}, tries : 0..Attempts]
<1>1. /\ callback \in [Messages -> Types]
      /\ told \in [Messages -> SUBSET Reviews!Verdicts]
      /\ callback[m].at = "posting"
      /\ UNCHANGED <<reader, seen, jobs, reviewer, phase, arrived, taken>>
  BY DEF ReviewInv, Reviews!TypeOK, Reviews!PostShutdown
<1>2. /\ told' = told \/ told' = [told EXCEPT ![m] = @ \cup {"shutdown"}]
      /\ unheard' = unheard \/ unheard' = unheard \cup {m}
      /\ \/ /\ callback' = [callback EXCEPT ![m].at = "ended"]
            /\ told'[m] # {} \/ m \in unheard'
         \/ /\ callback' = [callback EXCEPT ![m].tries = @ - 1]
            /\ callback[m].tries > 1
  <2> DEFINE p == [Reviews!PostOf(m, "shutdown") EXCEPT !.tries = callback[m].tries]
  <2>1. p.msg = m /\ p.verdict = "shutdown" /\ p.tries = callback[m].tries
    BY DEF Reviews!PostOf
  <2> HIDE DEF p
  <2>2. Reviews!Attempt(p, callback' = [callback EXCEPT ![m].at = "ended"],
                           callback' = [callback EXCEPT ![m].tries = @ - 1])
    BY DEF Reviews!PostShutdown, p
  <2>3. \/ /\ told' = [told EXCEPT ![m] = @ \cup {"shutdown"}] /\ unheard' = unheard
           /\ callback' = [callback EXCEPT ![m].at = "ended"]
        \/ \E reached \in BOOLEAN :
             /\ told' = IF reached THEN [told EXCEPT ![m] = @ \cup {"shutdown"}] ELSE told
             /\ IF callback[m].tries > 1
                THEN callback' = [callback EXCEPT ![m].tries = @ - 1] /\ unheard' = unheard
                ELSE /\ callback' = [callback EXCEPT ![m].at = "ended"]
                     /\ unheard' = IF told'[m] = {} THEN unheard \cup {m} ELSE unheard
    BY <2>1, <2>2 DEF Reviews!Attempt
  <2>4. told' = [told EXCEPT ![m] = @ \cup {"shutdown"}] => told'[m] # {}
    BY <1>1
  <2> QED BY <2>3, <2>4
<1>3. /\ told' \in [Messages -> SUBSET Reviews!Verdicts] /\ unheard' \subseteq Messages
      /\ told'[m] = told[m] \/ told'[m] = told[m] \cup {"shutdown"}
      /\ \A x \in Messages :
           x # m => told'[x] = told[x] /\ (x \in unheard') = (x \in unheard)
      /\ m \in unheard => m \in unheard'
  <2>1. "shutdown" \in Reviews!Verdicts
    BY DEF Reviews!Verdicts
  <2> QED BY <1>2, <2>1, AttemptTells
<1>4. /\ callback' \in [Messages -> Types]
      /\ \A x \in Messages : x # m => callback'[x] = callback[x]
      /\ \/ callback'[m].at = "ended" /\ (told'[m] # {} \/ m \in unheard')
         \/ callback'[m].at = "posting"
  <2>1. callback[m] \in Types /\ callback[m].tries \in 0..Attempts /\ Attempts \in Nat
    BY <1>1, ReviewFacts
  <2>2. CASE /\ callback' = [callback EXCEPT ![m].at = "ended"]
             /\ told'[m] # {} \/ m \in unheard'
    BY <1>1, <2>1, <2>2
  <2>3. CASE callback' = [callback EXCEPT ![m].tries = @ - 1] /\ callback[m].tries > 1
    <3> DEFINE c == [callback[m] EXCEPT !.tries = callback[m].tries - 1]
    <3>1. callback[m].tries - 1 \in 0..Attempts
      BY <2>1, <2>3
    <3>2. c \in Types /\ c.at = "posting"
      BY <1>1, <2>1, <3>1
    <3>3. callback' = [callback EXCEPT ![m] = c]
      BY <2>3
    <3> HIDE DEF c
    <3> QED BY <1>1, <3>2, <3>3
  <2> QED BY <1>2, <2>2, <2>3
<1>5. phase \in {"workers", "callbacks"}
  BY <1>1 DEF ReviewInv, PhaseOK, Reviews!TypeOK
<1>6. Reviews!TypeOK' /\ PostsOK' /\ PhaseOK'
  <2>1. Reviews!TypeOK'
    BY <1>1, <1>3, <1>4 DEF ReviewInv, Reviews!TypeOK
  <2>2. PostsOK'
    BY <1>1 DEF ReviewInv, PostsOK
  <2>3. PhaseOK'
    BY <1>1, <1>5 DEF ReviewInv, PhaseOK
  <2> QED BY <2>1, <2>2, <2>3
<1>7. ASSUME NEW x \in Messages PROVE PlaceOK(x)'
  <2>1. PlaceOK(x) /\ IsQueued(x)' = IsQueued(x) /\ WasTaken(x)' = WasTaken(x)
    BY <1>1 DEF ReviewInv, IsQueued, WasTaken
  <2>2. CASE x = m
    <3>1. told'[m] \subseteq {"shutdown"}
      BY <1>1, <1>3, <2>1, <2>2 DEF PlaceOK
    <3>2. /\ m \in arrived /\ ~IsQueued(m) /\ reader.post.msg # m
          /\ \A w \in Reviewers : reviewer[w].post.msg # m
      BY <1>1, <2>1, <2>2 DEF PlaceOK
    <3> QED BY <1>1, <1>3, <1>4, <2>1, <2>2, <3>1, <3>2 DEF PlaceOK
  <2>3. CASE x # m
    <3>1. told'[x] = told[x] /\ (x \in unheard') = (x \in unheard) /\ callback'[x] = callback[x]
      BY <1>3, <1>4, <2>3
    <3> QED BY <1>1, <2>1, <3>1, Unaffected
  <2> QED BY <2>2, <2>3
<1> QED BY <1>1, <1>6, <1>7, WindowSame DEF ReviewInv

LEMMA ReviewKeeps ==
  ASSUME ReviewInv, NEW w \in Reviewers, Reviews!Review(w)
  PROVE  ReviewInv'
<1> DEFINE m == reviewer[w].post.msg
           Types == [at : {"none", "idle", "reviewing", "posting", "ended"},
                     post : Reviews!Posting]
<1>1. /\ reviewer \in [Reviewers -> Types]
      /\ reviewer[w].at = "reviewing" /\ m \in Messages
      /\ UNCHANGED <<reader, seen, jobs, callback, phase, arrived, taken, told, unheard>>
  BY DEF ReviewInv, Reviews!TypeOK, PostsOK, Reviews!Review
<1>2. PICK v \in {"review", "failed"} :
        reviewer' = [reviewer EXCEPT ![w] = [at |-> "posting", post |-> Reviews!PostOf(m, v)]]
  BY DEF Reviews!Review
<1>3. /\ reviewer' \in [Reviewers -> Types]
      /\ \A u \in Reviewers : u # w => reviewer'[u] = reviewer[u]
      /\ reviewer'[w].at = "posting" /\ reviewer'[w].post.msg = m
      /\ reviewer'[w].post.verdict \in Reviews!Verdicts
  <2>1. v \in Reviews!Verdicts
    BY DEF Reviews!Verdicts
  <2> DEFINE p == Reviews!PostOf(m, v)
  <2>2. p \in Reviews!Posting /\ p.msg = m /\ p.verdict = v
    BY <1>1, <2>1, ReviewFacts DEF Reviews!PostOf, Reviews!Posting
  <2> HIDE DEF p
  <2>3. reviewer'[w] = [at |-> "posting", post |-> p]
    BY <1>1, <1>2 DEF p
  <2>4. [at |-> "posting", post |-> p] \in Types
    BY <2>2
  <2>5. /\ reviewer' \in [Reviewers -> Types]
        /\ \A u \in Reviewers : u # w => reviewer'[u] = reviewer[u]
    BY <1>1, <1>2, <2>4 DEF p
  <2> QED BY <2>1, <2>2, <2>3, <2>5
<1>4. Reviews!TypeOK'
  BY <1>1, <1>3 DEF ReviewInv, Reviews!TypeOK
<1>5. PostsOK'
  BY <1>1, <1>3 DEF ReviewInv, PostsOK
<1>6. PhaseOK'
  BY <1>1, <1>3 DEF ReviewInv, PhaseOK
<1>7. ASSUME NEW x \in Messages PROVE PlaceOK(x)'
  <2>1. PlaceOK(x) /\ IsQueued(x)' = IsQueued(x) /\ WasTaken(x)' = WasTaken(x)
    BY <1>1 DEF ReviewInv, IsQueued, WasTaken
  <2>2. CASE x = m
    <3>1. /\ x \in arrived /\ ~IsQueued(x) /\ callback[x].at = "none" /\ reader.post.msg # x
          /\ \A u \in Reviewers : reviewer[u].post.msg = x => u = w
      BY <2>1, <2>2 DEF PlaceOK
    <3>2. told[x] = {}
      BY <1>1, <2>1, <2>2 DEF PlaceOK
    <3>3. \A u \in Reviewers : reviewer'[u].post.msg = x <=> u = w
      BY <1>3, <2>2, <3>1
    <3> HIDE DEF m
    <3> QED BY <1>1, <1>3, <2>1, <3>1, <3>2, <3>3 DEF PlaceOK
  <2>3. CASE x # m
    <3>1. \A u \in Reviewers :
            /\ (reviewer'[u].post.msg = x) = (reviewer[u].post.msg = x)
            /\ reviewer[u].post.msg = x => reviewer'[u] = reviewer[u]
      BY <1>3, <2>3
    <3> HIDE DEF m
    <3> QED BY <1>1, <2>1, <3>1, Unaffected
  <2> QED BY <2>2, <2>3
<1> QED BY <1>1, <1>4, <1>5, <1>6, <1>7, WindowSame DEF ReviewInv

LEMMA TakeKeepsReviews ==
  ASSUME ReviewInv, NEW w \in Reviewers, Reviews!Take(w)
  PROVE  ReviewInv'
<1> DEFINE h == Head(jobs)
           t == Tail(jobs)
           Types == [at : {"none", "idle", "reviewing", "posting", "ended"},
                     post : Reviews!Posting]
<1>1. /\ reviewer \in [Reviewers -> Types]
      /\ reviewer[w].at = "idle" /\ reviewer[w].post.msg = None
      /\ jobs \in Seq(Messages \cup {StopWorker}) /\ jobs # <<>> /\ jobs' = t
      /\ Len(jobs) <= MaxQueued /\ MaxQueued \in Nat
      /\ UNCHANGED <<reader, seen, callback, phase, arrived, taken, told, unheard>>
  BY ReviewFacts DEF ReviewInv, Reviews!TypeOK, PostsOK, Reviews!Take
<1>2. /\ t \in Seq(Messages \cup {StopWorker}) /\ Len(t) <= Len(jobs)
      /\ h \in Messages \cup {StopWorker} /\ 1 \in DOMAIN jobs /\ h = jobs[1]
      /\ \A i \in DOMAIN t : i + 1 \in DOMAIN jobs /\ t[i] = jobs[i + 1] /\ i \in Nat \ {0}
      /\ \A y : (\E i \in DOMAIN jobs : jobs[i] = y) <=> y = h \/ \E i \in DOMAIN t : t[i] = y
  <2>1. jobs \in Seq(Messages \cup {StopWorker}) /\ jobs # <<>>
    BY <1>1
  <2> QED BY Zenon, <2>1, TakenFirst
<1>3. reviewer' = [reviewer EXCEPT ![w] =
        IF h = StopWorker THEN [at |-> "ended", post |-> Reviews!NotPosting]
        ELSE [at |-> "reviewing", post |-> [Reviews!NotPosting EXCEPT !.msg = h]]]
  BY DEF Reviews!Take
<1>4. Len(t) <= MaxQueued
  <2>1. Len(t) \in Nat /\ Len(jobs) \in Nat
    BY <1>1, <1>2
  <2> HIDE DEF t
  <2> QED BY <1>1, <1>2, <2>1
<1> HIDE DEF h, t
<1>5. /\ reviewer' \in [Reviewers -> Types]
      /\ \A u \in Reviewers : u # w => reviewer'[u] = reviewer[u]
      /\ h = StopWorker => reviewer'[w].at = "ended" /\ reviewer'[w].post.msg = None
      /\ h # StopWorker => reviewer'[w].at = "reviewing" /\ reviewer'[w].post.msg = h
  <2> DEFINE r == IF h = StopWorker THEN [at |-> "ended", post |-> Reviews!NotPosting]
                  ELSE [at |-> "reviewing", post |-> [Reviews!NotPosting EXCEPT !.msg = h]]
  <2>1. /\ r \in Types
        /\ h = StopWorker => r.at = "ended" /\ r.post.msg = None
        /\ h # StopWorker => r.at = "reviewing" /\ r.post.msg = h
    BY <1>2, ReviewFacts DEF Reviews!NotPosting, Reviews!Posting
  <2>2. reviewer' = [reviewer EXCEPT ![w] = r]
    BY <1>3
  <2> HIDE DEF r
  <2> QED BY <1>1, <2>1, <2>2
<1>6. phase \notin {"callbacks", "stopped"}
  BY <1>1 DEF ReviewInv, PhaseOK
<1>7. /\ h = StopWorker => phase # "running"
      /\ h # StopWorker => phase = "running" /\ h \in Messages
  BY <1>2 DEF ReviewInv, PhaseOK
<1>8. Reviews!TypeOK'
  BY <1>1, <1>2, <1>4, <1>5 DEF ReviewInv, Reviews!TypeOK
<1>9. PostsOK'
  <2>1. \/ reviewer'[w].at = "ended" /\ reviewer'[w].post.msg = None
        \/ reviewer'[w].at = "reviewing" /\ reviewer'[w].post.msg \in Messages
    BY <1>5, <1>7
  <2> QED BY <1>1, <1>5, <2>1 DEF ReviewInv, PostsOK
<1>10. \A i \in DOMAIN t : i + 1 \in DOMAIN jobs /\ t[i] = jobs[i + 1] /\ i \in Nat
  BY <1>2
<1>11. PhaseOK'
  <2>1. ASSUME NEW i \in DOMAIN t, NEW j \in DOMAIN t, t[i] = t[j], t[i] # StopWorker
        PROVE  i = j
    <3>1. i + 1 = j + 1
      BY <1>10, <2>1 DEF ReviewInv, PhaseOK
    <3> QED BY <1>10, <3>1
  <2> QED BY <1>1, <1>6, <1>10, <2>1 DEF ReviewInv, PhaseOK
<1>12. ASSUME NEW x \in Messages PROVE PlaceOK(x)'
  <2>1. PlaceOK(x) /\ WasTaken(x)' = WasTaken(x)
    BY <1>1 DEF ReviewInv, WasTaken
  <2>2. x # StopWorker /\ x # None
    BY ReviewFacts
  <2>3. CASE x = h
    <3>1. IsQueued(x)
      BY <1>2, <2>3 DEF IsQueued
    <3>2. ~IsQueued(x)'
      <4> SUFFICES ASSUME NEW i \in DOMAIN t, t[i] = x PROVE FALSE
        BY <1>1 DEF IsQueued
      <4>1. jobs[i + 1] = jobs[1] /\ i + 1 \in DOMAIN jobs /\ i \in Nat \ {0}
        BY <1>2, <2>3
      <4>2. i + 1 = 1
        BY <1>2, <2>2, <2>3, <4>1 DEF ReviewInv, PhaseOK
      <4> QED BY <4>1, <4>2
    <3>3. /\ x \in arrived /\ told[x] = {} /\ callback[x].at = "none" /\ reader.post.msg # x
          /\ \A u \in Reviewers : reviewer[u].post.msg # x
      BY <2>1, <3>1 DEF PlaceOK
    <3>4. \A u \in Reviewers : reviewer'[u].post.msg = x <=> u = w
      BY <1>5, <2>2, <2>3, <3>3
    <3> QED BY <1>1, <3>2, <3>3, <3>4 DEF PlaceOK
  <2>4. CASE x # h
    <3>1. IsQueued(x)' = IsQueued(x)
      BY <1>1, <1>2, <2>4 DEF IsQueued
    <3>2. \A u \in Reviewers :
            /\ (reviewer'[u].post.msg = x) = (reviewer[u].post.msg = x)
            /\ reviewer[u].post.msg = x => reviewer'[u] = reviewer[u]
      BY <1>1, <1>5, <2>2, <2>4
    <3> QED BY <1>1, <2>1, <3>1, <3>2, Unaffected
  <2> QED BY <2>3, <2>4
<1> QED BY <1>1, <1>8, <1>9, <1>11, <1>12, WindowSame DEF ReviewInv

LEMMA StopKeepsReviews ==
  ASSUME ReviewInv, Reviews!Stop
  PROVE  ReviewInv'
<1> DEFINE n == Cardinality(Reviews!Started)
           Types == [at : {"none", "posting", "ended", "cut"}, tries : 0..Attempts]
<1>1. /\ phase = "running" /\ phase' \in {"workers", "callbacks"}
      /\ phase' = "callbacks" => \A w \in Reviewers : reviewer[w].at = "none"
      /\ reader' = [at |-> "over", post |-> Reviews!NotPosting]
      /\ UNCHANGED <<seen, reviewer, arrived, taken, told, unheard>>
  BY DEF Reviews!Stop, Reviews!Started
<1>2. jobs' = [i \in 1..n |-> StopWorker]
  BY SameReviewSets DEF Reviews!Stop
<1>3. n \in Nat /\ n <= MaxQueued
  <2>1. Reviews!Started \in SUBSET Reviewers
    BY DEF Reviews!Started
  <2>2. IsFiniteSet(Reviews!Started) /\ n <= Cardinality(Reviewers)
    BY <2>1, ReviewFacts, FS_Subset
  <2>3. n \in Nat /\ Cardinality(Reviewers) \in Nat
    BY <2>2, ReviewFacts, FS_CardinalityType
  <2> HIDE DEF n
  <2> QED BY <2>2, <2>3, ReviewFacts
<1> HIDE DEF n
<1>4. /\ jobs' \in Seq(Messages \cup {StopWorker}) /\ Len(jobs') <= MaxQueued
      /\ \A i \in DOMAIN jobs' : jobs'[i] = StopWorker
  BY <1>2, <1>3
<1>5. \A x \in Messages :
        callback'[x] = IF IsQueued(x) THEN [at |-> "posting", tries |-> Attempts]
                       ELSE callback[x]
  BY ReviewFacts DEF Reviews!Stop, Reviews!Queued, Reviews!Range, IsQueued
<1>6. callback' \in [Messages -> Types]
  <2>1. [at |-> "posting", tries |-> Attempts] \in Types
    BY ReviewFacts
  <2>2. callback \in [Messages -> Types]
    BY DEF ReviewInv, Reviews!TypeOK
  <2> HIDE DEF Types
  <2> QED BY <2>1, <2>2 DEF Reviews!Stop
<1>7. /\ reader' \in [at : {"reading", "posting", "over"}, post : Reviews!Posting]
      /\ reader'.at = "over" /\ reader'.post.msg = None
  BY <1>1, ReviewFacts DEF Reviews!NotPosting, Reviews!Posting
<1>8. Reviews!TypeOK'
  BY <1>1, <1>4, <1>6, <1>7 DEF ReviewInv, Reviews!TypeOK
<1>9. PostsOK'
  BY <1>1, <1>7 DEF ReviewInv, PostsOK
<1>10. PhaseOK'
  BY <1>1, <1>4, <1>7 DEF PhaseOK
<1>11. ASSUME NEW x \in Messages PROVE PlaceOK(x)'
  <2>1. PlaceOK(x) /\ WasTaken(x)' = WasTaken(x)
    BY <1>1 DEF ReviewInv, WasTaken
  <2>2. ~IsQueued(x)' /\ reader'.post.msg # x
    BY <1>4, <1>7, ReviewFacts DEF IsQueued
  <2>3. CASE IsQueued(x)
    <3>1. callback'[x].at = "posting"
      BY <1>5, <2>3
    <3>2. /\ x \in arrived /\ told[x] = {} /\ \A w \in Reviewers : reviewer[w].post.msg # x
      BY <2>1, <2>3 DEF PlaceOK
    <3> QED BY <1>1, <2>2, <3>1, <3>2 DEF PlaceOK
  <2>4. CASE ~IsQueued(x)
    <3>1. callback'[x] = callback[x]
      BY <1>5, <2>4
    <3>2. IsQueued(x)' = IsQueued(x)
      BY <2>2, <2>4 DEF IsQueued
    <3> QED BY <1>1, <2>1, <2>2, <3>1, <3>2, Unaffected
  <2> QED BY <2>3, <2>4
<1> QED BY <1>1, <1>8, <1>9, <1>10, <1>11, WindowSame DEF ReviewInv

\* A deadline of stop(): what is posted, and what the workers had, is cut short.
LEMMA DeadlineKeeps ==
  ASSUME ReviewInv, NEW active, callback' = Reviews!CutShort(active),
         phase \in {"workers", "callbacks"}, phase' = "stopped",
         UNCHANGED <<reader, seen, jobs, arrived, taken, told, unheard>>,
         reviewer' \in [Reviewers -> [at : {"none", "idle", "reviewing", "posting", "ended"},
                                      post : Reviews!Posting]],
         \A w \in Reviewers :
           /\ reviewer'[w].at \in {"none", "ended"} /\ reviewer'[w].post.msg = None
           /\ reviewer[w].post.msg \in active \cup {None},
         \A x \in active : x = None \/ \E w \in Reviewers : reviewer[w].post.msg = x
  PROVE  ReviewInv'
<1> DEFINE Types == [at : {"none", "posting", "ended", "cut"}, tries : 0..Attempts]
<1>1. callback \in [Messages -> Types]
  BY DEF ReviewInv, Reviews!TypeOK
<1>2. /\ callback' \in [Messages -> Types]
      /\ \A x \in Messages :
           /\ callback[x].at = "posting" \/ x \in active => callback'[x].at = "cut"
           /\ ~(callback[x].at = "posting" \/ x \in active) => callback'[x] = callback[x]
  BY <1>1 DEF Reviews!CutShort
<1>3. Reviews!TypeOK'
  BY <1>2 DEF ReviewInv, Reviews!TypeOK
<1>4. PostsOK'
  BY DEF ReviewInv, PostsOK
<1>5. PhaseOK'
  <2>1. \A x \in Messages : callback'[x].at # "posting"
    BY <1>2
  <2> QED BY <2>1 DEF ReviewInv, PhaseOK
<1>6. ASSUME NEW x \in Messages PROVE PlaceOK(x)'
  <2>1. PlaceOK(x) /\ IsQueued(x)' = IsQueued(x) /\ WasTaken(x)' = WasTaken(x) /\ x # None
    BY ReviewFacts DEF ReviewInv, IsQueued, WasTaken
  <2>2. ~IsQueued(x)' /\ reader'.post.msg # x
    BY ReviewFacts DEF ReviewInv, PhaseOK, PostsOK, IsQueued
  <2>3. \A w \in Reviewers : reviewer'[w].post.msg # x
    BY <2>1
  <2>4. x \in active <=> \E w \in Reviewers : reviewer[w].post.msg = x
    BY <2>1
  <2>5. x \notin arrived' => told'[x] = {} /\ ~WasTaken(x)' /\ callback'[x].at = "none"
    BY <1>2, <2>1, <2>4 DEF PlaceOK
  <2>6. WasTaken(x)' => callback'[x].at # "none" \/ told'[x] # {} \/ x \in unheard'
    BY <1>2, <2>1, <2>2, <2>4 DEF PlaceOK
  <2>7. /\ callback'[x].at # "posting"
        /\ callback'[x].at = "ended" => told'[x] # {} \/ x \in unheard'
        /\ \A u, v \in told'[x] : u = v
    BY <1>2, <2>1 DEF PlaceOK
  <2> QED BY <2>2, <2>3, <2>5, <2>6, <2>7 DEF PlaceOK
<1> QED BY <1>3, <1>4, <1>5, <1>6, WindowSame DEF ReviewInv

\* A wait of stop() that ends in time.
LEMMA WaitKeeps ==
  ASSUME ReviewInv, phase \in {"workers", "callbacks"}, phase' \in {"callbacks", "stopped"},
         \A w \in Reviewers : reviewer[w].at \in {"none", "ended"},
         phase' = "stopped" => \A x \in Messages : callback[x].at # "posting",
         UNCHANGED <<reader, seen, jobs, reviewer, callback, arrived, taken, told, unheard>>
  PROVE  ReviewInv'
<1>1. Reviews!TypeOK'
  BY DEF ReviewInv, Reviews!TypeOK
<1>2. PostsOK' /\ PhaseOK'
  BY DEF ReviewInv, PostsOK, PhaseOK
<1>3. ASSUME NEW x \in Messages PROVE PlaceOK(x)'
  <2>1. PlaceOK(x) /\ IsQueued(x)' = IsQueued(x) /\ WasTaken(x)' = WasTaken(x)
    BY DEF ReviewInv, IsQueued, WasTaken
  <2> QED BY <2>1, Unaffected
<1> QED BY <1>1, <1>2, <1>3, WindowSame DEF ReviewInv

LEMMA StoppingKeeps ==
  ASSUME ReviewInv, Reviews!Stopping
  PROVE  ReviewInv'
<1>1. CASE Reviews!WorkersEnded
  <2>1. \A w \in Reviewers : reviewer[w].at \in {"none", "ended"}
    BY <1>1 DEF Reviews!WorkersEnded, Reviews!Started
  <2> QED BY <1>1, <2>1, WaitKeeps DEF Reviews!WorkersEnded
<1>2. CASE Reviews!CallbacksEnded
  <2>1. \A w \in Reviewers : reviewer[w].at \in {"none", "ended"}
    BY <1>2 DEF Reviews!CallbacksEnded, ReviewInv, PhaseOK
  <2> QED BY <1>2, <2>1, WaitKeeps DEF Reviews!CallbacksEnded
<1>3. CASE Reviews!DeadlineOfWorkers
  <2> DEFINE active == {reviewer[w].post.msg : w \in Reviewers}
             Types == [at : {"none", "idle", "reviewing", "posting", "ended"},
                       post : Reviews!Posting]
  <2>1. /\ phase = "workers" /\ phase' = "stopped" /\ callback' = Reviews!CutShort(active)
        /\ UNCHANGED <<reader, seen, jobs, arrived, taken, told, unheard>>
        /\ reviewer' = [w \in Reviewers |->
             IF w \in Reviews!Started THEN [at |-> "ended", post |-> Reviews!NotPosting]
             ELSE reviewer[w]]
    BY <1>3 DEF Reviews!DeadlineOfWorkers
  <2>2. [at |-> "ended", post |-> Reviews!NotPosting] \in Types /\ Reviews!NotPosting.msg = None
    BY ReviewFacts DEF Reviews!NotPosting, Reviews!Posting
  <2>3. reviewer \in [Reviewers -> Types]
    BY DEF ReviewInv, Reviews!TypeOK
  <2>4. \A w \in Reviewers : w \notin Reviews!Started =>
          reviewer[w].at = "none" /\ reviewer[w].post.msg = None
    BY DEF Reviews!Started, ReviewInv, PostsOK
  <2>5. reviewer' \in [Reviewers -> Types]
    BY <2>1, <2>2, <2>3
  <2>6. ASSUME NEW w \in Reviewers
        PROVE  /\ reviewer'[w].at \in {"none", "ended"} /\ reviewer'[w].post.msg = None
               /\ reviewer[w].post.msg \in active \cup {None}
    BY <2>1, <2>2, <2>4
  <2>7. \A x \in active : x = None \/ \E w \in Reviewers : reviewer[w].post.msg = x
    OBVIOUS
  <2> HIDE DEF active
  <2> QED BY <2>1, <2>5, <2>6, <2>7, DeadlineKeeps
<1>4. CASE Reviews!DeadlineOfCallbacks
  <2>1. /\ phase = "callbacks" /\ phase' = "stopped" /\ callback' = Reviews!CutShort({})
        /\ UNCHANGED <<reader, seen, jobs, reviewer, arrived, taken, told, unheard>>
    BY <1>4 DEF Reviews!DeadlineOfCallbacks
  <2>2. \A w \in Reviewers : reviewer[w].at \in {"none", "ended"} /\ reviewer[w].post.msg = None
    BY <2>1 DEF ReviewInv, PhaseOK, PostsOK
  <2>3. reviewer \in [Reviewers -> [at : {"none", "idle", "reviewing", "posting", "ended"},
                                    post : Reviews!Posting]]
    BY DEF ReviewInv, Reviews!TypeOK
  <2>4. \A w \in Reviewers : reviewer[w].post.msg \in {} \cup {None}
    BY <2>2
  <2> QED BY <2>1, <2>2, <2>3, <2>4, DeadlineKeeps
<1> QED BY <1>1, <1>2, <1>3, <1>4 DEF Reviews!Stopping

LEMMA ReviewStep == ReviewInv /\ [Next]_vars => ReviewInv'
<1> SUFFICES ASSUME ReviewInv, [Next]_vars PROVE ReviewInv'
  OBVIOUS
<1>1. CASE UNCHANGED reviewVars
  <2>1. Reviews!TypeOK'
    BY <1>1 DEF ReviewInv, Reviews!TypeOK, reviewVars
  <2>2. PostsOK' /\ PhaseOK'
    BY <1>1 DEF ReviewInv, PostsOK, PhaseOK, reviewVars
  <2>3. ASSUME NEW x \in Messages PROVE PlaceOK(x)'
    BY <1>1 DEF ReviewInv, PlaceOK, IsQueued, WasTaken, reviewVars
  <2>4. WindowOK'
    BY <1>1, WindowSame DEF ReviewInv, reviewVars
  <2> QED BY <2>1, <2>2, <2>3, <2>4 DEF ReviewInv
<1>2. CASE Reviews!Next
  BY <1>2, ArriveKeeps, PostShutdownKeeps, PostRejectionKeeps, TakeKeepsReviews, ReviewKeeps,
     PostReviewKeeps, StopKeepsReviews, StoppingKeeps DEF Reviews!Next, Reviews!Work
<1> QED BY <1>1, <1>2 DEF Next, vars

\* A review job is told at most one verdict, whoever tells it and however often it is
\* told; when stop() ended in time it was told one, or no POST of it was answered; and
\* a delivery enters the queue again only after more deliveries came than the window
\* holds: for any number of messages, workers and attempts, and any limits.
THEOREM JobsAreToldOnce == Spec => []ReviewsAreToldOnce
<1>1. ReviewInv => Reviews!OneVerdict
  <2> SUFFICES ASSUME ReviewInv, NEW m \in Messages
               PROVE  Cardinality(told[m]) <= 1
    BY SameReviewSets DEF Reviews!OneVerdict
  <2>1. \A u, v \in told[m] : u = v
    BY DEF ReviewInv, PlaceOK
  <2>2. CASE told[m] = {}
    BY <2>2, FS_EmptySet
  <2>3. CASE told[m] # {}
    <3>1. \E v : told[m] = {v}
      BY <2>1, <2>3
    <3>2. Cardinality(told[m]) = 1
      BY <3>1, FS_Singleton
    <3> QED BY <3>2
  <2> QED BY <2>2, <2>3
<1>2. ReviewInv => Reviews!ResolvedInTime
  <2> SUFFICES ASSUME ReviewInv, phase = "stopped", NEW m \in Messages, WasTaken(m)
               PROVE  callback[m].at = "cut" \/ told[m] # {} \/ m \in unheard
    <3>1. ASSUME ReviewInv, NEW m \in Reviews!Range(taken)
          PROVE  m \in Messages /\ WasTaken(m)
      <4>1. PICK i \in DOMAIN taken : m = taken[i]
        BY DEF Reviews!Range
      <4>2. taken \in Seq(Messages)
        BY <3>1 DEF ReviewInv, Reviews!TypeOK
      <4> QED BY <4>1, <4>2 DEF WasTaken
    <3> QED BY <3>1 DEF Reviews!ResolvedInTime
  <2>1. ~IsQueued(m) /\ \A w \in Reviewers : reviewer[w].post.msg # m
    BY ReviewFacts DEF ReviewInv, PhaseOK, PostsOK, IsQueued
  <2>2. callback[m].at \in {"none", "ended", "cut"}
    BY DEF ReviewInv, PhaseOK, Reviews!TypeOK
  <2> QED BY <2>1, <2>2 DEF ReviewInv, PlaceOK
<1>3. ReviewInv => Reviews!ReviewedOnce
  <2>1. Reviews!Cardinality({DeliveryOf[m] : m \in arrived} \ {None}) = Cardinality(Delivered)
    BY SameReviewSets DEF Delivered
  <2> QED BY <2>1 DEF ReviewInv, WindowOK, Reviews!ReviewedOnce
<1>4. ReviewInv => ReviewsAreToldOnce
  BY <1>1, <1>2, <1>3 DEF ReviewInv, ReviewsAreToldOnce
<1> QED BY <1>4, ReviewInit, ReviewStep, PTL DEF Spec

=============================================================================
