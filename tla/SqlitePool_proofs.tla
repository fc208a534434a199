--------------------------- MODULE SqlitePool_proofs ---------------------------
(***************************************************************************)
(* Proofs about what is stored (MCStorage), for any tasks, sizes, threads, *)
(* requests, records and numbers of failures.                              *)
(*                                                                         *)
(* The pool: types, that connections are made by whoever holds the lock,   *)
(* and that a connection has one user.  OneUser needs HeldIsMade, that     *)
(* whoever uses a connection uses one that was made: the number of the     *)
(* next is then in no queue and nobody's hand.  The steps of the pool are  *)
(* of six kinds (PoolSteps): they move nothing, take the head of the       *)
(* queue, give back, add a new connection to the queue, make one for a     *)
(* task, or close the head.  Then its size (Fits), what the open           *)
(* transactions hold (TaskWrites) and whose they are (Clean).              *)
(*                                                                         *)
(* The sidebar: who holds the lock (Locked), and what a sweep that has     *)
(* read the rows may still rely on (Restoring).                            *)
(*                                                                         *)
(* The queue: what a record and its task count (Counts, Agrees), kept by   *)
(* what any step does to them (Processes); the queue without a rate limit  *)
(* takes steps of the queue (UnlimitedSteps).                              *)
(***************************************************************************)
EXTENDS MCStorage, FiniteSetTheorems, TLAPS

TaskRecord == [at : Positions, conn : Nat, done : Nat]

\* Whoever uses a connection uses one that was made.
HeldIsMade == \A t \in Holding : task[t].conn \in Conns

\* No task begins to use a connection; those that go on keep theirs.
NoneTakes == \A u \in Tasks : task'[u].at = "using" =>
  task[u].at = "using" /\ task'[u].conn = task[u].conn

OthersStay(t) == task' \in [Tasks -> TaskRecord] /\ \A u \in Tasks \ {t} : task'[u] = task[u]

\* The kinds of steps.
Takes(t) ==
  /\ idle # <<>> /\ OthersStay(t)
  /\ task'[t].at = "using" /\ task'[t].conn = Head(idle)
  /\ idle' = Tail(idle) /\ made' = made
Gives(t) ==
  /\ task[t].at = "using" /\ OthersStay(t) /\ task'[t].at = "over"
  /\ GiveBack(t) /\ made' = made
Adds ==
  /\ task' \in [Tasks -> TaskRecord] /\ NoneTakes /\ made' = made + 1
  /\ (idle' = Append(idle, made + 1) /\ Len(idle) # MaxSize) \/ idle' = idle
Makes(t) ==
  /\ OthersStay(t) /\ task'[t].at = "using" /\ task'[t].conn = made + 1
  /\ made' = made + 1 /\ idle' = idle
Drops ==
  /\ idle # <<>> /\ idle' = Tail(idle) /\ UNCHANGED <<task, made>>
Stays ==
  /\ task' \in [Tasks -> TaskRecord] /\ NoneTakes /\ UNCHANGED <<idle, made>>

PoolStep ==
  \/ Adds \/ Drops \/ Stays
  \/ \E t \in Tasks : Takes(t) \/ Gives(t) \/ Makes(t)

\* The part of TypeOK that those steps are about.
PoolTyped ==
  /\ made \in Nat
  /\ idle \in Seq(Conns) /\ Len(idle) <= MaxSize
  /\ task \in [Tasks -> TaskRecord]

-----------------------------------------------------------------------------
(* Queues.                                                                 *)

LEMMA AppendToQueue ==
  ASSUME NEW S, NEW s \in Seq(S), NEW c \in S,
         Distinct(s), \A i \in DOMAIN s : s[i] # c
  PROVE  /\ Append(s, c) \in Seq(S) /\ Len(Append(s, c)) = Len(s) + 1
         /\ Distinct(Append(s, c))
         /\ \A j \in DOMAIN Append(s, c) :
              Append(s, c)[j] = c \/ \E i \in DOMAIN s : Append(s, c)[j] = s[i]
BY DEF Distinct

LEMMA TailOfQueue ==
  ASSUME NEW S, NEW s \in Seq(S), s # <<>>, Distinct(s)
  PROVE  /\ Tail(s) \in Seq(S) /\ Len(Tail(s)) = Len(s) - 1
         /\ Head(s) \in S /\ \E i \in DOMAIN s : Head(s) = s[i]
         /\ Distinct(Tail(s))
         /\ \A j \in DOMAIN Tail(s) :
              Tail(s)[j] # Head(s) /\ \E i \in DOMAIN s : Tail(s)[j] = s[i]
BY DEF Distinct

LEMMA MoreConnections ==
  ASSUME NEW n \in Nat, NEW s \in Seq(1..n)
  PROVE  s \in Seq(1..(n + 1)) /\ \A i \in DOMAIN s : s[i] # n + 1
OBVIOUS

-----------------------------------------------------------------------------
(* The kinds of steps keep a connection to one user.                       *)

LEMMA OneUserKept ==
  ASSUME PoolTyped, HeldIsMade, OneUser, PoolStep
  PROVE  PoolTyped' /\ HeldIsMade' /\ OneUser'
<1> USE PoolSizes DEF PoolTyped, HeldIsMade, OneUser, Holding, TaskRecord
<1>1. ASSUME Adds PROVE PoolTyped' /\ HeldIsMade' /\ OneUser'
  <2>1. idle \in Seq(1..(made + 1)) /\ \A i \in DOMAIN idle : idle[i] # made + 1
    BY MoreConnections DEF Conns
  <2>2. made + 1 \in 1..(made + 1) /\ 1..(made + 1) = Conns'
    BY <1>1 DEF Conns, Adds
  <2>3. HeldIsMade'
    BY <1>1 DEF Adds, NoneTakes, Conns
  <2>4. \A t \in Holding' : task'[t].conn # made + 1
    BY <1>1 DEF Adds, NoneTakes, Conns
  <2>5. CASE idle' = idle
    BY <1>1, <2>1, <2>2, <2>3, <2>5 DEF Adds, NoneTakes, Distinct
  <2>6. CASE idle' = Append(idle, made + 1) /\ Len(idle) # MaxSize
    <3>1. /\ idle' \in Seq(Conns') /\ Len(idle') = Len(idle) + 1 /\ Distinct(idle')
          /\ \A j \in DOMAIN idle' :
               idle'[j] = made + 1 \/ \E i \in DOMAIN idle : idle'[j] = idle[i]
      BY <2>1, <2>2, <2>6, AppendToQueue
    <3>2. Len(idle) \in Nat /\ Len(idle') <= MaxSize
      BY <2>6, <3>1
    <3>3. PoolTyped'
      BY <1>1, <3>1, <3>2 DEF Adds
    <3>4. \A t \in Holding' : \A j \in DOMAIN idle' : idle'[j] # task'[t].conn
      BY <1>1, <2>4, <3>1 DEF Adds, NoneTakes
    <3>5. \A t, u \in Holding' : t # u => task'[t].conn # task'[u].conn
      BY <1>1 DEF Adds, NoneTakes
    <3> QED BY <2>3, <3>1, <3>3, <3>4, <3>5
  <2> QED BY <1>1, <2>5, <2>6 DEF Adds
<1>2. ASSUME Drops PROVE PoolTyped' /\ HeldIsMade' /\ OneUser'
  <2>1. /\ idle' \in Seq(Conns) /\ Len(idle') = Len(idle) - 1 /\ Distinct(idle')
        /\ \A j \in DOMAIN idle' : \E i \in DOMAIN idle : idle'[j] = idle[i]
    BY <1>2, TailOfQueue DEF Drops
  <2> QED BY <1>2, <2>1 DEF Drops, Conns
<1>3. ASSUME Stays PROVE PoolTyped' /\ HeldIsMade' /\ OneUser'
  BY <1>3 DEF Stays, NoneTakes, Conns, Distinct
<1>4. ASSUME NEW t \in Tasks, Takes(t) PROVE PoolTyped' /\ HeldIsMade' /\ OneUser'
  <2>1. /\ idle' \in Seq(Conns) /\ Len(idle') = Len(idle) - 1 /\ Distinct(idle')
        /\ task'[t].conn \in Conns
        /\ \E i \in DOMAIN idle : task'[t].conn = idle[i]
        /\ \A j \in DOMAIN idle' :
             idle'[j] # task'[t].conn /\ \E i \in DOMAIN idle : idle'[j] = idle[i]
    BY <1>4, TailOfQueue DEF Takes
  <2>2. Conns' = Conns
    BY <1>4 DEF Takes, Conns
  <2>3. \A u \in Tasks \ {t} : task'[u] = task[u]
    BY <1>4 DEF Takes, OthersStay
  <2>4. PoolTyped' /\ HeldIsMade'
    <3>1. PoolTyped'
      <4>1. Len(idle) \in Nat
        OBVIOUS
      <4> QED BY <1>4, <2>1, <2>2, <4>1 DEF Takes, OthersStay
    <3>2. HeldIsMade'
      BY <2>1, <2>2, <2>3
    <3> QED BY <3>1, <3>2
  <2>5. ASSUME NEW u \in Holding', NEW j \in DOMAIN idle' PROVE idle'[j] # task'[u].conn
    <3>1. CASE u = t
      BY <2>1, <3>1
    <3>2. CASE u # t
      <4>1. u \in Holding /\ task'[u].conn = task[u].conn
        BY <2>3, <3>2
      <4>2. PICK i \in DOMAIN idle : idle'[j] = idle[i]
        BY <2>1
      <4> QED BY <4>1, <4>2
    <3> QED BY <3>1, <3>2
  <2>6. \A u \in Tasks \ {t} : task'[u].at = "using" => task'[u].conn # task'[t].conn
    BY <2>1, <2>3
  <2>7. \A u, v \in Holding' : u # v => task'[u].conn # task'[v].conn
    BY <2>3, <2>6
  <2> QED BY <2>1, <2>4, <2>5, <2>7
<1>5. ASSUME NEW t \in Tasks, Gives(t) PROVE PoolTyped' /\ HeldIsMade' /\ OneUser'
  <2>1. Conns' = Conns
    BY <1>5 DEF Gives, Conns
  <2>2. \A u \in Tasks : task'[u].at = "using" => u # t /\ task'[u] = task[u]
    BY <1>5 DEF Gives, OthersStay
  <2>3. /\ idle' \in Seq(Conns) /\ Len(idle') <= MaxSize /\ Distinct(idle')
        /\ \A j \in DOMAIN idle' :
             idle'[j] = task[t].conn \/ \E i \in DOMAIN idle : idle'[j] = idle[i]
    <3>1. CASE Len(idle) < MaxSize
      <4>1. idle' = Append(idle, task[t].conn) /\ task[t].conn \in Conns
        BY <1>5, <3>1 DEF Gives, GiveBack
      <4>2. \A i \in DOMAIN idle : idle[i] # task[t].conn
        BY <1>5 DEF Gives
      <4>3. Len(idle') = Len(idle) + 1 /\ Len(idle) \in Nat
        BY <4>1, <4>2, AppendToQueue
      <4> QED BY <3>1, <4>1, <4>2, <4>3, AppendToQueue
    <3>2. CASE ~(Len(idle) < MaxSize)
      BY <1>5, <3>2 DEF Gives, GiveBack
    <3> QED BY <3>1, <3>2
  <2>4. PoolTyped' /\ HeldIsMade'
    BY <1>5, <2>1, <2>2, <2>3 DEF Gives, OthersStay
  <2>5. \A u \in Holding' : \A j \in DOMAIN idle' : idle'[j] # task'[u].conn
    BY <1>5, <2>2, <2>3 DEF Gives
  <2>6. \A u, v \in Holding' : u # v => task'[u].conn # task'[v].conn
    BY <2>2
  <2> QED BY <2>3, <2>4, <2>5, <2>6
<1>6. ASSUME NEW t \in Tasks, Makes(t) PROVE PoolTyped' /\ HeldIsMade' /\ OneUser'
  <2>1. idle \in Seq(1..(made + 1)) /\ \A i \in DOMAIN idle : idle[i] # made + 1
    BY MoreConnections DEF Conns
  <2>2. \A u \in Tasks \ {t} : task'[u] = task[u]
    BY <1>6 DEF Makes, OthersStay
  <2>3. \A u \in Tasks \ {t} : task'[u].at = "using" => task'[u].conn \in 1..made
    BY <2>2 DEF Conns
  <2>4. PoolTyped' /\ HeldIsMade'
    BY <1>6, <2>1, <2>3 DEF Makes, OthersStay, Conns
  <2>5. \A u \in Holding' : \A j \in DOMAIN idle' : idle'[j] # task'[u].conn
    BY <1>6, <2>1, <2>2 DEF Makes
  <2>6. \A u \in Tasks \ {t} : task'[u].at = "using" => task'[u].conn # task'[t].conn
    BY <1>6, <2>3 DEF Makes
  <2>7. \A u, v \in Holding' : u # v => task'[u].conn # task'[v].conn
    BY <2>2, <2>6
  <2> QED BY <1>6, <2>4, <2>5, <2>7 DEF Makes, Distinct
<1> QED BY <1>1, <1>2, <1>3, <1>4, <1>5, <1>6 DEF PoolStep

-----------------------------------------------------------------------------
(* The steps of Next are of those kinds.                                   *)

\* What the assignments to a task change.
LEMMA Moved ==
  ASSUME PoolTyped, NEW t \in Tasks, NEW at \in Positions, Go(t, at)
  PROVE  /\ OthersStay(t)
         /\ task'[t].at = at /\ task'[t].conn = task[t].conn
BY DEF PoolTyped, TaskRecord, Go, OthersStay

LEMMA Held ==
  ASSUME PoolTyped, NEW t \in Tasks, NEW c \in Nat, Hold(t, c)
  PROVE  OthersStay(t) /\ task'[t].at = "using" /\ task'[t].conn = c
BY DEF PoolTyped, TaskRecord, Hold, OthersStay, Positions

LEMMA Advanced ==
  ASSUME PoolTyped, NEW t \in Tasks, NEW n \in Nat, task' = [task EXCEPT ![t].done = n]
  PROVE  /\ OthersStay(t)
         /\ task'[t].at = task[t].at /\ task'[t].conn = task[t].conn
BY DEF PoolTyped, TaskRecord, OthersStay

LEMMA StartedToOpen ==
  ASSUME PoolTyped, NEW t \in Tasks,
         task' = [task EXCEPT ![t].at = "opening", ![t].done = 0]
  PROVE  OthersStay(t) /\ task'[t].at = "opening"
BY DEF PoolTyped, TaskRecord, OthersStay, Positions

\* A task that does not use a connection afterwards took none.
LEMMA TakesNone ==
  ASSUME PoolTyped, NEW t \in Tasks, OthersStay(t),
         \/ task'[t].at # "using"
         \/ task'[t].at = task[t].at /\ task'[t].conn = task[t].conn
  PROVE  task' \in [Tasks -> TaskRecord] /\ NoneTakes
BY DEF OthersStay, NoneTakes

LEMMA PoolSteps ==
  ASSUME PoolTyped, Next
  PROVE  PoolStep
<1> USE PoolSizes DEF PoolStep
<1> DEFINE Calm == task' \in [Tasks -> TaskRecord] /\ NoneTakes
<1>0. /\ \A at \in {"trying", "entering", "slot", "creating", "waiting", "over", "opening"} :
           at \in Positions /\ at # "using"
      /\ made \in Nat /\ made + 1 \in Nat /\ task \in [Tasks -> TaskRecord]
      /\ \A t \in Tasks : task[t].done \in Nat /\ task[t].done + 1 \in Nat
  BY DEF Positions, PoolTyped, TaskRecord
<1>g. ASSUME NEW t \in Tasks,
             NEW at \in {"trying", "entering", "slot", "creating", "waiting", "over"}, Go(t, at)
      PROVE  Calm
  BY <1>0, <1>g, Moved, TakesNone
<1>1. ASSUME NEW t \in Tasks, Enter(t) \/ LockOpen(t) \/ Slot(t) \/ ConnectFails(t)
      PROVE  Stays
  <2>1. CASE Enter(t) \/ Slot(t) \/ ConnectFails(t)
    <3>1. PICK at \in {"trying", "entering", "creating", "waiting", "over"} : Go(t, at)
      BY <2>1 DEF Enter, Slot, ConnectFails
    <3>2. Calm
      BY <1>g, <3>1
    <3> QED BY <2>1, <3>2 DEF Enter, Slot, ConnectFails, Stays, pool
  <2>2. CASE LockOpen(t)
    <3>1. CASE opened
      BY <1>g, <2>2, <3>1 DEF LockOpen, Stays
    <3>2. CASE ~opened
      BY <2>2, <3>2, StartedToOpen, TakesNone DEF LockOpen, Stays
    <3> QED BY <3>1, <3>2
  <2> QED BY <1>1, <2>1, <2>2
<1>2. ASSUME NEW t \in Tasks, OpenOne(t) PROVE Adds
  <2>1. CASE task' = [task EXCEPT ![t].done = @ + 1]
    <3>1. task' = [task EXCEPT ![t].done = task[t].done + 1]
      BY <2>1
    <3>2. Calm
      BY <1>0, <3>1, Advanced, TakesNone
    <3> QED BY <1>2, <3>2 DEF OpenOne, Adds
  <2>2. CASE Go(t, "over") \/ Go(t, "trying")
    <3>1. Calm
      BY <1>g, <2>2
    <3> QED BY <1>2, <3>1 DEF OpenOne, Adds
  <2> QED BY <1>2, <2>1, <2>2 DEF OpenOne
<1>3. ASSUME NEW t \in Tasks, idle # <<>>, Take(t), made' = made PROVE Takes(t)
  <2>1. Head(idle) \in Nat
    BY <1>3 DEF Conns, PoolTyped
  <2> QED BY <1>3, <2>1, Held DEF Takes, Take
<1>4. ASSUME NEW t \in Tasks, Try(t) \/ Wait(t) PROVE Takes(t) \/ Stays
  <2>1. CASE idle # <<>> /\ Take(t)
    BY <1>3, <1>4, <2>1 DEF Try, Wait
  <2>2. CASE ~Take(t)
    BY <1>g, <1>4, <2>2 DEF Try, Wait, Stays
  <2> QED BY <2>1, <2>2 DEF Take
<1>5. ASSUME NEW t \in Tasks, Create(t) PROVE Makes(t)
  BY <1>0, <1>5, Held DEF Create, Makes
<1>6. ASSUME NEW t \in Tasks, Leave(t), task[t].at = "using" PROVE Gives(t)
  BY <1>0, <1>6, Moved DEF Leave, Gives
<1>7. ASSUME NEW t \in Tasks, Begin(t) \/ Update(t) PROVE Gives(t) \/ Stays
  <2>1. CASE Leave(t)
    BY <1>6, <1>7, <2>1 DEF Begin, Update
  <2>2. CASE ~Leave(t)
    <3>1. PICK n \in Nat : task' = [task EXCEPT ![t].done = n]
      <4>1. CASE Begin(t)
        BY <2>2, <4>1 DEF Begin
      <4>2. CASE Update(t)
        BY <1>0, <4>2 DEF Update
      <4> QED BY <1>7, <4>1, <4>2
    <3>2. Calm
      BY <3>1, Advanced, TakesNone
    <3>3. UNCHANGED <<idle, made>>
      BY <1>7, <2>2 DEF Begin, Update, pool
    <3> QED BY <3>2, <3>3 DEF Stays
  <2> QED BY <2>1, <2>2
<1>8. ASSUME NEW t \in Tasks, UpdateFails(t) \/ CommitWrites(t) PROVE Gives(t)
  BY <1>6, <1>8 DEF UpdateFails, CommitWrites
<1>9. ASSUME NEW t \in Tasks, Cancel(t) PROVE Gives(t) \/ Stays
  <2>1. CASE task[t].at = "using"
    BY <1>6, <1>9, <2>1 DEF Cancel
  <2>2. CASE task[t].at # "using"
    BY <1>g, <1>9, <2>2 DEF Cancel, Stays
  <2> QED BY <2>1, <2>2
<1>10. ASSUME Close \/ CloseEnds PROVE Stays
  BY <1>0, <1>10 DEF Close, CloseEnds, Stays, NoneTakes
<1>11. ASSUME CloseOne PROVE Drops
  BY <1>11 DEF CloseOne, Drops
<1> QED BY <1>1, <1>2, <1>4, <1>5, <1>7, <1>8, <1>9, <1>10, <1>11 DEF Next, Own

-----------------------------------------------------------------------------
(* The other variables, and the lock.                                      *)

DataTyped ==
  /\ begun \subseteq Conns
  /\ pending \subseteq (Conns \X Tasks \X Parts)
  /\ writer \in Conns \cup {0}
  /\ stored \subseteq (Tasks \X Parts)

RestTyped ==
  /\ opened \in BOOLEAN /\ closing \in BOOLEAN
  /\ size \in Nat
  /\ lock \in Tasks \cup {None}
  /\ spent \in [errors : Nat, cancels : Nat, closes : Nat]

\* A transaction of a connection that was made begins, writes, or ends.
DataStep ==
  \/ UNCHANGED data
  \/ \E c \in Conns :
       \/ begun' = begun \cup {c} /\ writer' = c /\ UNCHANGED <<pending, stored>>
       \/ \E t \in Tasks, p \in Parts :
            /\ begun' = begun \cup {c} /\ writer' = c /\ UNCHANGED stored
            /\ pending' = pending \cup {<<c, t, p>>}
       \/ Commit(c) \/ Rollback(c)

LEMMA DataSteps ==
  ASSUME PoolTyped, HeldIsMade, Next
  PROVE  DataStep /\ made' >= made
<1> USE DEF PoolTyped, HeldIsMade, Holding, DataStep, data, pool
<1>1. ASSUME NEW t \in Tasks,
             \/ Enter(t) \/ LockOpen(t) \/ OpenOne(t) \/ Try(t) \/ Slot(t)
             \/ Create(t) \/ ConnectFails(t) \/ Wait(t)
      PROVE  UNCHANGED data /\ made' >= made
  BY <1>1 DEF Enter, LockOpen, OpenOne, Try, Slot, Create, ConnectFails, Wait
<1>2. ASSUME NEW t \in Tasks, Begin(t) \/ UpdateFails(t) \/ CommitWrites(t) \/ Cancel(t)
      PROVE  DataStep /\ made' >= made
  BY <1>2 DEF Begin, UpdateFails, CommitWrites, Cancel, Leave
<1>3. ASSUME NEW t \in Tasks, Update(t) PROVE DataStep /\ made' >= made
  BY <1>3 DEF Update
<1>4. ASSUME Close \/ CloseEnds PROVE DataStep /\ made' >= made
  BY <1>4 DEF Close, CloseEnds
<1>5. ASSUME CloseOne PROVE DataStep /\ made' >= made
  <2>1. Head(idle) \in Conns
    BY <1>5 DEF CloseOne
  <2> QED BY <1>5, <2>1 DEF CloseOne
<1> QED BY <1>1, <1>2, <1>3, <1>4, <1>5 DEF Next, Own

LEMMA DataKept ==
  ASSUME PoolTyped, DataTyped, DataStep, made' \in Nat, made' >= made
  PROVE  DataTyped'
<1> USE DEF DataTyped
<1>1. Conns \subseteq Conns' /\ 0 \notin Conns
  BY DEF Conns, PoolTyped
<1>2. CASE UNCHANGED data
  BY <1>1, <1>2 DEF data
<1>3. ASSUME NEW c \in Conns, Commit(c) \/ Rollback(c) PROVE DataTyped'
  <2>1. begun' \subseteq Conns' /\ writer' \in Conns' \cup {0}
    BY <1>1, <1>3 DEF Commit, Rollback, Finish
  <2>2. pending' \subseteq (Conns' \X Tasks \X Parts)
    BY <1>1, <1>3 DEF Commit, Rollback, Finish
  <2>3. Writes(c) \subseteq Tasks \X Parts
    BY DEF Writes
  <2>4. stored' \subseteq Tasks \X Parts
    BY <1>3, <2>3 DEF Commit, Rollback
  <2> QED BY <2>1, <2>2, <2>4
<1>4. ASSUME NEW c \in Conns, begun' = begun \cup {c}, writer' = c, UNCHANGED <<pending, stored>>
      PROVE  DataTyped'
  BY <1>1, <1>4
<1>5. ASSUME NEW c \in Conns, NEW t \in Tasks, NEW p \in Parts,
             begun' = begun \cup {c}, writer' = c, UNCHANGED stored,
             pending' = pending \cup {<<c, t, p>>}
      PROVE  DataTyped'
  BY <1>1, <1>5
<1> QED BY <1>2, <1>3, <1>4, <1>5 DEF DataStep

LEMMA RestKept ==
  ASSUME PoolTyped, RestTyped, Next
  PROVE  RestTyped'
<1> USE DEF RestTyped, data, pool
<1>1. ASSUME NEW t \in Tasks,
             \/ Enter(t) \/ LockOpen(t) \/ OpenOne(t) \/ Try(t) \/ Slot(t)
             \/ Create(t) \/ Wait(t)
      PROVE  RestTyped'
  <2>1. size' \in Nat /\ lock' \in Tasks \cup {None}
    BY <1>1 DEF Enter, LockOpen, OpenOne, Try, Slot, Create, Wait
  <2>2. opened' \in BOOLEAN /\ UNCHANGED <<closing, spent>>
    BY <1>1 DEF Enter, LockOpen, OpenOne, Try, Slot, Create, Wait
  <2> QED BY <2>1, <2>2
<1>2. ASSUME NEW t \in Tasks,
             \/ ConnectFails(t) \/ Begin(t) \/ Update(t) \/ UpdateFails(t)
             \/ CommitWrites(t) \/ Cancel(t)
      PROVE  RestTyped'
  BY <1>2 DEF ConnectFails, Begin, Update, UpdateFails, CommitWrites, Cancel, Leave, Error
<1>3. ASSUME Close \/ CloseOne \/ CloseEnds PROVE RestTyped'
  <2>1. spent' \in [errors : Nat, cancels : Nat, closes : Nat]
    BY <1>3 DEF Close, CloseOne, CloseEnds
  <2>2. opened' \in BOOLEAN /\ closing' \in BOOLEAN
    BY <1>3 DEF Close, CloseOne, CloseEnds
  <2>3. size' \in Nat /\ lock' = lock
    BY <1>3 DEF Close, CloseOne, CloseEnds
  <2> QED BY <2>1, <2>2, <2>3
<1> QED BY <1>1, <1>2, <1>3 DEF Next, Own

\* A task moves; the lock is its own wherever it creates, and stays another's.
LEMMA CreatorMoves ==
  ASSUME PoolTyped, OneCreator, NEW t \in Tasks, OthersStay(t),
         task'[t].at \in {"opening", "creating"} => lock' = t,
         lock' = lock \/ lock \in {t, None}
  PROVE  OneCreator'
BY PoolTasks DEF OneCreator, OthersStay

LEMMA OneCreatorKept ==
  ASSUME PoolTyped, OneCreator, Next
  PROVE  OneCreator'
<1> USE DEF pool
<1>0. /\ \A at \in {"trying", "entering", "slot", "creating", "waiting", "over", "opening", "using"} :
           at \in Positions
      /\ made + 1 \in Nat
      /\ \A t \in Tasks : task[t].done + 1 \in Nat
      /\ \A t \in Tasks : task[t].at \in {"opening", "creating"} => lock = t
  BY DEF Positions, PoolTyped, TaskRecord, OneCreator
<1>1. ASSUME NEW t \in Tasks, Enter(t) \/ Slot(t) PROVE OneCreator'
  <2>1. PICK at \in {"trying", "entering", "creating", "waiting"} :
          Go(t, at) /\ (at = "creating" => lock' = t)
    BY <1>1 DEF Enter, Slot
  <2>2. OthersStay(t) /\ task'[t].at = at
    BY <1>0, <2>1, Moved
  <2>3. lock' = lock \/ lock = None
    BY <1>1 DEF Enter, Slot
  <2> QED BY <2>1, <2>2, <2>3, CreatorMoves
<1>2. ASSUME NEW t \in Tasks, LockOpen(t) PROVE OneCreator'
  <2>1. CASE opened
    BY <1>0, <1>2, <2>1, Moved, CreatorMoves DEF LockOpen
  <2>2. CASE ~opened
    BY <1>2, <2>2, StartedToOpen, CreatorMoves DEF LockOpen
  <2> QED BY <2>1, <2>2
<1>3. ASSUME NEW t \in Tasks, OpenOne(t) PROVE OneCreator'
  <2>1. CASE task' = [task EXCEPT ![t].done = @ + 1] /\ lock' = lock
    <3>1. task' = [task EXCEPT ![t].done = task[t].done + 1]
      BY <2>1
    <3>2. OthersStay(t) /\ lock' = t
      BY <1>0, <1>3, <2>1, <3>1, Advanced DEF OpenOne
    <3> QED BY <2>1, <3>2, CreatorMoves
  <2>2. CASE (Go(t, "over") \/ Go(t, "trying")) /\ lock' = None
    <3>1. OthersStay(t) /\ task'[t].at \in {"over", "trying"} /\ lock = t
      BY <1>0, <1>3, <2>2, Moved DEF OpenOne
    <3> QED BY <3>1, CreatorMoves
  <2> QED BY <1>3, <2>1, <2>2 DEF OpenOne
<1>4. ASSUME NEW t \in Tasks, Create(t) \/ ConnectFails(t) PROVE OneCreator'
  <2>1. OthersStay(t) /\ task'[t].at \in {"using", "over"}
    BY <1>0, <1>4, Moved, Held DEF Create, ConnectFails
  <2>2. lock = t
    BY <1>0, <1>4 DEF Create, ConnectFails
  <2> QED BY <2>1, <2>2, CreatorMoves
<1>5. ASSUME NEW t \in Tasks, Try(t) \/ Wait(t) PROVE OneCreator'
  <2>1. CASE Take(t)
    <3>1. Head(idle) \in Nat
      BY <2>1 DEF Take, Conns, PoolTyped
    <3>2. OthersStay(t) /\ task'[t].at = "using"
      BY <2>1, <3>1, Held DEF Take
    <3> QED BY <1>5, <3>2, CreatorMoves DEF Try, Wait
  <2>2. CASE Go(t, "slot")
    <3>1. OthersStay(t) /\ task'[t].at = "slot"
      BY <1>0, <2>2, Moved
    <3> QED BY <1>5, <3>1, CreatorMoves DEF Try, Wait
  <2> QED BY <1>5, <2>1, <2>2 DEF Try, Wait
<1>6. ASSUME NEW t \in Tasks, Leave(t) PROVE OneCreator'
  <2>1. OthersStay(t) /\ task'[t].at = "over"
    BY <1>0, <1>6, Moved DEF Leave
  <2> QED BY <1>6, <2>1, CreatorMoves DEF Leave
<1>7. ASSUME NEW t \in Tasks, Begin(t) \/ Update(t) PROVE OneCreator'
  <2>1. CASE ~Leave(t)
    <3>1. PICK n \in Nat : task' = [task EXCEPT ![t].done = n]
      <4>1. CASE Begin(t)
        BY <2>1, <4>1 DEF Begin
      <4>2. CASE Update(t)
        BY <1>0, <4>2 DEF Update
      <4> QED BY <1>7, <4>1, <4>2
    <3>2. OthersStay(t) /\ task'[t].at = "using" /\ lock' = lock
      BY <1>7, <2>1, <3>1, Advanced DEF Begin, Update
    <3> QED BY <3>2, CreatorMoves
  <2> QED BY <1>6, <2>1
<1>8. ASSUME NEW t \in Tasks, UpdateFails(t) \/ CommitWrites(t) PROVE OneCreator'
  BY <1>6, <1>8 DEF UpdateFails, CommitWrites
<1>9. ASSUME NEW t \in Tasks, Cancel(t) PROVE OneCreator'
  <2>1. CASE task[t].at # "using"
    <3>1. OthersStay(t) /\ task'[t].at = "over"
      BY <1>0, <1>9, <2>1, Moved DEF Cancel
    <3> QED BY <1>9, <2>1, <3>1, CreatorMoves DEF Cancel
  <2> QED BY <1>6, <1>9, <2>1 DEF Cancel
<1>10. ASSUME Close \/ CloseOne \/ CloseEnds PROVE OneCreator'
  BY <1>10 DEF Close, CloseOne, CloseEnds, OneCreator
<1> QED
  BY <1>1, <1>2, <1>3, <1>4, <1>5, <1>7, <1>8, <1>9, <1>10 DEF Next, Own

-----------------------------------------------------------------------------
(* The theorems.                                                           *)

IInv ==
  /\ PoolTyped /\ DataTyped /\ RestTyped
  /\ HeldIsMade /\ OneUser /\ OneCreator

LEMMA InitIInv == Init => IInv
<1> SUFFICES ASSUME Init PROVE IInv
  OBVIOUS
<1> USE PoolSizes DEF Init
<1>1. PoolTyped
  BY DEF PoolTyped, TaskRecord, Positions, Conns
<1>2. DataTyped /\ RestTyped
  BY DEF DataTyped, RestTyped, Conns
<1>3. \A t \in Tasks : task[t].at = "new"
  OBVIOUS
<1>4. HeldIsMade /\ OneUser /\ OneCreator
  BY <1>3 DEF HeldIsMade, OneUser, OneCreator, Distinct, Holding
<1> QED BY <1>1, <1>2, <1>4 DEF IInv

LEMMA NextIInv == IInv /\ [Next]_vars => IInv'
<1> SUFFICES ASSUME IInv, [Next]_vars PROVE IInv'
  OBVIOUS
<1>1. CASE Next
  <2>1. PoolTyped' /\ HeldIsMade' /\ OneUser'
    BY <1>1, PoolSteps, OneUserKept DEF IInv
  <2>2. DataTyped'
    BY <1>1, <2>1, DataSteps, DataKept DEF IInv, PoolTyped
  <2>3. RestTyped' /\ OneCreator'
    BY <1>1, RestKept, OneCreatorKept DEF IInv
  <2> QED BY <2>1, <2>2, <2>3 DEF IInv
<1>2. CASE UNCHANGED vars
  BY <1>2 DEF IInv, PoolTyped, DataTyped, RestTyped, HeldIsMade, OneUser, OneCreator,
    Distinct, Holding, Conns, vars, pool, data
<1> QED BY <1>1, <1>2

\* The strengthening that the theorems rest on, in every reachable state.
THEOREM Invariance == Spec => []IInv
BY InitIInv, NextIInv, PTL DEF Spec

\* Queue, tasks, transactions and counters keep their types, and the queue its size.
THEOREM Typed == Spec => []TypeOK
<1>1. IInv => TypeOK
  BY DEF IInv, PoolTyped, DataTyped, RestTyped, TypeOK, TaskRecord
<1> QED BY <1>1, Invariance, PTL

\* A connection is held by one task or idle once, never both: acquire() and its finally
\* keep it so through errors, cancellations and close().
THEOREM ConnectionHasOneUser == Spec => []OneUser
<1>1. IInv => OneUser
  BY DEF IInv
<1> QED BY <1>1, Invariance, PTL

\* Connections are made by one task at a time, which holds the lock of the pool.
THEOREM CreatorHoldsLock == Spec => []OneCreator
<1>1. IInv => OneCreator
  BY DEF IInv
<1> QED BY <1>1, Invariance, PTL

\* In every state a connection has one user and one creator.
THEOREM ConnectionsStayExclusive == Spec => []ConnectionsAreExclusive
<1>1. OneUser /\ OneCreator => ConnectionsAreExclusive
  BY DEF ConnectionsAreExclusive
<1> QED BY <1>1, ConnectionHasOneUser, CreatorHoldsLock, PTL

-----------------------------------------------------------------------------
(* The size of the pool, while nobody closes it.                           *)

\* A task comes behind open() only once the pool is open; then connections are counted
\* in size, and one is made only below MaxSize.  Before that all are in the queue.
Fits ==
  /\ ~closing /\ IsFiniteSet(Holding)
  /\ \A t \in Tasks : task[t].at = "opening" => ~opened
  /\ opened =>
       /\ Len(idle) + Cardinality(Holding) <= size /\ size <= MaxSize
       /\ \A t \in Tasks : task[t].at = "creating" => size < MaxSize
  /\ ~opened =>
       /\ \A t \in Tasks : task[t].at \in {"new", "entering", "opening", "over"}
       /\ Len(idle) < MaxSize => size = Len(idle)

Sized == spent.closes = 0 => Fits

LEMMA HoldingMoves ==
  ASSUME PoolTyped, NEW t \in Tasks, OthersStay(t)
  PROVE  /\ task'[t].at = "using" => Holding' = Holding \cup {t}
         /\ task'[t].at # "using" => Holding' = Holding \ {t}
BY DEF Holding, OthersStay

LEMMA LengthsAreNatural ==
  ASSUME PoolTyped PROVE Len(idle) \in Nat /\ MaxSize \in Nat /\ MinSize \in Nat
BY PoolSizes DEF PoolTyped

LEMMA TailIsShorter ==
  ASSUME NEW S, NEW s \in Seq(S), s # <<>> PROVE Len(Tail(s)) = Len(s) - 1 /\ Len(s) \in Nat
OBVIOUS

LEMMA AppendIsLonger ==
  ASSUME NEW S, NEW s \in Seq(S), NEW c PROVE Len(Append(s, c)) = Len(s) + 1 /\ Len(s) \in Nat
<1>1. s \in Seq(S \cup {c}) /\ c \in S \cup {c}
  OBVIOUS
<1> QED BY <1>1

LEMMA OneLessOneMore ==
  ASSUME NEW l \in Nat, NEW k \in Nat, NEW c \in Nat, NEW d \in Nat, NEW n \in Nat,
         k <= l + 1, d = c - 1, l + c <= n
  PROVE  k + d <= n
OBVIOUS

\* A task that uses no connection moves, and uses none then.
LEMMA OutsideFits ==
  ASSUME PoolTyped, Fits, NEW t \in Tasks, OthersStay(t),
         t \notin Holding, task'[t].at # "using", UNCHANGED <<idle, size, opened, closing>>,
         task'[t].at = "opening" => ~opened,
         task'[t].at = "creating" => size < MaxSize,
         opened \/ task'[t].at \in {"new", "entering", "opening", "over"}
  PROVE  Fits'
<1>1. Holding' = Holding
  BY HoldingMoves
<1>2. \A u \in Tasks : u = t \/ task'[u] = task[u]
  BY DEF OthersStay
<1> QED BY <1>1, <1>2 DEF Fits

LEMMA OpeningFits ==
  ASSUME IInv, Fits, NEW t \in Tasks, OpenOne(t)
  PROVE  Fits'
<1> USE LengthsAreNatural DEF IInv
<1>0. /\ ~opened /\ task[t].at = "opening" /\ size \in Nat /\ made \in Nat
      /\ Holding = {} /\ task[t].done \in Nat /\ idle \in Seq(Conns)
      /\ size' = size + 1 /\ closing' = closing
  BY DEF Fits, OpenOne, Holding, PoolTyped, RestTyped, TaskRecord
<1>1. \A u \in Tasks \ {t} : task[u].at # "opening"
  BY <1>0 DEF OneCreator
<1>2. /\ OthersStay(t)
      /\ task'[t].at \in {"over", "trying", "opening"}
      /\ task'[t].at = "trying" => opened'
      /\ task'[t].at \in {"over", "opening"} => opened' = FALSE
  <2>1. CASE Len(idle) = MaxSize
    BY <1>0, <2>1, Moved DEF OpenOne, Positions
  <2>2. CASE Len(idle) # MaxSize /\ task[t].done + 1 = MinSize
    BY <1>0, <2>2, Moved DEF OpenOne, Positions
  <2>3. CASE Len(idle) # MaxSize /\ task[t].done + 1 # MinSize
    <3>1. task[t].done + 1 \in Nat /\ task' = [task EXCEPT ![t].done = task[t].done + 1]
      BY <1>0, <2>3 DEF OpenOne
    <3>2. OthersStay(t) /\ task'[t].at = task[t].at
      BY <3>1, Advanced
    <3> QED BY <1>0, <2>3, <3>2 DEF OpenOne
  <2> QED BY <2>1, <2>2, <2>3
<1>3. Holding' = {}
  BY <1>0, <1>2, HoldingMoves
<1>4. \A u \in Tasks : u = t \/ task'[u] = task[u]
  BY <1>2 DEF OthersStay
<1>5. IsFiniteSet(Holding') /\ Cardinality(Holding') = 0
  BY <1>3, FS_EmptySet
<1>6. CASE Len(idle) = MaxSize
  <2>1. idle' = idle /\ ~opened' /\ Len(idle') = MaxSize
    BY <1>0, <1>6 DEF OpenOne
  <2> QED BY <1>0, <1>1, <1>2, <1>4, <1>5, <2>1 DEF Fits
<1>7. CASE Len(idle) # MaxSize
  <2>1. Len(idle') = Len(idle) + 1
    BY <1>0, <1>7, AppendIsLonger DEF OpenOne
  <2>2. Len(idle) < MaxSize /\ size = Len(idle)
    BY <1>0, <1>7 DEF Fits, PoolTyped
  <2>3. size' = Len(idle') /\ size' <= MaxSize
    BY <1>0, <2>1, <2>2
  <2>4. \A u \in Tasks : task'[u].at # "creating"
    BY <1>0, <1>2, <1>4 DEF Fits
  <2>5. \A u \in Tasks : task'[u].at = "opening" => ~opened'
    BY <1>1, <1>2, <1>4
  <2>6. ~opened' => \A u \in Tasks : task'[u].at \in {"new", "entering", "opening", "over"}
    BY <1>0, <1>2, <1>4 DEF Fits
  <2> QED BY <1>0, <1>5, <2>1, <2>3, <2>4, <2>5, <2>6 DEF Fits
<1> QED BY <1>6, <1>7

LEMMA UsersFit ==
  ASSUME IInv, Fits, NEW t \in Tasks, opened, OthersStay(t), UNCHANGED <<opened, closing>>,
         task'[t].at \in {"using", "over"},
         \/ t \in Holding /\ task'[t].at = "using" /\ UNCHANGED <<idle, size>>
         \/ t \in Holding /\ task'[t].at = "over" /\ GiveBack(t) /\ UNCHANGED size
         \/ /\ t \notin Holding /\ task'[t].at = "using"
            /\ idle # <<>> /\ idle' = Tail(idle) /\ UNCHANGED size
         \/ /\ task[t].at = "creating" /\ task'[t].at = "using"
            /\ idle' = idle /\ size' = size + 1
  PROVE  Fits'
<1> USE LengthsAreNatural DEF IInv
<1>0. /\ IsFiniteSet(Holding) /\ size \in Nat /\ idle \in Seq(Conns)
      /\ Len(idle) + Cardinality(Holding) <= size /\ size <= MaxSize
  BY DEF Fits, RestTyped, PoolTyped
<1>1. Cardinality(Holding) \in Nat
  BY <1>0, FS_CardinalityType
<1>2. \A u \in Tasks : u = t \/ task'[u] = task[u]
  BY DEF OthersStay
<1>3. \A u \in Tasks : task'[u].at = "opening" => FALSE
  BY <1>2 DEF Fits
<1>4. \A u \in Tasks : task'[u].at = "creating" => task[u].at = "creating"
  BY <1>2
<1>5. SUFFICES /\ IsFiniteSet(Holding')
               /\ Len(idle') + Cardinality(Holding') <= size' /\ size' <= MaxSize
               /\ \A u \in Tasks : task'[u].at = "creating" => size' < MaxSize
  BY <1>3 DEF Fits
<1>6. CASE t \in Holding /\ task'[t].at = "using" /\ UNCHANGED <<idle, size>>
  <2>1. Holding' = Holding
    BY <1>6, HoldingMoves
  <2> QED BY <1>0, <1>4, <1>6, <2>1 DEF Fits
<1>7. CASE t \in Holding /\ task'[t].at = "over" /\ GiveBack(t) /\ UNCHANGED size
  <2>1. Holding' = Holding \ {t}
    BY <1>7, HoldingMoves
  <2>2. IsFiniteSet(Holding') /\ Cardinality(Holding') = Cardinality(Holding) - 1
    BY <1>0, <1>7, <2>1, FS_RemoveElement
  <2>3. Len(idle') <= Len(idle) + 1 /\ Len(idle') \in Nat
    <3>1. CASE Len(idle) < MaxSize
      BY <1>0, <1>7, <3>1, AppendIsLonger DEF GiveBack
    <3>2. CASE ~(Len(idle) < MaxSize)
      BY <1>7, <3>2 DEF GiveBack
    <3> QED BY <3>1, <3>2
  <2>4. size' = size /\ size' <= MaxSize
    BY <1>0, <1>7
  <2>5. Len(idle') + Cardinality(Holding') <= size'
    <3>1. Cardinality(Holding') \in Nat /\ Len(idle) \in Nat
      BY <2>2, FS_CardinalityType, LengthsAreNatural
    <3> QED BY <1>0, <1>1, <2>2, <2>3, <2>4, <3>1, OneLessOneMore
  <2>6. \A u \in Tasks : task'[u].at = "creating" => size' < MaxSize
    BY <1>4, <2>4 DEF Fits
  <2> QED BY <2>2, <2>4, <2>5, <2>6
<1>8. CASE /\ t \notin Holding /\ task'[t].at = "using"
           /\ idle # <<>> /\ idle' = Tail(idle) /\ UNCHANGED size
  <2>1. Holding' = Holding \cup {t}
    BY <1>8, HoldingMoves
  <2>2. IsFiniteSet(Holding') /\ Cardinality(Holding') = Cardinality(Holding) + 1
    BY <1>0, <1>8, <2>1, FS_AddElement
  <2>3. Len(idle') = Len(idle) - 1
    BY <1>0, <1>8, TailIsShorter
  <2>4. size' = size /\ size' <= MaxSize
    BY <1>0, <1>8
  <2>5. Len(idle') + Cardinality(Holding') <= size'
    BY <1>0, <1>1, <2>2, <2>3, <2>4
  <2>6. \A u \in Tasks : task'[u].at = "creating" => size' < MaxSize
    BY <1>4, <2>4 DEF Fits
  <2> QED BY <2>2, <2>4, <2>5, <2>6
<1>9. CASE /\ task[t].at = "creating" /\ task'[t].at = "using"
           /\ idle' = idle /\ size' = size + 1
  <2>1. Holding' = Holding \cup {t} /\ t \notin Holding
    BY <1>9, HoldingMoves DEF Holding
  <2>2. IsFiniteSet(Holding') /\ Cardinality(Holding') = Cardinality(Holding) + 1
    BY <1>0, <2>1, FS_AddElement
  <2>3. size < MaxSize
    BY <1>9 DEF Fits
  <2>4. \A u \in Tasks : task'[u].at # "creating"
    BY <1>2, <1>9 DEF OneCreator
  <2> QED BY <1>0, <1>1, <1>9, <2>2, <2>3, <2>4
<1> QED BY <1>6, <1>7, <1>8, <1>9

LEMMA SizedKept ==
  ASSUME IInv, Sized, Next
  PROVE  Sized'
<1> SUFFICES ASSUME spent'.closes = 0 PROVE Fits'
  BY DEF Sized
<1>0. /\ \A at \in {"trying", "entering", "slot", "creating", "waiting", "over", "using"} :
           at \in Positions
      /\ PoolTyped /\ made + 1 \in Nat
      /\ \A t \in Tasks : task[t].done + 1 \in Nat
      /\ spent \in [errors : Nat, cancels : Nat, closes : Nat]
  BY DEF IInv, PoolTyped, RestTyped, TaskRecord, Positions
<1>1. spent.closes = 0 /\ ~Close
  <2>1. spent' = spent \/ spent'.closes = spent.closes \/ Close
    BY <1>0 DEF Next, Own, Enter, LockOpen, OpenOne, Try, Slot, Create, Wait, Begin, Update,
      CommitWrites, ConnectFails, UpdateFails, Cancel, CloseOne, CloseEnds, Error
  <2>2. Close => spent'.closes = spent.closes + 1
    BY <1>0 DEF Close
  <2> QED BY <1>0, <2>1, <2>2
<1>2. Fits /\ ~CloseOne /\ ~CloseEnds
  BY <1>1 DEF Sized, Fits, CloseOne, CloseEnds
<1>3. ASSUME NEW t \in Tasks,
             NEW at \in {"trying", "entering", "slot", "creating", "waiting", "over"},
             Go(t, at), task[t].at # "using", UNCHANGED <<idle, size, opened, closing>>,
             at = "creating" => size < MaxSize,
             opened \/ at \in {"entering", "over"}
      PROVE  Fits'
  <2>1. OthersStay(t) /\ task'[t].at = at
    BY <1>0, <1>3, Moved
  <2> QED BY <1>0, <1>2, <1>3, <2>1, OutsideFits DEF Holding
<1>4. \A t \in Tasks : task[t].at \in {"trying", "slot", "creating", "waiting", "using"} => opened
  BY <1>2 DEF Fits, IInv, RestTyped
<1>5. ASSUME NEW t \in Tasks, Enter(t) \/ Slot(t) \/ ConnectFails(t) PROVE Fits'
  BY <1>3, <1>4, <1>5 DEF Enter, Slot, ConnectFails, pool
<1>6. ASSUME NEW t \in Tasks, LockOpen(t) PROVE Fits'
  <2>1. CASE opened
    BY <1>3, <1>6, <2>1 DEF LockOpen
  <2>2. CASE ~opened
    <3>1. OthersStay(t) /\ task'[t].at = "opening"
      BY <1>0, <1>6, <2>2, StartedToOpen DEF LockOpen
    <3> QED BY <1>0, <1>2, <1>6, <2>2, <3>1, OutsideFits DEF LockOpen, Holding
  <2> QED BY <2>1, <2>2
<1>7. ASSUME NEW t \in Tasks, OpenOne(t) PROVE Fits'
  BY <1>2, <1>7, OpeningFits
<1>8. ASSUME NEW t \in Tasks, Try(t) \/ Wait(t) PROVE Fits'
  <2>1. CASE Take(t)
    <3>1. Head(idle) \in Nat
      BY <1>0, <2>1 DEF Take, Conns, PoolTyped
    <3>2. OthersStay(t) /\ task'[t].at = "using"
      BY <1>0, <2>1, <3>1, Held DEF Take
    <3> QED BY <1>2, <1>4, <1>8, <2>1, <3>2, UsersFit DEF Try, Wait, Take, Holding
  <2>2. CASE ~Take(t)
    BY <1>3, <1>4, <1>8, <2>2 DEF Try, Wait
  <2> QED BY <2>1, <2>2
<1>9. ASSUME NEW t \in Tasks, Create(t) PROVE Fits'
  <2>1. OthersStay(t) /\ task'[t].at = "using"
    BY <1>0, <1>9, Held DEF Create
  <2> QED BY <1>2, <1>4, <1>9, <2>1, UsersFit DEF Create
<1>10. ASSUME NEW t \in Tasks, Leave(t), task[t].at = "using" PROVE Fits'
  <2>1. OthersStay(t) /\ task'[t].at = "over"
    BY <1>0, <1>10, Moved DEF Leave
  <2> QED BY <1>2, <1>4, <1>10, <2>1, UsersFit DEF Leave, Holding
<1>11. ASSUME NEW t \in Tasks, Begin(t) \/ Update(t) PROVE Fits'
  <2>1. CASE Leave(t)
    BY <1>10, <1>11, <2>1 DEF Begin, Update
  <2>2. CASE ~Leave(t)
    <3>1. PICK n \in Nat : task' = [task EXCEPT ![t].done = n]
      <4>1. CASE Begin(t)
        BY <2>2, <4>1 DEF Begin
      <4>2. CASE Update(t)
        BY <1>0, <4>2 DEF Update
      <4> QED BY <1>11, <4>1, <4>2
    <3>2. OthersStay(t) /\ task'[t].at = "using"
      BY <1>0, <1>11, <3>1, Advanced DEF Begin, Update
    <3>3. UNCHANGED <<idle, size, opened, closing>> /\ t \in Holding
      BY <1>11, <2>2 DEF Begin, Update, pool, Holding
    <3> QED BY <1>2, <1>4, <3>2, <3>3, UsersFit DEF Holding
  <2> QED BY <2>1, <2>2
<1>12. ASSUME NEW t \in Tasks, UpdateFails(t) \/ CommitWrites(t) PROVE Fits'
  BY <1>10, <1>12 DEF UpdateFails, CommitWrites
<1>13. ASSUME NEW t \in Tasks, Cancel(t) PROVE Fits'
  <2>1. CASE task[t].at = "using"
    BY <1>10, <1>13, <2>1 DEF Cancel
  <2>2. CASE task[t].at # "using"
    BY <1>3, <1>13, <2>2 DEF Cancel
  <2> QED BY <2>1, <2>2
<1> QED
  BY <1>1, <1>2, <1>5, <1>6, <1>7, <1>8, <1>9, <1>11, <1>12, <1>13 DEF Next, Own

-----------------------------------------------------------------------------
(* Operations.                                                             *)

\* The writes of a task that wait for a commit are those it made so far, on the
\* connection that it uses; and what is committed is all of them.
TaskWrites(t) ==
  /\ \A p \in pending : p[2] = t =>
       t \in Holding /\ task[t].conn = p[1] /\ p[3] < Step(t)
  /\ t \in Holding => \A n \in Parts : n < Step(t) => <<task[t].conn, t, n>> \in pending
  /\ \A n, m \in Parts : <<t, n>> \in stored => <<t, m>> \in stored

\* The tasks whose operations nothing cut short.
Spared(t) == spent.cancels = 0 /\ (t \in Guarded \/ Undisturbed)

Whole == \A t \in Tasks : Spared(t) => TaskWrites(t)

\* A transaction belongs to a task that began it and has its connection still.
Clean ==
  Undisturbed => \A c \in begun : \E t \in Holding : task[t].conn = c /\ task[t].done >= 1

LEMMA StepIsNatural ==
  ASSUME PoolTyped, NEW t \in Tasks
  PROVE  Step(t) \in Nat /\ task[t].done \in Nat /\ task[t].conn \in Nat
BY DEF PoolTyped, TaskRecord, Step

\* The transaction of a connection that a task does not use is not about it.
LEMMA OthersWrites ==
  ASSUME PoolTyped, DataTyped, NEW u \in Tasks, TaskWrites(u), task'[u] = task[u],
         NEW c, u \in Holding => task[u].conn # c,
         \/ UNCHANGED <<pending, stored>>
         \/ Commit(c) \/ Rollback(c)
         \/ \E t \in Tasks \ {u}, n \in Parts :
              pending' = pending \cup {<<c, t, n>>} /\ stored' = stored
  PROVE  TaskWrites(u)'
<1>1. /\ (u \in Holding') = (u \in Holding) /\ Step(u)' = Step(u)
      /\ task'[u].conn = task[u].conn
  BY DEF Holding, Step
<1>2. \A p \in pending' : p[2] = u => p \in pending
  BY DEF Commit, Rollback, Finish
<1>3. u \in Holding => \A n \in Parts : <<task[u].conn, u, n>> \in pending =>
        <<task[u].conn, u, n>> \in pending'
  BY DEF Commit, Rollback, Finish
<1>4. \A n : <<u, n>> \in stored' <=> <<u, n>> \in stored
  <2>1. ASSUME NEW n, <<u, n>> \in Writes(c) PROVE FALSE
    <3>1. PICK p \in pending : p[1] = c /\ p[2] = u
      BY <2>1 DEF Writes
    <3> QED BY <3>1 DEF TaskWrites
  <2> QED BY <2>1 DEF Commit, Rollback
<1> QED BY <1>1, <1>2, <1>3, <1>4 DEF TaskWrites

\* A task that holds no connection has no open writes.
LEMMA EntersClean ==
  ASSUME PoolTyped, NEW t \in Tasks, TaskWrites(t), OthersStay(t),
         t \notin Holding, UNCHANGED <<pending, stored>>,
         task'[t].at = "using" => task'[t].done = 0
  PROVE  TaskWrites(t)'
<1>1. \A p \in pending' : p[2] # t
  BY DEF TaskWrites
<1>2. t \in Holding' => \A n \in Parts : ~(n < Step(t)')
  BY DEF Holding, Step, Parts
<1> QED BY <1>1, <1>2 DEF TaskWrites

LEMMA BeginsClean ==
  ASSUME PoolTyped, DataTyped, NEW t \in Tasks, TaskWrites(t), t \in Holding, t \in Guarded,
         task[t].done = 0, task'[t].done = 1, task'[t].conn = task[t].conn,
         UNCHANGED <<pending, stored>>
  PROVE  TaskWrites(t)'
<1>1. Step(t) = 0 /\ Step(t)' = 1
  BY DEF Step
<1>2. \A n \in Parts : ~(n < 1)
  BY DEF Parts
<1>3. ASSUME NEW p \in pending, p[2] = t PROVE t \in Holding' /\ task'[t].conn = p[1] /\ p[3] < Step(t)'
  <2>1. p[3] < 0 /\ p[3] \in Parts
    BY <1>1, <1>3 DEF TaskWrites, DataTyped
  <2> QED BY <2>1 DEF Parts
<1> QED BY <1>1, <1>2, <1>3 DEF TaskWrites

LEMMA LeavesNothing ==
  ASSUME PoolTyped, DataTyped, NEW t \in Tasks, TaskWrites(t), t \notin Holding',
         \/ Rollback(task[t].conn)
         \/ UNCHANGED <<pending, stored>> /\ Step(t) <= 1
  PROVE  TaskWrites(t)'
<1>1. stored' = stored
  BY DEF Rollback
<1>2. ASSUME NEW p \in pending', p[2] = t PROVE FALSE
  <2>1. p \in pending /\ task[t].conn = p[1] /\ p[3] < Step(t) /\ p[3] \in Parts
    BY <1>2 DEF Rollback, Finish, TaskWrites, DataTyped
  <2>2. CASE Rollback(task[t].conn)
    BY <1>2, <2>1, <2>2 DEF Rollback, Finish
  <2>3. CASE UNCHANGED <<pending, stored>> /\ Step(t) <= 1
    BY <2>1, <2>3, StepIsNatural DEF Parts
  <2> QED BY <2>2, <2>3
<1> QED BY <1>1, <1>2 DEF TaskWrites

LEMMA UpdateWrites ==
  ASSUME PoolTyped, DataTyped, NEW t \in Tasks, TaskWrites(t), Update(t)
  PROVE  TaskWrites(t)'
<1>1. /\ task[t].done + 1 \in Nat /\ t \in Holding /\ Step(t) \in Parts
      /\ task' = [task EXCEPT ![t].done = task[t].done + 1]
      /\ pending' = pending \cup {<<task[t].conn, t, Step(t)>>} /\ stored' = stored
  BY StepIsNatural DEF Update, Holding
<1>2. /\ task'[t].done = task[t].done + 1 /\ task'[t].conn = task[t].conn
      /\ t \in Holding' /\ Step(t) \in Nat
  BY <1>1, StepIsNatural DEF PoolTyped, TaskRecord, Holding
<1>3. Step(t)' = Step(t) + 1
  BY <1>2, StepIsNatural DEF Step
<1>4. ASSUME NEW p \in pending', p[2] = t
      PROVE  t \in Holding' /\ task'[t].conn = p[1] /\ p[3] < Step(t)'
  <2>1. CASE p \in pending
    <3>1. task[t].conn = p[1] /\ p[3] < Step(t) /\ p[3] \in Parts
      BY <1>4, <2>1 DEF TaskWrites, DataTyped
    <3> QED BY <1>2, <1>3, <3>1 DEF Parts
  <2>2. CASE p = <<task[t].conn, t, Step(t)>>
    BY <1>2, <1>3, <2>2
  <2> QED BY <1>1, <2>1, <2>2
<1>5. ASSUME NEW n \in Parts, n < Step(t)' PROVE <<task'[t].conn, t, n>> \in pending'
  <2>1. n < Step(t) \/ n = Step(t)
    BY <1>2, <1>3, <1>5 DEF Parts
  <2>2. n < Step(t) => <<task[t].conn, t, n>> \in pending
    BY <1>1 DEF TaskWrites
  <2> QED BY <1>1, <1>2, <2>1, <2>2
<1> QED BY <1>1, <1>4, <1>5 DEF TaskWrites

LEMMA CommitIsWhole ==
  ASSUME PoolTyped, DataTyped, NEW t \in Tasks, TaskWrites(t), t \in Holding, t \notin Holding',
         Step(t) = 3, Commit(task[t].conn)
  PROVE  TaskWrites(t)'
<1>1. \A p \in pending' : p[2] # t
  <2> SUFFICES ASSUME NEW p \in pending', p[2] = t PROVE FALSE
    OBVIOUS
  <2>1. p \in pending /\ p[1] # task[t].conn
    BY DEF Commit, Finish
  <2> QED BY <2>1 DEF TaskWrites
<1>2. \A n \in Parts : <<t, n>> \in Writes(task[t].conn)
  <2> SUFFICES ASSUME NEW n \in Parts PROVE <<t, n>> \in Writes(task[t].conn)
    OBVIOUS
  <2>1. <<task[t].conn, t, n>> \in pending
    BY DEF TaskWrites, Parts
  <2> DEFINE p == <<task[t].conn, t, n>>
  <2>2. p \in {q \in pending : q[1] = task[t].conn} /\ p[2] = t /\ p[3] = n
    BY <2>1
  <2> QED BY <2>2 DEF Writes
<1>3. \A n \in Parts : <<t, n>> \in stored'
  BY <1>2 DEF Commit
<1> QED BY <1>1, <1>3 DEF TaskWrites

\* What a step finds cut short stays so.
LEMMA SparedBefore ==
  ASSUME IInv, Next
  PROVE  /\ spent'.cancels = 0 => spent.cancels = 0
         /\ Undisturbed' => Undisturbed
         /\ \A t \in Tasks : Spared(t)' => Spared(t)
<1>0. PoolTyped /\ spent \in [errors : Nat, cancels : Nat, closes : Nat]
  BY DEF IInv, RestTyped
<1>1. spent'.cancels = 0 => spent.cancels = 0
  <2>1. spent' = spent \/ spent'.cancels = spent.cancels \/ spent'.cancels = spent.cancels + 1
    BY <1>0 DEF Next, Own, Enter, LockOpen, OpenOne, Try, Slot, Create, Wait, Begin, Update,
      CommitWrites, ConnectFails, UpdateFails, Cancel, Close, CloseOne, CloseEnds, Error
  <2> QED BY <1>0, <2>1
<1>2. ASSUME NEW u \in Tasks, task[u].at = "over" PROVE task'[u] = task[u]
  <2>1. ASSUME NEW t \in Tasks, task[t].at # "over",
               \/ \E at : Go(t, at)
               \/ \E c : Hold(t, c)
               \/ \E n : task' = [task EXCEPT ![t].done = n]
               \/ task' = [task EXCEPT ![t].at = "opening", ![t].done = 0]
        PROVE  task'[u] = task[u]
    BY <1>0, <1>2, <2>1 DEF Go, Hold, PoolTyped
  <2>2. ASSUME NEW t \in Tasks, Enter(t) \/ LockOpen(t) \/ OpenOne(t) \/ Try(t) \/ Slot(t)
        PROVE  task'[u] = task[u]
    BY <2>1, <2>2 DEF Enter, LockOpen, OpenOne, Try, Slot, Take
  <2>3. ASSUME NEW t \in Tasks, Create(t) \/ Wait(t) \/ Begin(t) \/ Update(t) \/ CommitWrites(t)
        PROVE  task'[u] = task[u]
    BY <2>1, <2>3 DEF Create, Wait, Take, Begin, Update, CommitWrites, Leave
  <2>4. ASSUME NEW t \in Tasks, ConnectFails(t) \/ UpdateFails(t) \/ Cancel(t)
        PROVE  task'[u] = task[u]
    BY <2>1, <2>4 DEF ConnectFails, UpdateFails, Cancel, Leave
  <2>5. ASSUME Close \/ CloseOne \/ CloseEnds PROVE task'[u] = task[u]
    BY <2>5 DEF Close, CloseOne, CloseEnds
  <2> QED BY <2>2, <2>3, <2>4, <2>5 DEF Next, Own
<1>3. Undisturbed' => Undisturbed
  BY <1>1, <1>2 DEF Undisturbed
<1> QED BY <1>1, <1>3 DEF Spared

\* What a step does to the operation of the task that moves.
Operates(t) ==
  /\ OthersStay(t)
  /\ \/ /\ t \notin Holding /\ UNCHANGED <<pending, stored, begun>>
        /\ task'[t].at = "using" =>
             task'[t].done = 0 /\ \A u \in Holding : task[u].conn # task'[t].conn
     \/ /\ t \in Holding /\ t \in Holding' /\ t \in Guarded
        /\ task[t].done = 0 /\ task'[t].done = 1 /\ task'[t].conn = task[t].conn
        /\ begun' = begun \cup {task[t].conn} /\ UNCHANGED <<pending, stored>>
     \/ Update(t)
     \/ t \in Holding /\ t \notin Holding' /\ Step(t) = 3 /\ Commit(task[t].conn)
     \/ t \in Holding /\ t \notin Holding' /\ Rollback(task[t].conn)
     \/ /\ t \in Holding /\ t \notin Holding' /\ UNCHANGED <<pending, stored, begun>>
        /\ Spared(t)' => Step(t) <= 1
        /\ Undisturbed' => task[t].done = 0

LEMMA Operations ==
  ASSUME IInv, Next
  PROVE  \/ \E t \in Tasks : Operates(t)
         \/ UNCHANGED <<task, pending, stored, begun>>
         \/ task' = task /\ idle # <<>> /\ Rollback(Head(idle))
<1> USE DEF Operates
<1>0. /\ \A at \in {"trying", "entering", "slot", "creating", "waiting", "over", "opening", "using"} :
           at \in Positions
      /\ PoolTyped /\ made + 1 \in Nat /\ made + 1 \notin Conns
      /\ \A t \in Tasks : task[t].done + 1 \in Nat /\ task[t].done \in Nat
      /\ spent \in [errors : Nat, cancels : Nat, closes : Nat]
      /\ HeldIsMade /\ OneUser
  BY DEF IInv, PoolTyped, RestTyped, TaskRecord, Positions, Conns
<1>1. ASSUME NEW t \in Tasks, NEW at \in {"trying", "entering", "slot", "creating", "waiting", "over"},
             Go(t, at), t \notin Holding, UNCHANGED data
      PROVE  Operates(t)
  <2>1. OthersStay(t) /\ task'[t].at = at
    BY <1>0, <1>1, Moved
  <2> QED BY <1>1, <2>1 DEF data
<1>2. ASSUME NEW t \in Tasks, Take(t), t \notin Holding, UNCHANGED data PROVE Operates(t)
  <2>1. Head(idle) \in Nat /\ 1 \in DOMAIN idle /\ Head(idle) = idle[1]
    BY <1>0, <1>2 DEF Take, Conns, PoolTyped
  <2>2. OthersStay(t) /\ task'[t].at = "using" /\ task'[t].conn = Head(idle)
    BY <1>0, <1>2, <2>1, Held DEF Take
  <2>3. task'[t].done = 0
    BY <1>0, <1>2 DEF Take, Hold, PoolTyped
  <2>4. \A u \in Holding : task[u].conn # Head(idle)
    BY <1>0, <2>1 DEF OneUser
  <2> QED BY <1>2, <2>2, <2>3, <2>4 DEF data
<1>3. ASSUME NEW t \in Tasks, Create(t) PROVE Operates(t)
  <2>1. OthersStay(t) /\ task'[t].at = "using" /\ task'[t].conn = made + 1
    BY <1>0, <1>3, Held DEF Create
  <2>2. task'[t].done = 0 /\ t \notin Holding
    BY <1>0, <1>3 DEF Create, Hold, PoolTyped, Holding
  <2>3. \A u \in Holding : task[u].conn # made + 1
    BY <1>0 DEF HeldIsMade
  <2> QED BY <1>3, <2>1, <2>2, <2>3 DEF Create, data
<1>4. ASSUME NEW t \in Tasks, Enter(t) \/ Slot(t) \/ ConnectFails(t) PROVE Operates(t)
  BY <1>1, <1>4 DEF Enter, Slot, ConnectFails, Holding
<1>5. ASSUME NEW t \in Tasks, LockOpen(t) PROVE Operates(t)
  <2>1. CASE opened
    BY <1>1, <1>5, <2>1 DEF LockOpen, Holding
  <2>2. CASE ~opened
    <3>1. OthersStay(t) /\ task'[t].at = "opening"
      BY <1>0, <1>5, <2>2, StartedToOpen DEF LockOpen
    <3> QED BY <1>5, <3>1 DEF LockOpen, Holding, data
  <2> QED BY <2>1, <2>2
<1>6. ASSUME NEW t \in Tasks, OpenOne(t) PROVE Operates(t)
  <2>1. CASE Go(t, "over") \/ Go(t, "trying")
    BY <1>1, <1>6, <2>1 DEF OpenOne, Holding
  <2>2. CASE task' = [task EXCEPT ![t].done = @ + 1]
    <3>1. task' = [task EXCEPT ![t].done = task[t].done + 1]
      BY <2>2
    <3>2. OthersStay(t) /\ task'[t].at = task[t].at
      BY <1>0, <3>1, Advanced
    <3> QED BY <1>6, <3>2 DEF OpenOne, Holding, data
  <2> QED BY <1>6, <2>1, <2>2 DEF OpenOne
<1>7. ASSUME NEW t \in Tasks, Try(t) \/ Wait(t) PROVE Operates(t)
  BY <1>1, <1>2, <1>7 DEF Try, Wait, Holding
<1>8. ASSUME NEW t \in Tasks, Leave(t), t \in Holding
      PROVE  /\ OthersStay(t) /\ t \notin Holding'
             /\ task'[t].at = "over" /\ task'[t].done = task[t].done
  <2>1. OthersStay(t) /\ task'[t].at = "over"
    BY <1>0, <1>8, Moved DEF Leave
  <2>2. task'[t].done = task[t].done
    BY <1>0, <1>8 DEF Leave, Go, PoolTyped, TaskRecord
  <2> QED BY <2>1, <2>2 DEF Holding
<1>9. ASSUME NEW t \in Tasks, Begin(t) PROVE Operates(t)
  <2>1. t \in Holding /\ t \in Guarded /\ task[t].done = 0 /\ Step(t) = 0
    BY <1>9 DEF Begin, Holding, Step
  <2>2. CASE Leave(t)
    <3>1. Rollback(task[t].conn) \/ UNCHANGED data \/ task' = [task EXCEPT ![t].done = 1]
      BY <1>9 DEF Begin
    <3>2. task' # [task EXCEPT ![t].done = 1]
      BY <1>0, <1>8, <2>1, <2>2 DEF PoolTyped, TaskRecord
    <3> QED BY <1>8, <2>1, <2>2, <3>1, <3>2 DEF data
  <2>3. CASE ~Leave(t)
    <3>1. task' = [task EXCEPT ![t].done = 1]
      BY <1>9, <2>3 DEF Begin
    <3>2. /\ OthersStay(t) /\ task'[t].at = task[t].at /\ task'[t].conn = task[t].conn
      BY <1>0, <3>1, Advanced
    <3>3. task'[t].done = 1 /\ t \in Holding'
      BY <1>0, <2>1, <3>1, <3>2 DEF PoolTyped, TaskRecord, Holding
    <3> QED BY <1>9, <2>1, <2>3, <3>2, <3>3 DEF Begin
  <2> QED BY <2>2, <2>3
<1>10. ASSUME NEW t \in Tasks, Update(t) PROVE Operates(t)
  <2>1. task' = [task EXCEPT ![t].done = task[t].done + 1]
    BY <1>10 DEF Update
  <2> QED BY <1>0, <1>10, <2>1, Advanced
<1>11. ASSUME NEW t \in Tasks, UpdateFails(t) PROVE Operates(t)
  <2>1. t \in Holding /\ Leave(t) /\ Step(t) \in Parts
    BY <1>11 DEF UpdateFails, Holding
  <2>2. CASE Rollback(task[t].conn)
    BY <1>8, <2>1, <2>2
  <2>3. CASE t \notin Guarded /\ UNCHANGED data
    <3>1. task[t].done \in {0, 1} /\ Step(t) = task[t].done + 1
      BY <1>0, <2>1, <2>3 DEF Step, Parts
    <3>2. Undisturbed' => task[t].done = 0
      BY <1>8, <2>1, <2>3, <3>1 DEF Undisturbed
    <3>3. Spared(t)' => Step(t) <= 1
      BY <2>3, <3>1, <3>2 DEF Spared
    <3> QED BY <1>8, <2>1, <2>3, <3>2, <3>3 DEF data
  <2> QED BY <1>11, <2>2, <2>3 DEF UpdateFails
<1>12. ASSUME NEW t \in Tasks, CommitWrites(t) PROVE Operates(t)
  <2>1. t \in Holding /\ Leave(t)
    BY <1>12 DEF CommitWrites, Holding
  <2> QED BY <1>8, <1>12, <2>1 DEF CommitWrites
<1>13. ASSUME NEW t \in Tasks, Cancel(t) PROVE Operates(t)
  <2>1. CASE t \notin Holding
    BY <1>1, <1>13, <2>1 DEF Cancel, Holding
  <2>2. CASE t \in Holding
    <3>1. Leave(t) /\ (UNCHANGED data \/ Rollback(task[t].conn))
      BY <1>13, <2>2 DEF Cancel, Holding
    <3>2. spent'.cancels # 0
      BY <1>0, <1>13 DEF Cancel
    <3>3. ~Spared(t)' /\ ~Undisturbed'
      BY <3>2 DEF Spared, Undisturbed
    <3> QED BY <1>8, <2>2, <3>1, <3>3 DEF data
  <2> QED BY <2>1, <2>2
<1>14. ASSUME Close \/ CloseEnds PROVE UNCHANGED <<task, pending, stored, begun>>
  BY <1>14 DEF Close, CloseEnds, data
<1>15. ASSUME CloseOne PROVE task' = task /\ idle # <<>> /\ Rollback(Head(idle))
  BY <1>15 DEF CloseOne
<1> HIDE DEF Operates
<1> QED
  BY <1>3, <1>4, <1>5, <1>6, <1>7, <1>9, <1>10, <1>11, <1>12, <1>13, <1>14, <1>15
     DEF Next, Own

LEMMA OthersKeepWrites ==
  ASSUME IInv, NEW t \in Tasks, Operates(t), NEW u \in Tasks \ {t}, TaskWrites(u)
  PROVE  TaskWrites(u)'
<1>0. /\ PoolTyped /\ DataTyped /\ OneUser /\ HeldIsMade /\ task'[u] = task[u]
      /\ u \in Tasks /\ t \in Tasks \ {u}
  BY DEF IInv, Operates, OthersStay
<1>1. CASE t \notin Holding
  <2>1. UNCHANGED <<pending, stored>>
    BY <1>1 DEF Operates, Update, Holding
  <2>2. u \in Holding => task[u].conn # 0
    BY <1>0 DEF HeldIsMade, Conns, PoolTyped
  <2> QED BY <1>0, <2>1, <2>2, OthersWrites
<1>2. CASE t \in Holding
  <2>1. u \in Holding => task[u].conn # task[t].conn
    BY <1>0, <1>2 DEF OneUser
  <2>2. CASE UNCHANGED <<pending, stored>> \/ Commit(task[t].conn) \/ Rollback(task[t].conn)
    BY <1>0, <2>1, <2>2, OthersWrites
  <2>3. CASE Update(t)
    <3>1. pending' = pending \cup {<<task[t].conn, t, Step(t)>>} /\ stored' = stored
          /\ Step(t) \in Parts
      BY <2>3 DEF Update
    <3> QED BY <1>0, <2>1, <3>1, OthersWrites
  <2> QED BY <1>2, <2>2, <2>3 DEF Operates
<1> QED BY <1>1, <1>2

LEMMA MoverKeepsWrites ==
  ASSUME IInv, NEW t \in Tasks, Operates(t), TaskWrites(t), Spared(t)'
  PROVE  TaskWrites(t)'
<1>0. PoolTyped /\ DataTyped /\ OthersStay(t)
  BY DEF IInv, Operates
<1>1. CASE t \notin Holding
  <2>1. UNCHANGED <<pending, stored>> /\ (task'[t].at = "using" => task'[t].done = 0)
    BY <1>1 DEF Operates, Update, Holding
  <2> QED BY <1>0, <1>1, <2>1, EntersClean
<1>2. CASE t \in Holding /\ t \in Holding'
  <2>1. CASE Update(t)
    BY <1>0, <2>1, UpdateWrites
  <2>2. CASE ~Update(t)
    BY <1>0, <1>2, <2>2, BeginsClean DEF Operates
  <2> QED BY <2>1, <2>2
<1>3. CASE t \in Holding /\ t \notin Holding'
  <2>1. CASE Step(t) = 3 /\ Commit(task[t].conn)
    BY <1>0, <1>3, <2>1, CommitIsWhole
  <2>2. CASE Rollback(task[t].conn)
    BY <1>0, <1>3, <2>2, LeavesNothing
  <2>3. CASE UNCHANGED <<pending, stored>> /\ Step(t) <= 1
    BY <1>0, <1>3, <2>3, LeavesNothing
  <2>4. ~Update(t)
    <3>1. ASSUME Update(t) PROVE FALSE
      <4>1. task' = [task EXCEPT ![t].done = task[t].done + 1] /\ task[t].done + 1 \in Nat
        BY <1>0, <3>1, StepIsNatural DEF Update
      <4>2. task'[t].at = task[t].at
        BY <1>0, <4>1, Advanced
      <4> QED BY <1>3, <4>2 DEF Holding
    <3> QED BY <3>1
  <2> QED BY <1>3, <2>1, <2>2, <2>3, <2>4 DEF Operates
<1> QED BY <1>1, <1>2, <1>3

LEMMA WholeKept ==
  ASSUME IInv, Whole, Next
  PROVE  Whole'
<1>0. PoolTyped /\ DataTyped /\ OneUser
  BY DEF IInv
<1>1. \A u \in Tasks : Spared(u)' => TaskWrites(u)
  BY SparedBefore DEF Whole
<1>2. SUFFICES ASSUME NEW u \in Tasks, Spared(u)' PROVE TaskWrites(u)'
  BY DEF Whole
<1>3. TaskWrites(u)
  BY <1>1, <1>2
<1>4. CASE \E t \in Tasks : Operates(t)
  <2>1. PICK t \in Tasks : Operates(t)
    BY <1>4
  <2>2. CASE u = t
    BY <1>2, <1>3, <2>1, <2>2, MoverKeepsWrites
  <2>3. CASE u # t
    BY <1>3, <2>1, <2>3, OthersKeepWrites
  <2> QED BY <2>2, <2>3
<1>5. CASE UNCHANGED <<task, pending, stored, begun>>
  BY <1>3, <1>5 DEF TaskWrites, Holding, Step
<1>6. CASE task' = task /\ idle # <<>> /\ Rollback(Head(idle))
  <2>1. Head(idle) = idle[1] /\ 1 \in DOMAIN idle
    BY <1>0, <1>6 DEF PoolTyped
  <2>2. u \in Holding => task[u].conn # Head(idle)
    BY <1>0, <2>1 DEF OneUser
  <2> QED BY <1>0, <1>3, <1>6, <2>2, OthersWrites
<1> QED BY <1>4, <1>5, <1>6, Operations

LEMMA CleanKept ==
  ASSUME IInv, Clean, Next
  PROVE  Clean'
<1>0. PoolTyped /\ OneUser
  BY DEF IInv
<1>1. SUFFICES ASSUME Undisturbed', NEW c \in begun'
               PROVE  \E t \in Holding' : task'[t].conn = c /\ task'[t].done >= 1
  BY DEF Clean
<1>2. Undisturbed
  BY <1>1, SparedBefore
<1>3. c \in begun => \E w \in Holding : task[w].conn = c /\ task[w].done >= 1
  BY <1>2 DEF Clean
<1>4. CASE \E t \in Tasks : Operates(t)
  <2>1. PICK t \in Tasks : Operates(t)
    BY <1>4
  <2>2. \A w \in Holding : w # t => w \in Holding' /\ task'[w] = task[w]
    BY <2>1 DEF Operates, OthersStay, Holding
  <2>3. SUFFICES \/ t \in Holding' /\ task'[t].conn = c /\ task'[t].done >= 1
                 \/ \E w \in Holding : w # t /\ task[w].conn = c /\ task[w].done >= 1
    BY <2>2
  <2>4. CASE Update(t)
    <3>1. /\ task' = [task EXCEPT ![t].done = task[t].done + 1] /\ task[t].done + 1 \in Nat
          /\ t \in Holding /\ task[t].done \in Nat /\ begun' = begun \cup {task[t].conn}
      BY <1>0, <2>4, StepIsNatural DEF Update, Holding
    <3>2. task'[t].done >= 1 /\ task'[t].conn = task[t].conn /\ t \in Holding'
      BY <1>0, <3>1 DEF PoolTyped, TaskRecord, Holding
    <3> QED BY <1>1, <1>3, <3>1, <3>2
  <2>5. CASE ~Update(t)
    <3>1. CASE c \notin begun
      <4>1. /\ t \in Holding' /\ task'[t].done = 1 /\ task'[t].conn = task[t].conn
            /\ begun' = begun \cup {task[t].conn}
        BY <1>1, <2>1, <2>5, <3>1 DEF Operates, Commit, Rollback, Finish
      <4> QED BY <1>1, <3>1, <4>1
    <3>2. CASE c \in begun
      <4>1. PICK w \in Holding : task[w].conn = c /\ task[w].done >= 1
        BY <1>3, <3>2
      <4>2. w # t
        BY <1>1, <2>1, <2>5, <4>1 DEF Operates, Commit, Rollback, Finish
      <4> QED BY <4>1, <4>2
    <3> QED BY <3>1, <3>2
  <2> QED BY <2>4, <2>5
<1>5. CASE UNCHANGED <<task, pending, stored, begun>>
  BY <1>1, <1>3, <1>5 DEF Holding
<1>6. CASE task' = task /\ Rollback(Head(idle))
  BY <1>1, <1>3, <1>6 DEF Holding, Rollback, Finish
<1> QED BY <1>4, <1>5, <1>6, Operations

\* What the three say of an operation and of the queue.
LEMMA OperationsAreClean ==
  ASSUME IInv, Sized, Whole, Clean
  PROVE  /\ spent.closes = 0 => WithinMaxSize
         /\ spent.cancels = 0 => WholeOf(Guarded)
         /\ Undisturbed => StoredWhole /\ IdleIsClean
<1>0. PoolTyped /\ DataTyped /\ OneUser /\ Guarded \subseteq Tasks
  BY PoolTasks DEF IInv
<1>1. spent.cancels = 0 => WholeOf(Guarded)
  BY <1>0 DEF Whole, Spared, TaskWrites, WholeOf
<1>2. Undisturbed => StoredWhole
  BY DEF Whole, Spared, TaskWrites, WholeOf, StoredWhole, Undisturbed
<1>3. Undisturbed => IdleIsClean
  BY <1>0 DEF Clean, IdleIsClean, OneUser
<1>4. ASSUME spent.closes = 0, opened PROVE WithinMaxSize
  <2>1. /\ Len(idle) + Cardinality(Holding) <= size /\ size <= MaxSize
        /\ IsFiniteSet(Holding) /\ size \in Nat
    BY <1>4 DEF Sized, Fits, IInv, RestTyped
  <2>2. Cardinality(Holding) \in Nat
    BY <2>1, FS_CardinalityType
  <2> QED BY <1>0, <2>1, <2>2, LengthsAreNatural DEF WithinMaxSize
<1>5. ASSUME spent.closes = 0, ~opened PROVE WithinMaxSize
  <2>1. Holding = {}
    BY <1>5 DEF Sized, Fits, Holding
  <2>2. Cardinality(Holding) = 0 /\ Len(idle) \in Nat /\ Len(idle) <= MaxSize /\ MaxSize \in Nat
    BY <1>0, <2>1, FS_EmptySet, LengthsAreNatural DEF PoolTyped
  <2> QED BY <2>2 DEF WithinMaxSize
<1> QED BY <1>1, <1>2, <1>3, <1>4, <1>5

-----------------------------------------------------------------------------
(* The rows of the sidebar: types.                                         *)

LEMMA RowValues ==
  /\ Rows!Blank \in Rows!Extra /\ Rows!Idle \in Rows!Request /\ Rows!Asleep \in Rows!Sweeping
  /\ None \notin Threads \cup Coroutines \cup Workspaces \cup {Sweeper} \cup Rows!Row \cup Rows!Session
  /\ Sweeper \notin Coroutines /\ Kinds \subseteq Rows!AllKinds
<1>0. Rows!Parameters
  BY RowParameters
<1>1. Rows!Blank \in Rows!Extra
  BY DEF Rows!Blank, Rows!Extra
<1>2. (CHOOSE t \in Threads : TRUE) \in Threads
  BY <1>0 DEF Rows!Parameters
<1> QED BY <1>0, <1>1, <1>2 DEF Rows!Parameters, Rows!Idle, Rows!Request, Rows!Asleep, Rows!Sweeping, Rows!AllKinds

LEMMA RowsWritten ==
  ASSUME NEW row \in Rows!Row \cup {None}, NEW extra \in Rows!Extra
  PROVE  /\ Rows!Upserted(row, extra) \in Rows!Row
         /\ Rows!Counted(row) \in Rows!Row \cup {None}
         /\ Rows!Aged(row) \in Rows!Row \cup {None}
         /\ \A real \in Rows!Session : Rows!Patched(row, real, row) \in Rows!Row \cup {None}
<1>1. CASE row = None
  BY <1>1 DEF Rows!Upserted, Rows!Counted, Rows!Aged, Rows!Patched, Rows!Row
<1>2. CASE row # None
  <2>1. /\ row \in [count : Nat, extra : Rows!Extra, old : BOOLEAN]
        /\ row.count + 1 \in Nat /\ row.extra \in Rows!Extra
    BY <1>2 DEF Rows!Row
  <2>2. Rows!Upserted(row, extra) \in Rows!Row
    BY <1>2, <2>1 DEF Rows!Upserted, Rows!Row
  <2>3. Rows!Counted(row) \in Rows!Row
    <3> DEFINE n == row.count + 1
    <3>1. Rows!Counted(row) = [row EXCEPT !.count = n] /\ n \in Nat
      BY <1>2, <2>1 DEF Rows!Counted
    <3> HIDE DEF n
    <3> QED BY <2>1, <3>1 DEF Rows!Row
  <2>4. Rows!Aged(row) \in Rows!Row
    BY <1>2, <2>1 DEF Rows!Aged, Rows!Row
  <2>5. ASSUME NEW real \in Rows!Session PROVE Rows!Patched(row, real, row) \in Rows!Row
    <3>1. real.messages \in Nat /\ real.ws \in Workspaces \cup {None}
      BY DEF Rows!Session
    <3> DEFINE e == [row.extra EXCEPT !.ws = real.ws]
    <3>2. e \in Rows!Extra
      BY <2>1, <3>1 DEF Rows!Extra
    <3>3. Rows!Patched(row, real, row) = [[row EXCEPT !.count = real.messages] EXCEPT !.extra = e]
      BY <1>2, <2>1 DEF Rows!Patched
    <3> HIDE DEF e
    <3> QED BY <2>1, <3>1, <3>2, <3>3 DEF Rows!Row
  <2> QED BY <2>2, <2>3, <2>4, <2>5
<1> QED BY <1>1, <1>2

LEMMA SessionsWritten ==
  ASSUME NEW s \in Rows!Session \cup {None}, NEW ws \in Workspaces \cup {None}, NEW chat \in BOOLEAN
  PROVE  /\ Rows!Opened(s, ws, chat) \in Rows!Session
         /\ Rows!Append(s) \in Rows!Session \cup {None}
         /\ Rows!Aged(s) \in Rows!Session \cup {None}
<1>1. CASE s = None
  BY <1>1 DEF Rows!Opened, Rows!Append, Rows!Aged, Rows!Session
<1>2. CASE s # None
  <2>1. /\ s \in [messages : Nat, ws : Workspaces \cup {None}, old : BOOLEAN]
        /\ s.messages + 1 \in Nat /\ s.ws \in Workspaces \cup {None}
    BY <1>2 DEF Rows!Session
  <2> DEFINE w == IF chat \/ ws # None THEN ws ELSE s.ws
  <2> DEFINE n == s.messages + 1
  <2>2. Rows!Opened(s, ws, chat) = [s EXCEPT !.ws = w] /\ w \in Workspaces \cup {None}
    BY <1>2, <2>1 DEF Rows!Opened
  <2>3. Rows!Append(s) = [s EXCEPT !.messages = n] /\ n \in Nat
    BY <1>2, <2>1 DEF Rows!Append
  <2>4. Rows!Aged(s) = [s EXCEPT !.old = TRUE]
    BY <1>2 DEF Rows!Aged
  <2> HIDE DEF w, n
  <2> QED BY <2>1, <2>2, <2>3, <2>4 DEF Rows!Session
<1> QED BY <1>1, <1>2

LEMMA ExtrasEdited ==
  ASSUME NEW r \in Rows!Request, r.kind \in {"turn", "title", "rename", "pin", "remember"}
  PROVE  Rows!Edited(r) \subseteq Rows!Extra
<1>0. /\ r.ws \in Workspaces \cup {None}
      /\ r.extra \in [title : {"none", "ai", "user"}, pins : SUBSET Pins,
                        ws : Workspaces \cup {None}, turns : Nat]
  BY DEF Rows!Request, Rows!Extra
<1>1. CASE r.kind = "turn"
  BY <1>0, <1>1 DEF Rows!Edited, Rows!Extra
<1>2. CASE r.kind = "title"
  BY <1>0, <1>2 DEF Rows!Edited, Rows!Extra
<1>3. CASE r.kind = "rename"
  BY <1>0, <1>3 DEF Rows!Edited, Rows!Extra
<1>4. CASE r.kind = "pin"
  <2>1. Rows!Edited(r) = {[r.extra EXCEPT !.pins = p] : p \in SUBSET Pins}
    BY <1>4 DEF Rows!Edited
  <2>2. \A p \in SUBSET Pins : [r.extra EXCEPT !.pins = p] \in Rows!Extra
    BY <1>0 DEF Rows!Extra
  <2> QED BY <2>1, <2>2
<1>5. CASE r.kind = "remember"
  <2> DEFINE n == r.extra.turns + 1
  <2>1. Rows!Edited(r) = {[r.extra EXCEPT !.turns = n]} /\ n \in Nat
    BY <1>0, <1>5 DEF Rows!Edited
  <2> HIDE DEF n
  <2> QED BY <1>0, <2>1 DEF Rows!Extra
<1> QED BY <1>1, <1>2, <1>3, <1>4, <1>5

LEMMA RequestMoves ==
  ASSUME Rows!TypeOK, NEW c \in Coroutines,
         NEW at \in {"idle", "creates", "registers", "writes", "counts", "appends", "answers",
                     "replies", "names", "renames", "locks", "marks", "drops", "forgets"},
         Rows!Go(c, at)
  PROVE  /\ request' \in [Coroutines -> Rows!Request] /\ request'[c].at = at
         /\ request'[c].thread = request[c].thread
         /\ \A d \in Coroutines \ {c} : request'[d] = request[d]
<1> DEFINE r == [request[c] EXCEPT !.at = at]
<1>1. r \in Rows!Request /\ r.at = at /\ r.thread = request[c].thread
  BY DEF Rows!TypeOK, Rows!Request
<1>2. request' = [request EXCEPT ![c] = r]
  BY DEF Rows!Go
<1> HIDE DEF r
<1> QED BY <1>1, <1>2 DEF Rows!TypeOK

-----------------------------------------------------------------------------
(* The rows of the sidebar: what holds between the steps of a sweep.       *)

Editing == {"turn", "title", "rename", "pin", "remember"}
Seen(t) == rows[t] # None /\ rows[t].count > 0

\* Who holds the lock; that a deletion marks its thread before it drops anything; and
\* which requests edit a row.
Locked ==
  /\ deletion = Sweeper <=> sweep.at \in {"rows", "marks", "inserts", "patches"}
  /\ \A c \in Coroutines :
       /\ request[c].at \in {"marks", "drops"} => deletion = c
       /\ request[c].at \in {"drops", "forgets"} => request[c].thread \in deleted
       /\ request[c].at \in {"registers", "names", "renames", "writes"} =>
            request[c].kind \in Editing

\* The sweep listed conversations.  Those it has to restore are not deleted; of the others
\* it listed, each that is not deleted has a row that the cleanup will leave.
Restoring ==
  /\ sweep.at = "patches" \/ sweep.now = None
  /\ sweep.at \in {"inserts", "patches"} =>
       /\ sweep.todo \cap deleted = {} /\ sweep.now \notin deleted
       /\ \A t \in Threads : t \in sweep.todo \/ t = sweep.now => sweep.listed[t] # None
  /\ \A t \in Threads : sweep.listed[t] # None => sweep.listed[t].messages > 0
  /\ \A t \in Threads \ deleted : sweep.listed[t] # None =>
       /\ (/\ sweep.at = "marks"
           /\ sweep.existing[t] # None /\ sweep.existing[t].count > 0) => Seen(t)
       /\ sweep.at = "inserts" => t \in sweep.todo \/ Seen(t)
       /\ sweep.at = "patches" =>
            \/ t \in sweep.todo
            \/ t = sweep.now /\ rows[t] # None
            \/ Seen(t)
       /\ sweep.at = "cleans" => Seen(t)

RowsInv == Rows!TypeOK /\ Locked /\ Restoring

\* A step of a request: it leaves the sweep alone, takes and returns the lock for itself,
\* deletes only while it holds it, and takes no row of a thread that is not deleted.
Serves(c) ==
  /\ Rows!TypeOK' /\ sweep' = sweep
  /\ \A d \in Coroutines \ {c} : request'[d] = request[d]
  /\ request'[c].at \in {"marks", "drops"} => deletion' = c
  /\ request'[c].at \in {"drops", "forgets"} => request'[c].thread \in deleted'
  /\ request'[c].at \in {"registers", "names", "renames", "writes"} =>
       request'[c].kind \in Editing
  /\ \/ deletion' = deletion
     \/ deletion = None /\ deletion' = c
     \/ deletion = c /\ deletion' = None
  /\ deleted' = deleted \/ (deletion = c /\ deleted \subseteq deleted')
  /\ \A t \in Threads \ deleted : rows[t] # None =>
       rows'[t] # None /\ rows'[t].count >= rows[t].count

LEMMA ServesSafely ==
  ASSUME RowsInv, NEW c \in Coroutines, Serves(c)
  PROVE  RowsInv'
<1>0. c # Sweeper /\ None # Sweeper /\ c # None
  BY RowValues
<1>1. /\ Rows!TypeOK /\ Rows!TypeOK' /\ deleted \subseteq deleted'
      /\ rows \in [Threads -> Rows!Row \cup {None}] /\ rows' \in [Threads -> Rows!Row \cup {None}]
  BY DEF RowsInv, Serves, Rows!TypeOK
<1>2. Locked'
  <2>1. (deletion = Sweeper) = (deletion' = Sweeper)
    BY <1>0 DEF Serves
  <2>2. ASSUME NEW d \in Coroutines, d # c PROVE
          /\ request'[d].at \in {"marks", "drops"} => deletion' = d
          /\ request'[d].at \in {"drops", "forgets"} => request'[d].thread \in deleted'
          /\ request'[d].at \in {"registers", "names", "renames", "writes"} =>
               request'[d].kind \in Editing
    <3>1. request'[d] = request[d] /\ d # None
      BY <2>2, RowValues DEF Serves
    <3> QED BY <1>1, <2>2, <3>1 DEF RowsInv, Locked, Serves
  <2>3. sweep' = sweep
    BY DEF Serves
  <2> QED BY <2>1, <2>2, <2>3 DEF RowsInv, Locked, Serves
<1>3. \A t \in Threads \ deleted : Seen(t) => Seen(t)'
  <2> SUFFICES ASSUME NEW t \in Threads \ deleted, Seen(t) PROVE Seen(t)'
    OBVIOUS
  <2>1. rows[t] # None /\ rows'[t] # None /\ rows'[t].count >= rows[t].count /\ rows[t].count > 0
    BY DEF Serves, Seen
  <2>2. rows[t].count \in Nat /\ rows'[t].count \in Nat
    BY <1>1, <2>1 DEF Rows!Row
  <2> QED BY <2>1, <2>2 DEF Seen
<1>4. sweep.at \in {"inserts", "patches"} => deleted' = deleted
  BY <1>0 DEF RowsInv, Locked, Serves
<1>5. Restoring'
  <2>1. sweep' = sweep /\ \A t \in Threads \ deleted : rows[t] # None => rows'[t] # None
    BY DEF Serves
  <2>2. \A t \in Threads \ deleted' : t \in Threads \ deleted
    BY <1>1
  <2> QED BY <1>1, <1>3, <1>4, <2>1, <2>2 DEF RowsInv, Restoring
<1> QED BY <1>1, <1>2, <1>5 DEF RowsInv

LEMMA RowWritten ==
  ASSUME Rows!TypeOK, NEW t \in Threads, NEW row \in Rows!Row \cup {None},
         rows' = [rows EXCEPT ![t] = row],
         t \in deleted \/ rows[t] = None \/ (row # None /\ row.count >= rows[t].count)
  PROVE  /\ rows' \in [Threads -> Rows!Row \cup {None}]
         /\ \A u \in Threads \ deleted : rows[u] # None =>
              rows'[u] # None /\ rows'[u].count >= rows[u].count
<1>1. rows \in [Threads -> Rows!Row \cup {None}]
  BY DEF Rows!TypeOK
<1>2. \A u \in Threads : rows[u] # None => rows[u].count \in Nat
  BY <1>1 DEF Rows!Row
<1> QED BY <1>1, <1>2

LEMMA RowsUnwritten ==
  ASSUME Rows!TypeOK, rows' = rows
  PROVE  /\ rows' \in [Threads -> Rows!Row \cup {None}]
         /\ \A u \in Threads \ deleted : rows[u] # None =>
              rows'[u] # None /\ rows'[u].count >= rows[u].count
<1>1. rows \in [Threads -> Rows!Row \cup {None}]
  BY DEF Rows!TypeOK
<1>2. \A u \in Threads : rows[u] # None => rows[u].count \in Nat
  BY <1>1 DEF Rows!Row
<1> QED BY <1>1, <1>2

LEMMA CountsGrow ==
  ASSUME NEW row \in Rows!Row, NEW extra \in Rows!Extra
  PROVE  /\ Rows!Upserted(row, extra) # None /\ Rows!Upserted(row, extra).count >= row.count
         /\ Rows!Counted(row) # None /\ Rows!Counted(row).count >= row.count
<1>1. row # None /\ row.count \in Nat
  BY RowValues DEF Rows!Row
<1>2. Rows!Upserted(row, extra) = [row EXCEPT !.extra = extra]
  BY <1>1 DEF Rows!Upserted
<1>3. Rows!Upserted(row, extra) \in Rows!Row /\ Rows!Upserted(row, extra).count = row.count
  BY <1>1, <1>2 DEF Rows!Row
<1>4. Rows!Counted(row) = [row EXCEPT !.count = row.count + 1]
  BY <1>1 DEF Rows!Counted
<1>5. row.count + 1 \in Nat
  BY <1>1
<1>6. Rows!Counted(row) \in Rows!Row /\ Rows!Counted(row).count = row.count + 1
  BY <1>1, <1>4, <1>5 DEF Rows!Row
<1> QED BY <1>1, <1>3, <1>6, RowValues

\* A request begins.
LEMMA BeginServes ==
  ASSUME RowsInv, NEW c \in Coroutines, NEW t \in Threads, NEW ws \in Workspaces \cup {None},
         NEW kind, NEW at \in {"creates", "registers", "names", "renames", "locks"},
         Rows!Begin(c, kind, t, ws, at), rows' = rows,
         sessions' \in [Threads -> Rows!Session \cup {None}],
         at \in {"registers", "names", "renames"} => kind \in Editing
  PROVE  Serves(c)
<1> DEFINE r == [kind |-> kind, at |-> at, thread |-> t, ws |-> ws, extra |-> Rows!Blank]
<1>0. Rows!TypeOK /\ requests \in Nat /\ requests < MaxRequests /\ MaxRequests \in Nat
  BY RowParameters DEF RowsInv, Rows!TypeOK, Rows!Begin, Rows!Parameters
<1>1. r \in Rows!Request /\ r.at = at /\ r.kind = kind
  BY RowValues DEF Rows!Request, Rows!Begin
<1>2. /\ request' = [request EXCEPT ![c] = r] /\ requests' = requests + 1
      /\ UNCHANGED <<deleted, deletion, sweep, failures>>
  BY DEF Rows!Begin
<1> HIDE DEF r
<1>3. request' \in [Coroutines -> Rows!Request] /\ request'[c] = r
      /\ \A d \in Coroutines \ {c} : request'[d] = request[d]
  BY <1>0, <1>1, <1>2 DEF Rows!TypeOK
<1>4. requests' \in 0..MaxRequests
  BY <1>0, <1>2
<1>5. Rows!TypeOK'
  BY <1>0, <1>2, <1>3, <1>4 DEF Rows!TypeOK
<1> QED BY <1>0, <1>1, <1>2, <1>3, <1>5, RowsUnwritten DEF Serves

LEMMA StartServes ==
  ASSUME RowsInv, NEW c \in Coroutines, Rows!Start(c)
  PROVE  Serves(c)
<1>0. sessions \in [Threads -> Rows!Session \cup {None}] /\ None \in Workspaces \cup {None}
  BY DEF RowsInv, Rows!TypeOK
<1>1. PICK t \in Threads :
        \/ \E ws \in Workspaces \cup {None} :
             Rows!Create(c, t, ws) \/ \E chat \in BOOLEAN : Rows!Turn(c, t, ws, chat)
        \/ Rows!Edit(c, t) \/ Rows!Title(c, t) \/ Rows!Rename(c, t) \/ Rows!Delete(c, t)
  BY DEF Rows!Start
<1>2. ASSUME NEW ws \in Workspaces \cup {None}, Rows!Create(c, t, ws) PROVE Serves(c)
  <2>1. Rows!Opened(None, ws, FALSE) \in Rows!Session
    BY SessionsWritten
  <2>2. sessions' = [sessions EXCEPT ![t] = Rows!Opened(None, ws, FALSE)]
    BY <1>2 DEF Rows!Create
  <2>3. sessions' \in [Threads -> Rows!Session \cup {None}]
    BY <1>0, <2>1, <2>2
  <2>4. Rows!Begin(c, "create", t, ws, "creates") /\ rows' = rows
    BY <1>2 DEF Rows!Create
  <2> QED BY <2>3, <2>4, BeginServes
<1>3. ASSUME NEW ws \in Workspaces \cup {None}, NEW chat \in BOOLEAN, Rows!Turn(c, t, ws, chat)
      PROVE  Serves(c)
  <2> DEFINE s == Rows!Opened(sessions[t], ws, chat)
  <2>1. s \in Rows!Session
    BY <1>0, SessionsWritten
  <2>2. sessions' = [sessions EXCEPT ![t] = s]
    BY <1>3 DEF Rows!Turn
  <2> HIDE DEF s
  <2>3. sessions' \in [Threads -> Rows!Session \cup {None}]
    BY <1>0, <2>1, <2>2
  <2>4. Rows!Begin(c, "turn", t, ws, "registers") /\ rows' = rows /\ "turn" \in Editing
    BY <1>3 DEF Rows!Turn, Editing
  <2> QED BY <2>3, <2>4, BeginServes
<1>4. ASSUME Rows!Edit(c, t) PROVE Serves(c)
  <2>1. PICK kind \in {"pin", "remember"} : Rows!Begin(c, kind, t, None, "registers")
    BY <1>4 DEF Rows!Edit
  <2>2. kind \in Editing /\ UNCHANGED <<rows, sessions>>
    BY <1>4 DEF Rows!Edit, Editing
  <2> QED BY <1>0, <2>1, <2>2, BeginServes
<1>5. ASSUME Rows!Title(c, t) PROVE Serves(c)
  <2>1. /\ Rows!Begin(c, "title", t, None, "names") /\ UNCHANGED <<rows, sessions>>
        /\ "title" \in Editing
    BY <1>5 DEF Rows!Title, Editing
  <2> QED BY <1>0, <2>1, BeginServes
<1>6. ASSUME Rows!Rename(c, t) PROVE Serves(c)
  <2>1. /\ Rows!Begin(c, "rename", t, None, "renames") /\ UNCHANGED <<rows, sessions>>
        /\ "rename" \in Editing
    BY <1>6 DEF Rows!Rename, Editing
  <2> QED BY <1>0, <2>1, BeginServes
<1>7. ASSUME Rows!Delete(c, t) PROVE Serves(c)
  <2>1. Rows!Begin(c, "delete", t, None, "locks") /\ UNCHANGED <<rows, sessions>>
    BY <1>7 DEF Rows!Delete
  <2> QED BY <1>0, <2>1, BeginServes
<1> QED BY <1>1, <1>2, <1>3, <1>4, <1>5, <1>6, <1>7

LEMMA RequestEnds ==
  ASSUME Rows!TypeOK, NEW c \in Coroutines, Rows!End(c)
  PROVE  /\ request' \in [Coroutines -> Rows!Request] /\ request'[c].at = "idle"
         /\ \A d \in Coroutines \ {c} : request'[d] = request[d]
<1>1. Rows!Idle \in Rows!Request /\ Rows!Idle.at = "idle" /\ request' = [request EXCEPT ![c] = Rows!Idle]
  BY RowValues DEF Rows!End, Rows!Idle
<1> QED BY <1>1 DEF Rows!TypeOK

\* A request goes on, and touches neither the marks nor the lock.
LEMMA RequestServes ==
  ASSUME RowsInv, NEW c \in Coroutines, request' \in [Coroutines -> Rows!Request],
         \A d \in Coroutines \ {c} : request'[d] = request[d],
         request'[c].at \notin {"marks", "drops", "forgets"},
         request'[c].at \in {"registers", "names", "renames", "writes"} =>
           request'[c].kind \in Editing,
         UNCHANGED <<deleted, deletion, sweep, requests>>, failures' \in 0..MaxFailures,
         sessions' \in [Threads -> Rows!Session \cup {None}],
         rows' \in [Threads -> Rows!Row \cup {None}],
         \A t \in Threads \ deleted : rows[t] # None =>
           rows'[t] # None /\ rows'[t].count >= rows[t].count
  PROVE  Serves(c)
<1>1. Rows!TypeOK'
  BY DEF RowsInv, Rows!TypeOK
<1> QED BY <1>1 DEF Serves

LEMMA EditsServe ==
  ASSUME RowsInv, NEW c \in Coroutines,
         Rows!CreateRow(c) \/ Rows!Named(c) \/ Rows!Read(c) \/ Rows!Write(c) \/ Rows!Count(c)
  PROVE  Serves(c)
<1> DEFINE t == request[c].thread
<1>0. /\ Rows!TypeOK /\ failures \in 0..MaxFailures /\ t \in Threads
      /\ sessions \in [Threads -> Rows!Session \cup {None}]
      /\ rows \in [Threads -> Rows!Row \cup {None}] /\ rows[t] \in Rows!Row \cup {None}
      /\ request[c] \in Rows!Request
  BY DEF RowsInv, Rows!TypeOK, Rows!Request
<1> HIDE DEF t
<1>1. ASSUME Rows!CreateRow(c) PROVE Serves(c)
  <2> DEFINE e == [Rows!Blank EXCEPT !.ws = request[c].ws]
  <2>1. e \in Rows!Extra
    BY <1>0, RowValues DEF Rows!Request, Rows!Extra, Rows!Blank
  <2> HIDE DEF e
  <2> DEFINE row == IF rows[t] = None THEN Rows!Upserted(None, e) ELSE rows[t]
  <2>2. rows' = [rows EXCEPT ![t] = row]
    BY <1>1 DEF Rows!CreateRow, t, e
  <2>3. row \in Rows!Row \cup {None} /\ (rows[t] = None \/ row = rows[t])
    BY <1>0, <2>1, RowsWritten
  <2>4. rows[t] = None \/ (row # None /\ row.count >= rows[t].count)
    BY <1>0, <2>3 DEF Rows!Row
  <2> HIDE DEF row
  <2>5. /\ rows' \in [Threads -> Rows!Row \cup {None}]
        /\ \A u \in Threads \ deleted : rows[u] # None =>
             rows'[u] # None /\ rows'[u].count >= rows[u].count
    BY <1>0, <2>2, <2>3, <2>4, RowWritten
  <2>6. Rows!End(c) /\ UNCHANGED <<sessions, deleted, deletion, sweep, requests, failures>>
    BY <1>1 DEF Rows!CreateRow, Rows!spent
  <2> QED BY <1>0, <2>5, <2>6, RequestEnds, RequestServes
<1>2. ASSUME Rows!Named(c) PROVE Serves(c)
  <2>1. Rows!Go(c, "registers") /\ UNCHANGED <<rows, sessions, deleted, deletion, sweep, requests, failures>>
    BY <1>2 DEF Rows!Named, Rows!spent, Rows!data
  <2>2. request'[c].kind = request[c].kind /\ request[c].kind \in Editing
    BY <1>0, <1>2, <2>1 DEF Rows!Go, RowsInv, Locked, Rows!Named, Rows!At, Rows!TypeOK, Rows!Request
  <2> QED BY <1>0, <2>1, <2>2, RequestMoves, RequestServes, RowsUnwritten
<1>3. ASSUME Rows!Read(c) PROVE Serves(c)
  <2>1. UNCHANGED <<rows, sessions, deleted, deletion, sweep, requests, failures>>
    BY <1>3 DEF Rows!Read, Rows!spent, Rows!data
  <2>2. CASE Rows!End(c)
    BY <1>0, <2>1, <2>2, RequestEnds, RequestServes, RowsUnwritten
  <2>3. CASE ~Rows!End(c)
    <3> DEFINE e == IF rows[t] = None THEN Rows!Blank ELSE rows[t].extra
    <3>1. e \in Rows!Extra
      BY <1>0, RowValues DEF Rows!Row
    <3>2. request' = [request EXCEPT ![c].at = "writes", ![c].extra = e]
      BY <1>3, <2>3 DEF Rows!Read, t
    <3> HIDE DEF e
    <3> DEFINE r == [request[c] EXCEPT !.at = "writes", !.extra = e]
    <3>3. r \in Rows!Request /\ r.at = "writes" /\ r.kind = request[c].kind
      BY <1>0, <3>1 DEF Rows!Request
    <3>4. request' = [request EXCEPT ![c] = r]
      BY <1>0, <3>2 DEF Rows!TypeOK
    <3> HIDE DEF r
    <3>5. /\ request' \in [Coroutines -> Rows!Request] /\ request'[c] = r
          /\ \A d \in Coroutines \ {c} : request'[d] = request[d]
      BY <1>0, <3>3, <3>4 DEF Rows!TypeOK
    <3>6. request[c].kind \in Editing
      BY <1>3 DEF Rows!Read, Rows!At, RowsInv, Locked
    <3> QED BY <1>0, <2>1, <3>3, <3>5, <3>6, RequestServes, RowsUnwritten
  <2> QED BY <2>2, <2>3
<1>4. ASSUME Rows!Write(c) PROVE Serves(c)
  <2>1. request[c].kind \in Editing
    BY <1>4 DEF Rows!Write, Rows!At, RowsInv, Locked
  <2>2. PICK e \in Rows!Edited(request[c]) :
          rows' = [rows EXCEPT ![t] = IF request[c].kind = "rename" /\ rows[t] = None THEN None
                                      ELSE Rows!Upserted(rows[t], e)]
    BY <1>4 DEF Rows!Write, t
  <2>3. e \in Rows!Extra
    BY <1>0, <2>1, ExtrasEdited DEF Editing
  <2> DEFINE row == IF request[c].kind = "rename" /\ rows[t] = None THEN None
                    ELSE Rows!Upserted(rows[t], e)
  <2>4. row \in Rows!Row \cup {None}
    BY <1>0, <2>3, RowsWritten
  <2>5. rows[t] = None \/ (row # None /\ row.count >= rows[t].count)
    BY <1>0, <2>3, CountsGrow
  <2>6. rows' = [rows EXCEPT ![t] = row]
    BY <2>2
  <2> HIDE DEF row
  <2>7. /\ rows' \in [Threads -> Rows!Row \cup {None}]
        /\ \A u \in Threads \ deleted : rows[u] # None =>
             rows'[u] # None /\ rows'[u].count >= rows[u].count
    BY <1>0, <2>4, <2>5, <2>6, RowWritten
  <2>8. /\ Rows!Go(c, "counts") \/ Rows!End(c)
        /\ UNCHANGED <<sessions, deleted, deletion, sweep, requests, failures>>
    BY <1>4 DEF Rows!Write, Rows!spent
  <2> QED BY <1>0, <2>7, <2>8, RequestEnds, RequestMoves, RequestServes
<1>5. ASSUME Rows!Count(c) PROVE Serves(c)
  <2> DEFINE row == Rows!Counted(rows[t])
  <2>1. rows' = [rows EXCEPT ![t] = row]
    BY <1>5 DEF Rows!Count, t
  <2>2. row \in Rows!Row \cup {None} /\ (rows[t] = None \/ (row # None /\ row.count >= rows[t].count))
    BY <1>0, RowsWritten, CountsGrow, RowValues
  <2> HIDE DEF row
  <2>3. /\ rows' \in [Threads -> Rows!Row \cup {None}]
        /\ \A u \in Threads \ deleted : rows[u] # None =>
             rows'[u] # None /\ rows'[u].count >= rows[u].count
    BY <1>0, <2>1, <2>2, RowWritten
  <2>4. Rows!Go(c, "appends") /\ UNCHANGED <<sessions, deleted, deletion, sweep, requests, failures>>
    BY <1>5 DEF Rows!Count, Rows!spent
  <2> QED BY <1>0, <2>3, <2>4, RequestMoves, RequestServes
<1> QED BY <1>1, <1>2, <1>3, <1>4, <1>5

LEMMA AnswersServe ==
  ASSUME RowsInv, NEW c \in Coroutines,
         Rows!RegisterFails(c) \/ Rows!AppendMessage(c) \/ Rows!Answer(c) \/ Rows!AppendReply(c)
  PROVE  Serves(c)
<1> DEFINE t == request[c].thread
<1>0. /\ Rows!TypeOK /\ failures \in 0..MaxFailures /\ t \in Threads /\ MaxFailures \in Nat
      /\ sessions \in [Threads -> Rows!Session \cup {None}]
      /\ rows \in [Threads -> Rows!Row \cup {None}] /\ rows[t] \in Rows!Row \cup {None}
      /\ sessions[t] \in Rows!Session \cup {None}
  BY RowParameters DEF RowsInv, Rows!TypeOK, Rows!Request, Rows!Parameters
<1>1. ASSUME Rows!RegisterFails(c) PROVE Serves(c)
  <2>1. failures' \in 0..MaxFailures
    BY <1>0, <1>1 DEF Rows!RegisterFails
  <2>2. Rows!Go(c, "appends") /\ UNCHANGED <<rows, sessions, deleted, deletion, sweep, requests>>
    BY <1>1 DEF Rows!RegisterFails, Rows!data
  <2> QED BY <1>0, <2>1, <2>2, RequestMoves, RequestServes, RowsUnwritten
<1> DEFINE s == Rows!Append(sessions[t])
<1>2. s \in Rows!Session \cup {None}
  BY <1>0, SessionsWritten
<1>3. ASSUME Rows!AppendMessage(c) PROVE Serves(c)
  <2>1. sessions' = [sessions EXCEPT ![t] = s]
    BY <1>3 DEF Rows!AppendMessage
  <2> HIDE DEF s, t
  <2>2. sessions' \in [Threads -> Rows!Session \cup {None}]
    BY <1>0, <1>2, <2>1
  <2>3. /\ Rows!Go(c, "answers") \/ Rows!End(c)
        /\ UNCHANGED <<rows, deleted, deletion, sweep, requests, failures>>
    BY <1>3 DEF Rows!AppendMessage, Rows!spent
  <2> QED BY <1>0, <2>2, <2>3, RequestMoves, RequestEnds, RequestServes, RowsUnwritten
<1>4. ASSUME Rows!AppendReply(c) PROVE Serves(c)
  <2>1. sessions' = [sessions EXCEPT ![t] = s]
    BY <1>4 DEF Rows!AppendReply
  <2> HIDE DEF s, t
  <2>2. sessions' \in [Threads -> Rows!Session \cup {None}]
    BY <1>0, <1>2, <2>1
  <2>3. Rows!End(c) /\ UNCHANGED <<rows, deleted, deletion, sweep, requests, failures>>
    BY <1>4 DEF Rows!AppendReply, Rows!spent
  <2> QED BY <1>0, <2>2, <2>3, RequestEnds, RequestServes, RowsUnwritten
<1>5. ASSUME Rows!Answer(c) PROVE Serves(c)
  <2> DEFINE row == Rows!Counted(rows[t])
  <2>1. rows' = [rows EXCEPT ![t] = row] \/ rows' = rows
    BY <1>5 DEF Rows!Answer
  <2>2. row \in Rows!Row \cup {None} /\ (rows[t] = None \/ (row # None /\ row.count >= rows[t].count))
    BY <1>0, RowsWritten, CountsGrow, RowValues
  <2> HIDE DEF row, t
  <2>3. /\ rows' \in [Threads -> Rows!Row \cup {None}]
        /\ \A u \in Threads \ deleted : rows[u] # None =>
             rows'[u] # None /\ rows'[u].count >= rows[u].count
    BY <1>0, <2>1, <2>2, RowWritten, RowsUnwritten
  <2>4. /\ Rows!Go(c, "replies") \/ Rows!End(c)
        /\ UNCHANGED <<sessions, deleted, deletion, sweep, requests, failures>>
    BY <1>5 DEF Rows!Answer, Rows!spent
  <2> QED BY <1>0, <2>3, <2>4, RequestMoves, RequestEnds, RequestServes
<1> QED BY <1>1, <1>3, <1>4, <1>5

LEMMA DeletionsServe ==
  ASSUME RowsInv, NEW c \in Coroutines,
         Rows!Lock(c) \/ Rows!Mark(c) \/ Rows!Drop(c) \/ Rows!Forget(c)
  PROVE  Serves(c)
<1> DEFINE t == request[c].thread
<1>0. /\ Rows!TypeOK /\ t \in Threads /\ deleted \subseteq Threads
      /\ sessions \in [Threads -> Rows!Session \cup {None}]
      /\ deletion \in Coroutines \cup {Sweeper, None}
      /\ (request[c].at \in {"marks", "drops"} => deletion = c)
      /\ (request[c].at \in {"drops", "forgets"} => t \in deleted)
  BY DEF RowsInv, Rows!TypeOK, Rows!Request, Locked
<1> HIDE DEF t
<1>1. ASSUME Rows!Lock(c) PROVE Serves(c)
  <2>1. /\ Rows!Go(c, "marks") /\ deletion = None /\ deletion' = c
        /\ UNCHANGED <<rows, sessions, deleted, sweep, requests, failures>>
    BY <1>1 DEF Rows!Lock, Rows!data, Rows!spent
  <2>2. /\ request' \in [Coroutines -> Rows!Request] /\ request'[c].at = "marks"
        /\ \A d \in Coroutines \ {c} : request'[d] = request[d]
    BY <1>0, <2>1, RequestMoves
  <2>3. Rows!TypeOK'
    BY <1>0, <2>1, <2>2 DEF Rows!TypeOK
  <2> QED BY <1>0, <2>1, <2>2, <2>3, RowsUnwritten DEF Serves
<1>2. ASSUME Rows!Mark(c) PROVE Serves(c)
  <2>1. /\ Rows!Go(c, "drops") /\ deletion = c /\ deleted' = deleted \cup {t}
        /\ UNCHANGED <<rows, sessions, deletion, sweep, requests, failures>>
    BY <1>0, <1>2 DEF Rows!Mark, Rows!At, Rows!spent, t
  <2>2. /\ request' \in [Coroutines -> Rows!Request] /\ request'[c].at = "drops"
        /\ request'[c].thread = t
        /\ \A d \in Coroutines \ {c} : request'[d] = request[d]
    BY <1>0, <2>1, RequestMoves DEF t
  <2>3. Rows!TypeOK'
    BY <1>0, <2>1, <2>2 DEF Rows!TypeOK
  <2> QED BY <1>0, <2>1, <2>2, <2>3, RowsUnwritten DEF Serves
<1>3. ASSUME Rows!Drop(c) PROVE Serves(c)
  <2>1. /\ Rows!Go(c, "forgets") /\ deletion = c /\ deletion' = None /\ t \in deleted
        /\ rows' = [rows EXCEPT ![t] = None]
        /\ UNCHANGED <<sessions, deleted, sweep, requests, failures>>
    BY <1>0, <1>3 DEF Rows!Drop, Rows!At, Rows!spent, t
  <2>2. /\ request' \in [Coroutines -> Rows!Request] /\ request'[c].at = "forgets"
        /\ request'[c].thread = t
        /\ \A d \in Coroutines \ {c} : request'[d] = request[d]
    BY <1>0, <2>1, RequestMoves DEF t
  <2>3. /\ rows' \in [Threads -> Rows!Row \cup {None}]
        /\ \A u \in Threads \ deleted : rows[u] # None =>
             rows'[u] # None /\ rows'[u].count >= rows[u].count
    BY <1>0, <2>1, RowWritten
  <2>4. Rows!TypeOK'
    BY <1>0, <2>1, <2>2, <2>3 DEF Rows!TypeOK
  <2> QED BY <1>0, <2>1, <2>2, <2>3, <2>4 DEF Serves
<1>4. ASSUME Rows!Forget(c) PROVE Serves(c)
  <2>1. /\ Rows!End(c) /\ sessions' = [sessions EXCEPT ![t] = None]
        /\ UNCHANGED <<rows, deleted, deletion, sweep, requests, failures>>
    BY <1>4 DEF Rows!Forget, Rows!spent, t
  <2>2. sessions' \in [Threads -> Rows!Session \cup {None}]
    BY <1>0, <2>1
  <2>3. failures' \in 0..MaxFailures
    BY <1>0, <2>1 DEF Rows!TypeOK
  <2> QED BY <1>0, <2>1, <2>2, <2>3, RequestEnds, RequestServes, RowsUnwritten
<1> QED BY <1>1, <1>2, <1>3, <1>4

LEMMA RequestsServe ==
  ASSUME RowsInv, NEW c \in Coroutines,
         Rows!Start(c) \/ Rows!Step(c) \/ Rows!Lock(c) \/ Rows!RegisterFails(c)
  PROVE  Serves(c)
BY StartServes, EditsServe, AnswersServe, DeletionsServe DEF Rows!Step

\* What a sweep does to a row: it keeps what the requests wrote.
SafeSweep == Rows!RestoresNoDeleted /\ Rows!TakesNoEdit /\ Rows!CleansNoConversation

LEMMA SweepLocks ==
  ASSUME RowsInv, UNCHANGED <<request, deleted>>,
         \/ deletion' = deletion
         \/ deletion = None /\ deletion' = Sweeper
         \/ deletion = Sweeper /\ deletion' = None,
         deletion' = Sweeper <=> sweep'.at \in {"rows", "marks", "inserts", "patches"}
  PROVE  Locked'
<1>1. \A c \in Coroutines : c # None /\ c # Sweeper
  BY RowValues
<1> QED BY <1>1 DEF RowsInv, Locked

\* A step that leaves the rows alone takes nothing from them.
LEMMA SweepReadsSafely ==
  ASSUME rows' = rows PROVE SafeSweep
BY DEF SafeSweep, Rows!RestoresNoDeleted, Rows!TakesNoEdit, Rows!CleansNoConversation

LEMMA SweepTypes ==
  ASSUME RowsInv
  PROVE  /\ sweep \in [at : {"sleeps", "locks", "rows", "marks", "inserts", "patches", "cleans"},
                       listed : [Threads -> Rows!Session \cup {None}],
                       existing : [Threads -> Rows!Row \cup {None}],
                       todo : SUBSET Threads, now : Threads \cup {None}]
         /\ rows \in [Threads -> Rows!Row \cup {None}]
         /\ sessions \in [Threads -> Rows!Session \cup {None}]
         /\ deleted \subseteq Threads /\ deletion \in Coroutines \cup {Sweeper, None}
         /\ deletion = Sweeper <=> sweep.at \in {"rows", "marks", "inserts", "patches"}
         /\ Sweeper # None /\ None \notin Threads /\ None \notin Rows!Row /\ None \notin Rows!Session
BY RowValues DEF RowsInv, Rows!TypeOK, Rows!Sweeping, Locked

LEMMA SweepListsSafely ==
  ASSUME RowsInv, Rows!SweepLists \/ Rows!SweepLocks
  PROVE  RowsInv' /\ SafeSweep
<1> USE SweepTypes
<1>1. ASSUME Rows!SweepLists PROVE RowsInv' /\ SafeSweep
  <2> DEFINE l == [t \in Threads |-> IF Rows!HasMessages(t) THEN sessions[t] ELSE None]
  <2>1. l \in [Threads -> Rows!Session \cup {None}]
    OBVIOUS
  <2>2. \A t \in Threads : l[t] # None => l[t].messages > 0
    BY DEF Rows!HasMessages
  <2>3. /\ sweep' = [sweep EXCEPT !.at = "locks", !.listed = l] /\ sweep.at = "sleeps"
        /\ UNCHANGED <<rows, sessions, deleted, deletion, request, requests, failures>>
    BY <1>1 DEF Rows!SweepLists, Rows!SweepAt, Rows!Calm, Rows!spent
  <2> HIDE DEF l
  <2>4. /\ sweep' \in Rows!Sweeping /\ sweep'.at = "locks" /\ sweep'.listed = l
        /\ sweep'.now = sweep.now /\ sweep.now = None
    BY <2>1, <2>3 DEF Rows!Sweeping, RowsInv, Restoring
  <2>5. Rows!TypeOK'
    BY <2>3, <2>4 DEF RowsInv, Rows!TypeOK
  <2>6. Locked'
    BY <2>3, <2>4, SweepLocks
  <2>7. Restoring'
    BY <2>2, <2>4 DEF Restoring
  <2> QED BY <2>3, <2>5, <2>6, <2>7, SweepReadsSafely DEF RowsInv
<1>2. ASSUME Rows!SweepLocks PROVE RowsInv' /\ SafeSweep
  <2>1. /\ sweep' = [sweep EXCEPT !.at = "rows"] /\ sweep.at = "locks"
        /\ deletion = None /\ deletion' = Sweeper
        /\ UNCHANGED <<rows, sessions, deleted, request, requests, failures>>
    BY <1>2 DEF Rows!SweepLocks, Rows!SweepAt, Rows!Calm, Rows!spent
  <2>2. sweep' \in Rows!Sweeping /\ sweep'.at = "rows" /\ sweep'.listed = sweep.listed
    BY <2>1 DEF Rows!Sweeping
  <2>3. Rows!TypeOK'
    BY <2>1, <2>2 DEF RowsInv, Rows!TypeOK
  <2>4. Locked'
    BY <2>1, <2>2, SweepLocks
  <2>5. Restoring'
    BY <2>1, <2>2 DEF RowsInv, Restoring
  <2> QED BY <2>1, <2>3, <2>4, <2>5, SweepReadsSafely DEF RowsInv
<1> QED BY <1>1, <1>2

LEMMA SweepReadsWhatIsThere ==
  ASSUME RowsInv, Rows!SweepReadsRows \/ Rows!SweepReadsMarks
  PROVE  RowsInv' /\ SafeSweep
<1> USE SweepTypes
<1>1. ASSUME Rows!SweepReadsRows PROVE RowsInv' /\ SafeSweep
  <2> DEFINE e == [t \in Threads |-> IF sweep.listed[t] = None THEN None ELSE rows[t]]
  <2>1. e \in [Threads -> Rows!Row \cup {None}]
    OBVIOUS
  <2>2. \A t \in Threads : e[t] # None /\ e[t].count > 0 => Seen(t)
    BY DEF Seen
  <2>3. /\ sweep' = [sweep EXCEPT !.at = "marks", !.existing = e] /\ sweep.at = "rows"
        /\ UNCHANGED <<rows, sessions, deleted, deletion, request, requests, failures>>
    BY <1>1 DEF Rows!SweepReadsRows, Rows!SweepAt, Rows!Calm, Rows!spent
  <2> HIDE DEF e
  <2>4. /\ sweep' \in Rows!Sweeping /\ sweep'.at = "marks" /\ sweep'.existing = e
        /\ sweep'.listed = sweep.listed
    BY <2>1, <2>3 DEF Rows!Sweeping
  <2>5. Rows!TypeOK'
    BY <2>3, <2>4 DEF RowsInv, Rows!TypeOK
  <2>6. Locked'
    BY <2>3, <2>4, SweepLocks
  <2>7. \A t \in Threads : Seen(t)' = Seen(t)
    BY <2>3 DEF Seen
  <2>8. Restoring'
    BY <2>2, <2>3, <2>4, <2>7 DEF RowsInv, Restoring
  <2> QED BY <2>3, <2>5, <2>6, <2>8, SweepReadsSafely DEF RowsInv
<1>2. ASSUME Rows!SweepReadsMarks PROVE RowsInv' /\ SafeSweep
  <2> DEFINE todo == {t \in Threads \ deleted :
        sweep.listed[t] # None /\ Rows!Diverges(sweep.listed[t], sweep.existing[t])}
  <2>1. /\ sweep' = [sweep EXCEPT !.at = "inserts", !.todo = todo] /\ sweep.at = "marks"
        /\ UNCHANGED <<rows, sessions, deleted, deletion, request, requests, failures>>
    BY <1>2 DEF Rows!SweepReadsMarks, Rows!SweepAt, Rows!Calm, Rows!spent
  <2>2. todo \subseteq Threads \ deleted /\ \A t \in todo : sweep.listed[t] # None
    OBVIOUS
  <2>3. ASSUME NEW t \in Threads \ deleted, sweep.listed[t] # None, t \notin todo PROVE Seen(t)
    <3>1. sweep.existing[t] # None /\ sweep.existing[t].count = sweep.listed[t].messages
      BY <2>3 DEF Rows!Diverges
    <3>2. sweep.listed[t].messages > 0
      BY <2>3 DEF RowsInv, Restoring
    <3> HIDE DEF todo
    <3> QED BY <2>1, <2>3, <3>1, <3>2 DEF RowsInv, Restoring
  <2> HIDE DEF todo
  <2>4. /\ sweep' \in Rows!Sweeping /\ sweep'.at = "inserts" /\ sweep'.todo = todo
        /\ sweep'.listed = sweep.listed /\ sweep'.now = sweep.now
    BY <2>1, <2>2 DEF Rows!Sweeping
  <2>5. Rows!TypeOK'
    BY <2>1, <2>4 DEF RowsInv, Rows!TypeOK
  <2>6. Locked'
    BY <2>1, <2>4, SweepLocks
  <2>7. \A t \in Threads : Seen(t)' = Seen(t)
    BY <2>1 DEF Seen
  <2>8. sweep.now \notin deleted /\ (\A t \in Threads : t # sweep.now)
    BY <2>1 DEF RowsInv, Restoring
  <2>9. Restoring'
    BY <2>1, <2>2, <2>3, <2>4, <2>7, <2>8 DEF RowsInv, Restoring
  <2> QED BY <2>1, <2>5, <2>6, <2>9, SweepReadsSafely DEF RowsInv
<1> QED BY <1>1, <1>2

LEMMA SweepRestores ==
  ASSUME RowsInv, NEW t \in Threads, Rows!SweepInserts(t)
  PROVE  RowsInv' /\ SafeSweep
<1> USE SweepTypes
<1>1. /\ sweep.at = "inserts" /\ t \in sweep.todo /\ t \notin deleted
      /\ sweep.listed[t] \in Rows!Session
  BY DEF Rows!SweepInserts, Rows!SweepAt, RowsInv, Restoring
<1> DEFINE todo == sweep.todo \ {t}
<1> DEFINE row == IF rows[t] # None THEN rows[t]
                  ELSE [count |-> sweep.listed[t].messages, extra |-> Rows!Blank,
                        old |-> sweep.listed[t].old]
<1>2. row \in Rows!Row /\ (rows[t] # None => row = rows[t])
  BY <1>1, RowValues DEF Rows!Row, Rows!Session
<1>3. /\ sweep' = [sweep EXCEPT !.at = "patches", !.todo = todo, !.now = t]
      /\ rows' = [rows EXCEPT ![t] = row]
      /\ UNCHANGED <<sessions, deleted, deletion, request, requests, failures>>
  BY DEF Rows!SweepInserts, Rows!Calm, Rows!spent
<1> HIDE DEF row
<1>4. /\ sweep' \in Rows!Sweeping /\ sweep'.at = "patches" /\ sweep'.todo = todo
      /\ sweep'.listed = sweep.listed /\ sweep'.now = t /\ todo \subseteq sweep.todo
  BY <1>3 DEF Rows!Sweeping
<1> HIDE DEF todo
<1>5. /\ rows' \in [Threads -> Rows!Row \cup {None}] /\ rows'[t] = row
      /\ \A u \in Threads \ {t} : rows'[u] = rows[u]
  BY <1>2, <1>3
<1>6. row # None
  BY <1>2
<1>7. Rows!TypeOK'
  BY <1>3, <1>4, <1>5 DEF RowsInv, Rows!TypeOK
<1>8. Locked'
  BY <1>1, <1>3, <1>4, SweepLocks
<1>9. \A u \in Threads : Seen(u) => Seen(u)'
  BY <1>2, <1>5, <1>6 DEF Seen
<1>10. \A u \in Threads : u \in sweep.todo => u \in todo \/ u = t
  BY DEF todo
<1>11. Restoring'
  BY <1>1, <1>3, <1>4, <1>5, <1>6, <1>9, <1>10 DEF RowsInv, Restoring
<1>12. \A u \in Threads : rows[u] # None => rows'[u] = rows[u]
  BY <1>2, <1>5
<1>13. SafeSweep
  BY <1>1, <1>5, <1>12 DEF SafeSweep, Rows!RestoresNoDeleted, Rows!TakesNoEdit,
    Rows!CleansNoConversation
<1> QED BY <1>7, <1>8, <1>11, <1>13 DEF RowsInv

LEMMA PatchKeepsEdits ==
  ASSUME NEW row \in Rows!Row, NEW real \in Rows!Session, NEW read,
         Rows!Patched(row, real, read) \in Rows!Row
  PROVE  /\ Rows!Patched(row, real, read).count = real.messages
         /\ [Rows!Patched(row, real, read).extra EXCEPT !.ws = None] = [row.extra EXCEPT !.ws = None]
<1>1. /\ row # None /\ real.messages \in Nat
      /\ row.extra \in [title : {"none", "ai", "user"}, pins : SUBSET Pins,
                        ws : Workspaces \cup {None}, turns : Nat]
  BY RowValues DEF Rows!Row, Rows!Extra, Rows!Session
<1> DEFINE e == [row.extra EXCEPT !.ws = real.ws]
<1>2. [e EXCEPT !.ws = None] = [row.extra EXCEPT !.ws = None]
  BY <1>1
<1>3. Rows!Patched(row, real, read) = [[row EXCEPT !.count = real.messages] EXCEPT !.extra = e]
  BY <1>1 DEF Rows!Patched, Rows!Row
<1> HIDE DEF e
<1>4. Rows!Patched(row, real, read).extra = e /\ Rows!Patched(row, real, read).count = real.messages
  BY <1>1, <1>3 DEF Rows!Row
<1> QED BY <1>2, <1>4

LEMMA SweepPatchesSafely ==
  ASSUME RowsInv, NEW t \in Threads, Rows!SweepPatches(t)
  PROVE  RowsInv' /\ SafeSweep
<1> USE SweepTypes
<1>1. /\ sweep.at = "patches" /\ t = sweep.now /\ t \notin deleted
      /\ sweep.listed[t] \in Rows!Session /\ sweep.listed[t].messages > 0
  BY DEF Rows!SweepPatches, Rows!SweepAt, RowsInv, Restoring
<1> DEFINE row == Rows!Patched(rows[t], sweep.listed[t], sweep.existing[t])
<1>2. /\ rows[t] = None => row = None
      /\ rows[t] # None => row \in Rows!Row
  <2>1. Rows!Patched(rows[t], sweep.listed[t], sweep.existing[t])
          = Rows!Patched(rows[t], sweep.listed[t], rows[t])
    BY DEF Rows!Patched
  <2>2. rows[t] \in Rows!Row \cup {None} /\ Rows!Blank \in Rows!Extra
    BY RowValues
  <2>3. row \in Rows!Row \cup {None}
    BY <1>1, <2>1, <2>2, RowsWritten
  <2>4. rows[t] = None => row = None
    BY DEF Rows!Patched
  <2>5. ASSUME rows[t] # None PROVE row # None
    <3>1. rows[t] \in Rows!Row
      BY <2>2, <2>5
    <3>2. row = [[rows[t] EXCEPT !.count = sweep.listed[t].messages]
                 EXCEPT !.extra = [rows[t].extra EXCEPT !.ws = sweep.listed[t].ws]]
      BY <2>5, <3>1 DEF Rows!Patched, Rows!Row
    <3> DEFINE e == [rows[t].extra EXCEPT !.ws = sweep.listed[t].ws]
    <3>3. e \in Rows!Extra
      BY <1>1, <3>1 DEF Rows!Row, Rows!Extra, Rows!Session
    <3>4. row = [[rows[t] EXCEPT !.count = sweep.listed[t].messages] EXCEPT !.extra = e]
      BY <3>2
    <3> HIDE DEF e, row
    <3>5. row \in Rows!Row
      BY <1>1, <3>1, <3>3, <3>4 DEF Rows!Row, Rows!Session
    <3> QED BY <3>5
  <2> QED BY <2>3, <2>4, <2>5
<1>3. /\ sweep' = [sweep EXCEPT !.at = "inserts", !.now = None]
      /\ rows' = [rows EXCEPT ![t] = row]
      /\ UNCHANGED <<sessions, deleted, deletion, request, requests, failures>>
  BY DEF Rows!SweepPatches, Rows!Calm, Rows!spent
<1>4. rows[t] # None =>
        row.count = sweep.listed[t].messages
        /\ [row.extra EXCEPT !.ws = None] = [rows[t].extra EXCEPT !.ws = None]
  BY <1>1, <1>2, PatchKeepsEdits
<1> HIDE DEF row
<1>5. /\ sweep' \in Rows!Sweeping /\ sweep'.at = "inserts" /\ sweep'.todo = sweep.todo
      /\ sweep'.listed = sweep.listed /\ sweep'.now = None
  BY <1>3 DEF Rows!Sweeping
<1>6. /\ rows' \in [Threads -> Rows!Row \cup {None}] /\ rows'[t] = row
      /\ \A u \in Threads \ {t} : rows'[u] = rows[u]
  BY <1>2, <1>3
<1>7. Rows!TypeOK'
  BY <1>3, <1>5, <1>6 DEF RowsInv, Rows!TypeOK
<1>8. Locked'
  BY <1>1, <1>3, <1>5, SweepLocks
<1>9. rows[t] # None => Seen(t)'
  BY <1>1, <1>2, <1>4, <1>6 DEF Seen
<1>10. \A u \in Threads : Seen(u) => Seen(u)'
  BY <1>6, <1>9 DEF Seen
<1>11. /\ None \notin deleted
       /\ \A u \in Threads : u # None
  OBVIOUS
<1>12. Restoring'
  BY <1>1, <1>3, <1>5, <1>9, <1>10, <1>11 DEF RowsInv, Restoring
<1>13. SafeSweep
  BY <1>1, <1>2, <1>4, <1>6 DEF SafeSweep, Rows!RestoresNoDeleted, Rows!TakesNoEdit,
    Rows!CleansNoConversation
<1> QED BY <1>7, <1>8, <1>12, <1>13 DEF RowsInv

LEMMA SweepEnds ==
  ASSUME RowsInv, Rows!SweepReleases \/ Rows!SweepFails
  PROVE  RowsInv' /\ SafeSweep
<1> USE SweepTypes
<1>1. Rows!Asleep \in Rows!Sweeping /\ Rows!Asleep.listed = [t \in Threads |-> None]
      /\ Rows!Asleep.now = None
  BY RowValues DEF Rows!Asleep
<1>2. ASSUME Rows!SweepReleases PROVE RowsInv' /\ SafeSweep
  <2>1. /\ sweep.at = "inserts" /\ sweep.todo = {} /\ deletion' = None
        /\ sweep' = [Rows!Asleep EXCEPT !.at = "cleans", !.listed = sweep.listed]
        /\ UNCHANGED <<rows, sessions, deleted, request, requests, failures>>
    BY <1>2 DEF Rows!SweepReleases, Rows!SweepAt, Rows!Calm, Rows!spent
  <2>2. /\ sweep' \in Rows!Sweeping /\ sweep'.at = "cleans" /\ sweep'.listed = sweep.listed
        /\ sweep'.now = None
    BY <1>1, <2>1 DEF Rows!Sweeping
  <2>3. Rows!TypeOK'
    BY <2>1, <2>2 DEF RowsInv, Rows!TypeOK
  <2>4. Locked'
    BY <2>1, <2>2, SweepLocks
  <2>5. \A t \in Threads : Seen(t)' = Seen(t)
    BY <2>1 DEF Seen
  <2>6. Restoring'
    BY <2>1, <2>2, <2>5 DEF RowsInv, Restoring
  <2> QED BY <2>1, <2>3, <2>4, <2>6, SweepReadsSafely DEF RowsInv
<1>3. ASSUME Rows!SweepFails PROVE RowsInv' /\ SafeSweep
  <2>1. /\ deletion' = IF deletion = Sweeper THEN None ELSE deletion
        /\ sweep' = [Rows!Asleep EXCEPT !.at = "cleans"]
        /\ UNCHANGED <<rows, sessions, deleted, request, requests>>
        /\ failures < MaxFailures /\ failures' = failures + 1
    BY <1>3 DEF Rows!SweepFails, Rows!data
  <2>2. /\ sweep' \in Rows!Sweeping /\ sweep'.at = "cleans" /\ sweep'.now = None
        /\ sweep'.listed = [t \in Threads |-> None]
    BY <1>1, <2>1 DEF Rows!Sweeping
  <2>3. failures' \in 0..MaxFailures
    BY <2>1, RowParameters DEF RowsInv, Rows!TypeOK, Rows!Parameters
  <2>4. Rows!TypeOK'
    BY <2>1, <2>2, <2>3 DEF RowsInv, Rows!TypeOK
  <2>5. Locked'
    BY <2>1, <2>2, SweepLocks
  <2>6. Restoring'
    BY <2>2 DEF Restoring
  <2> QED BY <2>1, <2>4, <2>5, <2>6, SweepReadsSafely DEF RowsInv
<1> QED BY <1>2, <1>3

LEMMA SweepCleansSafely ==
  ASSUME RowsInv, Rows!SweepCleans
  PROVE  RowsInv' /\ SafeSweep
<1> USE SweepTypes
<1>1. Rows!Asleep \in Rows!Sweeping /\ Rows!Asleep.listed = [t \in Threads |-> None]
      /\ Rows!Asleep.now = None /\ Rows!Asleep.at = "sleeps"
  BY RowValues DEF Rows!Asleep
<1>2. /\ sweep.at = "cleans" /\ sweep' = Rows!Asleep
      /\ UNCHANGED <<sessions, deleted, deletion, request, requests, failures>>
      /\ rows' = [t \in Threads |-> IF rows[t] # None /\ rows[t].count = 0 /\ rows[t].old
                                    THEN None ELSE rows[t]]
  BY DEF Rows!SweepCleans, Rows!SweepAt, Rows!Calm, Rows!spent
<1>3. rows' \in [Threads -> Rows!Row \cup {None}]
  BY <1>2
<1>4. Rows!TypeOK'
  BY <1>1, <1>2, <1>3 DEF RowsInv, Rows!TypeOK
<1>5. Locked'
  BY <1>1, <1>2, SweepLocks
<1>6. Restoring'
  BY <1>1, <1>2 DEF Restoring
<1>7. \A t \in Threads \ deleted : sweep.listed[t] # None => rows[t] # None /\ rows[t].count > 0
  BY <1>2 DEF RowsInv, Restoring, Seen
<1>8. \A t \in Threads : rows[t] # None => rows[t].count \in Nat
  BY DEF Rows!Row
<1>9. Rows!CleansNoConversation
  <2>1. \A t \in Threads \ deleted : sweep.listed[t] # None => rows'[t] = rows[t]
    BY <1>2, <1>7, <1>8
  <2> QED BY <2>1 DEF Rows!CleansNoConversation
<1>10. \A t \in Threads : rows'[t] = rows[t] \/ rows'[t] = None
  BY <1>2
<1>11. Rows!RestoresNoDeleted /\ Rows!TakesNoEdit
  BY <1>10 DEF Rows!RestoresNoDeleted, Rows!TakesNoEdit
<1> QED BY <1>4, <1>5, <1>6, <1>9, <1>11 DEF RowsInv, SafeSweep

LEMMA HourKeepsRows ==
  ASSUME RowsInv, Rows!HourPasses
  PROVE  RowsInv' /\ SafeSweep
<1> USE SweepTypes
<1>1. /\ sweep.at = "sleeps" /\ UNCHANGED <<deleted, deletion, request, sweep, requests, failures>>
      /\ rows' = [t \in Threads |-> Rows!Aged(rows[t])]
      /\ sessions' = [t \in Threads |-> Rows!Aged(sessions[t])]
  BY DEF Rows!HourPasses, Rows!SweepAt, Rows!spent
<1>2. \A t \in Threads : Rows!Aged(rows[t]) \in Rows!Row \cup {None}
  BY RowsWritten, RowValues
<1>3. \A t \in Threads : Rows!Aged(sessions[t]) \in Rows!Session \cup {None}
  BY SessionsWritten, RowValues
<1>4. Rows!TypeOK'
  BY <1>1, <1>2, <1>3 DEF RowsInv, Rows!TypeOK
<1>5. Locked'
  BY <1>1, SweepLocks
<1>6. Restoring'
  BY <1>1 DEF RowsInv, Restoring
<1>7. SafeSweep
  BY <1>1 DEF SafeSweep, Rows!Swept, Rows!RestoresNoDeleted, Rows!TakesNoEdit,
    Rows!CleansNoConversation
<1> QED BY <1>4, <1>5, <1>6, <1>7 DEF RowsInv

LEMMA RowsInitially ==
  ASSUME Rows!Init PROVE RowsInv
<1>1. Rows!TypeOK
  BY RowValues, RowParameters DEF Rows!Init, Rows!TypeOK, Rows!Parameters
<1>2. Locked /\ Restoring
  BY RowValues DEF Rows!Init, Locked, Restoring, Rows!Idle, Rows!Asleep
<1> QED BY <1>1, <1>2 DEF RowsInv

LEMMA RowsKept ==
  ASSUME RowsInv, Rows!Next
  PROVE  RowsInv' /\ SafeSweep
<1>1. ASSUME NEW c \in Coroutines,
             Rows!Start(c) \/ Rows!Step(c) \/ Rows!Lock(c) \/ Rows!RegisterFails(c)
      PROVE  RowsInv' /\ SafeSweep
  <2>1. Serves(c)
    BY <1>1, RequestsServe
  <2>2. sweep' = sweep
    BY <2>1 DEF Serves
  <2>3. SafeSweep
    BY <2>2 DEF SafeSweep, Rows!Swept, Rows!RestoresNoDeleted, Rows!TakesNoEdit,
      Rows!CleansNoConversation
  <2> QED BY <2>1, <2>3, ServesSafely
<1>2. ASSUME Rows!Sweep PROVE RowsInv' /\ SafeSweep
  BY <1>2, SweepListsSafely, SweepReadsWhatIsThere, SweepRestores, SweepPatchesSafely,
    SweepEnds, SweepCleansSafely DEF Rows!Sweep
<1>3. ASSUME Rows!SweepFails PROVE RowsInv' /\ SafeSweep
  BY <1>3, SweepEnds
<1>4. ASSUME Rows!HourPasses PROVE RowsInv' /\ SafeSweep
  BY <1>4, HourKeepsRows
<1> QED BY <1>1, <1>2, <1>3, <1>4 DEF Rows!Next

-----------------------------------------------------------------------------
(* The theorems about operations and sweeps.                               *)

PoolInv == IInv /\ Sized /\ Whole /\ Clean

LEMMA PoolInitially ==
  ASSUME Init PROVE PoolInv
<1>1. IInv
  BY InitIInv
<1>2. Holding = {} /\ pending = {} /\ stored = {} /\ begun = {} /\ idle = <<>>
  BY DEF Init, Holding
<1>3. Sized
  <2>1. IsFiniteSet(Holding) /\ Len(idle) = 0
    BY <1>2, FS_EmptySet
  <2> QED BY <2>1 DEF Init, Sized, Fits
<1>4. Whole /\ Clean
  BY <1>2 DEF Whole, TaskWrites, Clean
<1> QED BY <1>1, <1>3, <1>4 DEF PoolInv

LEMMA PoolKept ==
  ASSUME PoolInv, Next \/ UNCHANGED poolVars
  PROVE  PoolInv'
<1>1. CASE Next
  BY <1>1, NextIInv, SizedKept, WholeKept, CleanKept DEF PoolInv
<1>2. CASE UNCHANGED poolVars
  <2>1. UNCHANGED vars
    BY <1>2 DEF poolVars, vars, pool, data
  <2>2. IInv'
    BY <2>1, NextIInv DEF PoolInv
  <2>3. Sized'
    BY <1>2 DEF PoolInv, Sized, Fits, Holding, poolVars
  <2>4. Whole' /\ Clean'
    BY <1>2 DEF PoolInv, Whole, Clean, Spared, Undisturbed, TaskWrites, Holding, Step, poolVars
  <2> QED BY <2>2, <2>3, <2>4 DEF PoolInv
<1> QED BY <1>1, <1>2

LEMMA RowsKeptOrUnchanged ==
  ASSUME RowsInv, Rows!Next \/ UNCHANGED rowVars
  PROVE  RowsInv' /\ [SafeSweep]_rowVars
<1>1. CASE Rows!Next
  BY <1>1, RowsKept
<1>2. CASE UNCHANGED rowVars
  BY <1>2 DEF rowVars, RowsInv, Rows!TypeOK, Locked, Restoring, Seen
<1> QED BY <1>1, <1>2

LEMMA StorageParts ==
  ASSUME [StorageNext]_storageVars
  PROVE  (Next \/ UNCHANGED poolVars) /\ (Rows!Next \/ UNCHANGED rowVars)
BY DEF StorageNext, storageVars, poolVars, rowVars

\* The pool never has more connections than its size, however its tasks interleave, fail
\* or are cancelled, while nobody closes it (acquire()); and an operation of the session
\* store is stored whole or not at all, and leaves no transaction behind, as long as no
\* task is cancelled and none ends between its UPDATEs.
THEOREM OperationsStayWhole == StorageSpec => []OperationsAreWhole
<1>1. StorageInit => PoolInv /\ RowsInv
  BY PoolInitially, RowsInitially DEF StorageInit
<1>2. PoolInv /\ RowsInv /\ [StorageNext]_storageVars => (PoolInv /\ RowsInv)'
  BY StorageParts, PoolKept, RowsKeptOrUnchanged
<1>3. PoolInv /\ RowsInv => OperationsAreWhole
  <2>1. IInv => TypeOK
    BY DEF IInv, PoolTyped, DataTyped, RestTyped, TypeOK, TaskRecord
  <2> QED BY <2>1, OperationsAreClean DEF PoolInv, RowsInv, OperationsAreWhole
<1> QED BY <1>1, <1>2, <1>3, PTL DEF StorageSpec

\* The sweep works on what it read before: through requests, deletions and failures at
\* every await it restores no deleted thread, takes no edit, and cleans away none of the
\* conversations it listed (reconcile_vectora_sessions and cleanup_empty_threads).
THEOREM SweepsStaySafe == StorageSpec => SweepsAreSafe
<1>1. StorageInit => RowsInv
  BY RowsInitially DEF StorageInit
<1>2. RowsInv /\ [StorageNext]_storageVars => RowsInv' /\ [SafeSweep]_rowVars
  BY StorageParts, RowsKeptOrUnchanged
<1>3. [SafeSweep]_rowVars =>
        [Rows!RestoresNoDeleted /\ Rows!TakesNoEdit /\ Rows!CleansNoConversation]_rowVars
  BY DEF SafeSweep
<1> QED BY <1>1, <1>2, <1>3, PTL DEF StorageSpec, SweepsAreSafe

-----------------------------------------------------------------------------
(* The embedding queue.                                                    *)

\* What a step may do to a record and to its task.
Processes(q) ==
  LET pc == work[q].pc n == work[q].attempt IN
  /\ \/ work'[q] = work[q] /\ rec'[q].attempts = rec[q].attempts
     \/ work'[q] = Queue!NoTask /\ rec'[q].attempts = rec[q].attempts
     \/ /\ work'[q].pc = "check" /\ work'[q].attempt = 0
        /\ rec'[q].attempts = rec[q].attempts /\ rec[q].attempts < MaxRetries
     \/ /\ <<pc, work'[q].pc>> \in
             {<<"check", "waiting">>, <<"waiting", "marking">>, <<"backoff", "check">>,
              <<"calling", "writing">>, <<"calling", "tripping">>, <<"writing", "marked">>,
              <<"writing", "tripping">>}
        /\ work'[q].attempt = n /\ rec'[q].attempts = rec[q].attempts
     \/ /\ pc = "marking" /\ work'[q].pc = "calling" /\ work'[q].attempt = n
        /\ rec'[q].attempts \in {rec[q].attempts, rec[q].attempts + 1}
     \/ /\ pc \in {"calling", "writing"} /\ work'[q].attempt = n + 1
        /\ work'[q].pc = IF n + 1 < MaxRetries THEN "backoff" ELSE "dead"
        /\ rec'[q].attempts = rec[q].attempts
  /\ rec'[q].status = "success" => rec[q].status = "success" \/ pc = "marked"
  /\ work'[q].pc = "marked" => pc = "marked" \/ q \in vectors'
  /\ rec'[q].status = "dlq" =>
       rec[q].status = "dlq" \/ pc = "dead" \/ \E d \in Docs : work[d].pc = "tripping"

\* The calls a task has made for its record, and those the record may have seen before.
Calls(q) == work[q].attempt +
  (IF work[q].pc \in {"calling", "writing", "marked", "tripping"} THEN 1 ELSE 0)

\* A record was embedded, or is in the hands of a task that counts its calls.
Counts(q) ==
  /\ rec[q].status = "success" \/ work[q].pc = "marked" => q \in vectors
  /\ rec[q].attempts <= 2 * MaxRetries - 1
  /\ work[q].pc # "none" => rec[q].attempts <= MaxRetries - 1 + Calls(q)
  /\ work[q].pc \notin {"none", "dead"} => work[q].attempt <= MaxRetries - 1
  /\ work[q].pc = "dead" => work[q].attempt = MaxRetries

\* Without a rate limit and lost marks, the row has counted them all.
Agrees(q) ==
  /\ work[q].pc # "tripping"
  /\ work[q].pc # "none" => rec[q].attempts >= Calls(q)
  /\ rec[q].status = "dlq" => rec[q].attempts >= MaxRetries

QueueInv == Queue!TypeOK /\ \A q \in Docs : Counts(q)

LEMMA RetriesArePositive ==
  MaxRetries \in Nat /\ MaxRetries >= 1 /\ MaxRetries - 1 \in Nat /\ 2 * MaxRetries - 1 \in Nat
BY QueueParameters DEF Queue!Parameters

LEMMA QueueTypes ==
  ASSUME Queue!TypeOK, NEW q \in Docs
  PROVE  /\ rec[q].attempts \in Nat /\ rec[q].status \in Queue!Status
         /\ work[q].pc \in Queue!Position /\ work[q].attempt \in Nat
         /\ work[q].attempt \in 0..MaxRetries
BY RetriesArePositive DEF Queue!TypeOK, Queue!Record, Queue!Task

LEMMA CountsKept ==
  ASSUME Queue!TypeOK, Queue!TypeOK', vectors \subseteq vectors', NEW q \in Docs, Counts(q),
         Processes(q)
  PROVE  Counts(q)'
<1> DEFINE M == MaxRetries
<1> DEFINE a == rec[q].attempts
<1> DEFINE b == rec'[q].attempts
<1> DEFINE n == work[q].attempt
<1> DEFINE m == work'[q].attempt
<1>0. /\ M \in Nat /\ M >= 1 /\ a \in Nat /\ b \in Nat /\ n \in Nat /\ m \in Nat /\ m <= M
      /\ work[q].pc \in Queue!Position /\ work'[q].pc \in Queue!Position
  BY RetriesArePositive, QueueTypes DEF Queue!TypeOK, Queue!Record, Queue!Task
<1>1. rec'[q].status = "success" \/ work'[q].pc = "marked" => q \in vectors'
  BY DEF Counts, Processes
<1>2. CASE work'[q] = work[q] /\ b = a
  BY <1>0, <1>1, <1>2 DEF Counts, Calls
<1>3. CASE work'[q] = Queue!NoTask /\ b = a
  BY <1>0, <1>1, <1>3 DEF Counts, Calls, Queue!NoTask
<1>4. CASE work'[q].pc = "check" /\ m = 0 /\ b = a /\ a < M
  BY <1>0, <1>1, <1>4 DEF Counts, Calls
<1>5. CASE /\ <<work[q].pc, work'[q].pc>> \in
                {<<"check", "waiting">>, <<"waiting", "marking">>, <<"backoff", "check">>,
                 <<"calling", "writing">>, <<"calling", "tripping">>, <<"writing", "marked">>,
                 <<"writing", "tripping">>}
           /\ m = n /\ b = a
  BY <1>0, <1>1, <1>5 DEF Counts, Calls
<1>6. CASE work[q].pc = "marking" /\ work'[q].pc = "calling" /\ m = n /\ b \in {a, a + 1}
  <2>1. a <= M - 1 + n /\ n <= M - 1
    BY <1>0, <1>6 DEF Counts, Calls
  <2>2. b <= M - 1 + (n + 1) /\ b <= 2 * M - 1
    BY <1>0, <1>6, <2>1
  <2>3. Calls(q)' = n + 1
    BY <1>6 DEF Calls
  <2> HIDE DEF M, a, b, n, m
  <2>4. (rec[q].attempts)' <= 2 * MaxRetries - 1 /\ (rec[q].attempts)' <= MaxRetries - 1 + Calls(q)'
        /\ (work[q].attempt)' <= MaxRetries - 1
    BY <1>6, <2>1, <2>2, <2>3 DEF M, a, b, n, m
  <2> QED BY <1>1, <1>6, <2>4 DEF Counts
<1>7. CASE /\ work[q].pc \in {"calling", "writing"} /\ m = n + 1 /\ b = a
           /\ work'[q].pc = IF n + 1 < M THEN "backoff" ELSE "dead"
  <2>1. a <= M - 1 + (n + 1) /\ n <= M - 1
    BY <1>0, <1>7 DEF Counts, Calls
  <2>2. Calls(q)' = n + 1
    BY <1>0, <1>7 DEF Calls
  <2>3. CASE n + 1 < M
    BY <1>0, <1>1, <1>7, <2>1, <2>2, <2>3 DEF Counts
  <2>4. CASE ~(n + 1 < M)
    <3>1. n + 1 = M
      BY <1>0, <2>1, <2>4
    <3> QED BY <1>0, <1>1, <1>7, <2>1, <2>2, <2>4, <3>1 DEF Counts
  <2> QED BY <2>3, <2>4
<1> QED BY <1>2, <1>3, <1>4, <1>5, <1>6, <1>7 DEF Processes

LEMMA AgreesKept ==
  ASSUME Queue!TypeOK, Queue!TypeOK', NEW q \in Docs, Counts(q), Agrees(q), Processes(q),
         \A d \in Docs : work[d].pc # "tripping", work'[q].pc # "tripping",
         work[q].pc = "marking" /\ work'[q].pc = "calling" =>
           rec'[q].attempts = rec[q].attempts + 1
  PROVE  Agrees(q)'
<1> DEFINE M == MaxRetries
<1> DEFINE a == rec[q].attempts
<1> DEFINE b == rec'[q].attempts
<1> DEFINE n == work[q].attempt
<1> DEFINE m == work'[q].attempt
<1>0. /\ M \in Nat /\ M >= 1 /\ a \in Nat /\ b \in Nat /\ n \in Nat /\ m \in Nat
      /\ work[q].pc \in Queue!Position /\ work'[q].pc \in Queue!Position
  BY RetriesArePositive, QueueTypes DEF Queue!TypeOK, Queue!Record, Queue!Task
<1>1. b >= a
  BY <1>0 DEF Processes
<1>2. rec'[q].status = "dlq" => b >= M
  <2>1. CASE rec[q].status = "dlq"
    BY <1>0, <1>1, <2>1 DEF Agrees
  <2>2. CASE work[q].pc = "dead"
    <3>1. a >= n /\ n = M
      BY <1>0, <2>2 DEF Agrees, Counts, Calls
    <3> QED BY <1>0, <1>1, <3>1
  <2> QED BY <2>1, <2>2 DEF Processes
<1>3. SUFFICES work'[q].pc # "none" => b >= Calls(q)'
  BY <1>2 DEF Agrees
<1>4. CASE work'[q] = work[q] /\ b = a
  BY <1>0, <1>4 DEF Agrees, Calls
<1>5. CASE work'[q] = Queue!NoTask
  BY <1>5 DEF Queue!NoTask
<1>6. CASE work'[q].pc = "check" /\ m = 0
  BY <1>0, <1>6 DEF Calls
<1>7. CASE /\ <<work[q].pc, work'[q].pc>> \in
                {<<"check", "waiting">>, <<"waiting", "marking">>, <<"backoff", "check">>,
                 <<"calling", "writing">>, <<"calling", "tripping">>, <<"writing", "marked">>,
                 <<"writing", "tripping">>}
           /\ m = n /\ b = a
  BY <1>0, <1>7 DEF Agrees, Calls
<1>8. CASE work[q].pc = "marking" /\ work'[q].pc = "calling" /\ m = n
  <2>1. a >= n /\ b = a + 1
    BY <1>0, <1>8 DEF Agrees, Calls
  <2>2. Calls(q)' = n + 1
    BY <1>8 DEF Calls
  <2> QED BY <1>0, <2>1, <2>2
<1>9. CASE /\ work[q].pc \in {"calling", "writing"} /\ m = n + 1 /\ b = a
           /\ work'[q].pc = IF n + 1 < M THEN "backoff" ELSE "dead"
  <2>1. a >= n + 1
    BY <1>9 DEF Agrees, Calls
  <2>2. Calls(q)' = n + 1
    BY <1>0, <1>9 DEF Calls
  <2> QED BY <1>0, <1>9, <2>1, <2>2
<1> QED BY <1>4, <1>5, <1>6, <1>7, <1>8, <1>9 DEF Processes

LEMMA TaskGoes ==
  ASSUME Queue!TypeOK, NEW q \in Docs, NEW pc \in Queue!Position, Queue!Goto(q, pc)
  PROVE  /\ work' \in [Docs -> Queue!Task]
         /\ work'[q].pc = pc /\ work'[q].attempt = work[q].attempt
         /\ \A d \in Docs \ {q} : work'[d] = work[d]
<1> DEFINE r == [work[q] EXCEPT !.pc = pc]
<1>1. r \in Queue!Task /\ r.pc = pc /\ r.attempt = work[q].attempt
  BY DEF Queue!TypeOK, Queue!Task
<1>2. work' = [work EXCEPT ![q] = r]
  BY DEF Queue!Goto
<1> HIDE DEF r
<1> QED BY <1>1, <1>2 DEF Queue!TypeOK

LEMMA TaskReturns ==
  ASSUME Queue!TypeOK, NEW q \in Docs, Queue!Return(q)
  PROVE  /\ work' \in [Docs -> Queue!Task] /\ work'[q] = Queue!NoTask
         /\ \A d \in Docs \ {q} : work'[d] = work[d]
<1>1. Queue!NoTask \in Queue!Task
  BY RetriesArePositive DEF Queue!NoTask, Queue!Task, Queue!Position
<1> QED BY <1>1 DEF Queue!TypeOK, Queue!Return

LEMMA Marking ==
  ASSUME Queue!TypeOK, NEW q \in Docs, NEW status \in Queue!Status,
         Queue!Writes(Queue!Marked(q, status))
  PROVE  /\ rec' \in [Docs -> Queue!Record]
         /\ rec'[q].attempts = rec[q].attempts /\ rec'[q].status \in {status, rec[q].status}
         /\ \A d \in Docs \ {q} : rec'[d] = rec[d]
<1> DEFINE r == [rec[q] EXCEPT !.status = status, !.stalled = FALSE]
<1>1. r \in Queue!Record /\ r.status = status /\ r.attempts = rec[q].attempts
  BY DEF Queue!TypeOK, Queue!Record
<1>2. rec' = [rec EXCEPT ![q] = r] \/ rec' = rec
  BY DEF Queue!Writes, Queue!Marked, Queue!TypeOK
<1> HIDE DEF r
<1> QED BY <1>1, <1>2 DEF Queue!TypeOK

LEMMA RecordRewritten ==
  ASSUME NEW r \in Queue!Record, NEW status \in Queue!Status
  PROVE  /\ [r EXCEPT !.status = status, !.stalled = FALSE] \in Queue!Record
         /\ [r EXCEPT !.status = status, !.stalled = FALSE].attempts = r.attempts
         /\ [r EXCEPT !.status = status, !.stalled = FALSE].status = status
BY DEF Queue!Record

\* A step that rewrites records, none to success, and moves no task or one that returns.
LEMMA RewritingProcesses ==
  ASSUME Queue!TypeOK, NEW new \in [Docs -> Queue!Record], rec' = new \/ rec' = rec,
         \A q \in Docs : work'[q] = work[q] \/ work'[q] = Queue!NoTask,
         \A q \in Docs : new[q].attempts = rec[q].attempts,
         \A q \in Docs : new[q].status = "success" => rec[q].status = "success",
         \A q \in Docs : new[q].status = "dlq" =>
           rec[q].status = "dlq" \/ \E d \in Docs : work[d].pc = "tripping"
  PROVE  rec' \in [Docs -> Queue!Record] /\ \A q \in Docs : Processes(q)
<1>1. \A q \in Docs :
        /\ rec'[q].attempts = rec[q].attempts
        /\ rec'[q].status = "success" => rec[q].status = "success"
        /\ rec'[q].status = "dlq" =>
             rec[q].status = "dlq" \/ \E d \in Docs : work[d].pc = "tripping"
  OBVIOUS
<1>2. \A q \in Docs : work'[q].pc = "marked" => work[q].pc = "marked"
  BY DEF Queue!NoTask
<1> QED BY <1>1, <1>2 DEF Processes, Queue!TypeOK

\* A step of the task of q, that writes its record only.
LEMMA OneProcesses ==
  ASSUME Queue!TypeOK, NEW q \in Docs, Processes(q),
         \A d \in Docs \ {q} : work'[d] = work[d] /\ rec'[d] = rec[d]
  PROVE  \A d \in Docs : Processes(d)
<1> SUFFICES ASSUME NEW d \in Docs \ {q} PROVE Processes(d)
  OBVIOUS
<1> QED BY DEF Processes

LEMMA LoopSteps ==
  ASSUME Queue!TypeOK, Queue!LoopStep \/ Queue!RetryFailedRead \/ Queue!RetryFailed \/ Queue!Crash
  PROVE  Queue!TypeOK' /\ vectors \subseteq vectors' /\ \A q \in Docs : Processes(q)
<1>0. /\ rec \in [Docs -> Queue!Record] /\ work \in [Docs -> Queue!Task] /\ retry \subseteq Docs
      /\ Queue!NoTask \in Queue!Task /\ Queue!NoTask.pc = "none"
  BY RetriesArePositive DEF Queue!TypeOK, Queue!NoTask, Queue!Task, Queue!Position
<1>1. ASSUME rec' = rec, \A q \in Docs : work'[q] = work[q] \/ work'[q] = Queue!NoTask
      PROVE  \A q \in Docs : Processes(q)
  BY <1>0, <1>1 DEF Processes
<1>2. CASE Queue!Start \/ Queue!GatherReturns
  BY <1>1, <1>2 DEF Queue!Start, Queue!GatherReturns, Queue!TypeOK
<1>3. CASE Queue!RetryFailedRead
  BY <1>1, <1>3 DEF Queue!RetryFailedRead, Queue!TypeOK
<1>4. CASE Queue!Crash
  <2>1. work' \in [Docs -> Queue!Task] /\ \A q \in Docs : work'[q] = Queue!NoTask
    BY <1>0, <1>4 DEF Queue!Crash
  <2> QED BY <1>1, <1>4, <2>1 DEF Queue!Crash, Queue!TypeOK
<1>5. CASE Queue!RetryFailed
  <2> DEFINE new == [q \in Docs |-> IF q \in retry
        THEN [rec[q] EXCEPT !.status = "pending", !.stalled = FALSE] ELSE rec[q]]
  <2>1. "pending" \in Queue!Status
    BY DEF Queue!Status
  <2>2. \A q \in Docs :
          /\ new[q] \in Queue!Record /\ new[q].attempts = rec[q].attempts
          /\ new[q].status \in {"pending", rec[q].status}
    BY <1>0, <2>1, RecordRewritten
  <2>3. rec' = new \/ rec' = rec
    BY <1>5 DEF Queue!RetryFailed, Queue!Writes
  <2>4. new \in [Docs -> Queue!Record]
    BY <2>2
  <2> HIDE DEF new
  <2>5. UNCHANGED <<vectors, work, loop, paused>> /\ retry' = {}
    BY <1>5 DEF Queue!RetryFailed
  <2>6. rec' \in [Docs -> Queue!Record] /\ \A q \in Docs : Processes(q)
    BY <2>2, <2>3, <2>4, <2>5, RewritingProcesses
  <2> QED BY <2>5, <2>6 DEF Queue!TypeOK
<1>6. CASE Queue!Reconcile
  <2> DEFINE new == [q \in Docs |->
        IF rec[q].status = "processing" /\ rec[q].stalled
        THEN [rec[q] EXCEPT !.status = "pending", !.stalled = FALSE] ELSE rec[q]]
  <2>1. "pending" \in Queue!Status
    BY DEF Queue!Status
  <2>2. \A q \in Docs :
          /\ new[q] \in Queue!Record /\ new[q].attempts = rec[q].attempts
          /\ new[q].status \in {"pending", rec[q].status}
    BY <1>0, <2>1, RecordRewritten
  <2>3. rec' = new \/ rec' = rec
    BY <1>6 DEF Queue!Reconcile, Queue!Writes
  <2>4. new \in [Docs -> Queue!Record]
    BY <2>2
  <2> HIDE DEF new
  <2>5. UNCHANGED <<vectors, work, retry, paused>> /\ loop' = "poll"
    BY <1>6 DEF Queue!Reconcile
  <2>6. rec' \in [Docs -> Queue!Record] /\ \A q \in Docs : Processes(q)
    BY <2>2, <2>3, <2>4, <2>5, RewritingProcesses
  <2> QED BY <2>5, <2>6 DEF Queue!TypeOK
<1>7. CASE Queue!Poll
  <2>1. PICK batch \in SUBSET Queue!Pending :
          work' = [q \in Docs |-> IF q \in batch THEN [pc |-> "check", attempt |-> 0]
                                  ELSE Queue!NoTask]
    BY <1>7 DEF Queue!Poll
  <2>2. [pc |-> "check", attempt |-> 0] \in Queue!Task
    BY RetriesArePositive DEF Queue!Task, Queue!Position
  <2>3. \A q \in batch : rec[q].attempts < MaxRetries
    BY DEF Queue!Pending
  <2>4. work' \in [Docs -> Queue!Task]
    BY <1>0, <2>1, <2>2
  <2>5. UNCHANGED <<rec, vectors, paused, retry>> /\ loop' = "gather"
    BY <1>7 DEF Queue!Poll
  <2>6. \A q \in Docs : Processes(q)
    BY <1>0, <2>1, <2>3, <2>5 DEF Processes
  <2> QED BY <2>4, <2>5, <2>6 DEF Queue!TypeOK
<1> QED BY <1>2, <1>3, <1>4, <1>5, <1>6, <1>7 DEF Queue!LoopStep

\* The steps of a task that leave its record alone.
LEMMA TaskMoves ==
  ASSUME Queue!TypeOK, NEW q \in Docs,
         \/ Queue!CheckPaused(q) \/ Queue!Acquire(q) \/ Queue!Embedded(q) \/ Queue!WriteVector(q)
         \/ Queue!BackoffEnds(q) \/ Queue!RateLimited(q)
  PROVE  Queue!TypeOK' /\ vectors \subseteq vectors' /\ \A d \in Docs : Processes(d)
<1>0. /\ rec \in [Docs -> Queue!Record] /\ work \in [Docs -> Queue!Task]
      /\ \A pc \in {"waiting", "marking", "writing", "marked", "check", "tripping"} :
           pc \in Queue!Position
      /\ Queue!NoTask.pc = "none"
  BY DEF Queue!TypeOK, Queue!Position, Queue!NoTask
<1>1. /\ rec' = rec /\ vectors' \in {vectors, vectors \cup {q}} /\ loop' = loop
      /\ paused' \in {paused, TRUE} /\ retry' = retry
  BY DEF Queue!CheckPaused, Queue!Acquire, Queue!Embedded, Queue!WriteVector, Queue!BackoffEnds,
    Queue!RateLimited
<1>2. \/ Queue!Return(q)
      \/ \E pc \in {"waiting", "marking", "writing", "marked", "check", "tripping"} :
           /\ Queue!Goto(q, pc) /\ (pc = "marked" => q \in vectors')
           /\ <<work[q].pc, pc>> \in
                {<<"check", "waiting">>, <<"waiting", "marking">>, <<"backoff", "check">>,
                 <<"calling", "writing">>, <<"calling", "tripping">>, <<"writing", "marked">>,
                 <<"writing", "tripping">>}
  BY DEF Queue!CheckPaused, Queue!Acquire, Queue!Embedded, Queue!WriteVector, Queue!BackoffEnds,
    Queue!RateLimited, Queue!At
<1>3. /\ work' \in [Docs -> Queue!Task] /\ \A d \in Docs \ {q} : work'[d] = work[d]
      /\ Processes(q)
  <2>1. CASE Queue!Return(q)
    BY <1>0, <1>1, <2>1, TaskReturns DEF Processes
  <2>2. CASE ~Queue!Return(q)
    <3>1. PICK pc \in {"waiting", "marking", "writing", "marked", "check", "tripping"} :
            /\ Queue!Goto(q, pc) /\ (pc = "marked" => q \in vectors')
            /\ <<work[q].pc, pc>> \in
                 {<<"check", "waiting">>, <<"waiting", "marking">>, <<"backoff", "check">>,
                  <<"calling", "writing">>, <<"calling", "tripping">>, <<"writing", "marked">>,
                  <<"writing", "tripping">>}
      BY <1>2, <2>2
    <3>2. /\ work' \in [Docs -> Queue!Task] /\ work'[q].pc = pc
          /\ work'[q].attempt = work[q].attempt /\ \A d \in Docs \ {q} : work'[d] = work[d]
      BY <1>0, <3>1, TaskGoes
    <3> QED BY <1>1, <3>1, <3>2 DEF Processes
  <2> QED BY <2>1, <2>2
<1>4. \A d \in Docs : Processes(d)
  BY <1>1, <1>3, OneProcesses
<1> QED BY <1>0, <1>1, <1>3, <1>4 DEF Queue!TypeOK

\* The steps of a task that write its record, or the records of all.
LEMMA TaskMarks ==
  ASSUME Queue!TypeOK, NEW q \in Docs, Counts(q),
         \/ Queue!MarkProcessing(q) \/ Queue!MarkSuccess(q) \/ Queue!Fails(q)
         \/ Queue!MarkDlq(q) \/ Queue!ArchivePending(q)
  PROVE  Queue!TypeOK' /\ vectors \subseteq vectors' /\ \A d \in Docs : Processes(d)
<1>0. /\ rec \in [Docs -> Queue!Record] /\ work \in [Docs -> Queue!Task]
      /\ Queue!NoTask.pc = "none"
      /\ \A status \in {"processing", "success", "dlq"} : status \in Queue!Status
      /\ "calling" \in Queue!Position /\ rec[q] \in Queue!Record /\ rec[q].attempts \in Nat
  BY QueueTypes DEF Queue!TypeOK, Queue!Position, Queue!NoTask, Queue!Status
<1>1. UNCHANGED <<vectors, loop, paused, retry>>
  BY DEF Queue!MarkProcessing, Queue!MarkSuccess, Queue!Fails, Queue!MarkDlq, Queue!ArchivePending
<1>2. CASE Queue!MarkSuccess(q) \/ Queue!MarkDlq(q)
  <2>1. PICK status \in {"success", "dlq"} :
          /\ Queue!Writes(Queue!Marked(q, status)) /\ Queue!Return(q)
          /\ work[q].pc = IF status = "success" THEN "marked" ELSE "dead"
    BY <1>2 DEF Queue!MarkSuccess, Queue!MarkDlq, Queue!At
  <2>2. /\ rec' \in [Docs -> Queue!Record] /\ rec'[q].attempts = rec[q].attempts
        /\ rec'[q].status \in {status, rec[q].status} /\ \A d \in Docs \ {q} : rec'[d] = rec[d]
    BY <1>0, <2>1, Marking
  <2>3. /\ work' \in [Docs -> Queue!Task] /\ work'[q] = Queue!NoTask
        /\ \A d \in Docs \ {q} : work'[d] = work[d]
    BY <2>1, TaskReturns
  <2>4. Processes(q)
    BY <1>0, <2>1, <2>2, <2>3 DEF Processes
  <2> QED BY <1>1, <2>2, <2>3, <2>4, OneProcesses DEF Queue!TypeOK
<1>3. CASE Queue!MarkProcessing(q)
  <2> DEFINE s == [rec[q] EXCEPT !.status = "processing", !.stalled = FALSE]
  <2> DEFINE n == rec[q].attempts + 1
  <2> DEFINE r == [s EXCEPT !.attempts = n]
  <2>1. s \in Queue!Record /\ s.attempts = rec[q].attempts /\ s.status = "processing"
    BY <1>0, RecordRewritten
  <2>2. Queue!Marked(q, "processing") = [rec EXCEPT ![q] = s]
    BY <1>0 DEF Queue!Marked
  <2> HIDE DEF s
  <2>3. [Queue!Marked(q, "processing") EXCEPT ![q].attempts = @ + 1] = [rec EXCEPT ![q] = r]
    BY <1>0, <2>1, <2>2
  <2>4. r \in Queue!Record /\ r.attempts = n /\ r.status = "processing"
    BY <1>0, <2>1 DEF Queue!Record
  <2>5. rec' = [rec EXCEPT ![q] = r] \/ rec' = rec
    BY <1>3, <2>3 DEF Queue!MarkProcessing, Queue!Writes
  <2> HIDE DEF r
  <2>6. /\ rec' \in [Docs -> Queue!Record] /\ \A d \in Docs \ {q} : rec'[d] = rec[d]
        /\ rec'[q] = r \/ rec'[q] = rec[q]
    BY <1>0, <2>4, <2>5
  <2>7. Queue!Goto(q, "calling") /\ work[q].pc = "marking"
    BY <1>3 DEF Queue!MarkProcessing, Queue!At
  <2>8. /\ work' \in [Docs -> Queue!Task] /\ work'[q].pc = "calling"
        /\ work'[q].attempt = work[q].attempt /\ \A d \in Docs \ {q} : work'[d] = work[d]
    BY <1>0, <2>7, TaskGoes
  <2>9. Processes(q)
    BY <2>4, <2>6, <2>7, <2>8 DEF Processes
  <2> QED BY <1>1, <2>6, <2>8, <2>9, OneProcesses DEF Queue!TypeOK
<1>4. CASE Queue!Fails(q)
  <2> DEFINE n == work[q].attempt + 1
  <2> DEFINE r == [pc |-> IF n < MaxRetries THEN "backoff" ELSE "dead", attempt |-> n]
  <2>1. work' = [work EXCEPT ![q] = r] /\ work[q].pc \in {"calling", "writing"} /\ rec' = rec
    BY <1>4 DEF Queue!Fails
  <2>2. /\ r \in Queue!Task /\ r.attempt = n
        /\ r.pc = IF n < MaxRetries THEN "backoff" ELSE "dead"
    <3>1. work[q].attempt \in Nat /\ work[q].attempt <= MaxRetries - 1
      BY <2>1, QueueTypes DEF Counts
    <3>2. n \in 0..MaxRetries
      BY <3>1, RetriesArePositive
    <3> HIDE DEF n
    <3> QED BY <3>2 DEF Queue!Task, Queue!Position
  <2> HIDE DEF r
  <2>3. /\ work' \in [Docs -> Queue!Task] /\ work'[q] = r
        /\ \A d \in Docs \ {q} : work'[d] = work[d]
    BY <1>0, <2>1, <2>2
  <2>4. Processes(q)
    BY <2>1, <2>2, <2>3 DEF Processes
  <2>5. \A d \in Docs : Processes(d)
    BY <2>1, <2>3, <2>4, OneProcesses
  <2> QED BY <1>1, <2>1, <2>3, <2>5 DEF Queue!TypeOK
<1>5. CASE Queue!ArchivePending(q)
  <2> DEFINE new == [d \in Docs |-> IF rec[d].status \in {"pending", "processing"}
        THEN [rec[d] EXCEPT !.status = "dlq", !.stalled = FALSE] ELSE rec[d]]
  <2>1. \A d \in Docs :
          /\ new[d] \in Queue!Record /\ new[d].attempts = rec[d].attempts
          /\ new[d].status \in {"dlq", rec[d].status}
    BY <1>0, RecordRewritten
  <2>2. rec' = new \/ rec' = rec
    BY <1>5 DEF Queue!ArchivePending, Queue!Writes
  <2>3. new \in [Docs -> Queue!Record]
    BY <2>1
  <2> HIDE DEF new
  <2>4. /\ work' \in [Docs -> Queue!Task] /\ work'[q] = Queue!NoTask
        /\ \A d \in Docs \ {q} : work'[d] = work[d]
    BY <1>5, TaskReturns DEF Queue!ArchivePending
  <2>5. work[q].pc = "tripping"
    BY <1>5 DEF Queue!ArchivePending, Queue!At
  <2>6. rec' \in [Docs -> Queue!Record] /\ \A d \in Docs : Processes(d)
    BY <2>1, <2>2, <2>3, <2>4, <2>5, RewritingProcesses
  <2> QED BY <1>1, <2>4, <2>6 DEF Queue!TypeOK
<1> QED BY <1>2, <1>3, <1>4, <1>5

LEMMA QueueSteps ==
  ASSUME QueueInv, Queue!Next
  PROVE  Queue!TypeOK' /\ vectors \subseteq vectors' /\ \A d \in Docs : Processes(d)
<1>0. Queue!TypeOK /\ \A d \in Docs : Counts(d)
  BY DEF QueueInv
<1>1. CASE Queue!LoopStep \/ Queue!RetryFailedRead \/ Queue!RetryFailed \/ Queue!Crash
  BY <1>0, <1>1, LoopSteps
<1>2. ASSUME NEW q \in Docs, Queue!TaskStep(q)
      PROVE  Queue!TypeOK' /\ vectors \subseteq vectors' /\ \A d \in Docs : Processes(d)
  BY <1>0, <1>2, TaskMoves, TaskMarks DEF Queue!TaskStep
<1>3. ASSUME NEW q \in Docs, Queue!Enqueue(q) \/ Queue!Stalls(q)
      PROVE  Queue!TypeOK' /\ vectors \subseteq vectors' /\ \A d \in Docs : Processes(d)
  <2>1. UNCHANGED <<vectors, work, loop, paused, retry>>
    BY <1>3 DEF Queue!Enqueue, Queue!Stalls
  <2> DEFINE r == [rec[q] EXCEPT !.status = "pending"]
  <2> DEFINE s == [rec[q] EXCEPT !.stalled = TRUE]
  <2>2. /\ r \in Queue!Record /\ r.attempts = rec[q].attempts /\ r.status = "pending"
        /\ s \in Queue!Record /\ s.attempts = rec[q].attempts /\ s.status = rec[q].status
    BY <1>0 DEF Queue!TypeOK, Queue!Record, Queue!Status
  <2>3. rec' = [rec EXCEPT ![q] = r] \/ rec' = [rec EXCEPT ![q] = s]
    BY <1>0, <1>3 DEF Queue!Enqueue, Queue!Stalls, Queue!TypeOK
  <2> HIDE DEF r, s
  <2>4. /\ rec' \in [Docs -> Queue!Record] /\ \A d \in Docs \ {q} : rec'[d] = rec[d]
        /\ rec'[q].attempts = rec[q].attempts /\ rec'[q].status \in {"pending", rec[q].status}
    BY <1>0, <2>2, <2>3 DEF Queue!TypeOK
  <2>5. Processes(q)
    BY <2>1, <2>4 DEF Processes
  <2> QED BY <1>0, <2>1, <2>4, <2>5, OneProcesses DEF Queue!TypeOK
<1> QED BY <1>1, <1>2, <1>3 DEF Queue!Next

LEMMA QueueInitially ==
  ASSUME Queue!Init PROVE QueueInv /\ \A q \in Docs : Agrees(q)
<1>1. Queue!TypeOK
  <2>1. Queue!NoTask \in Queue!Task
    BY RetriesArePositive DEF Queue!Task, Queue!Position, Queue!NoTask
  <2>2. [status |-> "absent", attempts |-> 0, stalled |-> FALSE] \in Queue!Record
    BY DEF Queue!Record, Queue!Status
  <2> QED BY <2>1, <2>2 DEF Queue!Init, Queue!TypeOK
<1>2. \A q \in Docs : rec[q].attempts = 0 /\ rec[q].status = "absent" /\ work[q].pc = "none"
  BY DEF Queue!Init, Queue!NoTask
<1>3. \A q \in Docs : Counts(q) /\ Agrees(q)
  BY <1>2, RetriesArePositive DEF Counts, Agrees
<1> QED BY <1>1, <1>3 DEF QueueInv

LEMMA QueueKept ==
  ASSUME QueueInv, Queue!Next PROVE QueueInv'
<1>1. Queue!TypeOK' /\ vectors \subseteq vectors' /\ \A d \in Docs : Processes(d)
  BY QueueSteps
<1>2. \A q \in Docs : Counts(q)'
  BY <1>1, CountsKept DEF QueueInv
<1> QED BY <1>1, <1>2 DEF QueueInv

-----------------------------------------------------------------------------
(* The queue of a service without a rate limit, whose writes succeed: its  *)
(* steps are steps of the queue, and count every call.                     *)

LEMMA UnlimitedMarks ==
  ASSUME QueueInv, NEW q \in Docs, Unlimited!MarkProcessing(q)
  PROVE  Queue!MarkProcessing(q) /\ rec'[q].attempts = rec[q].attempts + 1
         /\ \A d \in Docs : work'[d].pc = "tripping" => work[d].pc = "tripping"
<1>0. /\ rec \in [Docs -> Queue!Record] /\ rec[q] \in Queue!Record /\ rec[q].attempts \in Nat
      /\ Queue!TypeOK /\ "calling" \in Queue!Position
  BY QueueTypes DEF QueueInv, Queue!TypeOK, Queue!Position
<1>1. /\ rec' = [Queue!Marked(q, "processing") EXCEPT ![q].attempts = @ + 1]
      /\ Queue!Goto(q, "calling") /\ Queue!At(q, "marking")
      /\ UNCHANGED <<vectors, loop, paused, retry>>
  BY DEF Unlimited!MarkProcessing, Unlimited!Writes, Unlimited!Marked, Unlimited!Goto,
    Unlimited!At, Queue!Marked, Queue!Goto, Queue!At
<1>2. Queue!MarkProcessing(q)
  BY <1>1 DEF Queue!MarkProcessing, Queue!Writes
<1> DEFINE s == [rec[q] EXCEPT !.status = "processing", !.stalled = FALSE]
<1> DEFINE n == rec[q].attempts + 1
<1> DEFINE r == [s EXCEPT !.attempts = n]
<1>3. s \in Queue!Record /\ s.attempts = rec[q].attempts
  BY <1>0, RecordRewritten DEF Queue!Status
<1>4. Queue!Marked(q, "processing") = [rec EXCEPT ![q] = s]
  BY <1>0 DEF Queue!Marked
<1> HIDE DEF s
<1>5. rec' = [rec EXCEPT ![q] = r]
  BY <1>0, <1>1, <1>3, <1>4
<1>6. r.attempts = n
  BY <1>0, <1>3 DEF Queue!Record
<1> HIDE DEF r
<1>7. rec'[q].attempts = n
  BY <1>0, <1>5, <1>6
<1>8. work'[q].pc = "calling" /\ \A d \in Docs \ {q} : work'[d] = work[d]
  BY <1>0, <1>1, TaskGoes
<1> QED BY <1>2, <1>7, <1>8

LEMMA UnlimitedMoves ==
  ASSUME QueueInv, NEW q \in Docs, Unlimited!TaskStep(q), ~Unlimited!MarkProcessing(q),
         work[q].pc # "tripping"
  PROVE  /\ Queue!TaskStep(q)
         /\ \A d \in Docs : work'[d].pc = "calling" => work[d].pc # "marking"
         /\ \A d \in Docs : work'[d].pc = "tripping" => work[d].pc = "tripping"
<1>0. /\ Queue!TypeOK /\ work \in [Docs -> Queue!Task] /\ Queue!NoTask.pc = "none"
      /\ \A pc \in {"waiting", "marking", "writing", "marked", "check"} : pc \in Queue!Position
  BY DEF QueueInv, Queue!TypeOK, Queue!Position, Queue!NoTask
<1>1. ASSUME \/ Queue!Return(q)
             \/ \E pc \in {"waiting", "marking", "writing", "marked", "check"} : Queue!Goto(q, pc)
      PROVE  \A d \in Docs : work'[d].pc \in {"calling", "tripping"} => work'[d] = work[d]
  <2>1. CASE Queue!Return(q)
    BY <1>0, <2>1, TaskReturns
  <2>2. CASE ~Queue!Return(q)
    <3>1. PICK pc \in {"waiting", "marking", "writing", "marked", "check"} : Queue!Goto(q, pc)
      BY <1>1, <2>2
    <3>2. work'[q].pc = pc /\ \A d \in Docs \ {q} : work'[d] = work[d]
      BY <1>0, <3>1, TaskGoes
    <3> QED BY <3>1, <3>2
  <2> QED BY <2>1, <2>2
<1>2. CASE \/ Unlimited!CheckPaused(q) \/ Unlimited!Acquire(q) \/ Unlimited!Embedded(q)
           \/ Unlimited!WriteVector(q) \/ Unlimited!BackoffEnds(q)
  <2>1. \/ Queue!CheckPaused(q) \/ Queue!Acquire(q) \/ Queue!Embedded(q)
        \/ Queue!WriteVector(q) \/ Queue!BackoffEnds(q)
    <3>1. Unlimited!CheckPaused(q) => Queue!CheckPaused(q)
      BY DEF Unlimited!CheckPaused, Unlimited!Goto, Unlimited!Return, Unlimited!At,
        Unlimited!NoTask, Queue!CheckPaused, Queue!Goto, Queue!Return, Queue!At, Queue!NoTask
    <3>2. Unlimited!Acquire(q) => Queue!Acquire(q)
      <4>1. Unlimited!InSemaphore = Queue!InSemaphore
        BY DEF Unlimited!InSemaphore, Queue!InSemaphore
      <4>2. Unlimited!At(q, "waiting") = Queue!At(q, "waiting")
            /\ Unlimited!Goto(q, "marking") = Queue!Goto(q, "marking")
        BY DEF Unlimited!Goto, Unlimited!At, Queue!Goto, Queue!At
      <4> QED BY <4>1, <4>2 DEF Unlimited!Acquire, Queue!Acquire, Unlimited!Cardinality, Queue!Cardinality
    <3>3. Unlimited!Embedded(q) => Queue!Embedded(q)
      BY DEF Unlimited!Embedded, Unlimited!Goto, Unlimited!At, Queue!Embedded, Queue!Goto, Queue!At
    <3>4. Unlimited!WriteVector(q) => Queue!WriteVector(q)
      BY DEF Unlimited!WriteVector, Unlimited!Goto, Unlimited!At, Queue!WriteVector, Queue!Goto,
        Queue!At
    <3>5. Unlimited!BackoffEnds(q) => Queue!BackoffEnds(q)
      BY DEF Unlimited!BackoffEnds, Unlimited!Goto, Unlimited!At, Queue!BackoffEnds, Queue!Goto,
        Queue!At
    <3> QED BY <1>2, <3>1, <3>2, <3>3, <3>4, <3>5
  <2>2. \/ Queue!Return(q)
        \/ \E pc \in {"waiting", "marking", "writing", "marked", "check"} : Queue!Goto(q, pc)
    BY <2>1 DEF Queue!CheckPaused, Queue!Acquire, Queue!Embedded, Queue!WriteVector,
      Queue!BackoffEnds
  <2> QED BY <1>1, <2>1, <2>2 DEF Queue!TaskStep
<1>3. CASE Unlimited!MarkSuccess(q) \/ Unlimited!MarkDlq(q)
  <2>1. Queue!MarkSuccess(q) \/ Queue!MarkDlq(q)
    BY <1>3 DEF Unlimited!MarkSuccess, Unlimited!MarkDlq, Unlimited!Writes, Unlimited!Marked,
      Unlimited!Return, Unlimited!At, Unlimited!NoTask,
      Queue!MarkSuccess, Queue!MarkDlq, Queue!Writes, Queue!Marked, Queue!Return, Queue!At,
      Queue!NoTask
  <2>2. Queue!Return(q)
    BY <2>1 DEF Queue!MarkSuccess, Queue!MarkDlq
  <2> QED BY <1>1, <2>1, <2>2 DEF Queue!TaskStep
<1>4. CASE Unlimited!Fails(q)
  <2>1. Queue!Fails(q)
    BY <1>4 DEF Unlimited!Fails, Queue!Fails
  <2> DEFINE r == [pc |-> IF work[q].attempt + 1 < MaxRetries THEN "backoff" ELSE "dead",
                   attempt |-> work[q].attempt + 1]
  <2>2. work' = [work EXCEPT ![q] = r]
    BY <2>1 DEF Queue!Fails
  <2>3. r.pc \notin {"calling", "tripping"}
    OBVIOUS
  <2> HIDE DEF r
  <2>4. \A d \in Docs : work'[d].pc \in {"calling", "tripping"} => work'[d] = work[d]
    BY <1>0, <2>2, <2>3
  <2> QED BY <2>1, <2>4 DEF Queue!TaskStep
<1>5. ~Unlimited!RateLimited(q) /\ ~Unlimited!ArchivePending(q)
  BY DEF Unlimited!RateLimited, Unlimited!ArchivePending, Unlimited!At
<1> QED BY <1>2, <1>3, <1>4, <1>5 DEF Unlimited!TaskStep

LEMMA UnlimitedLoops ==
  ASSUME QueueInv,
         \/ Unlimited!LoopStep \/ Unlimited!RetryFailedRead \/ Unlimited!RetryFailed
         \/ Unlimited!Crash
  PROVE  /\ Queue!Next
         /\ \A d \in Docs : work'[d] = work[d] \/ work'[d].pc \in {"none", "check"}
<1>0. work \in [Docs -> Queue!Task] /\ Queue!NoTask.pc = "none"
  BY DEF QueueInv, Queue!TypeOK, Queue!NoTask
<1>1. Unlimited!Start => Queue!Start /\ work' = work
  BY DEF Unlimited!Start, Queue!Start
<1>2. Unlimited!Reconcile => Queue!Reconcile /\ work' = work
  BY DEF Unlimited!Reconcile, Unlimited!Writes, Queue!Reconcile, Queue!Writes
<1>3. Unlimited!Poll => Queue!Poll /\ \A d \in Docs : work'[d].pc \in {"none", "check"}
  <2>1. Unlimited!Pending = Queue!Pending /\ Unlimited!NoTask = Queue!NoTask
    BY DEF Unlimited!Pending, Queue!Pending, Unlimited!NoTask, Queue!NoTask
  <2>2. Unlimited!Poll => Queue!Poll
    BY <2>1 DEF Unlimited!Poll, Queue!Poll, Unlimited!Cardinality, Queue!Cardinality
  <2>3. ASSUME Queue!Poll PROVE \A d \in Docs : work'[d].pc \in {"none", "check"}
    BY <1>0, <2>3 DEF Queue!Poll
  <2> QED BY <2>2, <2>3
<1>4. Unlimited!GatherReturns => Queue!GatherReturns /\ work' = work
  <2>1. Unlimited!NoTask = Queue!NoTask
    BY DEF Unlimited!NoTask, Queue!NoTask
  <2> QED BY <2>1 DEF Unlimited!GatherReturns, Queue!GatherReturns
<1>5. Unlimited!RetryFailedRead => Queue!RetryFailedRead /\ work' = work
  BY DEF Unlimited!RetryFailedRead, Queue!RetryFailedRead
<1>6. Unlimited!RetryFailed => Queue!RetryFailed /\ work' = work
  BY DEF Unlimited!RetryFailed, Unlimited!Writes, Queue!RetryFailed, Queue!Writes
<1>7. Unlimited!Crash => Queue!Crash /\ \A d \in Docs : work'[d].pc \in {"none", "check"}
  <2>1. Unlimited!NoTask = Queue!NoTask
    BY DEF Unlimited!NoTask, Queue!NoTask
  <2>2. Unlimited!Crash => Queue!Crash
    BY <2>1 DEF Unlimited!Crash, Queue!Crash
  <2>3. ASSUME Queue!Crash PROVE \A d \in Docs : work'[d].pc \in {"none", "check"}
    BY <1>0, <2>3 DEF Queue!Crash
  <2> QED BY <2>2, <2>3
<1> QED BY <1>1, <1>2, <1>3, <1>4, <1>5, <1>6, <1>7 DEF Unlimited!LoopStep, Queue!LoopStep, Queue!Next

LEMMA UnlimitedSteps ==
  ASSUME QueueInv, \A d \in Docs : work[d].pc # "tripping", Unlimited!Next
  PROVE  /\ Queue!Next
         /\ \A d \in Docs : work'[d].pc # "tripping"
         /\ \A d \in Docs : work[d].pc = "marking" /\ work'[d].pc = "calling" =>
              rec'[d].attempts = rec[d].attempts + 1
<1>0. Queue!TypeOK
  BY DEF QueueInv
<1>1. CASE \/ Unlimited!LoopStep \/ Unlimited!RetryFailedRead \/ Unlimited!RetryFailed
           \/ Unlimited!Crash
  BY <1>1, UnlimitedLoops
<1>2. ASSUME NEW q \in Docs, Unlimited!TaskStep(q)
      PROVE  /\ Queue!TaskStep(q)
             /\ \A d \in Docs : work'[d].pc # "tripping"
             /\ \A d \in Docs : work[d].pc = "marking" /\ work'[d].pc = "calling" =>
                  rec'[d].attempts = rec[d].attempts + 1
  <2>1. CASE Unlimited!MarkProcessing(q)
    <3>1. /\ Queue!MarkProcessing(q) /\ rec'[q].attempts = rec[q].attempts + 1
          /\ \A d \in Docs : work'[d].pc # "tripping"
      BY <2>1, UnlimitedMarks
    <3>2. Queue!Goto(q, "calling") /\ "calling" \in Queue!Position
      BY <3>1 DEF Queue!MarkProcessing, Queue!Position
    <3>3. \A d \in Docs \ {q} : work'[d] = work[d]
      BY <1>0, <3>2, TaskGoes
    <3> QED BY <3>1, <3>3 DEF Queue!TaskStep
  <2>2. CASE ~Unlimited!MarkProcessing(q)
    BY <1>2, <2>2, UnlimitedMoves
  <2> QED BY <2>1, <2>2
<1>3. ASSUME NEW q \in Docs, Unlimited!Enqueue(q) \/ Unlimited!Stalls(q)
      PROVE  (Queue!Enqueue(q) \/ Queue!Stalls(q)) /\ work' = work
  BY <1>3 DEF Unlimited!Enqueue, Unlimited!Stalls, Queue!Enqueue, Queue!Stalls
<1> QED BY <1>1, <1>2, <1>3 DEF Unlimited!Next, Queue!Next

StoredInv == QueueInv /\ (part = "unlimited" => \A q \in Docs : Agrees(q))

LEMMA StoredKept ==
  ASSUME StoredInv, [StorageNext]_storageVars
  PROVE  StoredInv'
<1>0. QueueInv /\ part' = part
  BY DEF StoredInv, StorageNext, storageVars
<1>1. CASE part = "queue" /\ Queue!Next
  BY <1>0, <1>1, QueueKept DEF StoredInv
<1>2. CASE part = "unlimited" /\ Unlimited!Next
  <2>1. \A d \in Docs : Counts(d) /\ Agrees(d) /\ work[d].pc # "tripping"
    BY <1>0, <1>2 DEF StoredInv, Agrees, QueueInv
  <2>2. /\ Queue!Next
        /\ \A d \in Docs : work'[d].pc # "tripping"
        /\ \A d \in Docs : work[d].pc = "marking" /\ work'[d].pc = "calling" =>
             rec'[d].attempts = rec[d].attempts + 1
    BY <1>0, <1>2, <2>1, UnlimitedSteps
  <2>3. QueueInv' /\ \A d \in Docs : Processes(d)
    BY <1>0, <2>2, QueueKept, QueueSteps
  <2>4. \A q \in Docs : Agrees(q)'
    BY <1>0, <2>1, <2>2, <2>3, AgreesKept DEF QueueInv
  <2> QED BY <2>3, <2>4 DEF StoredInv
<1>3. CASE UNCHANGED queueVars
  BY <1>0, <1>3 DEF StoredInv, QueueInv, Queue!TypeOK, Counts, Agrees, Calls, queueVars
<1> QED BY <1>1, <1>2, <1>3 DEF StorageNext, storageVars, queueVars

\* A record that reads success has its vector in the store, through crashes between the
\* two writes, lost marks, archives and retries; a record costs at most 2 * MaxRetries - 1
\* calls; and in a service without a rate limit, whose writes of the queue succeed, it is
\* given up only after MaxRetries of them (_process_record, get_pending, retry_failed).
THEOREM RecordsStayEmbedded == StorageSpec => []RecordsAreEmbedded
<1>1. StorageInit => StoredInv
  BY QueueInitially DEF StorageInit, StoredInv
<1>2. StoredInv /\ [StorageNext]_storageVars => StoredInv'
  BY StoredKept
<1>3. StoredInv => RecordsAreEmbedded
  BY DEF StoredInv, QueueInv, Counts, Agrees, RecordsAreEmbedded, Queue!SuccessIsStored,
    Queue!AttemptsAreBounded, Unlimited!DlqWasTried
<1> QED BY <1>1, <1>2, <1>3, PTL DEF StorageSpec
=============================================================================
