--------------------------- MODULE MCLoop_histories ---------------------------
(***************************************************************************)
(* Proofs about the histories of a thread whose clients wait, for any      *)
(* runs, turns and batches, any number of messages and of faults.          *)
(*                                                                         *)
(* The invariant speaks of the lines of the tree, not of the history       *)
(* alone, as another branch may be selected: on every line the results     *)
(* follow their calls (CausalInv), the line to every leaf has all results  *)
(* but those of batches that were cut or are open, and a batch is open on  *)
(* one line only (CompleteInv).  TurnInv says where the message of a turn  *)
(* is while the run of the turn is at work.                                *)
(*                                                                         *)
(* The second half is about the plans of what a model is sent of such a    *)
(* history, for any histories, budgets and sizes.  PlanInv says that the   *)
(* units divide the conversation (Divided), which of them are chosen       *)
(* (Shape), and what the marker and the messages sent have to do with them *)
(* (OfOmitted, SentOf).                                                    *)
(***************************************************************************)
EXTENDS MCLoop_proofs

-----------------------------------------------------------------------------
(* Results follow their calls.                                             *)

MessageOK(ms, i) ==
  /\ ms[i].role = "tool" =>
       ms[i].calls = <<>> /\ ms[i].answers \in Patient!Calls /\ ms[i].answers[1] < i
  /\ ms[i].role # "tool" => ms[i].answers = None

\* The results on the way to m follow the message with their call.
Causal(ms, m) ==
  \A i \in LineTo(ms, m) : ms[i].role = "tool" =>
    /\ ms[i].answers[1] \in LineTo(ms, m)
    /\ \A j \in LineTo(ms, m) : ms[i].answers[1] < j /\ j < i =>
         ResultOf(ms, j, ms[i].answers[1]) \/ Notice(ms, j)
    /\ \A j \in LineTo(ms, m) : j # i => ms[j].answers # ms[i].answers

\* A run that stores results: those of its batch so far are on the way to its parent.
Filled(ms, e) ==
  /\ e.batch \in LineTo(ms, e.parent) /\ ms[e.batch].calls # <<>>
  /\ \A j \in LineTo(ms, e.parent) : j > e.batch => ResultOf(ms, j, e.batch) \/ Notice(ms, j)
  /\ \A k \in 1..MaxBatch :
       k <= e.stored <=> \E j \in LineTo(ms, e.parent) : ms[j].answers = <<e.batch, k>>
  /\ e.stored <= Len(ms[e.batch].calls)
  /\ e.done \subseteq 1..Len(ms[e.batch].calls)

AllCausal(ms) == \A m \in 1..Len(ms) : MessageOK(ms, m) /\ Causal(ms, m)

CausalInv ==
  /\ AllCausal(msgs)
  /\ \A r \in Runs : run[r].at \in {"executing", "replaying"} => Filled(msgs, run[r])

\* A line before a message was added is as it was.
LEMMA OldLine ==
  ASSUME ThreadTyped, NEW parent, NEW new, Added(parent, new), NEW m \in 0..Len(msgs)
  PROVE  /\ LineTo(msgs', m) = LineTo(msgs, m) /\ LineTo(msgs, m) \subseteq 1..Len(msgs)
         /\ \A i \in LineTo(msgs, m) : msgs'[i] = msgs[i]
<1>1. Tree(msgs) /\ Len(msgs) \in Nat /\ LineTo(msgs', m) = LineTo(msgs, m)
  BY DEF ThreadTyped, Added
<1>2. LineTo(msgs, m) \subseteq 1..m
  BY <1>1, LineFacts
<1>3. LineTo(msgs, m) \subseteq 1..Len(msgs)
  BY <1>1, <1>2
<1>4. \A i \in 1..Len(msgs) : msgs'[i] = msgs[i]
  BY DEF Added, Extends
<1> QED BY <1>1, <1>3, <1>4

\* A message that is added does not change the earlier lines.
LEMMA OldCausal ==
  ASSUME ThreadTyped, NEW parent, NEW new, Added(parent, new), NEW m \in 0..Len(msgs),
         AllCausal(msgs)
  PROVE  /\ Causal(msgs', m)
         /\ m # 0 => MessageOK(msgs', m)
<1>1. LineTo(msgs', m) = LineTo(msgs, m) /\ LineTo(msgs, m) \subseteq 1..Len(msgs)
      /\ \A i \in LineTo(msgs, m) : msgs'[i] = msgs[i]
  BY OldLine
<1>2. Causal(msgs, m)
  <2>1. CASE m = 0
    BY <2>1, LineStep DEF ThreadTyped, Causal
  <2>2. CASE m # 0
    BY <2>2, Typing DEF AllCausal
  <2> QED BY <2>1, <2>2
<1>3. Causal(msgs', m)
  BY <1>1, <1>2 DEF Causal, ResultOf, Notice
<1>4. m # 0 => MessageOK(msgs', m)
  <2>1. \A i \in 1..Len(msgs) : msgs'[i] = msgs[i]
    BY DEF Added, Extends
  <2> QED BY <2>1 DEF AllCausal, MessageOK
<1> QED BY <1>3, <1>4

\* A message that is no result.
LEMMA CausalGrows ==
  ASSUME ThreadTyped, NEW parent \in 0..Len(msgs), NEW new, Added(parent, new),
         AllCausal(msgs), new.role # "tool", new.answers = None
  PROVE  AllCausal(msgs')
<1> DEFINE n == Len(msgs)
<1>1. n \in Nat /\ Len(msgs') = n + 1 /\ msgs'[n + 1] = new
      /\ LineTo(msgs', n + 1) = {n + 1} \cup LineTo(msgs, parent)
  BY DEF Added
<1>2. LineTo(msgs', parent) = LineTo(msgs, parent) /\ LineTo(msgs, parent) \subseteq 1..n
      /\ \A i \in LineTo(msgs, parent) : msgs'[i] = msgs[i]
  BY OldLine
<1>3. Causal(msgs', parent)
  BY OldCausal
<1>4. MessageOK(msgs', n + 1)
  BY <1>1 DEF MessageOK
<1>5. Causal(msgs', n + 1)
  <2>1. ASSUME NEW i \in LineTo(msgs', n + 1), msgs'[i].role = "tool"
        PROVE  /\ msgs'[i].answers[1] \in LineTo(msgs', n + 1)
               /\ \A j \in LineTo(msgs', n + 1) : msgs'[i].answers[1] < j /\ j < i =>
                    ResultOf(msgs', j, msgs'[i].answers[1]) \/ Notice(msgs', j)
               /\ \A j \in LineTo(msgs', n + 1) : j # i => msgs'[j].answers # msgs'[i].answers
    <3>1. i \in LineTo(msgs', parent) /\ i \in 1..n
      BY <1>1, <1>2, <2>1
    <3>2. msgs'[i].answers \in Patient!Calls
      BY <1>1, <1>2, <2>1, <3>1 DEF AllCausal, MessageOK
    <3>3. msgs'[i].answers # None
      BY <3>2, Constants
    <3>4. msgs'[i].answers[1] \in LineTo(msgs', n + 1)
      BY <1>1, <1>2, <1>3, <2>1, <3>1 DEF Causal
    <3>5. ASSUME NEW j \in LineTo(msgs', n + 1), msgs'[i].answers[1] < j /\ j < i
          PROVE  ResultOf(msgs', j, msgs'[i].answers[1]) \/ Notice(msgs', j)
      <4>1. j \in LineTo(msgs', parent)
        BY <1>1, <1>2, <3>1, <3>5
      <4> QED BY <1>3, <2>1, <3>1, <3>5, <4>1 DEF Causal
    <3>6. ASSUME NEW j \in LineTo(msgs', n + 1), j # i PROVE msgs'[j].answers # msgs'[i].answers
      <4>1. CASE j = n + 1
        BY <1>1, <3>3, <4>1
      <4>2. CASE j # n + 1
        <5>1. j \in LineTo(msgs', parent)
          BY <1>1, <1>2, <4>2
        <5> QED BY <1>3, <2>1, <3>1, <3>6, <5>1 DEF Causal
      <4> QED BY <4>1, <4>2
    <3> QED BY <3>4, <3>5, <3>6
  <2> HIDE DEF n
  <2> QED BY <2>1 DEF Causal
<1> HIDE DEF n
<1>6. ASSUME NEW m \in 1..(n + 1) PROVE MessageOK(msgs', m) /\ Causal(msgs', m)
  <2>1. CASE m = n + 1
    BY <1>4, <1>5, <2>1
  <2>2. CASE m # n + 1
    <3>1. m \in 0..Len(msgs) /\ m # 0
      BY <1>1, <2>2 DEF n
    <3> QED BY <3>1, OldCausal
  <2> QED BY <2>1, <2>2
<1> QED BY <1>1, <1>6 DEF AllCausal

\* A result of the batch that a run fills.
LEMMA CausalStores ==
  ASSUME ThreadTyped, NEW parent \in 0..Len(msgs), NEW new, Added(parent, new),
         AllCausal(msgs), new.role = "tool", new.calls = <<>>,
         NEW e \in Patient!Run, Filled(msgs, e), e.parent = parent,
         e.stored + 1 \in 1..MaxBatch, new.answers = <<e.batch, e.stored + 1>>
  PROVE  AllCausal(msgs')
<1> DEFINE n == Len(msgs)
<1>0. e.stored \in Nat
  BY Constants DEF Patient!Run
<1>1. n \in Nat /\ Len(msgs') = n + 1 /\ msgs'[n + 1] = new /\ n + 1 <= MaxMessages
      /\ LineTo(msgs', n + 1) = {n + 1} \cup LineTo(msgs, parent)
  BY DEF Added
<1>2. LineTo(msgs', parent) = LineTo(msgs, parent) /\ LineTo(msgs, parent) \subseteq 1..n
      /\ \A i \in LineTo(msgs, parent) : msgs'[i] = msgs[i]
  BY OldLine
<1>3. Causal(msgs', parent)
  BY OldCausal
<1>4. /\ e.batch \in LineTo(msgs, parent) /\ e.batch \in 1..n
      /\ \A j \in LineTo(msgs, parent) :
           j > e.batch => ResultOf(msgs', j, e.batch) \/ Notice(msgs', j)
      /\ \A j \in LineTo(msgs, parent) : msgs'[j].answers # new.answers
  <2>1. e.batch \in LineTo(msgs, parent)
    BY DEF Filled
  <2>2. \A j \in LineTo(msgs, parent) :
          j > e.batch => ResultOf(msgs', j, e.batch) \/ Notice(msgs', j)
    BY <1>2 DEF Filled, ResultOf, Notice
  <2>3. ~ \E j \in LineTo(msgs, parent) : msgs[j].answers = <<e.batch, e.stored + 1>>
    BY <1>0, SMTT(40) DEF Filled
  <2> QED BY <1>2, <2>1, <2>2, <2>3
<1>5. new.answers \in Patient!Calls /\ new.answers[1] = e.batch
  BY <1>1, <1>4, Constants DEF Patient!Calls
<1>6. MessageOK(msgs', n + 1)
  BY <1>1, <1>4, <1>5 DEF MessageOK
<1>7. Causal(msgs', n + 1)
  <2>1. ASSUME NEW i \in LineTo(msgs', n + 1), msgs'[i].role = "tool"
        PROVE  /\ msgs'[i].answers[1] \in LineTo(msgs', n + 1)
               /\ \A j \in LineTo(msgs', n + 1) : msgs'[i].answers[1] < j /\ j < i =>
                    ResultOf(msgs', j, msgs'[i].answers[1]) \/ Notice(msgs', j)
               /\ \A j \in LineTo(msgs', n + 1) : j # i => msgs'[j].answers # msgs'[i].answers
    <3>1. CASE i = n + 1
      <4>1. msgs'[i].answers = new.answers /\ msgs'[i].answers[1] = e.batch
        BY <1>1, <1>5, <3>1
      <4>2. ASSUME NEW j \in LineTo(msgs', n + 1), j # i
            PROVE  j \in LineTo(msgs, parent)
        BY <1>1, <3>1, <4>2
      <4>3. \A j \in LineTo(msgs', n + 1) : e.batch < j /\ j < i => j # i /\ j > e.batch
        <5>1. \A j \in LineTo(msgs', n + 1) : j \in Int
          BY <1>1, <1>2
        <5> QED BY <1>1, <1>4, <3>1, <5>1
      <4> QED BY <1>1, <1>4, <4>1, <4>2, <4>3
    <3>2. CASE i # n + 1
      <4>1. i \in LineTo(msgs', parent) /\ i \in 1..n
        BY <1>1, <1>2, <2>1, <3>2
      <4>2. msgs'[i].answers[1] \in LineTo(msgs', n + 1)
        BY <1>1, <1>2, <1>3, <2>1, <4>1 DEF Causal
      <4>3. ASSUME NEW j \in LineTo(msgs', n + 1), msgs'[i].answers[1] < j /\ j < i
            PROVE  ResultOf(msgs', j, msgs'[i].answers[1]) \/ Notice(msgs', j)
        <5>1. j \in LineTo(msgs', parent)
          BY <1>1, <1>2, <4>1, <4>3
        <5> QED BY <1>3, <2>1, <4>1, <4>3, <5>1 DEF Causal
      <4>4. ASSUME NEW j \in LineTo(msgs', n + 1), j # i PROVE msgs'[j].answers # msgs'[i].answers
        <5>1. CASE j = n + 1
          BY <1>1, <1>2, <1>4, <4>1, <5>1
        <5>2. CASE j # n + 1
          <6>1. j \in LineTo(msgs', parent)
            BY <1>1, <1>2, <5>2
          <6> QED BY <1>3, <2>1, <4>1, <4>4, <6>1 DEF Causal
        <5> QED BY <5>1, <5>2
      <4> QED BY <4>2, <4>3, <4>4
    <3> QED BY <3>1, <3>2
  <2> HIDE DEF n
  <2> QED BY <2>1 DEF Causal
<1> HIDE DEF n
<1>8. ASSUME NEW m \in 1..(n + 1) PROVE MessageOK(msgs', m) /\ Causal(msgs', m)
  <2>1. CASE m = n + 1
    BY <1>6, <1>7, <2>1
  <2>2. CASE m # n + 1
    <3>1. m \in 0..Len(msgs) /\ m # 0
      BY <1>1, <2>2 DEF n
    <3> QED BY <3>1, OldCausal
  <2> QED BY <2>1, <2>2
<1> QED BY <1>1, <1>8 DEF AllCausal

\* The message Place adds,
LEMMA PlaceAdds ==
  ASSUME ThreadTyped, NEW r \in Runs, Patient!Place(r)
  PROVE  \/ (\E i \in 1..Len(msgs) : msgs[i].turn = TurnOf[r]) /\ msgs' = msgs /\ head' = head
         \/ /\ run[r].parent \in 0..Len(msgs)
            /\ Added(run[r].parent, [role |-> "user", parent |-> run[r].parent, turn |-> TurnOf[r],
                                     calls |-> <<>>, answers |-> None])
<1>1. CASE \E i \in DOMAIN msgs : msgs[i].turn = TurnOf[r]
  <2>1. DOMAIN msgs = 1..Len(msgs)
    BY Typing
  <2> QED BY <1>1, <2>1 DEF Patient!Place
<1>2. CASE ~ \E i \in DOMAIN msgs : msgs[i].turn = TurnOf[r]
  <2>1. "user" \in {"user", "assistant", "tool"} /\ TurnOf[r] \in Turns \cup {None}
        /\ None \in Patient!Calls \cup {None} /\ <<>> \in Batches \cup {<<>>}
        /\ run[r].parent \in 0..Len(msgs)
    BY Constants, Typing
  <2>2. Patient!Add("user", run[r].parent, TurnOf[r], <<>>, None)
    BY <1>2 DEF Patient!Place
  <2>3. Added(run[r].parent, [role |-> "user", parent |-> run[r].parent, turn |-> TurnOf[r],
                              calls |-> <<>>, answers |-> None])
    BY <2>1, <2>2, Adds, Zenon
  <2> QED BY <2>1, <2>3
<1> QED BY <1>1, <1>2

\* and the one Answer adds.
LEMMA AnswerAdds ==
  ASSUME ThreadTyped, NEW r \in Runs, Patient!Answer(r)
  PROVE  /\ run[r].parent \in 0..Len(msgs)
         /\ Added(run[r].parent, [role |-> "assistant", parent |-> run[r].parent, turn |-> None,
                                  calls |-> <<>>, answers |-> None])
<1>1. Patient!Add("assistant", run[r].parent, None, <<>>, None) /\ Patient!End(r)
      /\ run[r].parent \in 0..Len(msgs)
  BY Typing DEF Patient!Answer
<1> QED BY <1>1, NoticeDoes

\* A message that is no result of a call.
Plain(new) == new.role # "tool" /\ new.answers = None

\* Only Store adds a result.
LEMMA WhatIsAdded ==
  ASSUME ThreadTyped, SharedNext
  PROVE  \/ msgs' = msgs
         \/ \E parent, new : parent \in 0..Len(msgs) /\ Added(parent, new) /\ Plain(new)
         \/ \E r \in Runs : Patient!Store(r)
<1>1. ASSUME NEW r \in Runs, ReadsHead(r) \/ Enters(r) \/ Fails(r) PROVE msgs' = msgs
  BY <1>1 DEF ReadsHead, Enters, Fails
<1>2. MovesHead \/ Crashes \/ Restarts \/ Lapses => msgs' = msgs
  BY DEF MovesHead, Crashes, Restarts, Lapses
<1>3. ASSUME NEW r \in Runs,
             \/ (\E d \in Patient!Decisions : Patient!Decide(r, d))
             \/ Patient!StartLoop(r) \/ Patient!Read(r) \/ Patient!GiveUp(r)
             \/ Patient!Ask(r) \/ Patient!EndBatch(r)
      PROVE  msgs' = msgs
  BY <1>3 DEF Patient!Decide, Patient!StartLoop, Patient!Read, Patient!GiveUp, Patient!Ask,
              Patient!EndBatch
<1>4. ASSUME NEW r \in Runs,
             \/ Patient!Replay(r) \/ (\E i \in 1..MaxBatch : Patient!Execute(r, i))
             \/ Patient!Claim(r) \/ Patient!Load(r) \/ Patient!TakeParent(r) \/ Patient!Resolve(r)
      PROVE  msgs' = msgs
  BY <1>4 DEF Patient!Replay, Patient!Execute, Patient!Claim, Patient!Load,
              Patient!TakeParent, Patient!Resolve
<1>5. ASSUME NEW r \in Runs, Patient!Place(r)
      PROVE  \/ msgs' = msgs
             \/ \E parent, new : parent \in 0..Len(msgs) /\ Added(parent, new) /\ Plain(new)
  <2> DEFINE new == [role |-> "user", parent |-> run[r].parent, turn |-> TurnOf[r],
                     calls |-> <<>>, answers |-> None]
  <2>1. Plain(new)
    BY DEF Plain
  <2>2. msgs' = msgs \/ (run[r].parent \in 0..Len(msgs) /\ Added(run[r].parent, new))
    BY <1>5, PlaceAdds
  <2> HIDE DEF new
  <2> QED BY <2>1, <2>2
<1>6. ASSUME NEW r \in Runs, Patient!Answer(r)
      PROVE  \E parent, new : parent \in 0..Len(msgs) /\ Added(parent, new) /\ Plain(new)
  <2> DEFINE new == [role |-> "assistant", parent |-> run[r].parent, turn |-> None,
                     calls |-> <<>>, answers |-> None]
  <2>1. Plain(new)
    BY DEF Plain
  <2>2. run[r].parent \in 0..Len(msgs) /\ Added(run[r].parent, new)
    BY <1>6, AnswerAdds
  <2> HIDE DEF new
  <2> QED BY <2>1, <2>2
<1>7. ASSUME NEW r \in Runs, Patient!Outcome(r)
      PROVE  \E parent, new : parent \in 0..Len(msgs) /\ Added(parent, new) /\ Plain(new)
  BY <1>7, OutcomeDoes, Typing DEF Plain
<1>8. ASSUME NEW r \in Runs, NEW b \in Batches, Patient!Request(r, b)
      PROVE  \E parent, new : parent \in 0..Len(msgs) /\ Added(parent, new) /\ Plain(new)
  <2> DEFINE new == [role |-> "assistant", parent |-> run[r].parent, turn |-> None,
                     calls |-> b, answers |-> None]
  <2>1. Plain(new)
    BY DEF Plain
  <2>2. run[r].parent \in 0..Len(msgs) /\ Added(run[r].parent, new)
    BY <1>8, RequestAdds, Typing
  <2> HIDE DEF new
  <2> QED BY <2>1, <2>2
<1> QED BY <1>1, <1>2, <1>3, <1>4, <1>5, <1>6, <1>7, <1>8 DEF SharedNext, SharedRun

\* A message that is added elsewhere leaves a run's results in place.
LEMMA FilledStays ==
  ASSUME ThreadTyped, NEW e \in Patient!Run, e.parent \in 0..Len(msgs), Filled(msgs, e),
         msgs' = msgs \/ \E parent, new : Added(parent, new)
  PROVE  Filled(msgs', e)
<1>1. CASE msgs' = msgs
  BY <1>1
<1>2. ASSUME NEW parent, NEW new, Added(parent, new) PROVE Filled(msgs', e)
  <2>1. /\ LineTo(msgs', e.parent) = LineTo(msgs, e.parent)
        /\ \A i \in LineTo(msgs, e.parent) : msgs'[i] = msgs[i]
    BY <1>2, OldLine
  <2> QED BY <2>1 DEF Filled, ResultOf, Notice
<1> QED BY <1>1, <1>2

\* The runs that store results when a batch is asked for, and when one is replayed.
LEMMA NewIsFilled ==
  ASSUME ThreadTyped, AllCausal(msgs), NEW r \in Runs, NEW b \in Batches, Patient!Request(r, b),
         NEW e, e.parent = Len(msgs) + 1, e.batch = Len(msgs) + 1, e.stored = 0, e.done = {}
  PROVE  Filled(msgs', e)
<1> DEFINE n == Len(msgs)
<1>1. /\ LineTo(msgs, run[r].parent) \subseteq 1..n /\ b # <<>>
      /\ Added(run[r].parent, [role |-> "assistant", parent |-> run[r].parent, turn |-> None,
                               calls |-> b, answers |-> None])
  BY RequestAdds
<1>2. /\ n \in Nat /\ Len(msgs') = n + 1
      /\ msgs'[n + 1].calls = b /\ msgs'[n + 1].answers = None
      /\ LineTo(msgs', n + 1) = {n + 1} \cup LineTo(msgs, run[r].parent)
      /\ \A i \in 1..n : msgs'[i] = msgs[i]
  BY <1>1 DEF Added, Extends
<1>3. ASSUME NEW k \in 1..MaxBatch, NEW j \in LineTo(msgs', n + 1),
             msgs'[j].answers = <<n + 1, k>>
      PROVE  FALSE
  <2>1. CASE j = n + 1
    <3>1. <<n + 1, k>> = None /\ n + 1 \in 1..MaxMessages
      <4>1. n + 1 <= MaxMessages
        BY <1>1 DEF Added
      <4>2. n + 1 \in 1..MaxMessages
        BY <1>2, <4>1, Constants
      <4> HIDE DEF n
      <4>3. <<n + 1, k>> = None
        BY <1>2, <1>3, <2>1
      <4> QED BY <4>2, <4>3
    <3>2. <<n + 1, k>> \in Patient!Calls
      BY <3>1 DEF Patient!Calls
    <3> QED BY <3>1, <3>2, Constants
  <2>2. CASE j # n + 1
    <3>1. j \in 1..n /\ msgs[j].answers = <<n + 1, k>> /\ MessageOK(msgs, j)
      BY <1>1, <1>2, <1>3, <2>2 DEF AllCausal
    <3>2. CASE msgs[j].role = "tool"
      BY <1>2, <3>1, <3>2 DEF MessageOK
    <3>3. CASE msgs[j].role # "tool"
      <4>1. <<n + 1, k>> = None /\ n + 1 \in 1..MaxMessages
        BY <1>1, <1>2, <3>1, <3>3 DEF MessageOK, Added
      <4>2. <<n + 1, k>> \in Patient!Calls
        BY <4>1 DEF Patient!Calls
      <4> QED BY <4>1, <4>2, Constants
    <3> QED BY <3>2, <3>3
  <2> QED BY <2>1, <2>2
<1>4. \A j \in LineTo(msgs', n + 1) : ~ (j > n + 1)
  BY <1>1, <1>2
<1>5. \A k \in 1..MaxBatch : ~ (k <= 0)
  OBVIOUS
<1>6. 0 <= Len(msgs'[n + 1].calls)
  BY <1>2, Constants
<1> HIDE DEF n
<1> QED BY <1>1, <1>2, <1>3, <1>4, <1>5, <1>6 DEF Filled, n

\* A resumption begins without results of its batch.
LEMMA ReplayIsFilled ==
  ASSUME ThreadTyped, AllCausal(msgs), WaitInv, NEW r \in Runs, Patient!TakeParent(r),
         NEW e, e.parent = head, e.batch = run[r].batch, e.stored = 0, e.done = {}
  PROVE  Filled(msgs, e)
<1> DEFINE b == run[r].batch
<1>1. run[r].at = "loaded" /\ b = run[r].asked[1] /\ b \in Nat
  BY Typing DEF Patient!TakeParent, WaitInv
<1>2. b \in Awaited
  BY <1>1 DEF Awaited, AwaitedBy
<1>3. Waiting(msgs, b, head) /\ LineTo(msgs, head) \subseteq 1..Len(msgs)
  BY <1>2, HeadLine DEF WaitInv
<1>4. ASSUME NEW k \in 1..MaxBatch, NEW j \in LineTo(msgs, head), msgs[j].answers = <<b, k>>
      PROVE  FALSE
  <2>1. MessageOK(msgs, j) /\ j \in Nat
    BY <1>3 DEF AllCausal
  <2>2. CASE msgs[j].role = "tool"
    <3>1. b < j
      BY <1>4, <2>1, <2>2 DEF MessageOK
    <3> QED BY <1>1, <1>3, <2>1, <2>2, <3>1 DEF Waiting, Notice
  <2>3. CASE msgs[j].role # "tool"
    <3>1. <<b, k>> = None
      BY <1>4, <2>1, <2>3 DEF MessageOK
    <3>2. b \in 1..MaxMessages
      BY <1>3, Typing, Constants DEF Waiting
    <3>3. <<b, k>> \in Patient!Calls
      BY <3>2 DEF Patient!Calls
    <3> QED BY <3>1, <3>3, Constants
  <2> QED BY <2>2, <2>3
<1>5. b \in 1..Len(msgs)
  BY <1>3 DEF Waiting
<1>6. 0 <= Len(msgs[b].calls)
  BY <1>5, BatchTyping
<1>7. \A j \in LineTo(msgs, head) : j > b => Notice(msgs, j)
  BY <1>3 DEF Waiting
<1>8. b \in LineTo(msgs, head) /\ msgs[b].calls # <<>>
  BY <1>3 DEF Waiting
<1>9. \A k \in 1..MaxBatch : ~ (k <= 0)
  OBVIOUS
<1> HIDE DEF b
<1> QED BY <1>4, <1>6, <1>7, <1>8, <1>9 DEF Filled, b

\* It goes on from the result it stored.
LEMMA StoreIsFilled ==
  ASSUME ThreadTyped, NEW r \in Runs, Patient!Store(r), Filled(msgs, run[r]),
         NEW e, e.parent = Len(msgs) + 1, e.batch = run[r].batch, e.done = run[r].done,
         e.stored = run[r].stored + 1
  PROVE  Filled(msgs', e)
<1> DEFINE n == Len(msgs)
           o == run[r]
           c == <<o.batch, o.stored + 1>>
           new == [role |-> "tool", parent |-> o.parent, turn |-> None,
                   calls |-> <<>>, answers |-> c]
<1>1. /\ o.stored + 1 \in o.done /\ Added(o.parent, new) /\ n \in Nat /\ o.stored \in Nat
      /\ o.parent \in 0..n
  BY StoreDoes, Typing
<1>2. new.role = "tool" /\ new.answers = c /\ c[1] = o.batch
  OBVIOUS
<1> HIDE DEF new
<1>3. /\ LineTo(msgs', n + 1) = {n + 1} \cup LineTo(msgs, o.parent) /\ msgs'[n + 1] = new
      /\ LineTo(msgs, o.parent) \subseteq 1..n
      /\ \A i \in LineTo(msgs, o.parent) : msgs'[i] = msgs[i]
  BY <1>1, OldLine DEF Added
<1>4. /\ o.batch \in LineTo(msgs', n + 1) /\ msgs'[o.batch].calls # <<>>
      /\ msgs'[o.batch].calls = msgs[o.batch].calls
  BY <1>3 DEF Filled
<1>5. ASSUME NEW j \in LineTo(msgs', n + 1), j > o.batch
      PROVE  ResultOf(msgs', j, o.batch) \/ Notice(msgs', j)
  <2>1. CASE j = n + 1
    BY <1>2, <1>3, <2>1 DEF ResultOf
  <2>2. CASE j # n + 1
    BY <1>3, <1>5, <2>2 DEF Filled, ResultOf, Notice
  <2> QED BY <2>1, <2>2
<1>6. ASSUME NEW k \in 1..MaxBatch
      PROVE  k <= o.stored + 1 <=> \E j \in LineTo(msgs', n + 1) : msgs'[j].answers = <<o.batch, k>>
  <2>1. k <= o.stored <=> \E j \in LineTo(msgs, o.parent) : msgs[j].answers = <<o.batch, k>>
    BY DEF Filled
  <2>2. (\E j \in LineTo(msgs, o.parent) : msgs[j].answers = <<o.batch, k>>)
        <=> \E j \in LineTo(msgs, o.parent) : msgs'[j].answers = <<o.batch, k>>
    BY <1>3
  <2>3. msgs'[n + 1].answers = <<o.batch, k>> <=> k = o.stored + 1
    BY <1>2, <1>3
  <2>4. k <= o.stored + 1 <=> (k <= o.stored \/ k = o.stored + 1)
    BY <1>1
  <2> HIDE DEF n, o
  <2> QED BY <1>3, <2>1, <2>2, <2>3, <2>4
<1>7. o.stored + 1 <= Len(msgs[o.batch].calls) /\ o.done \subseteq 1..Len(msgs[o.batch].calls)
  BY <1>1 DEF Filled
<1> HIDE DEF n, o
<1> QED BY <1>4, <1>5, <1>6, <1>7 DEF Filled, n, o

\* Results follow their calls on every line, of any branch.
LEMMA CausalKeeps ==
  ASSUME ThreadTyped, WaitInv, CausalInv, SharedNext
  PROVE  CausalInv'
<1>0. Orderly /\ AllCausal(msgs)
  BY TypedKeeps DEF CausalInv
<1>1. AllCausal(msgs')
  <2>1. CASE msgs' = msgs
    BY <1>0, <2>1
  <2>2. ASSUME NEW parent \in 0..Len(msgs), NEW new, Added(parent, new), Plain(new)
        PROVE  AllCausal(msgs')
    BY <1>0, <2>2, CausalGrows DEF Plain
  <2>3. ASSUME NEW r \in Runs, Patient!Store(r) PROVE AllCausal(msgs')
    <3> DEFINE o == run[r]
               c == <<o.batch, o.stored + 1>>
               new == [role |-> "tool", parent |-> o.parent, turn |-> None,
                       calls |-> <<>>, answers |-> c]
    <3>1. /\ o.stored + 1 \in o.done /\ Added(o.parent, new)
          /\ o.parent \in 0..Len(msgs) /\ o \in Patient!Run /\ o.done \subseteq 1..MaxBatch
      BY <2>3, StoreDoes, Typing
    <3>2. Filled(msgs, o)
      BY <2>3 DEF Patient!Store, CausalInv
    <3>3. new.role = "tool" /\ new.calls = <<>> /\ new.answers = c
      OBVIOUS
    <3> HIDE DEF new
    <3>4. o.stored + 1 \in 1..MaxBatch
      BY <3>1
    <3> QED BY <1>0, <3>1, <3>2, <3>3, <3>4, CausalStores
  <2> QED BY <2>1, <2>2, <2>3, WhatIsAdded
<1>2. ASSUME NEW x \in Runs, run[x].at \in {"executing", "replaying"}
      PROVE  Filled(msgs', run[x])
  <2>1. Filled(msgs, run[x]) /\ run[x] \in Patient!Run /\ run[x].parent \in 0..Len(msgs)
    BY <1>2, Typing DEF CausalInv
  <2>2. msgs' = msgs \/ \E parent, new : Added(parent, new)
    BY <1>0 DEF Orderly
  <2> QED BY <2>1, <2>2, FilledStays
<1>3. ASSUME NEW x \in Runs, run'[x].at \in {"executing", "replaying"}
      PROVE  Filled(msgs', run'[x])
  <2>1. CASE BatchesStay
    BY <1>2, <1>3, <2>1 DEF BatchesStay, AtBatch
  <2>2. ASSUME NEW r \in Runs, NEW e, Becomes(r, e),
               e.at \in {"executing", "replaying"} => Filled(msgs', e)
        PROVE  Filled(msgs', run'[x])
    <3>1. run'[r] = e /\ (x # r => run'[x] = run[x])
      BY <1>0, <2>2, BecomesTyped
    <3> QED BY <1>2, <1>3, <2>2, <3>1
  <2>3. ASSUME NEW r \in Runs, BatchStep(r) PROVE Filled(msgs', run'[x])
    <3>1. ASSUME NEW b \in Batches, Patient!Request(r, b) PROVE Filled(msgs', run'[x])
      <4>1. PICK e : /\ Becomes(r, e) /\ e.parent = Len(msgs) + 1 /\ e.batch = Len(msgs) + 1
                     /\ e.stored = 0 /\ e.done = {}
        BY <3>1, RequestDoes
      <4>2. Filled(msgs', e)
        BY <1>0, <3>1, <4>1, NewIsFilled
      <4> QED BY <2>2, <4>1, <4>2
    <3>2. CASE Patient!Ask(r)
      BY <2>2, <3>2, AskIsOrderly DEF Blank
    <3>3. CASE Patient!Store(r)
      <4>1. PICK e : /\ Becomes(r, e) /\ e.parent = Len(msgs) + 1 /\ e.batch = run[r].batch
                     /\ e.done = run[r].done /\ e.stored = run[r].stored + 1
        BY <3>3, StoreDoes
      <4>2. Filled(msgs, run[r])
        BY <3>3 DEF Patient!Store, CausalInv
      <4>3. Filled(msgs', e)
        BY <3>3, <4>1, <4>2, StoreIsFilled
      <4> QED BY <2>2, <4>1, <4>3
    <3>4. CASE Patient!Replay(r) \/ \E j \in 1..MaxBatch : Patient!Execute(r, j)
      <4>1. PICK i, e :
              /\ i \in (1..MaxBatch) \ run[r].done
              /\ i <= Len(msgs[run[r].batch].calls) /\ run[r].batch \in 1..Len(msgs)
              /\ Becomes(r, e) /\ e.done = run[r].done \cup {i} /\ e.parent = run[r].parent
              /\ e.batch = run[r].batch /\ e.stored = run[r].stored
        BY <3>4, ToolRuns, ZenonT(60)
      <4>2. Filled(msgs, run[r]) /\ msgs' = msgs
        BY <3>4 DEF Patient!Replay, Patient!Execute, CausalInv
      <4>3. Len(msgs[run[r].batch].calls) \in Nat
        BY <4>1, BatchTyping
      <4>4. i \in 1..Len(msgs[run[r].batch].calls)
        BY <4>1, <4>3
      <4>5. Filled(msgs', e)
        BY <4>1, <4>2, <4>4 DEF Filled
      <4> QED BY <2>2, <4>1, <4>5
    <3>5. CASE Patient!Claim(r)
      BY <2>2, <3>5, ClaimIsOrderly DEF Moved, Blank
    <3>6. CASE Patient!Load(r)
      BY <2>2, <3>6, LoadKinds DEF Blank
    <3>7. CASE Patient!TakeParent(r)
      <4>1. run[r].at = "loaded" /\ msgs' = msgs /\ RunTyped(run[r], msgs, decided)
        BY <3>7, Typing DEF Patient!TakeParent
      <4>2. run[r].done = {} /\ run[r].stored = 0
        BY <4>1 DEF RunTyped
      <4>3. PICK e : /\ Becomes(r, e) /\ e.parent = head /\ e.batch = run[r].batch
                     /\ e.stored = 0 /\ e.done = {}
        BY <3>7, <4>2, TakeParentDoes
      <4>4. Filled(msgs', e)
        BY <1>0, <3>7, <4>1, <4>3, ReplayIsFilled
      <4> QED BY <2>2, <4>3, <4>4
    <3> QED BY <2>3, <3>1, <3>2, <3>3, <3>4, <3>5, <3>6, <3>7 DEF BatchStep
  <2> QED BY <2>1, <2>3, FewBatch
<1> QED BY <1>1, <1>3 DEF CausalInv

\* So they do in the history of the head.
LEMMA CausalShows ==
  ASSUME ThreadTyped, CausalInv
  PROVE  Patient!HistoryIsCausal
<1> DEFINE H == LineTo(msgs, head)
<1>1. Patient!Path(msgs, head) = H /\ H \subseteq 1..Len(msgs) /\ head \in 0..Len(msgs)
      /\ Tree(msgs)
  BY HeadLine DEF ThreadTyped, Patient!TypeOK
<1>2. Causal(msgs, head)
  <2>1. CASE head = 0
    BY <1>1, <2>1, LineStep DEF Causal
  <2>2. CASE head # 0
    BY <1>1, <2>2 DEF CausalInv, AllCausal, Tree
  <2> QED BY <2>1, <2>2
<1>3. ASSUME NEW i \in H, msgs[i].role = "tool", NEW j \in Patient!Between(H, i)
      PROVE  \/ Patient!OfTheBatch(i, j)
             \/ msgs[j].role = "assistant" /\ msgs[j].calls = <<>>
  <2>1. msgs[i].answers[1] \in H
    BY <1>2, <1>3 DEF Causal
  <2>2. j \in H /\ msgs[i].answers[1] < j /\ j < i
    BY <1>1, <1>3, <2>1 DEF Patient!Between, Tree
  <2> QED BY <1>2, <1>3, <2>2 DEF Causal, ResultOf, Notice, Patient!OfTheBatch
<1>4. \A i \in H : msgs[i].role = "tool" =>
        /\ msgs[i].answers[1] \in H
        /\ \A j \in H \ {i} : msgs[j].answers # msgs[i].answers
  BY <1>2 DEF Causal
<1> HIDE DEF H
<1> QED BY <1>1, <1>3, <1>4 DEF Patient!HistoryIsCausal

-----------------------------------------------------------------------------
(* What is missing in a history.                                           *)

\* The batches of S that have a call without a result in S.
Missing(ms, S) ==
  {b \in S : \E k \in 1..Len(ms[b].calls) : \A j \in S : ms[j].answers # <<b, k>>}

Leaf(ms, m) == m \in 1..Len(ms) /\ \A i \in 1..Len(ms) : ms[i].parent # m

\* The batches that a run fills, and those that are still to be completed.
FilledBy(e) == {b \in Nat : e.at \in {"executing", "replaying"} /\ b = e.batch}
Filling == {b \in Nat : \E r \in Runs : b \in FilledBy(run[r])}
Opened == Awaited \cup Filling

\* The leaves of the model are the ends of lines.
LEMMA LeavesAre ==
  Patient!Leaves = {m \in 1..Len(msgs) : Leaf(msgs, m)}
BY DEF Patient!Leaves, Leaf

\* What is requested in S and not answered there.
LEMMA MissingIs ==
  ASSUME ThreadTyped, NEW S, S \subseteq 1..Len(msgs)
  PROVE  {c[1] : c \in Patient!Requested(msgs, S) \ Patient!Answered(msgs, S)} = Missing(msgs, S)
<1>1. ASSUME NEW c \in Patient!Requested(msgs, S) \ Patient!Answered(msgs, S)
      PROVE  c[1] \in Missing(msgs, S)
  <2>1. c \in Patient!Calls /\ c[1] \in S /\ c[2] <= Len(msgs[c[1]].calls) /\ c # None
    BY Constants DEF Patient!Requested
  <2>2. c = <<c[1], c[2]>> /\ c[2] \in 1..MaxBatch
    BY <2>1 DEF Patient!Calls
  <2>3. Len(msgs[c[1]].calls) \in Nat
    BY <2>1, BatchTyping
  <2>4. c[2] \in 1..Len(msgs[c[1]].calls)
    BY <2>1, <2>2, <2>3, Constants
  <2>5. \A j \in S : msgs[j].answers # c
    BY <2>1 DEF Patient!Answered
  <2> QED BY <2>1, <2>2, <2>4, <2>5 DEF Missing
<1>2. ASSUME NEW b \in Missing(msgs, S)
      PROVE  \E c \in Patient!Requested(msgs, S) \ Patient!Answered(msgs, S) : c[1] = b
  <2>1. PICK k \in 1..Len(msgs[b].calls) : \A j \in S : msgs[j].answers # <<b, k>>
    BY DEF Missing
  <2>2. b \in S
    BY DEF Missing
  <2>3. Len(msgs[b].calls) \in 0..MaxBatch /\ b \in 1..MaxMessages
    BY <2>2, BatchTyping
  <2>4. k \in 1..MaxBatch
    BY <2>3, Constants
  <2>5. <<b, k>> \in Patient!Requested(msgs, S)
    BY <2>2, <2>3, <2>4 DEF Patient!Requested, Patient!Calls
  <2>6. <<b, k>> \notin Patient!Answered(msgs, S)
    BY <2>1 DEF Patient!Answered
  <2> QED BY <2>5, <2>6
<1> QED BY <1>1, <1>2

\* What is missing in a set of messages stays what it is.
LEMMA MissingStays ==
  ASSUME ThreadTyped, NEW S, S \subseteq 1..Len(msgs),
         msgs' = msgs \/ \E parent, new : Added(parent, new)
  PROVE  Missing(msgs', S) = Missing(msgs, S)
<1>1. \A i \in S : msgs'[i] = msgs[i]
  BY DEF Added, Extends
<1> QED BY <1>1 DEF Missing

\* A message that is added brings at most its own calls.
LEMMA MissingGrows ==
  ASSUME ThreadTyped, NEW parent \in 0..Len(msgs), NEW new, Added(parent, new),
         NEW b \in Missing(msgs', LineTo(msgs', Len(msgs) + 1))
  PROVE  b \in Missing(msgs, LineTo(msgs, parent)) \/ (b = Len(msgs) + 1 /\ new.calls # <<>>)
<1> DEFINE n == Len(msgs)
           L == LineTo(msgs, parent)
<1>1. n \in Nat /\ LineTo(msgs', n + 1) = {n + 1} \cup L /\ msgs'[n + 1] = new
  BY DEF Added
<1>2. L \subseteq 1..n /\ \A i \in L : msgs'[i] = msgs[i]
  BY OldLine
<1>3. b \in LineTo(msgs', n + 1)
  BY DEF Missing
<1>4. PICK k \in 1..Len(msgs'[b].calls) :
        \A j \in LineTo(msgs', n + 1) : msgs'[j].answers # <<b, k>>
  BY DEF Missing
<1>5. CASE b = n + 1
  <2>1. new.calls # <<>>
    <3>1. SUFFICES ASSUME new.calls = <<>> PROVE FALSE
      OBVIOUS
    <3> QED BY <1>1, <1>4, <1>5, <3>1
  <2> QED BY <1>5, <2>1
<1>6. CASE b # n + 1
  <2>1. b \in L /\ msgs'[b] = msgs[b]
    BY <1>1, <1>2, <1>3, <1>6
  <2>2. \A j \in L : msgs[j].answers # <<b, k>>
    BY <1>1, <1>2, <1>4
  <2> QED BY <1>4, <2>1, <2>2 DEF Missing
<1> QED BY <1>5, <1>6

\* The ends of lines when a message was added.
LEMMA LeavesGrow ==
  ASSUME ThreadTyped, NEW parent \in 0..Len(msgs), NEW new, Added(parent, new),
         new.parent = parent
  PROVE  /\ Leaf(msgs', Len(msgs) + 1)
         /\ \A m : Leaf(msgs', m) => m = Len(msgs) + 1 \/ (Leaf(msgs, m) /\ m # parent)
<1> DEFINE n == Len(msgs)
<1>1. n \in Nat /\ Len(msgs') = n + 1 /\ msgs'[n + 1].parent = parent
      /\ \A i \in 1..n : msgs'[i] = msgs[i]
  BY DEF Added, Extends
<1>2. \A i \in 1..n : msgs[i].parent \in 0..(i - 1)
  BY DEF ThreadTyped, Tree
<1>3. Leaf(msgs', n + 1)
  <2>1. ASSUME NEW i \in 1..(n + 1) PROVE msgs'[i].parent # n + 1
    <3>1. CASE i = n + 1
      BY <1>1, <3>1
    <3>2. CASE i # n + 1
      <4>1. i \in 1..n /\ msgs'[i] = msgs[i]
        BY <1>1, <3>2
      <4>2. msgs[i].parent \in 0..(i - 1)
        BY <1>2, <4>1
      <4> QED BY <1>1, <4>1, <4>2
    <3> QED BY <3>1, <3>2
  <2> QED BY <1>1, <2>1 DEF Leaf
<1>4. ASSUME NEW m, Leaf(msgs', m), m # n + 1 PROVE Leaf(msgs, m) /\ m # parent
  <2>1. m \in 1..(n + 1) /\ \A i \in 1..(n + 1) : msgs'[i].parent # m
    BY <1>1, <1>4 DEF Leaf
  <2>2. m \in 1..n /\ n + 1 \in 1..(n + 1)
    BY <1>1, <1>4, <2>1
  <2> QED BY <1>1, <2>1, <2>2 DEF Leaf
<1> QED BY <1>3, <1>4

\* A batch with all of its results.
LEMMA FilledIsWhole ==
  ASSUME ThreadTyped, NEW e \in Patient!Run, Filled(msgs, e), e.parent \in 0..Len(msgs),
         e.stored = Len(msgs[e.batch].calls), NEW S, LineTo(msgs, e.parent) \subseteq S
  PROVE  e.batch \notin Missing(msgs, S)
<1>1. SUFFICES ASSUME e.batch \in Missing(msgs, S) PROVE FALSE
  OBVIOUS
<1>2. PICK k \in 1..Len(msgs[e.batch].calls) : \A j \in S : msgs[j].answers # <<e.batch, k>>
  BY <1>1 DEF Missing
<1>3. e.batch \in 1..Len(msgs)
  BY LineFacts DEF Filled, ThreadTyped, Tree
<1>4. Len(msgs[e.batch].calls) \in 0..MaxBatch
  BY <1>3, BatchTyping
<1>5. k \in 1..MaxBatch /\ k <= e.stored
  BY <1>4, Constants
<1>6. \E j \in LineTo(msgs, e.parent) : msgs[j].answers = <<e.batch, k>>
  BY <1>5 DEF Filled
<1> QED BY <1>2, <1>6

\* A batch that was cut stays cut.
LEMMA CutGrows ==
  ASSUME SharedNext
  PROVE  cut \subseteq cut'
<1>1. ASSUME NEW r \in Runs, ReadsHead(r) \/ Enters(r) \/ Fails(r) PROVE cut \subseteq cut'
  BY <1>1 DEF ReadsHead, Enters, Fails
<1>2. MovesHead \/ Crashes \/ Restarts \/ Lapses => cut \subseteq cut'
  BY DEF MovesHead, Crashes, Restarts, Lapses
<1>3. ASSUME NEW r \in Runs,
             \/ Patient!Place(r) \/ (\E d \in Patient!Decisions : Patient!Decide(r, d))
             \/ Patient!StartLoop(r) \/ Patient!Read(r) \/ Patient!Answer(r) \/ Patient!GiveUp(r)
             \/ Patient!Outcome(r) \/ (\E b \in Batches : Patient!Request(r, b))
      PROVE  cut \subseteq cut'
  BY <1>3 DEF Patient!Place, Patient!Decide, Patient!StartLoop, Patient!Read, Patient!Answer,
              Patient!GiveUp, Patient!Outcome, Patient!Request
<1>4. ASSUME NEW r \in Runs,
             \/ Patient!Ask(r) \/ Patient!Store(r) \/ Patient!EndBatch(r)
             \/ (\E i \in 1..MaxBatch : Patient!Execute(r, i))
      PROVE  cut \subseteq cut'
  BY <1>4 DEF Patient!Ask, Patient!Store, Patient!EndBatch, Patient!Execute
<1>5. ASSUME NEW r \in Runs,
             \/ Patient!Claim(r) \/ Patient!Load(r) \/ Patient!TakeParent(r) \/ Patient!Replay(r)
             \/ Patient!Resolve(r)
      PROVE  cut \subseteq cut'
  BY <1>5 DEF Patient!Claim, Patient!Load, Patient!TakeParent, Patient!Replay, Patient!Resolve
<1> QED BY <1>1, <1>2, <1>3, <1>4, <1>5 DEF SharedNext, SharedRun

OpenBy(e) == AwaitedBy(e) \cup FilledBy(e)

\* A batch is open for an approval or for a run.
LEMMA OpenedIs ==
  /\ \A b \in Opened : /\ b \in Nat
                       /\ (pending # None /\ b = pending[1]) \/ \E x \in Runs : b \in OpenBy(run[x])
  /\ \A b \in Nat :
       (pending' # None /\ b = pending'[1]) \/ (\E x \in Runs : b \in OpenBy(run'[x]))
         => b \in Opened'
<1>1. ASSUME NEW b \in Opened
      PROVE  /\ b \in Nat
             /\ (pending # None /\ b = pending[1]) \/ \E x \in Runs : b \in OpenBy(run[x])
  BY DEF Opened, Awaited, Filling, OpenBy
<1>2. ASSUME NEW b \in Nat, pending' # None /\ b = pending'[1] PROVE b \in Opened'
  BY <1>2 DEF Opened, Awaited
<1>3. ASSUME NEW b \in Nat, NEW x \in Runs, b \in OpenBy(run'[x]) PROVE b \in Opened'
  BY <1>3 DEF Opened, Awaited, Filling, OpenBy
<1> QED BY <1>1, <1>2, <1>3

\* What of a run's batch is not complete when the run ends.
LEMMA OpenIsUnfinished ==
  ASSUME WaitInv, NEW r \in Runs
  PROVE  OpenBy(run[r]) \subseteq Patient!Unfinished(r)
<1>1. run[r].at = "replaying" => run[r].batch = run[r].asked[1]
  BY DEF WaitInv
<1> QED BY <1>1 DEF OpenBy, AwaitedBy, FilledBy, Patient!Unfinished

\* The results of a batch that is left are all stored.
LEMMA Closes ==
  ASSUME ThreadTyped, NEW r \in Runs, Patient!EndBatch(r) \/ Patient!Resolve(r)
  PROVE  /\ run[r].at \in {"executing", "replaying"} /\ UNCHANGED <<msgs, head, cut>>
         /\ CausalInv => run[r].stored = Len(msgs[run[r].batch].calls)
<1>1. run[r].at \in {"executing", "replaying"} /\ UNCHANGED <<msgs, head, cut>>
      /\ run[r].stored = Patient!BatchLen(r)
  BY DEF Patient!EndBatch, Patient!Resolve
<1>2. ASSUME CausalInv PROVE run[r].batch # 0
  <2>1. run[r].batch \in LineTo(msgs, run[r].parent) /\ run[r].parent \in 0..Len(msgs)
    BY <1>1, <1>2, Typing DEF CausalInv, Filled
  <2> QED BY <2>1, LineFacts, Typing
<1> QED BY <1>1, <1>2 DEF Patient!BatchLen

\* A batch that is open stays so until it is cut or has all results.
LEMMA OpenedMoves ==
  ASSUME ThreadTyped, OneAtWork, WaitInv, SharedNext, NEW b \in Opened
  PROVE  \/ b \in cut' \cup Opened'
         \/ \E r \in Runs : (Patient!EndBatch(r) \/ Patient!Resolve(r)) /\ b = run[r].batch
<1>0. Orderly
  BY TypedKeeps
<1>1. b \in Nat /\ ((pending # None /\ b = pending[1]) \/ \E x \in Runs : b \in OpenBy(run[x]))
  BY OpenedIs
<1>2. ASSUME NEW r \in Runs, NEW e, Becomes(r, e), pending' = pending \/ pending = None,
             b \in OpenBy(run[r]) => b \in OpenBy(e) \/ b \in cut'
      PROVE  b \in cut' \cup Opened'
  <2>1. run'[r] = e /\ \A x \in Runs : x # r => run'[x] = run[x]
    BY <1>0, <1>2, BecomesTyped
  <2>2. CASE pending # None /\ b = pending[1]
    BY <1>1, <1>2, <2>2, OpenedIs
  <2>3. ASSUME NEW x \in Runs, b \in OpenBy(run[x]) PROVE b \in cut' \cup Opened'
    <3>1. CASE x = r
      BY <1>1, <1>2, <2>1, <2>3, <3>1, OpenedIs
    <3>2. CASE x # r
      BY <1>1, <2>1, <2>3, <3>2, OpenedIs
    <3> QED BY <3>1, <3>2
  <2> QED BY <1>1, <2>2, <2>3
<1>3. CASE MovesHead \/ Restarts
  BY <1>1, <1>3, OpenedIs DEF MovesHead, Restarts
<1>4. CASE Lapses
  <2>1. run' = run /\ cut' = cut \cup {pending[1]}
    BY <1>4 DEF Lapses
  <2> QED BY <1>1, <2>1, OpenedIs
<1>5. CASE Crashes
  <2>1. pending' = pending /\ \A x \in Runs : Patient!Unfinished(x) \subseteq cut'
    BY <1>5 DEF Crashes
  <2> QED BY <1>1, <2>1, OpenedIs, OpenIsUnfinished
<1>6. ASSUME NEW r \in Runs, Fails(r) PROVE b \in cut' \cup Opened'
  <2>1. pending' = pending /\ Patient!Unfinished(r) \subseteq cut'
    BY <1>6 DEF Fails
  <2>2. PICK e : Becomes(r, e)
    BY <1>6, FailDoes
  <2> QED BY <1>2, <2>1, <2>2, OpenIsUnfinished
<1>7. ASSUME NEW r \in Runs,
             \/ ReadsHead(r) \/ Enters(r) \/ Patient!Place(r)
             \/ (\E d \in Patient!Decisions : Patient!Decide(r, d))
             \/ Patient!StartLoop(r) \/ Patient!Read(r) \/ Patient!Answer(r) \/ Patient!GiveUp(r)
             \/ Patient!Outcome(r) \/ (\E c \in Batches : Patient!Request(r, c))
      PROVE  b \in cut' \cup Opened'
  <2>1. /\ run[r].at \in {"idle", "queued", "placing", "starting", "reading", "thinking", "ending"}
        /\ pending' = pending
    BY <1>7 DEF ReadsHead, Enters, Patient!Place, Patient!Decide, Patient!StartLoop, Patient!Read,
       Patient!Answer, Patient!GiveUp, Patient!Outcome, Patient!Request
  <2>2. OpenBy(run[r]) = {}
    BY <2>1 DEF OpenBy, AwaitedBy, FilledBy
  <2>3. PICK e : Becomes(r, e)
    <3>1. ReadsHead(r) \/ Enters(r) \/ Fails(r) \/ SharedRun(r)
      BY <1>7 DEF SharedRun
    <3> QED BY <3>1, RunIsOrderly
  <2> QED BY <1>2, <2>1, <2>2, <2>3
<1>8. ASSUME NEW r \in Runs, Patient!Ask(r) PROVE b \in cut' \cup Opened'
  <2>1. PICK e : Becomes(r, e)
    BY <1>8, AskIsOrderly
  <2>2. run'[r] = e /\ \A x \in Runs : x # r => run'[x] = run[x]
    BY <1>0, <2>1, BecomesTyped
  <2>3. pending'[1] = run[r].batch /\ run[r].at = "asking" /\ pending' # None
    BY <1>8, AskCall, Constants
  <2>4. pending = None
    BY <2>3 DEF OneAtWork, Busy
  <2>5. b \in OpenBy(run[r]) => b = pending'[1]
    BY <2>3 DEF OpenBy, AwaitedBy, FilledBy
  <2> QED BY <1>1, <2>2, <2>3, <2>4, <2>5, OpenedIs
<1>9. ASSUME NEW r \in Runs, Patient!Store(r) PROVE b \in cut' \cup Opened'
  <2>1. PICK e : /\ Becomes(r, e) /\ e.at = run[r].at
                 /\ e.batch = run[r].batch /\ e.asked = run[r].asked
    BY <1>9, StoreDoes
  <2>2. OpenBy(e) = OpenBy(run[r]) /\ pending' = pending
    BY <1>9, <2>1 DEF OpenBy, AwaitedBy, FilledBy, Patient!Store
  <2> QED BY <1>2, <2>1, <2>2
<1>10. ASSUME NEW r \in Runs, Patient!Replay(r) \/ \E i \in 1..MaxBatch : Patient!Execute(r, i)
       PROVE  b \in cut' \cup Opened'
  <2>1. PICK e : /\ Becomes(r, e) /\ e.at = run[r].at
                 /\ e.batch = run[r].batch /\ e.asked = run[r].asked
    BY <1>10, ToolRuns
  <2>2. pending' = pending
    BY <1>10, ToolRuns
  <2>3. OpenBy(e) = OpenBy(run[r])
    BY <2>1 DEF OpenBy, AwaitedBy, FilledBy
  <2> QED BY <1>2, <2>1, <2>2, <2>3
<1>11. ASSUME NEW r \in Runs, Patient!Claim(r) PROVE b \in cut' \cup Opened'
  <2>0. OpenBy(run[r]) = {}
    BY <1>11 DEF Patient!Claim, OpenBy, AwaitedBy, FilledBy
  <2>1. ASSUME pending = run[r].asked, NEW e, Becomes(r, e), Moved(e, run[r], "claimed")
        PROVE  b \in cut' \cup Opened'
    <3>1. run'[r] = e /\ \A x \in Runs : x # r => run'[x] = run[x]
      BY <1>0, <2>1, BecomesTyped
    <3>2. b = pending[1] => b \in OpenBy(e)
      BY <1>1, <2>1 DEF Moved, OpenBy, AwaitedBy
    <3> QED BY <1>1, <2>0, <3>1, <3>2, OpenedIs
  <2>2. CASE pending' = pending /\ \E e : Becomes(r, e)
    BY <1>2, <2>0, <2>2
  <2> QED BY <1>11, <2>1, <2>2, ClaimIsOrderly
<1>12. ASSUME NEW r \in Runs, Patient!Load(r) PROVE b \in cut' \cup Opened'
  <2>1. run[r].at = "claimed" /\ pending = None
    BY <1>12 DEF Patient!Load, OneAtWork, Busy
  <2>2. OpenBy(run[r]) \subseteq {run[r].asked[1]}
    BY <2>1 DEF OpenBy, AwaitedBy, FilledBy
  <2>3. CASE Patient!ArgumentsLost(r)
    <3>1. run[r].asked[1] \in cut'
      BY <1>12, <2>3 DEF Patient!Load
    <3>2. \E e : Becomes(r, e)
      BY <1>12, LoadKinds
    <3> QED BY <1>2, <2>1, <2>2, <3>1, <3>2
  <2>4. CASE ~ Patient!ArgumentsLost(r)
    <3>1. PICK e : Becomes(r, e) /\ e.at = "loaded" /\ e.asked = run[r].asked
      BY <1>12, <2>4, LoadDoes
    <3>2. b \in OpenBy(run[r]) => b \in OpenBy(e)
      BY <1>1, <2>2, <3>1 DEF OpenBy, AwaitedBy
    <3> QED BY <1>2, <2>1, <3>1, <3>2
  <2> QED BY <2>3, <2>4
<1>13. ASSUME NEW r \in Runs, Patient!TakeParent(r) PROVE b \in cut' \cup Opened'
  <2>1. run[r].at = "loaded" /\ pending' = pending /\ run[r].batch = run[r].asked[1]
    BY <1>13 DEF Patient!TakeParent, WaitInv
  <2>2. PICK e : Becomes(r, e) /\ e.at = "replaying" /\ e.batch = run[r].batch
    BY <1>13, TakeParentDoes
  <2>3. OpenBy(run[r]) \subseteq OpenBy(e)
    BY <2>1, <2>2 DEF OpenBy, AwaitedBy, FilledBy
  <2> QED BY <1>2, <2>1, <2>2, <2>3
<1>14. ASSUME NEW r \in Runs, Patient!EndBatch(r) \/ Patient!Resolve(r), b # run[r].batch
       PROVE  b \in cut' \cup Opened'
  <2>1. run[r].at \in {"executing", "replaying"}
    BY <1>14, Closes
  <2>2. pending = None
    BY <2>1 DEF OneAtWork, Busy
  <2>3. b \notin OpenBy(run[r])
    BY <1>14, <2>1 DEF OpenBy, AwaitedBy, FilledBy
  <2>4. \E e : Becomes(r, e)
    BY <1>14, EndBatchDoes, ResolveDoes
  <2> QED BY <1>2, <2>2, <2>3, <2>4
<1>15. ASSUME NEW r \in Runs, ReadsHead(r) \/ Enters(r) \/ Fails(r) \/ SharedRun(r)
       PROVE  \/ b \in cut' \cup Opened'
              \/ (Patient!EndBatch(r) \/ Patient!Resolve(r)) /\ b = run[r].batch
  BY <1>6, <1>7, <1>8, <1>9, <1>10, <1>11, <1>12, <1>13, <1>14, <1>15 DEF SharedRun
<1> QED BY <1>3, <1>4, <1>5, <1>15 DEF SharedNext

-----------------------------------------------------------------------------
(* Histories that are complete.                                            *)

\* What is open beside a run at work is its own.
LEMMA OpenedAlone ==
  ASSUME OneAtWork
  PROVE  /\ Quiet => Opened = {}
         /\ \A r \in Runs : Busy(run[r]) => Opened \subseteq OpenBy(run[r])
<1>1. ASSUME Quiet PROVE Opened = {}
  <2>1. Filling = {}
    BY <1>1 DEF Quiet, Filling, FilledBy
  <2> QED BY <1>1, <2>1, QuietAwaits DEF Opened
<1>2. ASSUME NEW r \in Runs, Busy(run[r]), NEW b \in Opened PROVE b \in OpenBy(run[r])
  <2>1. pending = None /\ \A x \in Runs : Busy(run[x]) => x = r
    BY <1>2 DEF OneAtWork
  <2>2. PICK x \in Runs : b \in OpenBy(run[x])
    BY <2>1, OpenedIs
  <2>3. Busy(run[x])
    BY <2>2 DEF OpenBy, AwaitedBy, FilledBy, Busy
  <2> QED BY <2>1, <2>2, <2>3
<1> QED BY <1>1, <1>2

\* A step that adds a message, and one that moves the head.
Grows(r) ==
  \/ Patient!Place(r) \/ Patient!Answer(r) \/ Patient!Outcome(r)
  \/ (\E b \in Batches : Patient!Request(r, b)) \/ Patient!Store(r)

\* The steps that move the head or add a message.
LEMMA FewGrow ==
  ASSUME ThreadTyped, PatientNext
  PROVE  \/ msgs' = msgs /\ head' = head
         \/ Quiet /\ msgs' = msgs /\ (head' = head \/ Leaf(msgs, head'))
         \/ \E r \in Runs : Grows(r)
<1>1. CASE Chosen \/ \E r \in Runs : Asked(r)
  BY <1>1, LeavesAre DEF Chosen, Asked, MovesHead, ReadsHead
<1>2. Crashes \/ Restarts \/ Lapses => msgs' = msgs /\ head' = head
  BY DEF Crashes, Restarts, Lapses
<1>3. ASSUME NEW r \in Runs, Enters(r) \/ Fails(r)
      PROVE  msgs' = msgs /\ head' = head
  BY <1>3 DEF Enters, Fails
<1>4. ASSUME NEW r \in Runs,
             \/ (\E d \in Patient!Decisions : Patient!Decide(r, d))
             \/ Patient!StartLoop(r) \/ Patient!Read(r) \/ Patient!GiveUp(r)
             \/ Patient!Ask(r) \/ Patient!EndBatch(r)
      PROVE  msgs' = msgs /\ head' = head
  BY <1>4 DEF Patient!Decide, Patient!StartLoop, Patient!Read, Patient!GiveUp, Patient!Ask,
              Patient!EndBatch
<1>5. ASSUME NEW r \in Runs,
             \/ Patient!Replay(r) \/ (\E i \in 1..MaxBatch : Patient!Execute(r, i))
             \/ Patient!Claim(r) \/ Patient!Load(r) \/ Patient!TakeParent(r) \/ Patient!Resolve(r)
      PROVE  msgs' = msgs /\ head' = head
  BY <1>5 DEF Patient!Replay, Patient!Execute, Patient!Claim, Patient!Load,
              Patient!TakeParent, Patient!Resolve
<1> QED BY <1>1, <1>2, <1>3, <1>4, <1>5 DEF PatientNext, SharedRun, Grows

\* A run that has a way to a message keeps it as it is.
WayAt == {"placing", "reading", "thinking", "executing", "replaying"}
WaysStay ==
  \A x \in Runs : /\ run'[x].seen = {} \/ run'[x].seen = run[x].seen
                  /\ run'[x].at \in WayAt => run'[x] = run[x]

WayStep(r) ==
  \/ Asked(r) \/ Patient!StartLoop(r) \/ Patient!Read(r)
  \/ (\E b \in Batches : Patient!Request(r, b)) \/ Patient!Store(r)
  \/ Patient!Replay(r) \/ (\E i \in 1..MaxBatch : Patient!Execute(r, i))
  \/ Patient!TakeParent(r) \/ Patient!EndBatch(r)

\* The steps that change what a run goes on from.
LEMMA FewWays ==
  ASSUME ThreadTyped, PatientNext, SharedNext
  PROVE  WaysStay \/ \E r \in Runs : WayStep(r)
<1>0. Orderly
  BY TypedKeeps
<1>1. ASSUME NEW r \in Runs, NEW e, Becomes(r, e), e.at \notin WayAt,
             e.seen = {} \/ e.seen = run[r].seen
      PROVE  WaysStay
  BY <1>0, <1>1, BecomesTyped DEF WaysStay
<1>2. CASE Chosen \/ Restarts \/ Lapses
  BY <1>2 DEF Chosen, MovesHead, Restarts, Lapses, WaysStay
<1>3. CASE Crashes
  BY <1>3, CrashIsOrderly DEF WaysStay, Blank, WayAt
<1>4. ASSUME NEW r \in Runs, Enters(r) \/ Fails(r) PROVE WaysStay
  BY <1>1, <1>4, EnterDoes, FailDoes DEF Blank, Moved, WayAt
<1>5. ASSUME NEW r \in Runs,
             \/ Patient!Place(r) \/ (\E d \in Patient!Decisions : Patient!Decide(r, d))
             \/ Patient!Answer(r) \/ Patient!Outcome(r) \/ Patient!Ask(r) \/ Patient!Resolve(r)
      PROVE  WaysStay
  <2>1. CASE Patient!Place(r)
    BY <1>1, <2>1, PlaceIsOrderly DEF Blank, WayAt
  <2>2. CASE Patient!Answer(r) \/ Patient!Outcome(r)
    BY <1>1, <2>2, NoticeIsOrderly DEF Blank, WayAt
  <2>3. CASE \E d \in Patient!Decisions : Patient!Decide(r, d)
    BY <1>1, <2>3, DecideDoes DEF WayAt
  <2>4. CASE Patient!Ask(r)
    BY <1>1, <2>4, AskIsOrderly DEF Blank, WayAt
  <2>5. CASE Patient!Resolve(r)
    BY <1>1, <2>5, ResolveDoes DEF Blank, WayAt
  <2> QED BY <1>5, <2>1, <2>2, <2>3, <2>4, <2>5
<1>6. ASSUME NEW r \in Runs, Patient!GiveUp(r) PROVE WaysStay
  <2>1. Patient!Move(r, "ending") /\ msgs' = msgs /\ decided' = decided
    BY <1>6 DEF Patient!GiveUp
  <2>2. \E e : Becomes(r, e) /\ Moved(e, run[r], "ending")
    BY <2>1, MoveDoes
  <2> QED BY <1>1, <2>2 DEF Moved, WayAt
<1>7. ASSUME NEW r \in Runs, Patient!Claim(r) PROVE WaysStay
  BY <1>1, <1>7, ClaimIsOrderly DEF Moved, Blank, WayAt
<1>8. ASSUME NEW r \in Runs, Patient!Load(r) PROVE WaysStay
  BY <1>1, <1>8, LoadKinds DEF Blank, WayAt
<1> QED BY <1>2, <1>3, <1>4, <1>5, <1>6, <1>7, <1>8 DEF PatientNext, SharedRun, WayStep

\* Batch b is on the way to no end of a line but m.
OnlyAt(ms, b, m) == \A x \in 1..Len(ms) : Leaf(ms, x) /\ b \in LineTo(ms, x) => x = m

\* What the model was sent, and the way to the message a run goes on from, has a result
\* for every call but those of the batches that were cut and of the one it fills.
SeenWhole(ms, e, c) == e.seen \subseteq 1..Len(ms) /\ Missing(ms, e.seen) \subseteq c
WayWhole(ms, e, c) ==
  /\ e.at \in {"placing", "reading", "thinking"} => Missing(ms, LineTo(ms, e.parent)) \subseteq c
  /\ e.at \in {"executing", "replaying"} =>
       Missing(ms, LineTo(ms, e.parent)) \subseteq c \cup {e.batch}

\* The batch a run fills is on no other way until all its results are stored.
WayEnds(ms, e, c) ==
  e.at \in {"executing", "replaying"} /\ e.batch \notin c =>
    \A x \in 1..Len(ms) : Leaf(ms, x) /\ e.batch \in LineTo(ms, x) =>
      /\ e.parent \in LineTo(ms, x)
      /\ e.stored < Len(ms[e.batch].calls) => x = e.parent

LeavesWhole ==
  \A x \in 1..Len(msgs) : Leaf(msgs, x) => Missing(msgs, LineTo(msgs, x)) \subseteq cut \cup Opened

CompleteInv ==
  /\ head = 0 \/ Leaf(msgs, head)
  /\ LeavesWhole
  /\ \A b \in Awaited : b \in cut \/ OnlyAt(msgs, b, head)
  /\ \A r \in Runs : /\ SeenWhole(msgs, run[r], cut) /\ WayWhole(msgs, run[r], cut)
                     /\ WayEnds(msgs, run[r], cut)

\* On the line to the head only what is open or cut is missing.
LEMMA HeadIsWhole ==
  ASSUME ThreadTyped, CompleteInv
  PROVE  Missing(msgs, LineTo(msgs, head)) \subseteq cut \cup Opened
<1>1. CASE head = 0
  BY <1>1, LineStep DEF ThreadTyped, Missing
<1>2. CASE head # 0
  BY <1>2 DEF CompleteInv, LeavesWhole, Leaf
<1> QED BY <1>1, <1>2

\* What a new message is put behind.
LEMMA WhereItGrows ==
  ASSUME ThreadTyped, OneAtWork, WaitInv, CompleteInv, SharedNext, NEW r \in Runs, Grows(r)
  PROVE  \/ msgs' = msgs /\ head' = head
         \/ \E parent, new :
              /\ parent \in 0..Len(msgs) /\ Added(parent, new) /\ new.parent = parent
              /\ \A b \in Missing(msgs, LineTo(msgs, parent)) : b \in cut' \cup Opened'
              /\ new.calls # <<>> => Len(msgs) + 1 \in Opened'
<1>0. Orderly /\ cut \subseteq cut'
  BY TypedKeeps, CutGrows
<1>1. CASE Patient!Place(r) \/ Patient!Answer(r)
  <2>1. run[r].at \in {"placing", "thinking"}
    BY <1>1 DEF Patient!Place, Patient!Answer
  <2>2. Missing(msgs, LineTo(msgs, run[r].parent)) \subseteq cut'
    BY <1>0, <2>1 DEF CompleteInv, WayWhole
  <2>3. ASSUME NEW role, NEW tn,
               run[r].parent \in 0..Len(msgs),
               Added(run[r].parent, [role |-> role, parent |-> run[r].parent, turn |-> tn,
                                     calls |-> <<>>, answers |-> None])
        PROVE  \E parent, new :
                 /\ parent \in 0..Len(msgs) /\ Added(parent, new) /\ new.parent = parent
                 /\ \A b \in Missing(msgs, LineTo(msgs, parent)) : b \in cut' \cup Opened'
                 /\ new.calls # <<>> => Len(msgs) + 1 \in Opened'
    <3> DEFINE new == [role |-> role, parent |-> run[r].parent, turn |-> tn,
                       calls |-> <<>>, answers |-> None]
    <3>1. Added(run[r].parent, new) /\ new.parent = run[r].parent /\ new.calls = <<>>
      BY <2>3
    <3> HIDE DEF new
    <3> QED BY <2>2, <2>3, <3>1
  <2> QED BY <1>1, <2>3, PlaceAdds, AnswerAdds
<1>2. CASE Patient!Outcome(r)
  <2>1. PICK new : Added(head, new) /\ new.calls = <<>> /\ new.parent = head
    BY <1>2, OutcomeDoes
  <2>2. head \in 0..Len(msgs) /\ LineTo(msgs, head) \subseteq 1..Len(msgs)
        /\ Patient!Path(msgs, head) = LineTo(msgs, head)
    BY HeadLine, Typing
  <2>3. Missing(msgs, LineTo(msgs, head)) \subseteq cut'
    BY <1>2, <2>2, MissingIs DEF Patient!Outcome
  <2> QED BY <2>1, <2>2, <2>3
<1>3. ASSUME NEW c \in Batches, Patient!Request(r, c)
      PROVE  \E parent, new :
               /\ parent \in 0..Len(msgs) /\ Added(parent, new) /\ new.parent = parent
               /\ \A b \in Missing(msgs, LineTo(msgs, parent)) : b \in cut' \cup Opened'
               /\ new.calls # <<>> => Len(msgs) + 1 \in Opened'
  <2> DEFINE new == [role |-> "assistant", parent |-> run[r].parent, turn |-> None,
                     calls |-> c, answers |-> None]
  <2>1. Added(run[r].parent, new) /\ new.parent = run[r].parent /\ run[r].parent \in 0..Len(msgs)
        /\ Len(msgs) \in Nat
    BY <1>3, RequestAdds, Typing
  <2>2. run[r].at = "thinking"
    BY <1>3 DEF Patient!Request
  <2>3. Missing(msgs, LineTo(msgs, run[r].parent)) \subseteq cut'
    BY <1>0, <2>2 DEF CompleteInv, WayWhole
  <2>4. PICK e : Becomes(r, e) /\ e.at \in {"asking", "executing"} /\ e.batch = Len(msgs) + 1
    BY <1>3, RequestDoes
  <2>5. run'[r] = e
    BY <1>0, <2>4, BecomesTyped
  <2>6. Len(msgs) + 1 \in OpenBy(e) /\ Len(msgs) + 1 \in Nat
    BY <2>1, <2>4 DEF OpenBy, AwaitedBy, FilledBy
  <2>7. Len(msgs) + 1 \in Opened'
    BY <2>5, <2>6, OpenedIs
  <2> HIDE DEF new
  <2> QED BY <2>1, <2>3, <2>7
<1>4. CASE Patient!Store(r)
  <2> DEFINE o == run[r]
             new == [role |-> "tool", parent |-> o.parent, turn |-> None,
                     calls |-> <<>>, answers |-> <<o.batch, o.stored + 1>>]
  <2>1. /\ Added(o.parent, new) /\ new.parent = o.parent /\ new.calls = <<>>
        /\ o.parent \in 0..Len(msgs)
    BY <1>4, StoreDoes, Typing
  <2>2. o.at \in {"executing", "replaying"} /\ o.batch \in Nat
    BY <1>4, Typing DEF Patient!Store
  <2>3. Missing(msgs, LineTo(msgs, o.parent)) \subseteq cut' \cup {o.batch}
    BY <1>0, <2>2 DEF CompleteInv, WayWhole
  <2>4. PICK e : Becomes(r, e) /\ e.at = o.at /\ e.batch = o.batch
    BY <1>4, StoreDoes
  <2>5. run'[r] = e
    BY <1>0, <2>4, BecomesTyped
  <2>6. o.batch \in OpenBy(e)
    BY <2>2, <2>4 DEF OpenBy, FilledBy
  <2>7. o.batch \in Opened'
    BY <2>2, <2>5, <2>6, OpenedIs
  <2> HIDE DEF new, o
  <2> QED BY <2>1, <2>3, <2>7
<1> QED BY <1>1, <1>2, <1>3, <1>4 DEF Grows

\* The head stays the end of a line,
LEMMA HeadKeeps ==
  ASSUME ThreadTyped, OneAtWork, WaitInv, CompleteInv, PatientNext, SharedNext
  PROVE  head' = 0 \/ Leaf(msgs', head')
<1>1. CASE msgs' = msgs /\ head' = head
  BY <1>1 DEF CompleteInv
<1>2. CASE msgs' = msgs /\ Leaf(msgs, head')
  BY <1>2
<1>3. ASSUME NEW r \in Runs, Grows(r) PROVE head' = 0 \/ Leaf(msgs', head')
  <2>1. ASSUME NEW parent \in 0..Len(msgs), NEW new, Added(parent, new), new.parent = parent
        PROVE  Leaf(msgs', head')
    <3>1. Leaf(msgs', Len(msgs) + 1) /\ head' = Len(msgs) + 1
      BY <2>1, LeavesGrow DEF Added
    <3> QED BY <3>1
  <2> QED BY <1>1, <1>3, <2>1, WhereItGrows
<1> QED BY <1>1, <1>2, <1>3, FewGrow

\* the lines stay whole,
LEMMA LeavesKeep ==
  ASSUME ThreadTyped, OneAtWork, WaitInv, CausalInv, CompleteInv, PatientNext, SharedNext
  PROVE  LeavesWhole'
<1>0. Orderly /\ cut \subseteq cut'
  BY TypedKeeps, CutGrows
<1>1. ASSUME NEW x \in 1..Len(msgs), Leaf(msgs, x), NEW b \in Missing(msgs, LineTo(msgs, x))
      PROVE  b \in cut' \cup Opened'
  <2>1. b \in cut \cup Opened
    BY <1>1 DEF CompleteInv, LeavesWhole
  <2>2. CASE b \in cut
    BY <1>0, <2>2
  <2>3. ASSUME NEW r \in Runs, Patient!EndBatch(r) \/ Patient!Resolve(r), b = run[r].batch,
               b \notin cut
        PROVE  FALSE
    <3>1. run[r].at \in {"executing", "replaying"} /\ CausalInv
          /\ run[r].stored = Len(msgs[run[r].batch].calls)
      BY <2>3, Closes
    <3>2. Filled(msgs, run[r]) /\ run[r] \in Patient!Run /\ run[r].parent \in 0..Len(msgs)
      BY <3>1, Typing DEF CausalInv
    <3>3. b \in LineTo(msgs, x)
      BY <1>1 DEF Missing
    <3>4. run[r].parent \in LineTo(msgs, x)
      BY <1>1, <2>3, <3>1, <3>3 DEF CompleteInv, WayEnds
    <3>5. LineTo(msgs, run[r].parent) \subseteq LineTo(msgs, x)
      BY <3>4, LineFacts DEF ThreadTyped, Tree
    <3>6. run[r].batch \notin Missing(msgs, LineTo(msgs, x))
      BY <3>1, <3>2, <3>5, FilledIsWhole
    <3> QED BY <1>1, <2>3, <3>6
  <2>4. CASE b \in Opened /\ b \notin cut
    BY <2>3, <2>4, OpenedMoves
  <2> QED BY <2>1, <2>2, <2>4
<1>2. CASE msgs' = msgs
  BY <1>1, <1>2 DEF LeavesWhole
<1>3. ASSUME NEW r \in Runs, Grows(r), msgs' # msgs PROVE LeavesWhole'
  <2> DEFINE n == Len(msgs)
  <2>1. PICK parent, new :
          /\ parent \in 0..n /\ Added(parent, new) /\ new.parent = parent
          /\ \A b \in Missing(msgs, LineTo(msgs, parent)) : b \in cut' \cup Opened'
          /\ new.calls # <<>> => n + 1 \in Opened'
    BY <1>3, WhereItGrows
  <2>2. ASSUME NEW x \in 1..Len(msgs'), Leaf(msgs', x), NEW b \in Missing(msgs', LineTo(msgs', x))
        PROVE  b \in cut' \cup Opened'
    <3>1. CASE x = n + 1
      BY <2>1, <2>2, <3>1, MissingGrows
    <3>2. CASE x # n + 1
      <4>1. Leaf(msgs, x)
        BY <2>1, <2>2, <3>2, LeavesGrow
      <4>2. x \in 1..n /\ x \in 0..n
        BY <4>1 DEF Leaf
      <4>3. LineTo(msgs', x) = LineTo(msgs, x) /\ LineTo(msgs, x) \subseteq 1..n
        BY <2>1, <4>2, OldLine
      <4>4. Missing(msgs', LineTo(msgs', x)) = Missing(msgs, LineTo(msgs, x))
        BY <2>1, <4>3, MissingStays
      <4> QED BY <1>1, <2>2, <4>1, <4>2, <4>4
    <3> QED BY <3>1, <3>2
  <2> QED BY <2>2 DEF LeavesWhole
<1> QED BY <1>2, <1>3, FewGrow

\* and a batch that is awaited stays on one of them.
LEMMA OnlyKeeps ==
  ASSUME ThreadTyped, OneAtWork, WaitInv, CompleteInv, PatientNext, SharedNext, NEW b \in Awaited'
  PROVE  b \in cut' \/ OnlyAt(msgs', b, head')
<1>0. Orderly /\ cut \subseteq cut'
  BY TypedKeeps, CutGrows
<1>1. CASE b \in Awaited
  <2>1. b \in cut \/ OnlyAt(msgs, b, head)
    BY <1>1 DEF CompleteInv
  <2>2. CASE msgs' = msgs /\ head' = head
    BY <1>0, <2>1, <2>2
  <2>3. ASSUME NEW r \in Runs, Patient!Outcome(r), OnlyAt(msgs, b, head)
        PROVE  OnlyAt(msgs', b, head')
    <3>1. PICK new : Added(head, new) /\ new.parent = head
      BY <2>3, OutcomeDoes
    <3>2. head \in 0..Len(msgs) /\ head' = Len(msgs) + 1
      BY <3>1, Typing, <2>3 DEF Added
    <3>3. ASSUME NEW x \in 1..Len(msgs'), Leaf(msgs', x), b \in LineTo(msgs', x), x # head'
          PROVE  FALSE
      <4>1. Leaf(msgs, x) /\ x # head
        BY <3>1, <3>2, <3>3, LeavesGrow
      <4>2. x \in 1..Len(msgs) /\ x \in 0..Len(msgs)
        BY <4>1 DEF Leaf
      <4>3. b \in LineTo(msgs, x)
        BY <3>1, <3>2, <3>3, <4>2, OldLine
      <4> QED BY <2>3, <4>1, <4>2, <4>3 DEF OnlyAt
    <3> QED BY <3>3 DEF OnlyAt
  <2> QED BY <1>0, <1>1, <2>1, <2>2, <2>3, HeadMoves
<1>2. CASE b \notin Awaited
  <2>1. PICK r \in Runs, c \in Batches : Patient!Request(r, c) /\ b = Len(msgs) + 1
    BY <1>2, AwaitedMoves
  <2> DEFINE new == [role |-> "assistant", parent |-> run[r].parent, turn |-> None,
                     calls |-> c, answers |-> None]
  <2>2. Added(run[r].parent, new) /\ new.parent = run[r].parent /\ run[r].parent \in 0..Len(msgs)
    BY <2>1, RequestAdds, Typing
  <2> HIDE DEF new
  <2>3. head' = Len(msgs) + 1 /\ Len(msgs) \in Nat
    BY <2>2 DEF Added
  <2>4. ASSUME NEW x \in 1..Len(msgs'), Leaf(msgs', x), b \in LineTo(msgs', x), x # head'
        PROVE  FALSE
    <3>1. Leaf(msgs, x)
      BY <2>2, <2>3, <2>4, LeavesGrow
    <3>2. x \in 1..Len(msgs) /\ x \in 0..Len(msgs)
      BY <3>1 DEF Leaf
    <3>3. b \in 1..Len(msgs)
      BY <2>2, <2>4, <3>2, OldLine
    <3> QED BY <2>1, <2>3, <3>3
  <2> QED BY <2>4 DEF OnlyAt
<1> QED BY <1>1, <1>2

\* A run that stays as it is, while messages are added and batches are cut.
LEMMA SeenStays ==
  ASSUME ThreadTyped, SharedNext, NEW e, SeenWhole(msgs, e, cut)
  PROVE  SeenWhole(msgs', e, cut')
<1>1. /\ cut \subseteq cut' /\ Extends(msgs, msgs') /\ Len(msgs) \in Nat /\ Len(msgs') \in Nat
      /\ Orderly
  BY TypedKeeps, CutGrows DEF ThreadTyped, Tree
<1>2. e.seen \subseteq 1..Len(msgs) /\ Missing(msgs, e.seen) \subseteq cut
  BY DEF SeenWhole
<1>3. Missing(msgs', e.seen) = Missing(msgs, e.seen)
  BY <1>1, <1>2, MissingStays DEF Orderly
<1>4. e.seen \subseteq 1..Len(msgs')
  BY <1>1, <1>2 DEF Extends
<1> QED BY <1>1, <1>2, <1>3, <1>4 DEF SeenWhole

\* A run that sent nothing to the model.
LEMMA NothingSeen ==
  ASSUME NEW ms, NEW e, e.seen = {}, NEW c
  PROVE  SeenWhole(ms, e, c)
BY DEF SeenWhole, Missing

\* A message that is added elsewhere leaves the way of a run whole.
LEMMA WayStays ==
  ASSUME ThreadTyped, SharedNext, NEW e, e.parent \in 0..Len(msgs), WayWhole(msgs, e, cut)
  PROVE  /\ WayWhole(msgs', e, cut')
         /\ Missing(msgs', LineTo(msgs', e.parent)) = Missing(msgs, LineTo(msgs, e.parent))
<1>1. cut \subseteq cut' /\ (msgs' = msgs \/ \E parent, new : Added(parent, new))
  BY TypedKeeps, CutGrows DEF Orderly
<1>2. LineTo(msgs', e.parent) = LineTo(msgs, e.parent)
  BY <1>1, OldLine
<1>3. LineTo(msgs, e.parent) \subseteq 1..Len(msgs)
  <2>1. LineTo(msgs, e.parent) \subseteq 1..e.parent
    BY LineFacts DEF ThreadTyped
  <2> QED BY <2>1 DEF ThreadTyped, Tree
<1>4. Missing(msgs', LineTo(msgs', e.parent)) = Missing(msgs, LineTo(msgs, e.parent))
  BY <1>1, <1>2, <1>3, MissingStays
<1> QED BY <1>1, <1>4 DEF WayWhole

\* What the model is sent is whole,
LEMMA SeenKeeps ==
  ASSUME ThreadTyped, OneAtWork, WaitInv, CompleteInv, PatientNext, SharedNext, NEW x \in Runs
  PROVE  SeenWhole(msgs', run'[x], cut')
<1>0. Orderly /\ \A w \in Runs : SeenWhole(msgs', run[w], cut')
  BY TypedKeeps, SeenStays DEF CompleteInv
<1>1. CASE run'[x].seen = {} \/ run'[x].seen = run[x].seen
  BY <1>0, <1>1, NothingSeen DEF SeenWhole
<1>2. ASSUME NEW r \in Runs, NEW e, Becomes(r, e),
             e.seen = {} \/ e.seen = run[r].seen \/ SeenWhole(msgs', e, cut')
      PROVE  SeenWhole(msgs', run'[x], cut')
  <2>1. run'[r] = e /\ \A w \in Runs : w # r => run'[w] = run[w]
    BY <1>0, <1>2, BecomesTyped
  <2> QED BY <1>0, <1>1, <1>2, <2>1
<1>3. ASSUME NEW r \in Runs, WayStep(r) PROVE SeenWhole(msgs', run'[x], cut')
  <2>1. CASE Asked(r)
    BY <1>2, <2>1, ReadHeadDoes DEF Asked, Blank
  <2>2. CASE Patient!StartLoop(r)
    BY <1>2, <2>2, StartLoopDoes
  <2>3. CASE Patient!Read(r)
    <3>1. PICK e : Becomes(r, e) /\ e.seen = LineTo(msgs, head)
      BY <2>3, ReadDoes
    <3>2. run[r].at = "reading" /\ msgs' = msgs /\ cut' = cut
      BY <2>3 DEF Patient!Read
    <3>3. Opened = {}
      BY <3>2, OpenedAlone DEF Busy, OpenBy, AwaitedBy, FilledBy
    <3>4. SeenWhole(msgs', e, cut')
      BY <3>1, <3>2, <3>3, HeadIsWhole, HeadLine DEF SeenWhole
    <3> QED BY <1>2, <3>1, <3>4
  <2>4. CASE \E b \in Batches : Patient!Request(r, b)
    BY <1>2, <2>4, RequestDoes
  <2>5. CASE Patient!Store(r)
    BY <1>2, <2>5, StoreDoes
  <2>6. CASE Patient!Replay(r) \/ \E i \in 1..MaxBatch : Patient!Execute(r, i)
    <3>1. PICK e : Becomes(r, e) /\ e.seen = run[r].seen
      BY <2>6, ToolRuns
    <3> QED BY <1>2, <3>1
  <2>7. CASE Patient!TakeParent(r)
    BY <1>2, <2>7, TakeParentDoes
  <2>8. CASE Patient!EndBatch(r)
    BY <1>2, <2>8, EndBatchDoes DEF Moved, Blank
  <2> QED BY <1>3, <2>1, <2>2, <2>3, <2>4, <2>5, <2>6, <2>7, <2>8 DEF WayStep
<1> QED BY <1>1, <1>3, FewWays DEF WaysStay

\* and so is the way to what a run goes on from.
LEMMA WayKeeps ==
  ASSUME ThreadTyped, OneAtWork, WaitInv, CausalInv, CompleteInv, PatientNext, SharedNext,
         NEW x \in Runs
  PROVE  WayWhole(msgs', run'[x], cut')
<1>0. Orderly /\ cut \subseteq cut'
  BY TypedKeeps, CutGrows
<1>1. ASSUME NEW w \in Runs
      PROVE  /\ WayWhole(msgs', run[w], cut')
             /\ Missing(msgs', LineTo(msgs', run[w].parent))
                  = Missing(msgs, LineTo(msgs, run[w].parent))
  BY WayStays, Typing DEF CompleteInv
<1>2. CASE WaysStay
  <2>1. CASE run'[x].at \in WayAt
    BY <1>1, <1>2, <2>1 DEF WaysStay
  <2>2. CASE run'[x].at \notin WayAt
    BY <2>2 DEF WayAt, WayWhole
  <2> QED BY <2>1, <2>2
<1>3. ASSUME NEW r \in Runs, NEW e, Becomes(r, e), WayWhole(msgs', e, cut')
      PROVE  WayWhole(msgs', run'[x], cut')
  <2>1. run'[r] = e /\ \A w \in Runs : w # r => run'[w] = run[w]
    BY <1>0, <1>3, BecomesTyped
  <2> QED BY <1>1, <1>3, <2>1
<1>4. ASSUME NEW e, e.at \notin WayAt PROVE WayWhole(msgs', e, cut')
  BY <1>4 DEF WayWhole, WayAt
<1>5. ASSUME NEW r \in Runs, WayStep(r) PROVE WayWhole(msgs', run'[x], cut')
  <2>1. CASE Asked(r)
    <3>1. PICK e : Becomes(r, e) /\ (Blank(e, "over") \/ (e.at = "placing" /\ e.parent = head'))
      BY <2>1, ReadHeadDoes DEF Asked
    <3>2. msgs' = msgs /\ Opened = {} /\ (head' = head \/ Leaf(msgs, head'))
      BY <2>1, LeavesAre, OpenedAlone DEF Asked, ReadsHead
    <3>3. Missing(msgs, LineTo(msgs, head')) \subseteq cut
      <4>1. CASE head' = head
        BY <3>2, <4>1, HeadIsWhole
      <4>2. CASE Leaf(msgs, head')
        BY <3>2, <4>2 DEF CompleteInv, LeavesWhole, Leaf
      <4> QED BY <3>2, <4>1, <4>2
    <3>4. WayWhole(msgs', e, cut')
      <4>1. CASE Blank(e, "over")
        BY <1>4, <4>1 DEF Blank, WayAt
      <4>2. CASE e.at = "placing" /\ e.parent = head'
        BY <1>0, <3>2, <3>3, <4>2 DEF WayWhole
      <4> QED BY <3>1, <4>1, <4>2
    <3> QED BY <1>3, <3>1, <3>4
  <2>2. CASE Patient!StartLoop(r)
    <3>1. PICK e : Becomes(r, e) /\ e.at = "reading" /\ e.parent = head
      BY <2>2, StartLoopDoes
    <3>2. run[r].at = "starting" /\ msgs' = msgs
      BY <2>2 DEF Patient!StartLoop
    <3>3. Opened = {}
      BY <3>2, OpenedAlone DEF Busy, OpenBy, AwaitedBy, FilledBy
    <3>4. WayWhole(msgs', e, cut')
      BY <1>0, <3>1, <3>2, <3>3, HeadIsWhole DEF WayWhole
    <3> QED BY <1>3, <3>1, <3>4
  <2>3. CASE Patient!Read(r)
    <3>1. PICK e : Becomes(r, e) /\ e.at = "thinking" /\ e.parent = run[r].parent
      BY <2>3, ReadDoes
    <3>2. run[r].at = "reading"
      BY <2>3 DEF Patient!Read
    <3>3. WayWhole(msgs', e, cut')
      BY <1>1, <3>1, <3>2 DEF WayWhole
    <3> QED BY <1>3, <3>1, <3>3
  <2>4. ASSUME NEW c \in Batches, Patient!Request(r, c) PROVE WayWhole(msgs', run'[x], cut')
    <3> DEFINE n == Len(msgs)
               new == [role |-> "assistant", parent |-> run[r].parent, turn |-> None,
                       calls |-> c, answers |-> None]
    <3>1. PICK e : /\ Becomes(r, e) /\ e.at \in {"asking", "executing"}
                   /\ e.parent = n + 1 /\ e.batch = n + 1
      BY <2>4, RequestDoes
    <3>2. Added(run[r].parent, new) /\ run[r].parent \in 0..n /\ run[r].at = "thinking"
      BY <2>4, RequestAdds, Typing DEF Patient!Request
    <3> HIDE DEF new
    <3>3. Missing(msgs, LineTo(msgs, run[r].parent)) \subseteq cut'
      BY <1>0, <3>2 DEF CompleteInv, WayWhole
    <3>4. Missing(msgs', LineTo(msgs', n + 1)) \subseteq cut' \cup {n + 1}
      BY <3>2, <3>3, MissingGrows
    <3>5. WayWhole(msgs', e, cut')
      BY <3>1, <3>4 DEF WayWhole
    <3> QED BY <1>3, <3>1, <3>5
  <2>5. CASE Patient!Store(r)
    <3> DEFINE n == Len(msgs)
               o == run[r]
               new == [role |-> "tool", parent |-> o.parent, turn |-> None,
                       calls |-> <<>>, answers |-> <<o.batch, o.stored + 1>>]
    <3>1. PICK e : Becomes(r, e) /\ e.at = o.at /\ e.parent = n + 1 /\ e.batch = o.batch
      BY <2>5, StoreDoes
    <3>2. Added(o.parent, new) /\ o.parent \in 0..n /\ new.calls = <<>>
      BY <2>5, StoreDoes, Typing
    <3>3. o.at \in {"executing", "replaying"}
      BY <2>5 DEF Patient!Store
    <3>4. Missing(msgs, LineTo(msgs, o.parent)) \subseteq cut' \cup {o.batch}
      BY <1>0, <3>3 DEF CompleteInv, WayWhole
    <3> HIDE DEF new, o
    <3>5. Missing(msgs', LineTo(msgs', n + 1)) \subseteq cut' \cup {o.batch}
      BY <3>2, <3>4, MissingGrows
    <3>6. WayWhole(msgs', e, cut')
      BY <3>1, <3>3, <3>5 DEF WayWhole
    <3> QED BY <1>3, <3>1, <3>6
  <2>6. CASE Patient!Replay(r) \/ \E i \in 1..MaxBatch : Patient!Execute(r, i)
    <3>1. PICK e : /\ Becomes(r, e) /\ e.at = run[r].at
                   /\ e.parent = run[r].parent /\ e.batch = run[r].batch
      BY <2>6, ToolRuns
    <3>2. WayWhole(msgs', e, cut')
      BY <1>1, <3>1 DEF WayWhole
    <3> QED BY <1>3, <3>1, <3>2
  <2>7. CASE Patient!TakeParent(r)
    <3>1. PICK e : Becomes(r, e) /\ e.at = "replaying" /\ e.parent = head /\ e.batch = run[r].batch
      BY <2>7, TakeParentDoes
    <3>2. run[r].at = "loaded" /\ msgs' = msgs /\ run[r].batch = run[r].asked[1]
      BY <2>7 DEF Patient!TakeParent, WaitInv
    <3>3. Opened \subseteq {run[r].batch}
      BY <3>2, OpenedAlone DEF Busy, OpenBy, AwaitedBy, FilledBy
    <3>4. WayWhole(msgs', e, cut')
      BY <1>0, <3>1, <3>2, <3>3, HeadIsWhole DEF WayWhole
    <3> QED BY <1>3, <3>1, <3>4
  <2>8. CASE Patient!EndBatch(r)
    <3>1. PICK e : /\ Becomes(r, e)
                   /\ e.at \notin WayAt \/ (e.at = "reading" /\ e.parent = run[r].parent)
      BY <2>8, EndBatchDoes DEF Moved, Blank, WayAt
    <3>2. run[r].at = "executing" /\ msgs' = msgs
          /\ run[r].stored = Len(msgs[run[r].batch].calls)
      BY <2>8, Closes DEF Patient!EndBatch
    <3>3. Filled(msgs, run[r]) /\ run[r] \in Patient!Run /\ run[r].parent \in 0..Len(msgs)
      BY <3>2, Typing DEF CausalInv
    <3>4. run[r].batch \notin Missing(msgs, LineTo(msgs, run[r].parent))
      BY <3>2, <3>3, FilledIsWhole
    <3>5. Missing(msgs, LineTo(msgs, run[r].parent)) \subseteq cut \cup {run[r].batch}
      BY <3>2 DEF CompleteInv, WayWhole
    <3>6. WayWhole(msgs', e, cut')
      BY <1>0, <1>4, <3>1, <3>2, <3>4, <3>5 DEF WayWhole
    <3> QED BY <1>3, <3>1, <3>6
  <2> QED BY <1>5, <2>1, <2>2, <2>3, <2>4, <2>5, <2>6, <2>7, <2>8 DEF WayStep
<1> QED BY <1>2, <1>5, FewWays

\* Who adds messages while run x fills a batch.
LEMMA OthersGrow ==
  ASSUME ThreadTyped, OneAtWork, PatientNext, NEW x \in Runs,
         run[x].at \in {"executing", "replaying"}
  PROVE  msgs' = msgs \/ (\E r \in Runs : Patient!Outcome(r)) \/ Patient!Store(x)
<1>1. ~ Quiet /\ Busy(run[x])
  BY DEF Quiet, Busy
<1>2. ASSUME NEW r \in Runs, Grows(r), ~ Patient!Outcome(r) PROVE Patient!Store(x)
  <2>1. run[r].at \in {"placing", "thinking", "executing", "replaying"}
    BY <1>2 DEF Grows, Patient!Place, Patient!Answer, Patient!Request, Patient!Store
  <2>2. r = x
    BY <1>1, <2>1 DEF OneAtWork, Busy
  <2> QED BY <1>2, <2>2 DEF Grows, Patient!Place, Patient!Answer, Patient!Request
<1> QED BY <1>1, <1>2, FewGrow

\* The outcome of another run cuts the batch it comes behind.
LEMMA EndsStay ==
  ASSUME ThreadTyped, CausalInv, CompleteInv, SharedNext, NEW x \in Runs,
         run[x].at \in {"executing", "replaying"},
         msgs' = msgs \/ (\E r \in Runs : Patient!Outcome(r))
  PROVE  WayEnds(msgs', run[x], cut')
<1>0. cut \subseteq cut' /\ WayEnds(msgs, run[x], cut)
  BY CutGrows DEF CompleteInv
<1>1. CASE msgs' = msgs
  BY <1>0, <1>1 DEF WayEnds
<1>2. ASSUME NEW r \in Runs, Patient!Outcome(r) PROVE WayEnds(msgs', run[x], cut')
  <2> DEFINE n == Len(msgs)
             o == run[x]
  <2>1. PICK new : Added(head, new) /\ new.parent = head
    BY <1>2, OutcomeDoes
  <2>2. head \in 0..n /\ n \in Nat /\ Len(msgs') = n + 1
        /\ LineTo(msgs', n + 1) = {n + 1} \cup LineTo(msgs, head)
        /\ LineTo(msgs, head) \subseteq 1..n
        /\ Patient!Path(msgs, head) = LineTo(msgs, head)
    BY <2>1, Typing, HeadLine DEF Added
  <2>3. Missing(msgs, LineTo(msgs, head)) \subseteq cut'
    BY <1>2, <2>2, MissingIs DEF Patient!Outcome
  <2>4. Filled(msgs, o) /\ o.parent \in 0..n /\ o.batch \in 1..n /\ o.stored \in Nat
    <3>1. /\ Filled(msgs, o) /\ o.parent \in 0..n
          /\ o.batch \in LineTo(msgs, o.parent) /\ o.stored \in Nat
      BY Typing DEF CausalInv, Filled
    <3>2. LineTo(msgs, o.parent) \subseteq 1..n
      BY <2>1, <3>1, OldLine
    <3> QED BY <3>1, <3>2
  <2>5. msgs'[o.batch] = msgs[o.batch]
    BY <2>1, <2>4 DEF Added, Extends
  <2>6. ASSUME o.batch \notin cut', NEW y \in 1..(n + 1), Leaf(msgs', y),
               o.batch \in LineTo(msgs', y)
        PROVE  /\ o.parent \in LineTo(msgs', y)
               /\ o.stored < Len(msgs'[o.batch].calls) => y = o.parent
    <3>0. o.batch \notin cut
      BY <1>0, <2>6
    <3>1. CASE y = n + 1
      <4>1. o.batch \in LineTo(msgs, head)
        BY <2>2, <2>4, <2>6, <3>1
      <4>2. head # 0 /\ Leaf(msgs, head) /\ head \in 1..n
        BY <2>2, <4>1, LineStep DEF CompleteInv, ThreadTyped
      <4>3. /\ o.parent \in LineTo(msgs, head)
            /\ o.stored < Len(msgs[o.batch].calls) => head = o.parent
        BY <1>0, <3>0, <4>1, <4>2 DEF WayEnds
      <4>4. ASSUME o.stored < Len(msgs[o.batch].calls) PROVE FALSE
        <5> DEFINE k == o.stored + 1
        <5>1. Len(msgs[o.batch].calls) \in 0..MaxBatch
          BY <2>4, BatchTyping
        <5>2. k \in 1..MaxBatch /\ k \in 1..Len(msgs[o.batch].calls) /\ ~ (k <= o.stored)
          <6>1. \A l \in 0..MaxBatch, i \in Nat :
                  i < l => i + 1 \in 1..MaxBatch /\ i + 1 \in 1..l /\ ~ (i + 1 <= i)
            BY Constants
          <6> HIDE DEF o
          <6> QED BY <2>4, <4>4, <5>1, <6>1
        <5>3. \A j \in LineTo(msgs, head) : msgs[j].answers # <<o.batch, k>>
          BY <2>4, <4>3, <4>4, <5>2 DEF Filled
        <5>4. o.batch \in Missing(msgs, LineTo(msgs, head))
          BY <4>1, <5>2, <5>3 DEF Missing
        <5> QED BY <2>3, <2>6, <5>4
      <4> QED BY <2>2, <2>5, <3>1, <4>3, <4>4
    <3>2. CASE y # n + 1
      <4>1. Leaf(msgs, y)
        BY <2>1, <2>2, <2>6, <3>2, LeavesGrow
      <4>2. y \in 1..n /\ LineTo(msgs', y) = LineTo(msgs, y)
        BY <2>1, <2>2, <2>6, <3>2, OldLine
      <4> QED BY <1>0, <2>5, <2>6, <3>0, <4>1, <4>2 DEF WayEnds
    <3> QED BY <3>1, <3>2
  <2> HIDE DEF o, n
  <2>7. WayEnds(msgs', o, cut')
    BY <2>2, <2>6 DEF WayEnds
  <2> QED BY <2>7 DEF o
<1> QED BY <1>1, <1>2

\* The batch a run fills is on its own way only.
LEMMA EndsKeeps ==
  ASSUME ThreadTyped, OneAtWork, WaitInv, CausalInv, CompleteInv, PatientNext, SharedNext,
         NEW x \in Runs
  PROVE  WayEnds(msgs', run'[x], cut')
<1>0. Orderly /\ cut \subseteq cut'
  BY TypedKeeps, CutGrows
<1>1. ASSUME NEW e, e.at \notin {"executing", "replaying"} PROVE WayEnds(msgs', e, cut')
  BY <1>1 DEF WayEnds
<1>2. CASE Patient!Store(x)
  <2> DEFINE n == Len(msgs)
             o == run[x]
             new == [role |-> "tool", parent |-> o.parent, turn |-> None,
                     calls |-> <<>>, answers |-> <<o.batch, o.stored + 1>>]
  <2>1. PICK e : /\ Becomes(x, e) /\ e.at = o.at /\ e.parent = n + 1 /\ e.batch = o.batch
    BY <1>2, StoreDoes
  <2>2. Added(o.parent, new) /\ o.parent \in 0..n /\ new.parent = o.parent
        /\ o.stored + 1 \in o.done /\ o.batch \in 1..n /\ o.stored \in Nat /\ n \in Nat
    BY <1>2, StoreDoes, Typing
  <2>3. o.at \in {"executing", "replaying"}
    BY <1>2 DEF Patient!Store
  <2>4. Len(msgs[o.batch].calls) \in Nat /\ o.done \subseteq 1..Len(msgs[o.batch].calls)
    BY <2>2, <2>3, BatchTyping DEF CausalInv, Filled
  <2>5. o.stored < Len(msgs[o.batch].calls)
    BY <2>2, <2>4
  <2> HIDE DEF new
  <2>6. n + 1 \in LineTo(msgs', n + 1) /\ Len(msgs') = n + 1
    BY <2>2 DEF Added
  <2>7. ASSUME o.batch \notin cut', NEW y \in 1..(n + 1), Leaf(msgs', y),
               o.batch \in LineTo(msgs', y)
        PROVE  y = n + 1
    <3>1. SUFFICES ASSUME y # n + 1 PROVE FALSE
      OBVIOUS
    <3>2. Leaf(msgs, y) /\ y # o.parent
      BY <2>2, <2>7, <3>1, LeavesGrow
    <3>3. y \in 1..n /\ LineTo(msgs', y) = LineTo(msgs, y)
      BY <2>2, <2>7, <3>1, OldLine
    <3>4. WayEnds(msgs, o, cut) /\ o.batch \notin cut
      BY <1>0, <2>7 DEF CompleteInv
    <3> QED BY <2>3, <2>5, <2>7, <3>2, <3>3, <3>4 DEF WayEnds
  <2>8. WayEnds(msgs', e, cut')
    <3> HIDE DEF o, n
    <3> QED BY <2>1, <2>6, <2>7 DEF WayEnds
  <2>9. run'[x] = e
    BY <1>0, <2>1, BecomesTyped
  <2> QED BY <2>8, <2>9
<1>3. ASSUME ~ Patient!Store(x), run'[x] = run[x], run[x].at \in {"executing", "replaying"}
      PROVE  WayEnds(msgs', run'[x], cut')
  BY <1>3, OthersGrow, EndsStay
<1>4. ASSUME NEW e, Becomes(x, e), WayEnds(msgs', e, cut') PROVE WayEnds(msgs', run'[x], cut')
  <2>1. run'[x] = e
    BY <1>0, <1>4, BecomesTyped
  <2> QED BY <1>4, <2>1
<1>5. CASE WaysStay
  BY <1>1, <1>2, <1>3, <1>5 DEF WaysStay, WayAt
<1>6. ASSUME NEW r \in Runs, WayStep(r), r # x PROVE WayEnds(msgs', run'[x], cut')
  <2>1. \E e : Becomes(r, e)
    <3>1. ReadsHead(r) \/ Enters(r) \/ Fails(r) \/ SharedRun(r)
      BY <1>6 DEF WayStep, Asked, SharedRun
    <3> QED BY <3>1, RunIsOrderly
  <2>2. run'[x] = run[x]
    BY <1>0, <1>6, <2>1, BecomesTyped
  <2> QED BY <1>1, <1>2, <1>3, <2>2
<1>7. ASSUME WayStep(x) PROVE WayEnds(msgs', run'[x], cut')
  <2>1. CASE Asked(x)
    BY <1>1, <1>4, <2>1, ReadHeadDoes DEF Asked, Blank
  <2>2. CASE Patient!StartLoop(x)
    BY <1>1, <1>4, <2>2, StartLoopDoes
  <2>3. CASE Patient!Read(x)
    BY <1>1, <1>4, <2>3, ReadDoes
  <2>4. ASSUME NEW c \in Batches, Patient!Request(x, c) PROVE WayEnds(msgs', run'[x], cut')
    <3> DEFINE n == Len(msgs)
               new == [role |-> "assistant", parent |-> run[x].parent, turn |-> None,
                       calls |-> c, answers |-> None]
    <3>1. PICK e : Becomes(x, e) /\ e.parent = n + 1 /\ e.batch = n + 1
      BY <2>4, RequestDoes
    <3>2. Added(run[x].parent, new) /\ run[x].parent \in 0..n /\ n \in Nat
      BY <2>4, RequestAdds, Typing
    <3> HIDE DEF new
    <3>3. Len(msgs') = n + 1 /\ n + 1 \in LineTo(msgs', n + 1)
      BY <3>2 DEF Added
    <3>4. ASSUME NEW y \in 1..(n + 1), n + 1 \in LineTo(msgs', y) PROVE y = n + 1
      <4>1. SUFFICES ASSUME y # n + 1 PROVE FALSE
        OBVIOUS
      <4>2. y \in 0..n
        BY <3>2, <4>1
      <4>3. LineTo(msgs', y) \subseteq 1..n
        BY <3>2, <4>2, OldLine
      <4> QED BY <3>2, <3>4, <4>3
    <3>5. WayEnds(msgs', e, cut')
      <4> HIDE DEF n
      <4> QED BY <3>1, <3>3, <3>4 DEF WayEnds
    <3> QED BY <1>4, <3>1, <3>5
  <2>5. CASE Patient!Store(x)
    BY <1>2, <2>5
  <2>6. CASE Patient!Replay(x) \/ \E i \in 1..MaxBatch : Patient!Execute(x, i)
    <3>1. PICK e : /\ Becomes(x, e) /\ e.at = run[x].at /\ e.parent = run[x].parent
                   /\ e.batch = run[x].batch /\ e.stored = run[x].stored
      BY <2>6, ToolRuns
    <3>2. msgs' = msgs /\ WayEnds(msgs, run[x], cut)
      BY <2>6, ToolRuns DEF CompleteInv
    <3>3. WayEnds(msgs', e, cut')
      BY <1>0, <3>1, <3>2 DEF WayEnds
    <3> QED BY <1>4, <3>1, <3>3
  <2>7. CASE Patient!TakeParent(x)
    <3>1. PICK e : Becomes(x, e) /\ e.at = "replaying" /\ e.parent = head /\ e.batch = run[x].batch
      BY <2>7, TakeParentDoes
    <3>2. run[x].at = "loaded" /\ msgs' = msgs /\ run[x].batch = run[x].asked[1]
          /\ run[x].batch \in Nat
      BY <2>7, Typing DEF Patient!TakeParent, WaitInv
    <3>3. run[x].batch \in Awaited
      BY <3>2 DEF Awaited, AwaitedBy
    <3>4. run[x].batch \in cut \/ OnlyAt(msgs, run[x].batch, head)
      BY <3>3 DEF CompleteInv
    <3>5. \A y \in 1..Len(msgs) : y \in LineTo(msgs, y)
      BY LineStep DEF ThreadTyped
    <3>6. WayEnds(msgs', e, cut')
      BY <1>0, <3>1, <3>2, <3>4, <3>5 DEF WayEnds, OnlyAt
    <3> QED BY <1>4, <3>1, <3>6
  <2>8. CASE Patient!EndBatch(x)
    <3>1. run[x].at = "executing"
      BY <2>8 DEF Patient!EndBatch
    <3>2. PICK e : Becomes(x, e) /\ e.at \notin {"executing", "replaying"}
      BY <2>8, EndBatchDoes DEF Moved, Blank
    <3> QED BY <1>1, <1>4, <3>2
  <2> QED BY <1>7, <2>1, <2>2, <2>3, <2>4, <2>5, <2>6, <2>7, <2>8 DEF WayStep
<1> QED BY <1>5, <1>6, <1>7, FewWays

\* Histories are complete but for what was cut.
LEMMA CompleteKeeps ==
  ASSUME ThreadTyped, OneAtWork, WaitInv, CausalInv, CompleteInv, PatientNext, SharedNext
  PROVE  CompleteInv'
<1>1. \A b \in Awaited' : b \in cut' \/ OnlyAt(msgs', b, head')
  BY OnlyKeeps
<1>2. \A x \in Runs : /\ SeenWhole(msgs', run'[x], cut') /\ WayWhole(msgs', run'[x], cut')
                      /\ WayEnds(msgs', run'[x], cut')
  BY SeenKeeps, WayKeeps, EndsKeeps
<1> QED BY <1>1, <1>2, HeadKeeps, LeavesKeep DEF CompleteInv

\* So they are when they are sent.
LEMMA CompleteShows ==
  ASSUME ThreadTyped, CompleteInv
  PROVE  Patient!CompleteUnlessCut
<1>1. ASSUME NEW r \in Runs,
             NEW c \in Patient!Requested(msgs, run[r].seen) \ Patient!Answered(msgs, run[r].seen)
      PROVE  c[1] \in cut
  <2>1. run[r].seen \subseteq 1..Len(msgs) /\ Missing(msgs, run[r].seen) \subseteq cut
    BY DEF CompleteInv, SeenWhole
  <2> QED BY <1>1, <2>1, MissingIs
<1> QED BY <1>1 DEF Patient!CompleteUnlessCut

-----------------------------------------------------------------------------
(* The message of the turn.                                                *)

\* The message of a turn is on the way from the head, and then in what the model is sent.
OfTurn(ms, r) == {i \in 1..Len(ms) : ms[i].turn = TurnOf[r]}
TurnOK(ms, h, r, e) ==
  /\ e.asked = None
  /\ e.at = "placing" => OfTurn(ms, r) = {}
  /\ e.at \in {"queued", "starting", "reading", "thinking", "executing"} =>
       OfTurn(ms, r) \subseteq LineTo(ms, h)
  /\ e.at \in {"reading", "thinking", "executing"} => OfTurn(ms, r) \subseteq LineTo(ms, e.parent)
  /\ e.at = "thinking" => OfTurn(ms, r) \subseteq e.seen
TurnAt == {"placing", "queued", "starting", "reading", "thinking", "executing"}

TurnInv == \A r \in Runs : TurnOf[r] # None => TurnOK(msgs, head, r, run[r])

\* A run that is not on its turn.
LEMMA OffTurn ==
  ASSUME NEW ms, NEW h, NEW r, NEW e, e.at \notin TurnAt, e.asked = None
  PROVE  TurnOK(ms, h, r, e)
BY DEF TurnOK, TurnAt

\* A message of no turn, behind the head or behind the message a run goes on from.
LEMMA OfTurnGrows ==
  ASSUME ThreadTyped, NEW parent \in 0..Len(msgs), NEW new, Added(parent, new), new.turn = None,
         NEW r \in Runs, TurnOf[r] # None
  PROVE  /\ OfTurn(msgs', r) = OfTurn(msgs, r)
         /\ OfTurn(msgs, r) \subseteq LineTo(msgs, parent) =>
              OfTurn(msgs, r) \subseteq LineTo(msgs', head')
<1> DEFINE n == Len(msgs)
<1>1. /\ n \in Nat /\ Len(msgs') = n + 1 /\ msgs'[n + 1] = new /\ head' = n + 1
      /\ \A i \in 1..n : msgs'[i] = msgs[i]
      /\ LineTo(msgs', n + 1) = {n + 1} \cup LineTo(msgs, parent)
  BY DEF Added, Extends
<1>2. \A i \in 1..(n + 1) : i = n + 1 \/ i \in 1..n
  BY <1>1
<1>3. n + 1 \notin OfTurn(msgs', r)
  BY <1>1 DEF OfTurn
<1>4. 1..n \subseteq 1..(n + 1)
  BY <1>1
<1>5. OfTurn(msgs', r) = OfTurn(msgs, r)
  <2>1. \A i \in 1..n : i \in OfTurn(msgs', r) <=> i \in OfTurn(msgs, r)
    BY <1>1, <1>4 DEF OfTurn
  <2>2. OfTurn(msgs', r) \subseteq 1..(n + 1) /\ OfTurn(msgs, r) \subseteq 1..n
    BY <1>1 DEF OfTurn
  <2> HIDE DEF n
  <2> QED BY <1>2, <1>3, <2>1, <2>2
<1> QED BY <1>1, <1>5

\* A run that adds a message moves.
LEMMA GrowsMoves ==
  ASSUME ThreadTyped, SharedNext, NEW x \in Runs, Grows(x)
  PROVE  run'[x] # run[x]
<1>0. Orderly
  BY TypedKeeps
<1>1. \E e : Becomes(x, e) /\ (e.at # run[x].at \/ e.stored # run[x].stored)
  <2>1. CASE Patient!Place(x)
    BY <2>1, PlaceIsOrderly DEF Blank, Patient!Place
  <2>2. CASE Patient!Answer(x) \/ Patient!Outcome(x)
    BY <2>2, NoticeIsOrderly DEF Blank, Patient!Answer, Patient!Outcome
  <2>3. ASSUME NEW b \in Batches, Patient!Request(x, b)
        PROVE  \E e : Becomes(x, e) /\ (e.at # run[x].at \/ e.stored # run[x].stored)
    <3>1. run[x].at = "thinking"
      BY <2>3 DEF Patient!Request
    <3>2. PICK e : Becomes(x, e) /\ e.at \in {"asking", "executing"}
      BY <2>3, RequestDoes
    <3> QED BY <3>1, <3>2
  <2>4. CASE Patient!Store(x)
    <3>1. PICK e : Becomes(x, e) /\ e.stored = run[x].stored + 1
      BY <2>4, StoreDoes
    <3>2. run[x].stored \in Nat
      BY Typing
    <3> QED BY <3>1, <3>2
  <2> QED BY <2>1, <2>2, <2>3, <2>4 DEF Grows
<1> QED BY <1>0, <1>1, BecomesTyped

\* The steps of others leave a run its turn.
LEMMA TurnStays ==
  ASSUME ThreadTyped, OneAtWork, PatientNext, SharedNext, NEW x \in Runs, TurnOf[x] # None,
         TurnOK(msgs, head, x, run[x]), run'[x] = run[x]
  PROVE  TurnOK(msgs', head', x, run[x])
<1>1. CASE run[x].at \notin TurnAt
  BY <1>1, OffTurn DEF TurnOK
<1>2. CASE run[x].at \in TurnAt
  <2>1. Busy(run[x]) /\ ~ Quiet
    BY <1>2 DEF TurnAt, TurnOK, Busy, Quiet
  <2>2. CASE msgs' = msgs /\ head' = head
    BY <2>2
  <2>3. ASSUME NEW r \in Runs, Grows(r) PROVE TurnOK(msgs', head', x, run[x])
    <3>1. Patient!Outcome(r)
      <4>1. r # x
        BY <2>3, GrowsMoves
      <4>2. ~ Busy(run[r])
        BY <2>1, <4>1 DEF OneAtWork
      <4> QED BY <2>3, <4>2 DEF Grows, Patient!Place, Patient!Answer, Patient!Request,
             Patient!Store, Busy
    <3>2. PICK new : Added(head, new) /\ new.turn = None
      BY <3>1, OutcomeDoes
    <3>3. head \in 0..Len(msgs) /\ run[x].parent \in 0..Len(msgs)
      BY Typing
    <3>4. /\ OfTurn(msgs', x) = OfTurn(msgs, x)
          /\ OfTurn(msgs, x) \subseteq LineTo(msgs, head) =>
               OfTurn(msgs, x) \subseteq LineTo(msgs', head')
      BY <3>2, <3>3, OfTurnGrows
    <3>5. LineTo(msgs', run[x].parent) = LineTo(msgs, run[x].parent)
      BY <3>2, <3>3, OldLine
    <3> QED BY <3>4, <3>5 DEF TurnOK
  <2> QED BY <2>1, <2>2, <2>3, FewGrow
<1> QED BY <1>1, <1>2

\* The run that moves.
LEMMA TurnMoves ==
  ASSUME ThreadTyped, OneAtWork, NEW r \in Runs, TurnOf[r] # None, TurnOK(msgs, head, r, run[r]),
         Asked(r) \/ Enters(r) \/ Fails(r) \/ SharedRun(r)
  PROVE  \E e : Becomes(r, e) /\ TurnOK(msgs', head', r, e)
<1>0. RunTyped(run[r], msgs, decided) /\ run[r].asked = None /\ run[r].parent \in 0..Len(msgs)
      /\ head \in 0..Len(msgs)
  BY Typing DEF TurnOK
<1>1. CASE Asked(r)
  <2>1. CASE run' = [run EXCEPT ![r] = Patient!Over]
    <3>1. Len(msgs') \in Nat
      BY <1>1, Typing DEF Asked, ReadsHead
    <3>2. Becomes(r, Patient!Over) /\ Blank(Patient!Over, "over")
      BY <2>1, <3>1, EndsAreTyped, Blanks DEF Becomes
    <3>3. TurnOK(msgs', head', r, Patient!Over)
      BY <3>2, OffTurn DEF Blank, TurnAt
    <3> QED BY <3>2, <3>3
  <2>2. CASE NoneOfTurn(r, msgs)
    <3>1. PICK e : /\ Becomes(r, e)
                   /\ Blank(e, "over") \/ (e.at = "placing" /\ e.asked = run[r].asked)
      BY <1>1, ReadHeadDoes DEF Asked
    <3>2. msgs' = msgs
      BY <1>1 DEF Asked, ReadsHead
    <3>3. TurnOK(msgs', head', r, e)
      BY <1>0, <2>2, <3>1, <3>2 DEF TurnOK, Blank, NoneOfTurn, OfTurn
    <3> QED BY <3>1, <3>3
  <2> QED BY <1>1, <2>1, <2>2 DEF Asked
<1>2. CASE Enters(r)
  <2>1. PICK e : Becomes(r, e) /\ Moved(e, run[r], "starting")
    BY <1>0, <1>2, EnterDoes
  <2>2. run[r].at = "queued" /\ msgs' = msgs /\ head' = head
    BY <1>2 DEF Enters
  <2>3. TurnOK(msgs', head', r, e)
    BY <2>1, <2>2 DEF TurnOK, Moved
  <2> QED BY <2>1, <2>3
<1>3. CASE Fails(r)
  BY <1>3, FailDoes, OffTurn DEF Blank, TurnAt
<1>4. CASE Patient!Place(r)
  <2>1. PICK e : Becomes(r, e) /\ Blank(e, "queued")
    BY <1>4, PlaceIsOrderly
  <2>2. OfTurn(msgs, r) = {}
    BY <1>4 DEF Patient!Place, TurnOK
  <2> DEFINE n == Len(msgs)
             new == [role |-> "user", parent |-> run[r].parent, turn |-> TurnOf[r],
                     calls |-> <<>>, answers |-> None]
  <2>3. Added(run[r].parent, new)
    BY <1>4, <2>2, PlaceAdds DEF OfTurn
  <2> HIDE DEF new
  <2>4. /\ n \in Nat /\ Len(msgs') = n + 1 /\ head' = n + 1 /\ n + 1 \in LineTo(msgs', n + 1)
        /\ \A i \in 1..n : msgs'[i] = msgs[i]
    BY <2>3 DEF Added, Extends
  <2>5. ASSUME NEW i \in OfTurn(msgs', r) PROVE i = n + 1
    <3>1. i \in 1..(n + 1) /\ msgs'[i].turn = TurnOf[r]
      BY <2>4 DEF OfTurn
    <3>2. i \in 1..n => i \in OfTurn(msgs, r)
      BY <2>4, <3>1 DEF OfTurn
    <3> QED BY <2>2, <2>4, <3>1, <3>2
  <2>6. TurnOK(msgs', head', r, e)
    <3> HIDE DEF n
    <3> QED BY <2>1, <2>4, <2>5 DEF TurnOK, Blank
  <2> QED BY <2>1, <2>6
<1>5. CASE \E d \in Patient!Decisions : Patient!Decide(r, d)
  BY <1>5 DEF Patient!Decide
<1>6. CASE Patient!StartLoop(r)
  <2>1. PICK e : Becomes(r, e) /\ e.at = "reading" /\ e.parent = head /\ e.asked = None
    BY <1>6, StartLoopDoes
  <2>2. run[r].at = "starting" /\ msgs' = msgs /\ head' = head
    BY <1>6 DEF Patient!StartLoop
  <2>3. TurnOK(msgs', head', r, e)
    BY <2>1, <2>2 DEF TurnOK
  <2> QED BY <2>1, <2>3
<1>7. CASE Patient!Read(r)
  <2>1. PICK e : /\ Becomes(r, e) /\ e.at = "thinking" /\ e.parent = run[r].parent
                 /\ e.asked = run[r].asked /\ e.seen = LineTo(msgs, head)
    BY <1>7, ReadDoes
  <2>2. run[r].at = "reading" /\ msgs' = msgs /\ head' = head
    BY <1>7 DEF Patient!Read
  <2>3. TurnOK(msgs', head', r, e)
    BY <2>1, <2>2 DEF TurnOK
  <2> QED BY <2>1, <2>3
<1>8. CASE Patient!Answer(r) \/ Patient!Outcome(r)
  BY <1>8, NoticeIsOrderly, OffTurn DEF Blank, TurnAt
<1>9. CASE Patient!GiveUp(r)
  <2>1. Patient!Move(r, "ending") /\ msgs' = msgs /\ decided' = decided
    BY <1>9 DEF Patient!GiveUp
  <2>2. \E e : Becomes(r, e) /\ Moved(e, run[r], "ending")
    BY <2>1, MoveDoes
  <2> QED BY <1>0, <2>2, OffTurn DEF Moved, TurnAt
<1>10. ASSUME NEW c \in Batches, Patient!Request(r, c)
       PROVE  \E e : Becomes(r, e) /\ TurnOK(msgs', head', r, e)
  <2> DEFINE n == Len(msgs)
             new == [role |-> "assistant", parent |-> run[r].parent, turn |-> None,
                     calls |-> c, answers |-> None]
  <2>1. PICK e : /\ Becomes(r, e) /\ e.at \in {"asking", "executing"} /\ e.parent = n + 1
                 /\ e.asked = None
    BY <1>10, RequestDoes
  <2>2. Added(run[r].parent, new) /\ new.turn = None /\ run[r].at = "thinking"
    BY <1>10, RequestAdds DEF Patient!Request
  <2> HIDE DEF new
  <2>3. /\ OfTurn(msgs', r) \subseteq LineTo(msgs', head') /\ head' = n + 1
    BY <1>0, <2>2, OfTurnGrows DEF TurnOK, Added
  <2>4. TurnOK(msgs', head', r, e)
    <3> HIDE DEF n
    <3> QED BY <2>1, <2>3 DEF TurnOK
  <2> QED BY <2>1, <2>4
<1>11. CASE Patient!Ask(r)
  BY <1>11, AskIsOrderly, OffTurn DEF Blank, TurnAt
<1>12. CASE Patient!Store(r)
  <2> DEFINE n == Len(msgs)
             o == run[r]
             new == [role |-> "tool", parent |-> o.parent, turn |-> None,
                     calls |-> <<>>, answers |-> <<o.batch, o.stored + 1>>]
  <2>1. PICK e : Becomes(r, e) /\ e.at = o.at /\ e.parent = n + 1 /\ e.asked = o.asked
    BY <1>12, StoreDoes
  <2>2. Added(o.parent, new) /\ new.turn = None
    BY <1>12, StoreDoes
  <2>3. o.at \in {"executing", "replaying"}
    BY <1>12 DEF Patient!Store
  <2> HIDE DEF new
  <2>4. CASE o.at = "executing"
    <3>1. OfTurn(msgs', r) \subseteq LineTo(msgs', head') /\ head' = n + 1
      BY <1>0, <2>2, <2>4, OfTurnGrows DEF TurnOK, Added
    <3>2. TurnOK(msgs', head', r, e)
      <4> HIDE DEF n
      <4> QED BY <1>0, <2>1, <2>4, <3>1 DEF TurnOK
    <3> QED BY <2>1, <3>2
  <2>5. CASE o.at = "replaying"
    BY <1>0, <2>1, <2>5, OffTurn DEF TurnAt
  <2> QED BY <2>3, <2>4, <2>5
<1>13. CASE Patient!EndBatch(r)
  <2>1. PICK e : /\ Becomes(r, e)
                 /\ \/ e.at = "reading" /\ e.parent = run[r].parent /\ e.asked = None
                    \/ Moved(e, run[r], "ending") \/ Blank(e, "over")
    BY <1>13, EndBatchDoes
  <2>2. run[r].at = "executing" /\ msgs' = msgs /\ head' = head
    BY <1>13 DEF Patient!EndBatch
  <2>3. CASE Moved(e, run[r], "ending") \/ Blank(e, "over")
    BY <1>0, <2>1, <2>3, OffTurn DEF TurnAt, Moved, Blank
  <2>4. CASE e.at = "reading" /\ e.parent = run[r].parent /\ e.asked = None
    <3>1. TurnOK(msgs', head', r, e)
      BY <2>2, <2>4 DEF TurnOK
    <3> QED BY <2>1, <3>1
  <2> QED BY <2>1, <2>3, <2>4
<1>14. CASE Patient!Replay(r) \/ \E i \in 1..MaxBatch : Patient!Execute(r, i)
  <2>1. PICK e : /\ Becomes(r, e) /\ e.at = run[r].at /\ e.parent = run[r].parent
                 /\ e.asked = run[r].asked
    BY <1>14, ToolRuns
  <2>2. msgs' = msgs /\ head' = head /\ run[r].at \in {"executing", "replaying"}
    BY <1>14 DEF Patient!Replay, Patient!Execute
  <2>3. TurnOK(msgs', head', r, e)
    BY <2>1, <2>2 DEF TurnOK
  <2> QED BY <2>1, <2>3
<1>15. CASE \/ Patient!Claim(r) \/ Patient!Load(r) \/ Patient!TakeParent(r) \/ Patient!Resolve(r)
  <2>1. run[r].at \in {"claiming", "claimed", "loaded", "replaying"}
    BY <1>15 DEF Patient!Claim, Patient!Load, Patient!TakeParent, Patient!Resolve
  <2> QED BY <1>0, <2>1 DEF RunTyped
<1> QED BY <1>1, <1>2, <1>3, <1>4, <1>5, <1>6, <1>7, <1>8, <1>9, <1>10, <1>11, <1>12, <1>13,
           <1>14, <1>15 DEF SharedRun

\* The message of the turn stays on the way.
LEMMA TurnsKeep ==
  ASSUME ThreadTyped, OneAtWork, TurnInv, PatientNext, SharedNext
  PROVE  TurnInv'
<1>0. Orderly
  BY TypedKeeps
<1>1. SUFFICES ASSUME NEW x \in Runs, TurnOf[x] # None PROVE TurnOK(msgs', head', x, run'[x])
  BY DEF TurnInv
<1>2. TurnOK(msgs, head, x, run[x])
  BY <1>1 DEF TurnInv
<1>3. ASSUME NEW r \in Runs, Asked(r) \/ Enters(r) \/ Fails(r) \/ SharedRun(r)
      PROVE  TurnOK(msgs', head', x, run'[x])
  <2>1. CASE r = x
    <3>1. PICK e : Becomes(x, e) /\ TurnOK(msgs', head', x, e)
      BY <1>1, <1>2, <1>3, <2>1, TurnMoves
    <3>2. run'[x] = e
      BY <1>0, <3>1, BecomesTyped
    <3> QED BY <3>1, <3>2
  <2>2. CASE r # x
    <3>1. ReadsHead(r) \/ Enters(r) \/ Fails(r) \/ SharedRun(r)
      BY <1>3 DEF Asked
    <3>2. \E e : Becomes(r, e)
      BY <3>1, RunIsOrderly
    <3>3. run'[x] = run[x]
      BY <1>0, <2>2, <3>2, BecomesTyped
    <3> QED BY <1>1, <1>2, <3>3, TurnStays
  <2> QED BY <2>1, <2>2
<1>4. CASE Chosen \/ Restarts \/ Lapses
  <2>1. run'[x] = run[x]
    BY <1>4 DEF Chosen, MovesHead, Restarts, Lapses
  <2> QED BY <1>1, <1>2, <2>1, TurnStays
<1>5. CASE Crashes
  BY <1>5, CrashIsOrderly, OffTurn DEF Blank, TurnAt
<1> QED BY <1>3, <1>4, <1>5 DEF PatientNext

\* So the model is sent it.
LEMMA TurnShows ==
  ASSUME ThreadTyped, TurnInv
  PROVE  Patient!TurnIsSeen
<1>1. DOMAIN msgs = 1..Len(msgs)
  BY DEF ThreadTyped, Patient!TypeOK
<1> QED BY <1>1 DEF TurnInv, TurnOK, OfTurn, Patient!TurnIsSeen

-----------------------------------------------------------------------------
(* Histories of a thread.                                                  *)

HistoryInv == WorkInv /\ CausalInv /\ CompleteInv /\ TurnInv

\* The invariants hold of a thread without messages,
LEMMA HistoryStart ==
  ASSUME Patient!Init
  PROVE  HistoryInv
<1>1. /\ msgs = <<>> /\ head = 0 /\ pending = None
      /\ run = [r \in Runs |-> Patient!Fresh] /\ cut = {}
  BY DEF Patient!Init
<1>2. Len(msgs) = 0 /\ 1..Len(msgs) = {} /\ Len(msgs) \in Nat
  BY <1>1
<1>3. \A r \in Runs :
        /\ run[r] = Patient!Fresh /\ run[r].at = "idle" /\ run[r].asked = None
        /\ run[r].seen = {}
  BY <1>1 DEF Patient!Fresh
<1>4. Awaited = {}
  BY <1>1, <1>3, QuietAwaits DEF Quiet
<1>5. CausalInv
  BY <1>2, <1>3 DEF CausalInv, AllCausal
<1>6. CompleteInv
  <2>1. ASSUME NEW r \in Runs
        PROVE  /\ SeenWhole(msgs, run[r], cut) /\ WayWhole(msgs, run[r], cut)
               /\ WayEnds(msgs, run[r], cut)
    BY <1>2, <1>3 DEF SeenWhole, WayWhole, WayEnds, Missing
  <2> QED BY <1>1, <1>2, <1>4, <2>1 DEF CompleteInv, LeavesWhole
<1>7. TurnInv
  BY <1>3, OffTurn DEF TurnInv, TurnAt
<1> QED BY <1>5, <1>6, <1>7, WorkStart DEF HistoryInv

\* are kept while another part moves,
LEMMA HistoryIsLeft ==
  ASSUME HistoryInv, UNCHANGED conversationVars
  PROVE  HistoryInv'
<1>1. msgs' = msgs /\ head' = head /\ pending' = pending /\ run' = run /\ cut' = cut
  BY DEF conversationVars
<1>2. Awaited' = Awaited /\ Filling' = Filling
  BY <1>1 DEF Awaited, Filling
<1>3. Opened' = Opened
  BY <1>2 DEF Opened
<1>4. WorkInv'
  BY WorkIsLeft DEF HistoryInv
<1>5. CausalInv'
  BY <1>1 DEF HistoryInv, CausalInv
<1>6. CompleteInv'
  BY <1>1, <1>2, <1>3 DEF HistoryInv, CompleteInv, LeavesWhole
<1>7. TurnInv'
  BY <1>1 DEF HistoryInv, TurnInv
<1> QED BY <1>4, <1>5, <1>6, <1>7 DEF HistoryInv

\* and by every step of clients that wait.
LEMMA HistoryKeeps ==
  ASSUME HistoryInv, Patient!Next
  PROVE  HistoryInv'
<1>1. PatientNext /\ SharedNext
  BY PatientWaits DEF HistoryInv, WorkInv
<1>2. /\ ThreadTyped /\ OneAtWork /\ WaitInv /\ CausalInv /\ CompleteInv /\ TurnInv
  BY DEF HistoryInv, WorkInv, SharedInv
<1>3. WorkInv'
  BY WorkKeeps DEF HistoryInv
<1>4. CausalInv' /\ CompleteInv' /\ TurnInv'
  BY <1>1, <1>2, CausalKeeps, CompleteKeeps, TurnsKeep
<1> QED BY <1>3, <1>4 DEF HistoryInv

\* Results follow the message with their call, a history sent to the model has a
\* result for every call whose batch was not cut, and it has the message of the turn
\* (save_message, resume_from_approval).
THEOREM HistoriesAreWhole == Spec => []HistoryIsCausal
<1> DEFINE Inv == part = "patient" => HistoryInv
<1>1. Init => Inv
  BY HistoryStart DEF Init
<1>2. Inv /\ [Next]_vars => Inv'
  <2> SUFFICES ASSUME part = "patient", HistoryInv, [Next]_vars PROVE HistoryInv'
    BY DEF Next, vars
  <2>1. Patient!Next \/ UNCHANGED conversationVars
    BY DEF Next, vars
  <2> QED BY <2>1, HistoryKeeps, HistoryIsLeft
<1>3. Inv => HistoryIsCausal
  <2> SUFFICES ASSUME part = "patient", HistoryInv
               PROVE  Patient!HistoryIsCausal /\ Patient!CompleteUnlessCut /\ Patient!TurnIsSeen
    BY DEF HistoryIsCausal
  <2>1. ThreadTyped /\ CausalInv /\ CompleteInv /\ TurnInv
    BY DEF HistoryInv, WorkInv, SharedInv
  <2> QED BY <2>1, CausalShows, CompleteShows, TurnShows
<1> QED BY <1>1, <1>2, <1>3, PTL DEF Spec

-----------------------------------------------------------------------------
(* What is computed message by message.                                    *)

\* What holds of 0, and of a number when it holds of the one before, holds of all.
LEMMA Induction ==
  ASSUME NEW N \in Nat, NEW P, 0 \in P, \A m \in 1..N : m - 1 \in P => m \in P
  PROVE  0..N \subseteq P
<1> DEFINE Wrong == {m \in 0..N : m \notin P}
<1>1. ASSUME Wrong # {} PROVE FALSE
  <2>1. PICK m \in Wrong : \A k \in Wrong : m <= k
    <3>1. Wrong \subseteq Nat
      OBVIOUS
    <3> HIDE DEF Wrong
    <3> QED BY <1>1, <3>1, Least
  <2>2. m # 0
    BY <2>1
  <2>3. m - 1 \in 0..N /\ m \in 1..N /\ ~(m <= m - 1)
    BY <2>1, <2>2
  <2>4. m - 1 \in P
    BY <2>1, <2>3
  <2> QED BY <2>1, <2>3, <2>4
<1> QED BY <1>1

\* A function that follows its equation exists.
Follow(f, a, n, G) == f[0] = a /\ \A m \in 1..n : f[m] = G[<<m, f[m - 1]>>]

LEMMA Recursion ==
  ASSUME NEW S, NEW a \in S, NEW N \in Nat, NEW G \in [(1..N) \X S -> S]
  PROVE  \E f \in [0..N -> S] : Follow(f, a, N, G)
<1> USE DEF Follow
<1> DEFINE Follows(f, n) == Follow(f, a, n, G)
           P == {n \in 0..N : \E f \in [0..n -> S] : Follows(f, n)}
<1>1. 0 \in P
  <2>1. [k \in 0..0 |-> a] \in [0..0 -> S] /\ Follows([k \in 0..0 |-> a], 0)
    OBVIOUS
  <2>2. \E f \in [0..0 -> S] : Follows(f, 0)
    BY <2>1
  <2> QED BY <2>2
<1>2. ASSUME NEW n \in 1..N, n - 1 \in P PROVE n \in P
  <2>1. PICK f \in [0..(n - 1) -> S] : Follows(f, n - 1)
    BY <1>2
  <2> DEFINE b == G[<<n, f[n - 1]>>]
             g == [k \in 0..n |-> IF k = n THEN b ELSE f[k]]
  <2>2. b \in S /\ n - 1 \in 0..(n - 1)
    BY <2>1
  <2>3. g \in [0..n -> S]
    BY <2>1, <2>2
  <2>4. g[n] = b /\ \A k \in 0..(n - 1) : g[k] = f[k] /\ k # n
    OBVIOUS
  <2> HIDE DEF g
  <2>5. ASSUME NEW m \in 1..n PROVE g[m] = G[<<m, g[m - 1]>>]
    <3>1. m - 1 \in 0..(n - 1)
      OBVIOUS
    <3>2. CASE m = n
      BY <3>1, <3>2, <2>4
    <3>3. CASE m # n
      <4>1. m \in 1..(n - 1)
        BY <3>3
      <4>2. f[m] = G[<<m, f[m - 1]>>]
        BY <4>1, <2>1
      <4>3. g[m] = f[m] /\ g[m - 1] = f[m - 1]
        BY <4>1, <3>1, <2>4
      <4> QED BY <4>2, <4>3
    <3> QED BY <3>2, <3>3
  <2>6. g[0] = a
    BY <2>1, <2>4
  <2> QED BY <2>3, <2>5, <2>6
<1>3. N \in P
  <2> HIDE DEF P
  <2> QED BY <1>1, <1>2, Induction
<1> QED BY <1>3

-----------------------------------------------------------------------------
(* Sizes, and what is joined.                                              *)

LEMMA PlanConstants ==
  /\ ToolLimit \in Nat \ {0} /\ MarkerBase \in Nat \ {0} /\ EntrySize \in Nat \ {0}
  /\ ShortEntry \in Nat \ {0} /\ CutFloor \in Nat \ {0} /\ Budgets \subseteq Int
BY PlanParameters DEF Plans!Parameters

LEMMA SizeIsNat ==
  ASSUME NEW s \in Seq(Plans!Messages)
  PROVE  Plans!Size(s) \in Nat
<1>0. Len(s) \in Nat /\ \A m \in 1..Len(s) : s[m].size \in Nat
  <2>1. \A m \in Plans!Messages : m.size \in Nat
    BY DEF Plans!Messages
  <2>2. Len(s) \in Nat /\ \A m \in 1..Len(s) : s[m] \in Plans!Messages
    OBVIOUS
  <2> QED BY <2>1, <2>2
<1> DEFINE Sums(f) == f = [n \in 0..Len(s) |-> IF n = 0 THEN 0 ELSE f[n - 1] + s[n].size]
<1>1. \E f : Sums(f)
  <2> DEFINE G == [x \in (1..Len(s)) \X Nat |-> x[2] + s[x[1]].size]
  <2>1. G \in [(1..Len(s)) \X Nat -> Nat]
    BY <1>0
  <2>2. PICK f \in [0..Len(s) -> Nat] : Follow(f, 0, Len(s), G)
    <3> HIDE DEF G
    <3>1. Len(s) \in Nat /\ 0 \in Nat
      BY <1>0
    <3> QED BY ONLY <2>1, <3>1, Recursion
  <2> USE DEF Follow
  <2>3. ASSUME NEW m \in 1..Len(s) PROVE f[m] = f[m - 1] + s[m].size
    <3>1. m - 1 \in 0..Len(s) /\ f[m - 1] \in Nat
      BY <2>2, <1>0
    <3>2. G[<<m, f[m - 1]>>] = f[m - 1] + s[m].size
      BY <3>1
    <3> HIDE DEF G
    <3> QED BY <3>2, <2>2
  <2>4. Sums(f)
    BY <2>2, <2>3
  <2> QED BY <2>4
<1>2. PICK f : Sums(f) /\ Plans!Size(s) = f[Len(s)]
  BY <1>1 DEF Plans!Size
<1> DEFINE P == {m \in 0..Len(s) : f[m] \in Nat}
<1>3. 0 \in P
  BY <1>2, <1>0
<1>4. ASSUME NEW m \in 1..Len(s), m - 1 \in P PROVE m \in P
  BY <1>2, <1>0, <1>4
<1>5. Len(s) \in P
  <2> HIDE DEF P
  <2>1. 0..Len(s) \subseteq P
    BY <1>0, <1>3, <1>4, Induction
  <2> QED BY <2>1, <1>0
<1> QED BY <1>2, <1>5

\* Across the parts, and in each, the ids ascend.
Ascending(parts) ==
  \A u, v \in DOMAIN parts : \A k \in DOMAIN parts[u], l \in DOMAIN parts[v] :
    u < v \/ (u = v /\ k < l) => parts[u][k].id < parts[v][l].id

\* The messages s are those of the places up to n, in order.
JoinedOf(s, parts, places, n) ==
  /\ s \in Seq(Plans!Messages)
  /\ \A i \in DOMAIN s : \E u \in 1..n : u \in places /\ \E k \in DOMAIN parts[u] :
       s[i] = parts[u][k]
  /\ \A u \in 1..n : u \in places => \A k \in DOMAIN parts[u] : \E i \in DOMAIN s :
       s[i] = parts[u][k]
  /\ \A i, j \in DOMAIN s : i < j => s[i].id < s[j].id

LEMMA JoinGrows ==
  ASSUME NEW parts \in Seq(Seq(Plans!Messages)), NEW places, Ascending(parts),
         NEW n \in 1..Len(parts), NEW s, JoinedOf(s, parts, places, n - 1), n \in places
  PROVE  JoinedOf(s \o parts[n], parts, places, n)
<1> DEFINE t == s \o parts[n]
<1>1. /\ s \in Seq(Plans!Messages) /\ parts[n] \in Seq(Plans!Messages)
      /\ t \in Seq(Plans!Messages)
      /\ Len(t) = Len(s) + Len(parts[n])
      /\ \A i \in 1..Len(s) : t[i] = s[i] /\ i \in 1..Len(t)
      /\ \A k \in 1..Len(parts[n]) : t[Len(s) + k] = parts[n][k] /\ Len(s) + k \in 1..Len(t)
      /\ \A i \in 1..Len(t) : i \in 1..Len(s) \/ i - Len(s) \in 1..Len(parts[n])
  BY DEF JoinedOf
<1>2. /\ DOMAIN t = 1..Len(t) /\ DOMAIN s = 1..Len(s) /\ DOMAIN parts[n] = 1..Len(parts[n])
      /\ Len(s) \in Nat /\ Len(parts[n]) \in Nat
           /\ \A u \in DOMAIN parts : DOMAIN parts[u] = 1..Len(parts[u])
      /\ DOMAIN parts = 1..Len(parts)
  BY <1>1
<1>3. \A i \in 1..Len(t) : i \notin 1..Len(s) =>
        i - Len(s) \in 1..Len(parts[n]) /\ t[i] = parts[n][i - Len(s)]
  <2> SUFFICES ASSUME NEW i \in 1..Len(t), i \notin 1..Len(s)
               PROVE  i - Len(s) \in 1..Len(parts[n]) /\ t[i] = parts[n][i - Len(s)]
    OBVIOUS
  <2>1. i - Len(s) \in 1..Len(parts[n])
    BY <1>1
  <2>2. Len(s) + (i - Len(s)) = i
    BY <1>2
  <2> HIDE DEF t
  <2> QED BY <2>1, <2>2, <1>1
<1> HIDE DEF t
<1>4. ASSUME NEW i \in 1..Len(t)
      PROVE  \E u \in 1..n : u \in places /\ \E k \in DOMAIN parts[u] : t[i] = parts[u][k]
  <2>1. CASE i \in 1..Len(s)
    <3>1. PICK u \in 1..(n - 1) : u \in places /\ \E k \in DOMAIN parts[u] : s[i] = parts[u][k]
      BY <2>1, <1>2 DEF JoinedOf
    <3> QED BY <2>1, <3>1, <1>1
  <2>2. CASE i \notin 1..Len(s)
    <3>1. t[i] = parts[n][i - Len(s)] /\ i - Len(s) \in DOMAIN parts[n]
      BY <2>2, <1>3, <1>2
    <3>2. n \in 1..n /\ n \in places
      OBVIOUS
    <3> QED BY <3>1, <3>2
  <2> QED BY <2>1, <2>2
<1>5. ASSUME NEW u \in 1..n, u \in places, NEW k \in DOMAIN parts[u]
      PROVE  \E i \in DOMAIN t : t[i] = parts[u][k]
  <2>1. CASE u = n
    BY <2>1, <1>1, <1>2
  <2>2. CASE u # n
    <3>1. u \in 1..(n - 1)
      BY <2>2
    <3>2. PICK i \in DOMAIN s : s[i] = parts[u][k]
      BY <3>1, <1>5 DEF JoinedOf
    <3> QED BY <3>2, <1>1, <1>2
  <2> QED BY <2>1, <2>2
<1>6. ASSUME NEW i \in 1..Len(t), NEW j \in 1..Len(t), i < j PROVE t[i].id < t[j].id
  <2>1. CASE j \in 1..Len(s)
    <3>1. i \in 1..Len(s)
      BY <2>1, <1>6, <1>2
    <3>2. s[i].id < s[j].id
      BY <2>1, <3>1, <1>6, <1>2 DEF JoinedOf
    <3> QED BY <2>1, <3>1, <3>2, <1>1
  <2>2. CASE i \in 1..Len(s) /\ j \notin 1..Len(s)
    <3>1. PICK u \in 1..(n - 1) : \E k \in DOMAIN parts[u] : s[i] = parts[u][k]
      BY <2>2, <1>2 DEF JoinedOf
    <3>2. PICK k \in DOMAIN parts[u] : s[i] = parts[u][k]
      BY <3>1
    <3>3. u \in DOMAIN parts /\ n \in DOMAIN parts /\ u < n
      BY <1>2
    <3>4. parts[u][k].id < parts[n][j - Len(s)].id
      BY <3>2, <3>3, <2>2, <1>3, <1>2 DEF Ascending
    <3> QED BY <3>2, <3>4, <2>2, <1>3, <1>1
  <2>3. CASE i \notin 1..Len(s) /\ j \notin 1..Len(s)
    <3>1. i - Len(s) < j - Len(s)
      BY <1>6, <1>2
    <3>2. parts[n][i - Len(s)].id < parts[n][j - Len(s)].id
      BY <3>1, <2>3, <1>3, <1>2 DEF Ascending
    <3> QED BY <3>2, <2>3, <1>3
  <2> QED BY <2>1, <2>2, <2>3
<1>7. JoinedOf(t, parts, places, n)
  BY <1>1, <1>2, <1>4, <1>5, <1>6 DEF JoinedOf
<1> QED BY <1>7 DEF t

LEMMA JoinedIs ==
  ASSUME NEW parts \in Seq(Seq(Plans!Messages)), NEW places, Ascending(parts)
  PROVE  JoinedOf(Plans!Joined(parts, places), parts, places, Len(parts))
<1>0. Len(parts) \in Nat /\ \A n \in 1..Len(parts) : parts[n] \in Seq(Plans!Messages)
  OBVIOUS
<1> DEFINE N == Len(parts)
           Joins(f) == f = [n \in 0..N |->
             IF n = 0 THEN <<>> ELSE IF n \in places THEN f[n - 1] \o parts[n] ELSE f[n - 1]]
<1>1. \E f : Joins(f)
  <2> DEFINE S == Seq(Plans!Messages)
             G == [x \in (1..N) \X S |-> IF x[1] \in places THEN x[2] \o parts[x[1]] ELSE x[2]]
  <2>1. G \in [(1..N) \X S -> S] /\ <<>> \in S
    BY <1>0
  <2>2. PICK f \in [0..N -> S] : Follow(f, <<>>, N, G)
    <3>1. N \in Nat
      BY <1>0
    <3> HIDE DEF G, S, N
    <3> QED BY ONLY <2>1, <3>1, Recursion
  <2> USE DEF Follow
  <2>3. ASSUME NEW m \in 1..N
        PROVE  f[m] = IF m \in places THEN f[m - 1] \o parts[m] ELSE f[m - 1]
    <3>1. m - 1 \in 0..N
      BY <1>0
    <3>2. f[m - 1] \in S
      <4> HIDE DEF S, N
      <4> QED BY <2>2, <3>1
    <3>3. G[<<m, f[m - 1]>>] = IF m \in places THEN f[m - 1] \o parts[m] ELSE f[m - 1]
      <4> HIDE DEF S, N
      <4> QED BY <3>2
    <3> HIDE DEF G
    <3> QED BY <3>3, <2>2
  <2>4. DOMAIN f = 0..N /\ f = [n \in 0..N |-> f[n]]
    <3> HIDE DEF S, N, G
    <3> QED BY <2>2
  <2>5. Joins(f)
    <3>1. \A n \in 0..N : f[n] = IF n = 0 THEN <<>>
            ELSE IF n \in places THEN f[n - 1] \o parts[n] ELSE f[n - 1]
      <4>1. \A n \in 0..N : n = 0 \/ n \in 1..N
        BY <1>0
      <4> HIDE DEF N, G
      <4> QED BY <2>2, <2>3, <4>1
    <3> HIDE DEF N
    <3> QED BY <2>4, <3>1
  <2> QED BY <2>5
<1>2. PICK f : Joins(f) /\ Plans!Joined(parts, places) = f[N]
  BY <1>1 DEF Plans!Joined
<1>3. f[0] = <<>> /\ \A m \in 1..N :
        f[m] = IF m \in places THEN f[m - 1] \o parts[m] ELSE f[m - 1]
  <2>1. N \in Nat /\ \A m \in 1..N : m # 0 /\ m \in 0..N
    BY <1>0
  <2>2. 0 \in 0..N
    BY <2>1
  <2> HIDE DEF N
  <2>3. f[0] = <<>>
    BY <1>2, <2>2
  <2>4. ASSUME NEW m \in 1..N
        PROVE  f[m] = IF m \in places THEN f[m - 1] \o parts[m] ELSE f[m - 1]
    BY <1>2, <2>1
  <2> QED BY <2>3, <2>4
<1> DEFINE P == {m \in 0..N : JoinedOf(f[m], parts, places, m)}
<1>4. 0 \in P
  <2>1. JoinedOf(<<>>, parts, places, 0)
    BY DEF JoinedOf
  <2> QED BY <2>1, <1>3, <1>0
<1>5. ASSUME NEW m \in 1..N, m - 1 \in P PROVE m \in P
  <2>1. JoinedOf(f[m - 1], parts, places, m - 1)
    BY <1>5
  <2>2. CASE m \in places
    <3>1. JoinedOf(f[m - 1] \o parts[m], parts, places, m)
      BY <2>1, <2>2, JoinGrows
    <3> QED BY <3>1, <2>2, <1>3
  <2>3. CASE m \notin places
    <3>1. JoinedOf(f[m - 1], parts, places, m)
      <4>1. \A u \in 1..m : u \in places => u \in 1..(m - 1)
        BY <2>3
      <4>2. \A u \in 1..(m - 1) : u \in 1..m
        OBVIOUS
      <4> QED BY <4>1, <4>2, <2>1 DEF JoinedOf
    <3> QED BY <3>1, <2>3, <1>3
  <2> QED BY <2>2, <2>3
<1>6. N \in P
  <2>1. N \in Nat
    BY <1>0
  <2> HIDE DEF P, N
  <2>2. 0..N \subseteq P
    BY <1>4, <1>5, <2>1, Induction
  <2> QED BY <2>1, <2>2
<1> QED BY <1>2, <1>6

-----------------------------------------------------------------------------
(* The units of a history.                                                 *)

\* A message but for its size, which is only cut where no tool says it.
Alike(a, b) ==
  /\ a.role = b.role /\ a.id = b.id /\ a.calls = b.calls /\ a.call = b.call
  /\ a.error = b.error
  /\ a.role = "tool" => a = b

\* The messages of g up to n are divided: what was said is in one unit each, in order,
\* and a call is with its results.
Divided(us, g, n) ==
  /\ us \in Seq(Seq(Plans!Messages))
  /\ \A u \in DOMAIN us : 1 \in DOMAIN us[u]
  /\ \A u \in DOMAIN us : \A k \in DOMAIN us[u] :
       /\ us[u][k].id \in 1..n /\ Alike(us[u][k], g[us[u][k].id])
       /\ Plans!IsConversation(us[u][k])
  /\ Ascending(us)
  /\ \A i \in 1..n : Plans!IsConversation(g[i]) =>
       \E u \in DOMAIN us : \E k \in DOMAIN us[u] : us[u][k].id = i
  /\ \A u \in DOMAIN us : \A k \in DOMAIN us[u] : k # 1 => Plans!Answers(us[u], us[u][k])
  /\ \A i, j \in 1..n : g[j].call \in g[i].calls =>
       \E u \in DOMAIN us : \E k, l \in DOMAIN us[u] : us[u][k].id = i /\ us[u][l].id = j

\* A call whose results may still come is the first message of the last unit.
CallIsOpen(us, g, n) ==
  \A i \in 1..n :
    /\ g[i].role = "assistant"
    /\ \A k \in (i + 1)..n : Plans!IsConversation(g[k]) =>
         g[k].role = "tool" /\ g[k].call \in g[i].calls
    => us # <<>> /\ us[Len(us)][1].id = i

\* vs is us with the message m at place k of the last unit u.
AddsTo(us, vs, m, u, k) ==
  /\ u = Len(vs) /\ u \in DOMAIN vs /\ k \in DOMAIN vs[u] /\ vs[u][k] = m
  /\ \A v \in DOMAIN us : v \in DOMAIN vs /\ v <= u
  /\ \A v \in DOMAIN us : \A l \in DOMAIN us[v] :
       l \in DOMAIN vs[v] /\ vs[v][l] = us[v][l] /\ (v = u => l < k)
  /\ \A v \in DOMAIN vs : \A l \in DOMAIN vs[v] :
       (v = u /\ l = k) \/ (v \in DOMAIN us /\ l \in DOMAIN us[v])
  /\ \A v \in DOMAIN vs : 1 \in DOMAIN vs[v]
  /\ k # 1 => Plans!Answers(vs[u], m)
  /\ us # <<>> /\ Plans!Answers(us[Len(us)], m) => u = Len(us)

LEMMA ExtendedAddsTo ==
  ASSUME NEW us \in Seq(Seq(Plans!Messages)), \A u \in DOMAIN us : 1 \in DOMAIN us[u],
         NEW m \in Plans!Messages, Plans!IsConversation(m)
  PROVE  /\ Plans!Extended(us, m) \in Seq(Seq(Plans!Messages))
         /\ \E u, k \in Nat : AddsTo(us, Plans!Extended(us, m), m, u, k)
<1>0. /\ DOMAIN us = 1..Len(us) /\ Len(us) \in Nat
      /\ us # <<>> => Len(us) \in 1..Len(us)
      /\ \A u \in 1..Len(us) : us[u] \in Seq(Plans!Messages)
  OBVIOUS
<1>1. ~Plans!IsSystem(m)
  BY DEF Plans!IsSystem, Plans!IsConversation
<1>2. CASE us # <<>> /\ Plans!Answers(us[Len(us)], m)
  <2> DEFINE L == Len(us)
             old == us[L]
             new == Append(old, m)
             vs == [us EXCEPT ![L] = new]
  <2>1. old \in Seq(Plans!Messages) /\ new \in Seq(Plans!Messages) /\ L \in 1..L /\ L \in Nat
       /\ DOMAIN us = 1..L
    BY <1>0, <1>2
  <2>2. /\ Len(old) \in Nat /\ DOMAIN old = 1..Len(old) /\ DOMAIN new = 1..(Len(old) + 1)
        /\ new[Len(old) + 1] = m /\ \A l \in 1..Len(old) : new[l] = old[l]
    BY <2>1
  <2>3. /\ vs \in Seq(Seq(Plans!Messages)) /\ Len(vs) = L /\ DOMAIN vs = 1..L
        /\ vs[L] = new /\ \A v \in 1..L : v # L => vs[v] = us[v]
    <3> HIDE DEF new, old
    <3>1. us \in [1..L -> Seq(Plans!Messages)] /\ L \in Nat
      BY <2>1, <1>0
    <3>2. vs \in [1..L -> Seq(Plans!Messages)]
      BY <3>1, <2>1
    <3>3. vs \in Seq(Seq(Plans!Messages)) /\ Len(vs) = L
      <4> HIDE DEF vs, L
      <4> QED BY <3>1, <3>2
    <3>4. vs[L] = new /\ \A v \in 1..L : v # L => vs[v] = us[v]
      <4> HIDE DEF L
      <4> QED BY <3>1, <2>1
    <3>5. DOMAIN vs = 1..L
      <4> HIDE DEF vs, L
      <4> QED BY <3>2
    <3> HIDE DEF vs, L
    <3> QED BY <3>3, <3>4, <3>5
  <2>4. Plans!Extended(us, m) = vs
    BY <1>1, <1>2 DEF Plans!Extended
  <2>5. 1 \in 1..Len(old)
    BY <1>0, <2>1, <2>2
  <2>6. Plans!Answers(old, m) /\ new[1] = old[1]
    BY <1>2, <2>2, <2>5
  <2> HIDE DEF vs, new, old, L
  <2>7. Plans!Answers(new, m)
    BY <2>6 DEF Plans!Answers
  <2>8. AddsTo(us, vs, m, L, Len(old) + 1)
    <3>1. L = Len(vs) /\ L \in DOMAIN vs /\ Len(old) + 1 \in DOMAIN vs[L]
          /\ vs[L][Len(old) + 1] = m
      BY <2>1, <2>2, <2>3
    <3>2. \A v \in DOMAIN us : v \in DOMAIN vs /\ v <= L
      BY <2>3, <2>1
    <3>3. ASSUME NEW v \in DOMAIN us, NEW l \in DOMAIN us[v]
          PROVE  l \in DOMAIN vs[v] /\ vs[v][l] = us[v][l] /\ (v = L => l < Len(old) + 1)
      <4>1. v \in 1..L
        BY <2>1
      <4>2. CASE v = L
        BY <4>2, <2>2, <2>3, <3>3 DEF old
      <4>3. CASE v # L
        BY <4>1, <4>3, <2>3
      <4> QED BY <4>2, <4>3
    <3>4. ASSUME NEW v \in DOMAIN vs, NEW l \in DOMAIN vs[v]
          PROVE  (v = L /\ l = Len(old) + 1) \/ (v \in DOMAIN us /\ l \in DOMAIN us[v])
      <4>1. v \in 1..L /\ v \in DOMAIN us
        BY <2>1, <2>3
      <4>2. CASE v = L
        BY <4>1, <4>2, <2>2, <2>3, <3>4 DEF old
      <4>3. CASE v # L
        BY <4>1, <4>3, <2>3
      <4> QED BY <4>2, <4>3
    <3>5. ASSUME NEW v \in DOMAIN vs PROVE 1 \in DOMAIN vs[v]
      <4>1. v \in 1..L /\ v \in DOMAIN us
        BY <2>1, <2>3
      <4>2. CASE v = L
        BY <4>2, <2>2, <2>3
      <4>3. CASE v # L
        BY <4>1, <4>3, <2>3
      <4> QED BY <4>2, <4>3
    <3> QED BY <3>1, <3>2, <3>3, <3>4, <3>5, <2>7, <2>3 DEF AddsTo, L
  <2> QED BY <2>3, <2>4, <2>8, <2>1, <2>2
<1>3. CASE ~(us # <<>> /\ Plans!Answers(us[Len(us)], m))
  <2> DEFINE L == Len(us)
             new == <<m>>
             vs == Append(us, new)
  <2>1. new \in Seq(Plans!Messages) /\ DOMAIN new = {1} /\ new[1] = m
    OBVIOUS
  <2>0. \A v \in 1..L : 1 \in DOMAIN us[v]
    BY <1>0
  <2>2. /\ vs \in Seq(Seq(Plans!Messages)) /\ Len(vs) = L + 1 /\ DOMAIN vs = 1..(L + 1)
        /\ vs[L + 1] = new /\ \A v \in 1..L : vs[v] = us[v]
    BY <2>1, <1>0
  <2>3. Plans!Extended(us, m) = vs
    BY <1>1, <1>3 DEF Plans!Extended
  <2>4. L \in Nat /\ L + 1 \in 1..(L + 1) /\ \A v \in 1..(L + 1) : v = L + 1 \/ v \in 1..L
    BY <1>0
  <2>5. \A v \in 1..L : v \in 1..(L + 1) /\ v <= L + 1 /\ v # L + 1
    BY <1>0
  <2> HIDE DEF vs, new
  <2>6. AddsTo(us, vs, m, L + 1, 1)
    <3>1. L + 1 = Len(vs) /\ L + 1 \in DOMAIN vs /\ 1 \in DOMAIN vs[L + 1] /\ vs[L + 1][1] = m
      BY <2>1, <2>2, <2>4
    <3>2. \A v \in DOMAIN us : v \in DOMAIN vs /\ v <= L + 1
      BY <1>0, <2>2, <2>5
    <3>3. ASSUME NEW v \in DOMAIN us, NEW l \in DOMAIN us[v]
          PROVE  l \in DOMAIN vs[v] /\ vs[v][l] = us[v][l] /\ (v = L + 1 => l < 1)
      BY <1>0, <2>2, <2>5
    <3>4. ASSUME NEW v \in DOMAIN vs, NEW l \in DOMAIN vs[v]
          PROVE  (v = L + 1 /\ l = 1) \/ (v \in DOMAIN us /\ l \in DOMAIN us[v])
      <4>1. v = L + 1 \/ v \in 1..L
        BY <2>2, <2>4
      <4>2. CASE v = L + 1
        BY <4>2, <3>4, <2>1, <2>2
      <4>3. CASE v \in 1..L
        BY <4>3, <3>4, <1>0, <2>2
      <4> QED BY <4>1, <4>2, <4>3
    <3>5. ASSUME NEW v \in DOMAIN vs PROVE 1 \in DOMAIN vs[v]
      <4>1. v = L + 1 \/ v \in 1..L
        BY <2>2, <2>4
      <4>2. CASE v = L + 1
        BY <4>2, <2>1, <2>2
      <4>3. CASE v \in 1..L
        BY <4>3, <2>0, <2>2
      <4> QED BY <4>1, <4>2, <4>3
    <3> QED BY <3>1, <3>2, <3>3, <3>4, <3>5, <1>3 DEF AddsTo
  <2> QED BY <2>2, <2>3, <2>4, <2>6
<1> QED BY <1>2, <1>3

LEMMA ItemsOf ==
  ASSUME NEW S, NEW s \in Seq(S)
  PROVE  \A x \in DOMAIN s : x \in Nat /\ s[x] \in S
OBVIOUS

LEMMA DividedGrows ==
  ASSUME NEW g, Plans!Causal(g), NEW n \in 1..Len(g), Plans!IsConversation(g[n]),
         NEW us, Divided(us, g, n - 1), CallIsOpen(us, g, n - 1),
         NEW vs \in Seq(Seq(Plans!Messages)), NEW u \in Nat, NEW k \in Nat,
         AddsTo(us, vs, g[n], u, k)
  PROVE  Divided(vs, g, n) /\ CallIsOpen(vs, g, n)
<1>0. /\ g \in Seq(Plans!Messages) /\ DOMAIN g = 1..Len(g) /\ Len(g) \in Nat
      /\ g[n].id = n /\ n \in DOMAIN g
      /\ \A i \in 1..(n - 1) : i \in DOMAIN g /\ i \in 1..n /\ i < n
      /\ \A i \in 1..n : i \in DOMAIN g /\ (i = n \/ i \in 1..(n - 1))
  BY DEF Plans!Causal
<1>1. ASSUME NEW v \in DOMAIN vs, NEW l \in DOMAIN vs[v]
      PROVE  /\ vs[v][l].id \in 1..n /\ Alike(vs[v][l], g[vs[v][l].id])
             /\ Plans!IsConversation(vs[v][l])
             /\ l # 1 => Plans!Answers(vs[v], vs[v][l])
  <2>1. CASE v = u /\ l = k
    BY <2>1, <1>0 DEF AddsTo, Alike
  <2>2. CASE v \in DOMAIN us /\ l \in DOMAIN us[v]
    <3>1. vs[v][l] = us[v][l]
      BY <2>2 DEF AddsTo
    <3>2. 1 \in DOMAIN us[v] /\ vs[v][1] = us[v][1]
      BY <2>2 DEF AddsTo, Divided
    <3>3. /\ us[v][l].id \in 1..(n - 1) /\ Alike(us[v][l], g[us[v][l].id])
          /\ Plans!IsConversation(us[v][l])
          /\ l # 1 => Plans!Answers(us[v], us[v][l])
      BY <2>2 DEF Divided
    <3>4. l # 1 => Plans!Answers(vs[v], us[v][l])
      BY <3>2, <3>3 DEF Plans!Answers
    <3> QED BY <3>1, <3>3, <3>4, <1>0
  <2> QED BY <2>1, <2>2 DEF AddsTo
<1>2. Ascending(vs)
  <2> SUFFICES ASSUME NEW a \in DOMAIN vs, NEW b \in DOMAIN vs, NEW i \in DOMAIN vs[a],
                      NEW j \in DOMAIN vs[b], a < b \/ (a = b /\ i < j)
               PROVE  vs[a][i].id < vs[b][j].id
    BY DEF Ascending
  <2>0. a \in Nat /\ b \in Nat /\ i \in Nat /\ j \in Nat
    <3>1. \A w \in DOMAIN vs : w \in Nat /\ vs[w] \in Seq(Plans!Messages)
      BY ItemsOf
    <3>2. \A w \in DOMAIN vs : \A x \in DOMAIN vs[w] : x \in Nat
      BY <3>1, ItemsOf
    <3> QED BY <3>1, <3>2
  <2>1. CASE a = u /\ i = k
    <3>1. ~(b = u /\ j = k)
      BY <2>0, <2>1
    <3>2. b \in DOMAIN us /\ j \in DOMAIN us[b]
      BY <3>1 DEF AddsTo
    <3>3. b <= u /\ (b = u => j < k)
      BY <3>2 DEF AddsTo
    <3>4. a = b /\ i < j
      BY <2>0, <2>1, <3>3
    <3>5. j < i
      BY <2>1, <3>3, <3>4
    <3> QED BY <2>0, <3>4, <3>5
  <2>2. CASE a \in DOMAIN us /\ i \in DOMAIN us[a]
    <3>1. vs[a][i] = us[a][i] /\ us[a][i].id \in 1..(n - 1)
      BY <2>2 DEF AddsTo, Divided
    <3>2. CASE b = u /\ j = k
      <4>1. vs[b][j].id = n
        BY <3>2, <1>0 DEF AddsTo
      <4> QED BY <3>1, <4>1, <1>0
    <3>3. CASE b \in DOMAIN us /\ j \in DOMAIN us[b]
      <4>1. vs[b][j] = us[b][j]
        BY <3>3 DEF AddsTo
      <4>2. Ascending(us)
        BY DEF Divided
      <4>3. us[a][i].id < us[b][j].id
        BY <4>2, <2>2, <3>3 DEF Ascending
      <4> QED BY <3>1, <4>1, <4>3
    <3> QED BY <3>2, <3>3 DEF AddsTo
  <2> QED BY <2>1, <2>2 DEF AddsTo
<1>3. ASSUME NEW i \in 1..n, Plans!IsConversation(g[i])
      PROVE  \E v \in DOMAIN vs : \E l \in DOMAIN vs[v] : vs[v][l].id = i
  <2>1. CASE i = n
    BY <2>1, <1>0 DEF AddsTo
  <2>2. CASE i \in 1..(n - 1)
    <3>1. PICK v \in DOMAIN us : \E l \in DOMAIN us[v] : us[v][l].id = i
      BY <2>2, <1>3 DEF Divided
    <3>2. PICK l \in DOMAIN us[v] : us[v][l].id = i
      BY <3>1
    <3>3. v \in DOMAIN vs /\ l \in DOMAIN vs[v] /\ vs[v][l].id = i
      BY <3>1, <3>2 DEF AddsTo
    <3> QED BY <3>3
  <2> QED BY <2>1, <2>2, <1>0
<1>4. ASSUME NEW i \in 1..(n - 1), g[i].role = "assistant",
             \A l \in (i + 1)..(n - 1) : Plans!IsConversation(g[l]) =>
               g[l].role = "tool" /\ g[l].call \in g[i].calls,
             g[n].role = "tool", g[n].call \in g[i].calls
      PROVE  u = Len(us) /\ us # <<>> /\ us[u][1].id = i /\ vs[u][1].id = i
  <2>1. us # <<>> /\ us[Len(us)][1].id = i
    BY <1>4 DEF CallIsOpen
  <2>2. Len(us) \in DOMAIN us /\ 1 \in DOMAIN us[Len(us)]
    <3>1. us \in Seq(Seq(Plans!Messages))
      BY DEF Divided
    <3>2. Len(us) \in DOMAIN us
      BY <3>1, <2>1
    <3> QED BY <3>2 DEF Divided
  <2>3. Alike(us[Len(us)][1], g[i])
    BY <2>1, <2>2 DEF Divided
  <2>4. Plans!Answers(us[Len(us)], g[n])
    BY <2>3, <1>4 DEF Alike, Plans!Answers
  <2>5. u = Len(us)
    BY <2>1, <2>4 DEF AddsTo
  <2>6. vs[u][1] = us[u][1]
    BY <2>2, <2>5 DEF AddsTo
  <2> QED BY <2>1, <2>5, <2>6
<1>5. ASSUME NEW i \in 1..n, NEW j \in 1..n, g[j].call \in g[i].calls
      PROVE  \E v \in DOMAIN vs : \E l, o \in DOMAIN vs[v] : vs[v][l].id = i /\ vs[v][o].id = j
  <2>1. /\ i < j /\ g[i].role = "assistant" /\ g[j].role = "tool"
        /\ \A l \in (i + 1)..j : Plans!IsConversation(g[l]) =>
             g[l].role = "tool" /\ g[l].call \in g[i].calls
    BY <1>0, <1>5 DEF Plans!Causal
  <2>2. i \in 1..(n - 1)
    BY <2>1
  <2>3. CASE j = n
    <3>1. \A l \in (i + 1)..(n - 1) : l \in (i + 1)..j
      BY <2>3
    <3>2. vs[u][1].id = i
      BY <1>4, <2>1, <2>2, <2>3, <3>1, <1>5
    <3>3. u \in DOMAIN vs /\ 1 \in DOMAIN vs[u] /\ k \in DOMAIN vs[u] /\ vs[u][k].id = j
      BY <1>0, <2>3 DEF AddsTo
    <3> QED BY <3>2, <3>3
  <2>4. CASE j \in 1..(n - 1)
    <3>1. PICK v \in DOMAIN us : \E l, o \in DOMAIN us[v] : us[v][l].id = i /\ us[v][o].id = j
      BY <2>2, <2>4, <1>5 DEF Divided
    <3>2. PICK l \in DOMAIN us[v], o \in DOMAIN us[v] : us[v][l].id = i /\ us[v][o].id = j
      BY <3>1
    <3>3. /\ v \in DOMAIN vs /\ l \in DOMAIN vs[v] /\ o \in DOMAIN vs[v]
          /\ vs[v][l] = us[v][l] /\ vs[v][o] = us[v][o]
      BY <3>1, <3>2 DEF AddsTo
    <3> QED BY <3>2, <3>3
  <2> QED BY <2>3, <2>4, <1>0
<1>6. ASSUME NEW i \in 1..n, g[i].role = "assistant",
             \A l \in (i + 1)..n : Plans!IsConversation(g[l]) =>
               g[l].role = "tool" /\ g[l].call \in g[i].calls
      PROVE  vs # <<>> /\ vs[Len(vs)][1].id = i
  <2>0. vs # <<>> /\ u = Len(vs)
    BY DEF AddsTo
  <2>1. CASE i = n
    <3>1. ~Plans!Answers(vs[u], g[n])
      BY <2>1, <1>6 DEF Plans!Answers
    <3>2. k = 1
      BY <3>1 DEF AddsTo
    <3> QED BY <2>0, <2>1, <3>2, <1>0 DEF AddsTo
  <2>2. CASE i \in 1..(n - 1)
    <3>1. n \in (i + 1)..n /\ \A l \in (i + 1)..(n - 1) : l \in (i + 1)..n
      BY <2>2
    <3>2. vs[u][1].id = i
      BY <3>1, <2>2, <1>4, <1>6
    <3> QED BY <2>0, <3>2
  <2> QED BY <2>1, <2>2, <1>0
<1>7. \A v \in DOMAIN vs : 1 \in DOMAIN vs[v]
  BY DEF AddsTo
<1>8. Divided(vs, g, n)
  BY <1>1, <1>2, <1>3, <1>5, <1>7 DEF Divided
<1> QED BY <1>6, <1>8 DEF CallIsOpen

LEMMA DividedStays ==
  ASSUME NEW g, Plans!Causal(g), NEW n \in 1..Len(g), Plans!IsSystem(g[n]),
         NEW us, Divided(us, g, n - 1), CallIsOpen(us, g, n - 1)
  PROVE  Divided(us, g, n) /\ CallIsOpen(us, g, n)
<1>0. /\ g \in Seq(Plans!Messages) /\ DOMAIN g = 1..Len(g) /\ Len(g) \in Nat /\ n \in DOMAIN g
      /\ \A i \in 1..(n - 1) : i \in 1..n
      /\ \A i \in 1..n : i \in DOMAIN g /\ (i = n \/ i \in 1..(n - 1))
  BY DEF Plans!Causal
<1>1. ~Plans!IsConversation(g[n]) /\ g[n].role # "tool" /\ g[n].role # "assistant"
  BY DEF Plans!IsSystem, Plans!IsConversation
<1>2. \A i, j \in 1..n : g[j].call \in g[i].calls => i \in 1..(n - 1) /\ j \in 1..(n - 1)
  <2> SUFFICES ASSUME NEW i \in 1..n, NEW j \in 1..n, g[j].call \in g[i].calls
               PROVE  i \in 1..(n - 1) /\ j \in 1..(n - 1)
    OBVIOUS
  <2>1. i < j /\ g[j].role = "tool"
    BY <1>0 DEF Plans!Causal
  <2> QED BY <2>1, <1>1, <1>0
<1>3. \A i \in 1..n : Plans!IsConversation(g[i]) => i \in 1..(n - 1)
  BY <1>0, <1>1
<1>4. Divided(us, g, n)
  <2>1. \A u \in DOMAIN us : \A k \in DOMAIN us[u] :
          /\ us[u][k].id \in 1..n
          /\ Alike(us[u][k], g[us[u][k].id]) /\ Plans!IsConversation(us[u][k])
    BY <1>0 DEF Divided
  <2>2. \A i \in 1..n : Plans!IsConversation(g[i]) =>
          \E u \in DOMAIN us : \E k \in DOMAIN us[u] : us[u][k].id = i
    BY <1>3 DEF Divided
  <2>3. \A i, j \in 1..n : g[j].call \in g[i].calls =>
          \E u \in DOMAIN us : \E k, l \in DOMAIN us[u] : us[u][k].id = i /\ us[u][l].id = j
    BY <1>2 DEF Divided
  <2> QED BY <2>1, <2>2, <2>3 DEF Divided
<1>5. CallIsOpen(us, g, n)
  <2> SUFFICES ASSUME NEW i \in 1..n, g[i].role = "assistant",
                      \A l \in (i + 1)..n : Plans!IsConversation(g[l]) =>
                        g[l].role = "tool" /\ g[l].call \in g[i].calls
               PROVE  us # <<>> /\ us[Len(us)][1].id = i
    BY DEF CallIsOpen
  <2>1. i \in 1..(n - 1) /\ \A l \in (i + 1)..(n - 1) : l \in (i + 1)..n
    BY <1>0, <1>1
  <2> QED BY <2>1 DEF CallIsOpen
<1> QED BY <1>4, <1>5

LEMMA ExtendedIsType ==
  ASSUME NEW us \in Seq(Seq(Plans!Messages)), NEW m \in Plans!Messages
  PROVE  Plans!Extended(us, m) \in Seq(Seq(Plans!Messages))
<1>1. CASE us # <<>>
  <2> DEFINE L == Len(us)
             new == Append(us[L], m)
  <2>1. L \in Nat /\ L \in 1..L /\ us \in [1..L -> Seq(Plans!Messages)]
    BY <1>1
  <2>2. new \in Seq(Plans!Messages)
    BY <2>1
  <2> HIDE DEF new
  <2>3. [us EXCEPT ![L] = new] \in [1..L -> Seq(Plans!Messages)]
    BY <2>1, <2>2
  <2>4. [us EXCEPT ![L] = new] \in Seq(Seq(Plans!Messages))
    <3> DEFINE vs == [us EXCEPT ![L] = new]
    <3> HIDE DEF vs, L
    <3> QED BY <2>1, <2>3
  <2>5. Append(us, <<m>>) \in Seq(Seq(Plans!Messages))
    BY <2>1
  <2> QED BY <2>4, <2>5 DEF Plans!Extended, new
<1>2. CASE us = <<>>
  <2>1. <<m>> \in Seq(Plans!Messages)
    OBVIOUS
  <2>2. Append(us, <<m>>) \in Seq(Seq(Plans!Messages))
    BY <2>1
  <2> QED BY <1>2, <2>2 DEF Plans!Extended
<1> QED BY <1>1, <1>2

LEMMA UnitsAre ==
  ASSUME NEW g, Plans!Causal(g)
  PROVE  Divided(Plans!Units(g), g, Len(g))
<1> DEFINE N == Len(g)
           S == Seq(Seq(Plans!Messages))
           G == [x \in (1..N) \X S |-> Plans!Extended(x[2], g[x[1]])]
           Counts(f) == f = [n \in 0..N |-> IF n = 0 THEN <<>>
                                              ELSE Plans!Extended(f[n - 1], g[n])]
<1>0. N \in Nat /\ \A n \in 1..N : g[n] \in Plans!Messages
  BY DEF Plans!Causal
<1>1. PICK f \in [0..N -> S] : Follow(f, <<>>, N, G)
  <2>1. G \in [(1..N) \X S -> S]
    <3> SUFFICES ASSUME NEW x \in (1..N) \X S PROVE Plans!Extended(x[2], g[x[1]]) \in S
      OBVIOUS
    <3>1. x[1] \in 1..N /\ x[2] \in S /\ g[x[1]] \in Plans!Messages
      BY <1>0
    <3> QED BY <3>1, ExtendedIsType
  <2>2. <<>> \in S
    OBVIOUS
  <2> HIDE DEF G, S, N
  <2> QED BY ONLY <2>1, <2>2, <1>0, Recursion
<1>2. f[0] = <<>> /\ \A n \in 1..N : f[n] = Plans!Extended(f[n - 1], g[n]) /\ f[n - 1] \in S
  <2>1. f[0] = <<>>
    BY <1>1 DEF Follow
  <2>2. ASSUME NEW n \in 1..N PROVE f[n] = Plans!Extended(f[n - 1], g[n]) /\ f[n - 1] \in S
    <3>1. n - 1 \in 0..N
      BY <1>0
    <3>2. f[n - 1] \in S
      <4> HIDE DEF S, N, G
      <4> QED BY <1>1, <3>1
    <3>3. G[<<n, f[n - 1]>>] = Plans!Extended(f[n - 1], g[n])
      <4> HIDE DEF S, N
      <4> QED BY <3>2
    <3> HIDE DEF G, S
    <3> QED BY <3>2, <3>3, <1>1 DEF Follow
  <2> QED BY <2>1, <2>2
<1>3. Counts(f)
  <2>1. DOMAIN f = 0..N /\ f = [n \in 0..N |-> f[n]]
    <3> HIDE DEF S, N, G
    <3> QED BY <1>1
  <2>2. \A n \in 0..N : n = 0 \/ (n \in 1..N /\ n # 0)
    BY <1>0
  <2>3. \A n \in 0..N : f[n] = IF n = 0 THEN <<>> ELSE Plans!Extended(f[n - 1], g[n])
    <3> HIDE DEF N, G, S
    <3> QED BY <1>2, <2>2
  <2> HIDE DEF N
  <2> QED BY <2>1, <2>3
<1>4. PICK h : Counts(h) /\ Plans!Units(g) = h[N]
  BY <1>3 DEF Plans!Units
<1>5. h[0] = <<>> /\ \A n \in 1..N : h[n] = Plans!Extended(h[n - 1], g[n])
  <2>1. 0 \in 0..N /\ \A n \in 1..N : n # 0 /\ n \in 0..N
    BY <1>0
  <2> HIDE DEF N
  <2> QED BY <2>1, <1>4
<1> DEFINE P == {n \in 0..N : Divided(h[n], g, n) /\ CallIsOpen(h[n], g, n)}
<1>6. 0 \in P
  <2>1. <<>> \in S /\ 0 \in 0..N
    BY <1>0
  <2>2. Divided(<<>>, g, 0)
    BY <2>1 DEF Divided, Ascending
  <2>3. CallIsOpen(<<>>, g, 0)
    BY DEF CallIsOpen
  <2> QED BY <2>1, <2>2, <2>3, <1>5
<1>7. ASSUME NEW n \in 1..N, n - 1 \in P PROVE n \in P
  <2> DEFINE us == h[n - 1]
  <2>1. /\ Divided(us, g, n - 1) /\ CallIsOpen(us, g, n - 1) /\ h[n] = Plans!Extended(us, g[n])
        /\ n \in 0..N /\ g[n] \in Plans!Messages
    BY <1>7, <1>5, <1>0
  <2> HIDE DEF us
  <2>2. CASE Plans!IsSystem(g[n])
    <3>1. h[n] = us
      BY <2>1, <2>2 DEF Plans!Extended
    <3> QED BY <2>1, <2>2, <3>1, DividedStays
  <2>3. CASE Plans!IsConversation(g[n])
    <3>1. us \in Seq(Seq(Plans!Messages)) /\ \A u \in DOMAIN us : 1 \in DOMAIN us[u]
      BY <2>1 DEF Divided
    <3>2. h[n] \in Seq(Seq(Plans!Messages)) /\ \E u, k \in Nat : AddsTo(us, h[n], g[n], u, k)
      BY <2>1, <2>3, <3>1, ExtendedAddsTo
    <3>3. PICK u \in Nat, k \in Nat : AddsTo(us, h[n], g[n], u, k)
      BY <3>2
    <3> QED BY <2>1, <2>3, <3>2, <3>3, DividedGrows
  <2> QED BY <2>2, <2>3 DEF Plans!IsSystem, Plans!IsConversation
<1>8. N \in P
  <2> HIDE DEF P, N
  <2>1. 0..N \subseteq P
    BY <1>0, <1>6, <1>7, Induction
  <2> QED BY <2>1, <1>0
<1> QED BY <1>4, <1>8

-----------------------------------------------------------------------------
(* The history that is planned for.                                        *)

LEMMA MaxIs ==
  ASSUME NEW N \in Nat, NEW T \in SUBSET (0..N), T # {}
  PROVE  Plans!Max(T) \in T /\ \A y \in T : y <= Plans!Max(T)
<1>1. \E x \in T : \A y \in T : x >= y
  BY Greatest
<1>2. Plans!Max(T) \in T /\ \A y \in T : Plans!Max(T) >= y
  BY <1>1 DEF Plans!Max
<1>3. \A a, b \in 0..N : a >= b => b <= a
  OBVIOUS
<1> QED BY <1>2, <1>3

LEMMA LatestToolIs ==
  ASSUME NEW s \in Seq(Plans!Messages)
  PROVE  LET t == Plans!LatestTool(s) IN
         \/ t = 0 /\ \A i \in DOMAIN s : s[i].role # "tool"
         \/ /\ t \in DOMAIN s /\ t # 0 /\ s[t].role = "tool"
            /\ \A i \in DOMAIN s : s[i].role = "tool" => i <= t
<1> DEFINE T == {i \in 1..Len(s) : s[i].role = "tool"}
<1>1. DOMAIN s = 1..Len(s) /\ Len(s) \in Nat /\ T \in SUBSET (0..Len(s))
  OBVIOUS
<1>2. Plans!LatestTool(s) = IF T # {} THEN Plans!Max(T) ELSE 0
  BY DEF Plans!LatestTool, Plans!SelectLastInSeq
<1>3. CASE T = {}
  BY <1>1, <1>2, <1>3
<1>4. CASE T # {}
  <2>1. Plans!Max(T) \in T /\ \A i \in T : i <= Plans!Max(T)
    <3> HIDE DEF T
    <3> QED BY <1>1, <1>4, MaxIs
  <2> QED BY <1>1, <1>2, <1>4, <2>1
<1> QED BY <1>3, <1>4

LEMMA BoundIs ==
  ASSUME NEW m \in Plans!Messages
  PROVE  /\ Plans!Bound(m) \in Plans!Messages /\ Plans!Bound(m).role = m.role
         /\ Plans!Bound(m).id = m.id
         /\ Plans!Bound(m).calls = m.calls /\ Plans!Bound(m).call = m.call
         /\ Plans!Bound(m).error = m.error
<1>1. [m EXCEPT !.size = ToolLimit] =
        [role |-> m.role, id |-> m.id, size |-> ToolLimit, calls |-> m.calls,
         call |-> m.call, error |-> m.error]
  BY DEF Plans!Messages
<1>2. m.role \in {"system", "user", "assistant", "tool"} /\ m.id \in Nat \ {0}
      /\ m.calls \in SUBSET CallIds /\ m.call \in CallIds /\ m.error \in BOOLEAN
  BY DEF Plans!Messages
<1>3. [m EXCEPT !.size = ToolLimit] \in Plans!Messages
  BY <1>1, <1>2, PlanConstants DEF Plans!Messages
<1> QED BY <1>1, <1>3 DEF Plans!Bound

\* What is asked: a history that the loop kept.
Asks == asked \in [history : Histories, budget : Budgets, preserve : BOOLEAN]

LEMMA HistoryIs ==
  ASSUME Asks
  PROVE  /\ Plans!Causal(asked.history) /\ Plans!Causal(Plans!History)
         /\ Len(Plans!History) = Len(asked.history) /\ DOMAIN Plans!History = DOMAIN asked.history
         /\ \A i \in DOMAIN Plans!History :
              /\ Plans!History[i].role = asked.history[i].role
              /\ Plans!History[i].calls = asked.history[i].calls
              /\ Plans!History[i].call = asked.history[i].call
              /\ Plans!History[i].error = asked.history[i].error
         /\ LET t == Plans!LatestTool(asked.history) IN
            asked.preserve /\ t # 0 => Plans!History[t] = asked.history[t]
<1> DEFINE h == asked.history
           spared == IF asked.preserve THEN Plans!LatestTool(h) ELSE 0
<1>1. Plans!Causal(h)
  BY PlanParameters DEF Plans!Parameters, Asks
<1>2. h \in Seq(Plans!Messages) /\ DOMAIN h = 1..Len(h) /\ Len(h) \in Nat
  BY <1>1 DEF Plans!Causal
<1>3. Plans!History = [i \in 1..Len(h) |-> IF i = spared THEN h[i] ELSE Plans!Bound(h[i])]
  BY <1>2 DEF Plans!History, Plans!Bounded
<1>4. ASSUME NEW i \in 1..Len(h)
      PROVE  /\ Plans!History[i] \in Plans!Messages /\ Plans!History[i].role = h[i].role
             /\ Plans!History[i].id = h[i].id /\ Plans!History[i].calls = h[i].calls
             /\ Plans!History[i].call = h[i].call /\ Plans!History[i].error = h[i].error
  <2>1. h[i] \in Plans!Messages
    BY <1>2
  <2> QED BY <2>1, <1>3, BoundIs
<1>5. Plans!History \in Seq(Plans!Messages) /\ Len(Plans!History) = Len(h)
      /\ DOMAIN Plans!History = DOMAIN h
  <2>1. DOMAIN Plans!History = 1..Len(h) /\ Plans!History = [i \in 1..Len(h) |-> Plans!History[i]]
    BY <1>3
  <2>2. Plans!History \in [1..Len(h) -> Plans!Messages]
    BY <2>1, <1>4
  <2> QED BY <1>2, <2>2
<1>6. Plans!Causal(Plans!History)
  <2>1. \A i \in DOMAIN Plans!History : Plans!History[i].id = i
    BY <1>1, <1>2, <1>4, <1>5 DEF Plans!Causal
  <2>2. ASSUME NEW i \in DOMAIN Plans!History, NEW j \in DOMAIN Plans!History,
               Plans!History[j].call \in Plans!History[i].calls
        PROVE  /\ i < j /\ Plans!History[i].role = "assistant" /\ Plans!History[j].role = "tool"
               /\ \A k \in (i + 1)..j : Plans!IsConversation(Plans!History[k]) =>
                    Plans!History[k].role = "tool"
                    /\ Plans!History[k].call \in Plans!History[i].calls
    <3>1. i \in 1..Len(h) /\ j \in 1..Len(h) /\ h[j].call \in h[i].calls
      BY <2>2, <1>2, <1>4, <1>5
    <3>2. /\ i < j /\ h[i].role = "assistant" /\ h[j].role = "tool"
          /\ \A k \in (i + 1)..j : Plans!IsConversation(h[k]) =>
               h[k].role = "tool" /\ h[k].call \in h[i].calls
      BY <1>1, <1>2, <3>1 DEF Plans!Causal
    <3>3. \A k \in (i + 1)..j : k \in 1..Len(h)
      BY <3>1, <1>2
    <3>4. \A k \in 1..Len(h) : Plans!IsConversation(Plans!History[k]) =>
               Plans!IsConversation(h[k])
      BY <1>4 DEF Plans!IsConversation
    <3> HIDE DEF h
    <3> QED BY <3>1, <3>2, <3>3, <3>4, <1>4
  <2> QED BY <2>1, <2>2, <1>5 DEF Plans!Causal
<1>7. asked.preserve
        /\ Plans!LatestTool(h) # 0 => Plans!History[Plans!LatestTool(h)] = h[Plans!LatestTool(h)]
  BY <1>2, <1>3, LatestToolIs
<1> QED BY <1>1, <1>2, <1>4, <1>5, <1>6, <1>7

-----------------------------------------------------------------------------
(* What is sent: instructions and the marker, then units.                  *)

SentOf(s, h, us, places) ==
  /\ \A i, j \in DOMAIN s :
       i < j /\ s[i].id # 0 /\ s[j].id # 0 /\ (Plans!IsSystem(s[i]) <=> Plans!IsSystem(s[j]))
       => s[i].id < s[j].id
  /\ \A i, j \in DOMAIN s : i < j /\ Plans!IsConversation(s[i]) => Plans!IsConversation(s[j])
  /\ \A i \in DOMAIN h : Plans!IsSystem(h[i]) => \E x \in DOMAIN s : s[x].id = i
  /\ \A x \in DOMAIN s :
       \/ s[x].id = 0
       \/ s[x].id \in DOMAIN h /\ Plans!IsSystem(h[s[x].id])
       \/ \E u \in places : \E k \in DOMAIN us[u] : s[x] = us[u][k]
  /\ \A u \in places : \A k \in DOMAIN us[u] : \E x \in DOMAIN s : s[x] = us[u][k]

\* The instructions of h, in order; a message with id 0 may be among them.
Instructions(f, h) ==
  /\ \A i \in DOMAIN f :
       /\ Plans!IsSystem(f[i])
       /\ f[i].id = 0 \/ (f[i].id \in DOMAIN h /\ Plans!IsSystem(h[f[i].id]))
  /\ \A i, j \in DOMAIN f : i < j /\ f[i].id # 0 /\ f[j].id # 0 => f[i].id < f[j].id
  /\ \A i \in DOMAIN h : Plans!IsSystem(h[i]) => \E x \in DOMAIN f : f[x].id = i

LEMMA InstructionsThenUnits ==
  ASSUME NEW M, Plans!Messages \subseteq M, NEW f \in Seq(M), NEW h, Instructions(f, h),
         NEW us, NEW g, NEW n, Divided(us, g, n), NEW places \in SUBSET DOMAIN us,
         NEW c, JoinedOf(c, us, places, Len(us))
  PROVE  SentOf(f \o c, h, us, places)
<1> DEFINE t == f \o c
<1>1. /\ c \in Seq(M) /\ t \in Seq(M) /\ Len(t) = Len(f) + Len(c)
      /\ \A i \in 1..Len(f) : t[i] = f[i] /\ i \in 1..Len(t)
      /\ \A k \in 1..Len(c) : t[Len(f) + k] = c[k] /\ Len(f) + k \in 1..Len(t)
      /\ Len(f) \in Nat /\ Len(c) \in Nat
      /\ DOMAIN t = 1..Len(t) /\ DOMAIN f = 1..Len(f) /\ DOMAIN c = 1..Len(c)
  <2>1. c \in Seq(M)
    <3>1. c \in Seq(Plans!Messages)
      BY DEF JoinedOf
    <3>2. Len(c) \in Nat /\ c \in [1..Len(c) -> M]
      BY <3>1
    <3> QED BY <3>2
  <2>2. t \in Seq(M) /\ Len(t) = Len(f) + Len(c)
    BY <2>1
  <2>3. /\ \A i \in 1..Len(f) : t[i] = f[i]
        /\ \A k \in 1..Len(c) : t[Len(f) + k] = c[k]
    BY <2>1
  <2>4. Len(f) \in Nat /\ Len(c) \in Nat /\ DOMAIN f = 1..Len(f) /\ DOMAIN c = 1..Len(c)
    BY <2>1
  <2> HIDE DEF t
  <2>5. DOMAIN t = 1..Len(t)
    BY <2>2
  <2> QED BY <2>1, <2>2, <2>3, <2>4, <2>5
<1> HIDE DEF t
<1>2. ASSUME NEW i \in 1..Len(t)
      PROVE  \/ i \in 1..Len(f) /\ t[i] = f[i] /\ Plans!IsSystem(t[i])
               /\ ~Plans!IsConversation(t[i])
             \/ /\ i - Len(f) \in 1..Len(c) /\ Len(f) < i /\ t[i] = c[i - Len(f)]
                /\ Plans!IsConversation(t[i]) /\ ~Plans!IsSystem(t[i])
                /\ \E u \in places : \E k \in DOMAIN us[u] : t[i] = us[u][k]
  <2>1. CASE i \in 1..Len(f)
    BY <2>1, <1>1 DEF Instructions, Plans!IsSystem, Plans!IsConversation
  <2>2. CASE i \notin 1..Len(f)
    <3>1. i - Len(f) \in 1..Len(c) /\ Len(f) < i /\ Len(f) + (i - Len(f)) = i
      BY <2>2, <1>1
    <3>2. t[i] = c[i - Len(f)]
      BY <3>1, <1>1
    <3>3. PICK u \in places : \E k \in DOMAIN us[u] : c[i - Len(f)] = us[u][k]
      BY <3>1, <1>1 DEF JoinedOf
    <3>4. PICK k \in DOMAIN us[u] : c[i - Len(f)] = us[u][k]
      BY <3>3
    <3>5. Plans!IsConversation(us[u][k])
      BY DEF Divided
    <3> QED BY <3>1, <3>2, <3>4, <3>5 DEF Plans!IsConversation, Plans!IsSystem
  <2> QED BY <2>1, <2>2
<1>3. ASSUME NEW i \in 1..Len(t), NEW j \in 1..Len(t), i < j, Plans!IsConversation(t[i])
      PROVE  Plans!IsConversation(t[j])
  <2>1. Len(f) < i
    BY <1>2, <1>3
  <2>2. j \notin 1..Len(f)
    BY <2>1, <1>1, <1>3
  <2> QED BY <1>2, <2>2
<1>4. ASSUME NEW i \in 1..Len(t), NEW j \in 1..Len(t), i < j, t[i].id # 0, t[j].id # 0,
             Plans!IsSystem(t[i]) <=> Plans!IsSystem(t[j])
      PROVE  t[i].id < t[j].id
  <2>1. CASE Plans!IsSystem(t[i])
    <3>1. i \in 1..Len(f) /\ t[i] = f[i] /\ j \in 1..Len(f) /\ t[j] = f[j]
      BY <1>2, <1>4, <2>1
    <3> QED BY <3>1, <1>1, <1>4 DEF Instructions
  <2>2. CASE ~Plans!IsSystem(t[i])
    <3>1. /\ i - Len(f) \in 1..Len(c) /\ t[i] = c[i - Len(f)]
          /\ j - Len(f) \in 1..Len(c) /\ t[j] = c[j - Len(f)]
      BY <1>2, <1>4, <2>2
    <3>2. i - Len(f) < j - Len(f)
      BY <1>1, <1>4
    <3>3. \A x, y \in DOMAIN c : x < y => c[x].id < c[y].id
      BY DEF JoinedOf
    <3>4. i - Len(f) \in DOMAIN c /\ j - Len(f) \in DOMAIN c
      BY <3>1, <1>1
    <3> QED BY <3>1, <3>2, <3>3, <3>4
  <2> QED BY <2>1, <2>2
<1>5. ASSUME NEW i \in DOMAIN h, Plans!IsSystem(h[i]) PROVE \E x \in DOMAIN t : t[x].id = i
  <2>1. PICK x \in DOMAIN f : f[x].id = i
    BY <1>5 DEF Instructions
  <2> QED BY <2>1, <1>1
<1>6. ASSUME NEW x \in 1..Len(t)
      PROVE  \/ t[x].id = 0
             \/ t[x].id \in DOMAIN h /\ Plans!IsSystem(h[t[x].id])
             \/ \E u \in places : \E k \in DOMAIN us[u] : t[x] = us[u][k]
  <2>1. CASE x \in 1..Len(f) /\ t[x] = f[x]
    BY <2>1, <1>1 DEF Instructions
  <2> QED BY <1>2, <2>1
<1>7. ASSUME NEW u \in places, NEW k \in DOMAIN us[u] PROVE \E x \in DOMAIN t : t[x] = us[u][k]
  <2>1. u \in 1..Len(us)
    BY DEF Divided
  <2>2. PICK i \in DOMAIN c : c[i] = us[u][k]
    BY <2>1 DEF JoinedOf
  <2> QED BY <2>2, <1>1
<1>8. SentOf(t, h, us, places)
  BY <1>1, <1>3, <1>4, <1>5, <1>6, <1>7 DEF SentOf
<1> QED BY <1>8 DEF t

LEMMA SystemsAre ==
  ASSUME Asks
  PROVE  Plans!Systems \in Seq(Plans!Messages) /\ Instructions(Plans!Systems, asked.history)
<1> DEFINE h == asked.history
           parts == [i \in DOMAIN Plans!History |-> <<Plans!History[i]>>]
           places == {i \in DOMAIN Plans!History : Plans!IsSystem(Plans!History[i])}
<1>0. /\ Plans!History \in Seq(Plans!Messages)
           /\ \A i \in DOMAIN Plans!History : Plans!History[i].id = i
      /\ DOMAIN h = DOMAIN Plans!History /\ DOMAIN Plans!History = 1..Len(Plans!History)
      /\ \A i \in DOMAIN Plans!History : Plans!History[i].role = h[i].role
      /\ Len(Plans!History) \in Nat
  BY HistoryIs DEF Plans!Causal
<1>1. parts \in Seq(Seq(Plans!Messages)) /\ Len(parts) = Len(Plans!History)
      /\ DOMAIN parts = 1..Len(Plans!History)
  <2>1. \A i \in 1..Len(Plans!History) : <<Plans!History[i]>> \in Seq(Plans!Messages)
    BY <1>0
  <2>2. parts \in [1..Len(Plans!History) -> Seq(Plans!Messages)]
    BY <1>0, <2>1
  <2> HIDE DEF parts
  <2> QED BY <1>0, <2>2
<1>2. \A i \in 1..Len(Plans!History) : DOMAIN parts[i] = {1} /\ parts[i][1] = Plans!History[i]
  BY <1>0
<1> HIDE DEF parts
<1>3. Ascending(parts)
  BY <1>0, <1>1, <1>2 DEF Ascending
<1>4. JoinedOf(Plans!Systems, parts, places, Len(Plans!History))
  <2> HIDE DEF places
  <2>1. JoinedOf(Plans!Joined(parts, places), parts, places, Len(parts))
    BY <1>1, <1>3, JoinedIs
  <2> QED BY <2>1, <1>1 DEF Plans!Systems, parts, places
<1>5. ASSUME NEW i \in DOMAIN Plans!Systems
      PROVE  Plans!IsSystem(Plans!Systems[i]) /\ Plans!Systems[i].id \in DOMAIN h
             /\ Plans!IsSystem(h[Plans!Systems[i].id])
  <2>1. PICK u \in 1..Len(Plans!History) : u \in places
          /\ \E k \in DOMAIN parts[u] : Plans!Systems[i] = parts[u][k]
    BY <1>4 DEF JoinedOf
  <2>2. Plans!Systems[i] = Plans!History[u]
    BY <2>1, <1>2
  <2> QED BY <2>1, <2>2, <1>0 DEF Plans!IsSystem
<1>6. ASSUME NEW i \in DOMAIN h, Plans!IsSystem(h[i])
      PROVE  \E x \in DOMAIN Plans!Systems : Plans!Systems[x].id = i
  <2>1. i \in 1..Len(Plans!History) /\ i \in places /\ 1 \in DOMAIN parts[i]
        /\ parts[i][1] = Plans!History[i]
    BY <1>6, <1>0, <1>2 DEF Plans!IsSystem
  <2>2. PICK x \in DOMAIN Plans!Systems : Plans!Systems[x] = parts[i][1]
    BY <2>1, <1>4 DEF JoinedOf
  <2> QED BY <2>1, <2>2, <1>0
<1>7. Plans!Systems \in Seq(Plans!Messages)
        /\ \A i, j \in DOMAIN Plans!Systems : i < j => Plans!Systems[i].id < Plans!Systems[j].id
  BY <1>4 DEF JoinedOf
<1> QED BY <1>5, <1>6, <1>7 DEF Instructions

LEMMA MarkedInstructions ==
  ASSUME Asks, NEW size
  PROVE  LET m == Plans!MarkerMessage(size) IN
         /\ Plans!Systems \o <<m>> \in Seq(Plans!Messages \cup {m})
         /\ Instructions(Plans!Systems \o <<m>>, asked.history)
<1> DEFINE m == Plans!MarkerMessage(size)
           f == Plans!Systems \o <<m>>
<1>1. m.id = 0 /\ Plans!IsSystem(m)
  BY DEF Plans!MarkerMessage, Plans!IsSystem
<1>2. Plans!Systems \in Seq(Plans!Messages) /\ Instructions(Plans!Systems, asked.history)
  BY SystemsAre
<1> HIDE DEF m
<1>3. /\ f \in Seq(Plans!Messages \cup {m}) /\ Len(f) = Len(Plans!Systems) + 1
      /\ Len(Plans!Systems) \in Nat
      /\ \A i \in 1..Len(Plans!Systems) : f[i] = Plans!Systems[i]
      /\ f[Len(Plans!Systems) + 1] = m /\ DOMAIN Plans!Systems = 1..Len(Plans!Systems)
  <2>1. Plans!Systems \in Seq(Plans!Messages \cup {m}) /\ <<m>> \in Seq(Plans!Messages \cup {m})
    BY <1>2
  <2> QED BY <2>1
<1>4. DOMAIN f = 1..(Len(Plans!Systems) + 1)
  <2> HIDE DEF f
  <2> QED BY <1>3
<1> HIDE DEF f
<1>5. \A i \in 1..(Len(Plans!Systems) + 1) : i \in 1..Len(Plans!Systems)
           \/ (i = Len(Plans!Systems) + 1 /\ f[i].id = 0)
  BY <1>1, <1>3
<1>6. \A i \in DOMAIN f :
        LET d == f[i].id h == asked.history IN
        Plans!IsSystem(f[i]) /\ (d = 0 \/ (d \in DOMAIN h /\ Plans!IsSystem(h[d])))
  BY <1>1, <1>2, <1>3, <1>4, <1>5 DEF Instructions
<1>7. \A i, j \in DOMAIN f : i < j /\ f[i].id # 0 /\ f[j].id # 0 => f[i].id < f[j].id
  <2>1. \A i \in DOMAIN f : f[i].id # 0 => i \in 1..Len(Plans!Systems) /\ f[i] = Plans!Systems[i]
    BY <1>3, <1>4, <1>5
  <2> QED BY <2>1, <1>2, <1>3 DEF Instructions
<1>8. \A i \in DOMAIN asked.history : Plans!IsSystem(asked.history[i]) =>
           \E x \in DOMAIN f : f[x].id = i
  <2>1. \A x \in DOMAIN Plans!Systems : x \in DOMAIN f /\ f[x] = Plans!Systems[x]
    BY <1>3, <1>4
  <2> QED BY <2>1, <1>2 DEF Instructions
<1>9. f \in Seq(Plans!Messages \cup {m}) /\ Instructions(f, asked.history)
  BY <1>3, <1>6, <1>7, <1>8 DEF Instructions
<1> QED BY <1>9 DEF f, m

-----------------------------------------------------------------------------
(* The invariant.                                                          *)

Planned == Divided(units, Plans!History, Len(Plans!History))

Unplanned == units = <<>> /\ next = 0 /\ chosen = {} /\ evidence = {} /\ marker = 0

\* All of it is sent.
Everything ==
  /\ DOMAIN sent = DOMAIN asked.history
  /\ \A i \in DOMAIN sent : sent[i].id = i /\ sent[i].role = asked.history[i].role
  /\ asked.preserve /\ Plans!LatestTool(asked.history) # 0 =>
       sent[Plans!LatestTool(asked.history)] = asked.history[Plans!LatestTool(asked.history)]

Newest(places) == \E k \in 1..(Len(units) + 1) : places = k..Len(units)

ToolUnits ==
  {u \in DOMAIN units : \E l \in DOMAIN units[u] : units[u][l].id = Plans!LatestTool(asked.history)}

\* The newest units, and that of the latest result where it is to be preserved.
Shape ==
  \E k \in 1..(Len(units) + 1) :
    chosen = k..Len(units) \cup (IF asked.preserve THEN ToolUnits ELSE {})

OfOmitted ==
  \A e \in evidence : \E u \in DOMAIN units \ chosen : \E k \in DOMAIN units[u] :
       units[u][k].id = e

Progress ==
  /\ at \in {"selecting", "keeping", "marking", "fitting", "done"}
  /\ Planned /\ OfOmitted
  /\ at = "selecting" => chosen = (next + 1)..Len(units)
  /\ at = "keeping" => Newest(chosen)
  /\ at \in {"selecting", "keeping", "marking"} => evidence = {} /\ marker = 0
  /\ at \in {"marking", "fitting", "done"} => Shape
  /\ at = "done" => SentOf(sent, asked.history, units, chosen)

PlanInv ==
  /\ Asks /\ marker \in Nat /\ next \in 0..Len(units) /\ chosen \subseteq DOMAIN units
  /\ \/ at = "new" /\ Unplanned
     \/ at = "done" /\ Unplanned /\ Everything
     \/ Progress

LEMMA PlannedFacts ==
  ASSUME Asks, Planned
  PROVE  /\ units \in Seq(Seq(Plans!Messages)) /\ DOMAIN units = 1..Len(units)
         /\ Len(units) \in Nat
         /\ Ascending(units)
         /\ \A u \in DOMAIN units :
              /\ units[u] \in Seq(Plans!Messages) /\ 1 \in DOMAIN units[u]
              /\ DOMAIN units[u] = 1..Len(units[u]) /\ Len(units[u]) \in Nat
              /\ \A k \in DOMAIN units[u] :
                   /\ units[u][k] \in Plans!Messages /\ units[u][k].id \in DOMAIN asked.history
                   /\ units[u][k].id \in Nat \ {0} /\ Plans!IsConversation(units[u][k])
         /\ \A u, v \in DOMAIN units : \A k \in DOMAIN units[u], l \in DOMAIN units[v] :
              units[u][k].id = units[v][l].id => u = v /\ k = l
         /\ \A u, v \in DOMAIN units : \A k \in DOMAIN units[u], l \in DOMAIN units[v] :
              units[u][k].id <= units[v][l].id => u <= v
<1>1. units \in Seq(Seq(Plans!Messages)) /\ DOMAIN units = 1..Len(units) /\ Len(units) \in Nat
  BY DEF Planned, Divided
<1>2. Ascending(units)
  BY DEF Planned, Divided
<1>0. DOMAIN asked.history = 1..Len(Plans!History)
  <2>1. Plans!History \in Seq(Plans!Messages)
    BY HistoryIs DEF Plans!Causal
  <2> QED BY <2>1, HistoryIs
<1>3. ASSUME NEW u \in DOMAIN units
      PROVE  /\ units[u] \in Seq(Plans!Messages) /\ 1 \in DOMAIN units[u]
             /\ DOMAIN units[u] = 1..Len(units[u]) /\ Len(units[u]) \in Nat
             /\ \A k \in DOMAIN units[u] :
                  /\ units[u][k] \in Plans!Messages /\ units[u][k].id \in DOMAIN asked.history
                  /\ units[u][k].id \in Nat \ {0} /\ Plans!IsConversation(units[u][k])
  <2>1. units[u] \in Seq(Plans!Messages)
    BY <1>1
  <2>2. 1 \in DOMAIN units[u]
    BY DEF Planned, Divided
  <2>3. DOMAIN units[u] = 1..Len(units[u]) /\ Len(units[u]) \in Nat
    BY <2>1
  <2>4. ASSUME NEW k \in DOMAIN units[u]
        PROVE  /\ units[u][k] \in Plans!Messages /\ units[u][k].id \in DOMAIN asked.history
               /\ units[u][k].id \in Nat \ {0} /\ Plans!IsConversation(units[u][k])
    <3>1. units[u][k] \in Plans!Messages
      BY <2>1
    <3>2. units[u][k].id \in 1..Len(Plans!History) /\ Plans!IsConversation(units[u][k])
      BY DEF Planned, Divided
    <3>3. units[u][k].id \in Nat \ {0}
      BY <3>1 DEF Plans!Messages
    <3> QED BY <3>1, <3>2, <3>3, <1>0
  <2> QED BY <2>1, <2>2, <2>3, <2>4
<1>4. ASSUME NEW u \in DOMAIN units, NEW v \in DOMAIN units,
             NEW k \in DOMAIN units[u], NEW l \in DOMAIN units[v]
      PROVE  /\ units[u][k].id = units[v][l].id => u = v /\ k = l
             /\ units[u][k].id <= units[v][l].id => u <= v
  <2>1. u \in Nat /\ v \in Nat /\ k \in Nat /\ l \in Nat
    <3>1. u \in Nat /\ v \in Nat
      BY <1>1
    <3>2. k \in 1..Len(units[u]) /\ l \in 1..Len(units[v])
      BY <1>3
    <3>3. k \in Nat /\ l \in Nat
      BY <3>2
    <3> QED BY <3>1, <3>3
  <2>2. units[u][k].id \in Nat /\ units[v][l].id \in Nat
    BY <1>3
  <2>3. u < v \/ (u = v /\ k < l) => units[u][k].id < units[v][l].id
    BY <1>2 DEF Ascending
  <2>4. v < u \/ (v = u /\ l < k) => units[v][l].id < units[u][k].id
    BY <1>2 DEF Ascending
  <2> QED BY <2>1, <2>2, <2>3, <2>4
<1>5. \A u, v \in DOMAIN units : \A k \in DOMAIN units[u], l \in DOMAIN units[v] :
        units[u][k].id = units[v][l].id => u = v /\ k = l
  BY <1>4
<1>6. \A u, v \in DOMAIN units : \A k \in DOMAIN units[u], l \in DOMAIN units[v] :
        units[u][k].id <= units[v][l].id => u <= v
  BY <1>4
<1>7. \A u \in DOMAIN units :
        /\ units[u] \in Seq(Plans!Messages) /\ 1 \in DOMAIN units[u]
        /\ DOMAIN units[u] = 1..Len(units[u]) /\ Len(units[u]) \in Nat
        /\ \A k \in DOMAIN units[u] :
             /\ units[u][k] \in Plans!Messages /\ units[u][k].id \in DOMAIN asked.history
             /\ units[u][k].id \in Nat \ {0} /\ Plans!IsConversation(units[u][k])
  BY <1>3
<1> QED BY ONLY <1>1, <1>2, <1>5, <1>6, <1>7

LEMMA SizesAre ==
  ASSUME Asks, Planned, NEW places
  PROVE  /\ Plans!Kept(places) \in Seq(Plans!Messages) /\ Plans!Size(Plans!Kept(places)) \in Nat
         /\ Plans!Size(Plans!Systems) \in Nat /\ Plans!Left(places) \in Nat \ {0}
         /\ JoinedOf(Plans!Kept(places), units, places, Len(units))
<1>1. JoinedOf(Plans!Kept(places), units, places, Len(units))
  BY PlannedFacts, JoinedIs DEF Plans!Kept
<1>2. Plans!Kept(places) \in Seq(Plans!Messages)
  BY <1>1 DEF JoinedOf
<1>3. Plans!Size(Plans!Kept(places)) \in Nat
  BY <1>2, SizeIsNat
<1>4. Plans!Size(Plans!Systems) \in Nat
  BY SystemsAre, SizeIsNat
<1>5. asked.budget \in Int
  BY PlanConstants DEF Asks
<1>6. Plans!Left(places) \in Nat \ {0}
  BY <1>3, <1>4, <1>5 DEF Plans!Left
<1> QED BY <1>1, <1>2, <1>3, <1>4, <1>6

\* A message that is cut leaves the rest as it is.
LEMMA DividedAlike ==
  ASSUME NEW us, NEW g, NEW n, Divided(us, g, n), NEW U \in DOMAIN us, DOMAIN us[U] = {1},
         NEW m \in Plans!Messages, Alike(m, us[U][1]), m.role # "tool"
  PROVE  Divided([us EXCEPT ![U] = <<m>>], g, n)
<1> DEFINE new == <<m>>
           vs == [us EXCEPT ![U] = new]
<1>0. new \in Seq(Plans!Messages) /\ DOMAIN new = {1} /\ new[1] = m
  OBVIOUS
<1> HIDE DEF new
<1>1. vs \in Seq(Seq(Plans!Messages)) /\ DOMAIN vs = DOMAIN us /\ vs[U] = new
      /\ \A v \in DOMAIN us : v # U => vs[v] = us[v]
  <2>1. us \in [1..Len(us) -> Seq(Plans!Messages)] /\ Len(us) \in Nat /\ DOMAIN us = 1..Len(us)
    BY DEF Divided
  <2>2. vs \in [1..Len(us) -> Seq(Plans!Messages)]
    BY <2>1, <1>0
  <2>3. vs[U] = new /\ \A v \in DOMAIN us : v # U => vs[v] = us[v]
    BY <2>1
  <2> HIDE DEF vs
  <2>4. vs \in Seq(Seq(Plans!Messages))
    BY <2>1, <2>2
  <2> QED BY <2>1, <2>2, <2>3, <2>4
<1> HIDE DEF vs
<1>2. ASSUME NEW v \in DOMAIN us PROVE DOMAIN vs[v] = DOMAIN us[v]
  BY <1>0, <1>1
<1>3. ASSUME NEW v \in DOMAIN us, NEW k \in DOMAIN us[v]
      PROVE  /\ Alike(vs[v][k], us[v][k])
             /\ vs[v][k].id \in 1..n /\ Alike(vs[v][k], g[vs[v][k].id])
             /\ Plans!IsConversation(vs[v][k])
             /\ k # 1 => Plans!Answers(vs[v], vs[v][k])
  <2>0. /\ us[v][k].id \in 1..n /\ Alike(us[v][k], g[us[v][k].id])
        /\ Plans!IsConversation(us[v][k])
        /\ k # 1 => Plans!Answers(us[v], us[v][k])
    <3>1. us[v][k].id \in 1..n /\ Alike(us[v][k], g[us[v][k].id])
          /\ Plans!IsConversation(us[v][k])
      BY DEF Divided
    <3>2. k # 1 => Plans!Answers(us[v], us[v][k])
      BY DEF Divided
    <3> QED BY <3>1, <3>2
  <2>1. CASE v = U
    <3>1. k = 1 /\ vs[v][k] = m
      BY <2>1, <1>0, <1>1
    <3> QED BY <2>0, <2>1, <3>1 DEF Alike, Plans!IsConversation
  <2>2. CASE v # U
    <3>1. vs[v] = us[v]
      BY <2>2, <1>1
    <3> QED BY <2>0, <3>1 DEF Alike
  <2> QED BY <2>1, <2>2
<1>4. \A v \in DOMAIN us : \A k \in DOMAIN us[v] : k \in DOMAIN vs[v] /\ vs[v][k].id = us[v][k].id
  BY <1>2, <1>3 DEF Alike
<1>5. \A v \in DOMAIN vs : 1 \in DOMAIN vs[v]
  BY <1>1, <1>2 DEF Divided
<1>6. Ascending(vs)
  <2>1. Ascending(us)
    BY DEF Divided
  <2> QED BY <2>1, <1>1, <1>2, <1>4 DEF Ascending
<1>7. \A i \in 1..n : Plans!IsConversation(g[i]) =>
        \E v \in DOMAIN vs : \E k \in DOMAIN vs[v] : vs[v][k].id = i
  <2>1. \A i \in 1..n : Plans!IsConversation(g[i]) =>
          \E v \in DOMAIN us : \E k \in DOMAIN us[v] : us[v][k].id = i
    BY DEF Divided
  <2> SUFFICES ASSUME NEW i \in 1..n, Plans!IsConversation(g[i])
               PROVE  \E v \in DOMAIN vs : \E k \in DOMAIN vs[v] : vs[v][k].id = i
    OBVIOUS
  <2>2. PICK v \in DOMAIN us : \E k \in DOMAIN us[v] : us[v][k].id = i
    BY <2>1
  <2>3. PICK k \in DOMAIN us[v] : us[v][k].id = i
    BY <2>2
  <2>4. v \in DOMAIN vs /\ k \in DOMAIN vs[v] /\ vs[v][k].id = i
    BY <2>3, <1>1, <1>4
  <2> QED BY <2>4
<1>8. \A i, j \in 1..n : g[j].call \in g[i].calls =>
        \E v \in DOMAIN vs : \E k, l \in DOMAIN vs[v] : vs[v][k].id = i /\ vs[v][l].id = j
  <2>1. \A i, j \in 1..n : g[j].call \in g[i].calls =>
          \E v \in DOMAIN us : \E k, l \in DOMAIN us[v] : us[v][k].id = i /\ us[v][l].id = j
    BY DEF Divided
  <2> SUFFICES ASSUME NEW i \in 1..n, NEW j \in 1..n, g[j].call \in g[i].calls
               PROVE  \E v \in DOMAIN vs : \E k, l \in DOMAIN vs[v] :
                        vs[v][k].id = i /\ vs[v][l].id = j
    OBVIOUS
  <2>2. PICK v \in DOMAIN us :
          \E k, l \in DOMAIN us[v] : us[v][k].id = i /\ us[v][l].id = j
    BY <2>1
  <2>3. PICK k \in DOMAIN us[v], l \in DOMAIN us[v] : us[v][k].id = i /\ us[v][l].id = j
    BY <2>2
  <2>4. /\ v \in DOMAIN vs /\ k \in DOMAIN vs[v] /\ l \in DOMAIN vs[v]
        /\ vs[v][k].id = i /\ vs[v][l].id = j
    BY <2>3, <1>1, <1>4
  <2> QED BY <2>4
<1>9. Divided(vs, g, n)
  <2>1. \A v \in DOMAIN vs : \A k \in DOMAIN vs[v] :
          /\ vs[v][k].id \in 1..n /\ Alike(vs[v][k], g[vs[v][k].id])
          /\ Plans!IsConversation(vs[v][k])
    BY <1>1, <1>2, <1>3
  <2>2. \A v \in DOMAIN vs : \A k \in DOMAIN vs[v] : k # 1 => Plans!Answers(vs[v], vs[v][k])
    BY <1>1, <1>2, <1>3
  <2> QED BY <2>1, <2>2, <1>1, <1>5, <1>6, <1>7, <1>8 DEF Divided
<1> QED BY <1>9 DEF vs, new

-----------------------------------------------------------------------------
(* The steps.                                                              *)

LEMMA Frame ==
  ASSUME asked' = asked
  PROVE  /\ Plans!History' = Plans!History /\ (Asks => Asks')
         /\ units' = units => (Planned => Planned') /\ ToolUnits' = ToolUnits
<1>1. Plans!History' = Plans!History
  BY DEF Plans!History
<1>2. Asks => Asks'
  BY DEF Asks
<1>3. units' = units => (Planned => Planned') /\ ToolUnits' = ToolUnits
  BY <1>1 DEF Planned, ToolUnits
<1> QED BY <1>1, <1>2, <1>3

LEMMA PlanStarts == Plans!Init => PlanInv
BY DEF Plans!Init, PlanInv, Asks, Unplanned

LEMMA SendAllKeeps ==
  ASSUME PlanInv, Plans!SendAll
  PROVE  PlanInv'
<1>1. at = "new" /\ Unplanned /\ Asks
  BY DEF Plans!SendAll, PlanInv, Progress
<1>2. asked' = asked /\ Unplanned' /\ at' = "done"
      /\ (sent' = asked.history \/ sent' = Plans!History)
  BY <1>1 DEF Plans!SendAll, Plans!Send, Unplanned
<1>3. DOMAIN Plans!History = DOMAIN asked.history /\ Plans!Causal(asked.history)
      /\ Plans!Causal(Plans!History)
  BY <1>1, HistoryIs
<1>4. DOMAIN sent' = DOMAIN asked.history
      /\ \A i \in DOMAIN sent' : sent'[i].id = i /\ sent'[i].role = asked.history[i].role
  BY <1>1, <1>2, <1>3, HistoryIs DEF Plans!Causal
<1>5. asked.preserve /\ Plans!LatestTool(asked.history) # 0 =>
        sent'[Plans!LatestTool(asked.history)] = asked.history[Plans!LatestTool(asked.history)]
  BY <1>1, <1>2, HistoryIs
<1>6. Everything'
  BY <1>2, <1>4, <1>5 DEF Everything
<1>7. Asks' /\ marker' \in Nat /\ next' \in 0..Len(units') /\ chosen' \subseteq DOMAIN units'
  BY <1>1, <1>2, Frame DEF Unplanned
<1> QED BY <1>2, <1>6, <1>7 DEF PlanInv

LEMMA DivideKeeps ==
  ASSUME PlanInv, Plans!Divide
  PROVE  PlanInv'
<1>1. at = "new" /\ Unplanned /\ Asks
  BY DEF Plans!Divide, PlanInv, Progress
<1>2. /\ asked' = asked /\ units' = Plans!Units(Plans!History) /\ next' = Len(units')
      /\ at' = "selecting"
      /\ chosen' = {} /\ evidence' = {} /\ marker' = 0
  BY <1>1 DEF Plans!Divide, Unplanned
<1>3. Plans!History' = Plans!History /\ Asks'
  BY <1>1, <1>2, Frame
<1>4. Planned'
  <2>1. Divided(Plans!Units(Plans!History), Plans!History, Len(Plans!History))
    BY <1>1, HistoryIs, UnitsAre
  <2> QED BY <1>2, <1>3, <2>1 DEF Planned
<1>5. Len(units') \in Nat
  BY <1>4 DEF Planned, Divided
<1>6. chosen' = (next' + 1)..Len(units') /\ next' \in 0..Len(units') /\ marker' \in Nat
  BY <1>2, <1>5
<1>7. Progress'
  BY <1>2, <1>4, <1>6 DEF Progress, OfOmitted
<1> QED BY <1>2, <1>3, <1>6, <1>7 DEF PlanInv

\* What holds wherever the plan is made.
LEMMA Within ==
  ASSUME PlanInv, at \notin {"new", "done"}
  PROVE  /\ Asks /\ Planned /\ Progress /\ marker \in Nat
         /\ next \in 0..Len(units) /\ chosen \subseteq DOMAIN units
         /\ units \in Seq(Seq(Plans!Messages)) /\ DOMAIN units = 1..Len(units)
         /\ Len(units) \in Nat
         /\ (asked' = asked => Asks' /\ Plans!History' = Plans!History)
         /\ (asked' = asked /\ units' = units => Planned' /\ ToolUnits' = ToolUnits)
<1>1. Asks /\ Progress /\ marker \in Nat /\ next \in 0..Len(units)
      /\ chosen \subseteq DOMAIN units
  BY DEF PlanInv
<1>2. Planned
  BY <1>1 DEF Progress
<1>3. units \in Seq(Seq(Plans!Messages)) /\ DOMAIN units = 1..Len(units) /\ Len(units) \in Nat
  BY <1>1, <1>2, PlannedFacts
<1> QED BY <1>1, <1>2, <1>3, Frame

LEMMA SelectKeeps ==
  ASSUME PlanInv, Plans!Select
  PROVE  PlanInv'
<1>0. at = "selecting"
  BY DEF Plans!Select
<1>1. /\ Asks /\ Planned /\ Progress /\ marker \in Nat
      /\ next \in 0..Len(units) /\ chosen \subseteq DOMAIN units
      /\ DOMAIN units = 1..Len(units) /\ Len(units) \in Nat
  BY <1>0, Within
<1>2. /\ next > 0 /\ chosen' = chosen \cup {next} /\ next' = next - 1
      /\ UNCHANGED <<asked, at, units, evidence, marker, sent>>
  BY DEF Plans!Select
<1>3. Asks' /\ Planned'
  BY <1>0, <1>2, Within
<1>4. chosen = (next + 1)..Len(units) /\ evidence = {} /\ marker = 0
  BY <1>0, <1>1 DEF Progress
<1>5. chosen' = (next' + 1)..Len(units) /\ next' \in 0..Len(units)
      /\ chosen' \subseteq DOMAIN units
  BY <1>1, <1>2, <1>4
<1>6. Progress'
  BY <1>0, <1>2, <1>3, <1>4, <1>5 DEF Progress, OfOmitted
<1> QED BY <1>1, <1>2, <1>3, <1>5, <1>6 DEF PlanInv

LEMMA SelectedAllKeeps ==
  ASSUME PlanInv, Plans!SelectedAll
  PROVE  PlanInv'
<1>0. at = "selecting"
  BY DEF Plans!SelectedAll
<1>1. /\ Asks /\ Planned /\ Progress /\ marker \in Nat
      /\ next \in 0..Len(units) /\ chosen \subseteq DOMAIN units
      /\ DOMAIN units = 1..Len(units) /\ Len(units) \in Nat
  BY <1>0, Within
<1>2. /\ next = 0 /\ at' = "keeping"
      /\ UNCHANGED <<asked, units, next, chosen, evidence, marker, sent>>
  BY DEF Plans!SelectedAll
<1>3. Asks' /\ Planned'
  BY <1>0, <1>2, Within
<1>4. chosen = (next + 1)..Len(units) /\ evidence = {} /\ marker = 0
  BY <1>0, <1>1 DEF Progress
<1>5. Newest(chosen)'
  <2>1. chosen = 1..Len(units) /\ 1 \in 1..(Len(units) + 1)
    BY <1>1, <1>2, <1>4
  <2> QED BY <2>1, <1>2 DEF Newest
<1>6. Progress'
  BY <1>2, <1>3, <1>4, <1>5 DEF Progress, OfOmitted
<1> QED BY <1>1, <1>2, <1>3, <1>6 DEF PlanInv

LEMMA PlaceIs ==
  ASSUME Asks, Planned, NEW u \in DOMAIN units
  PROVE  /\ Plans!SelectInSeq(units, LAMBDA w : w = units[u]) = u
         /\ \A v \in DOMAIN units : units[v] = units[u] => v = u
<1>1. /\ DOMAIN units = 1..Len(units) /\ Len(units) \in Nat
      /\ \A v \in DOMAIN units : 1 \in DOMAIN units[v]
      /\ \A v, w \in DOMAIN units : \A k \in DOMAIN units[v], l \in DOMAIN units[w] :
           units[v][k].id = units[w][l].id => v = w /\ k = l
  BY PlannedFacts
<1>2. \A v \in DOMAIN units : units[v] = units[u] => v = u
  BY <1>1
<1> DEFINE I == {i \in 1..Len(units) : units[i] = units[u]}
<1>3. I = {u}
  BY <1>1, <1>2
<1>4. Plans!Min({u}) = u
  BY <1>1 DEF Plans!Min
<1>5. Plans!SelectInSeq(units, LAMBDA w : w = units[u]) = IF I # {} THEN Plans!Min(I) ELSE 0
  BY DEF Plans!SelectInSeq
<1> HIDE DEF I
<1> QED BY <1>2, <1>3, <1>4, <1>5

LEMMA CutIs ==
  ASSUME NEW size \in Nat \ {0}, NEW budget \in Nat \ {0}
  PROVE  Plans!Cut(size, budget) \in Nat \ {0}
BY PlanConstants DEF Plans!Cut

LEMMA OverflowKeeps ==
  ASSUME PlanInv, Plans!Overflow
  PROVE  PlanInv'
<1> DEFINE m == units[next][1]
           room == IF Plans!SelectionBudget - Plans!Used > 1 THEN Plans!SelectionBudget - Plans!Used
                     ELSE 1
           shortened == [m EXCEPT !.size = Plans!Cut(m.size, room)]
           shortens == chosen = {} /\ Len(units[next]) = 1 /\ m.role # "tool"
<1>0. at = "selecting"
  BY DEF Plans!Overflow
<1>1. /\ Asks /\ Planned /\ Progress /\ marker \in Nat
      /\ next \in 0..Len(units) /\ chosen \subseteq DOMAIN units
      /\ units \in Seq(Seq(Plans!Messages))
      /\ DOMAIN units = 1..Len(units) /\ Len(units) \in Nat
  BY <1>0, Within
<1>2. next > 0 /\ at' = "keeping" /\ UNCHANGED <<asked, next, evidence, marker, sent>>
  BY DEF Plans!Overflow
<1>3. next \in 1..Len(units) /\ next \in DOMAIN units
  BY <1>1, <1>2
<1>4. IF shortens THEN units' = [units EXCEPT ![next] = <<shortened>>] /\ chosen' = {next}
              ELSE UNCHANGED <<units, chosen>>
  <2>1. Plans!SelectInSeq(units, LAMBDA u : u = units[next]) = next
    BY <1>1, <1>3, PlaceIs
  <2> QED BY <2>1 DEF Plans!Overflow
<1>5. chosen = (next + 1)..Len(units) /\ evidence = {} /\ marker = 0
  BY <1>0, <1>1 DEF Progress
<1>6. Asks' /\ Plans!History' = Plans!History
  BY <1>0, <1>2, Within
<1>7. CASE shortens
  <2>1. next = Len(units)
    <3>1. (next + 1)..Len(units) = {}
      BY <1>5, <1>7
    <3>2. \A a, b \in Nat : a \in 1..b /\ (a + 1)..b = {} => a = b
      <4> SUFFICES ASSUME NEW a \in Nat, NEW b \in Nat, a \in 1..b, a # b
                   PROVE  (a + 1)..b # {}
        OBVIOUS
      <4>1. b \in (a + 1)..b
        OBVIOUS
      <4> QED BY <4>1
    <3>3. next \in Nat /\ Len(units) \in Nat
      BY <1>1, <1>3
    <3>4. next \in 1..Len(units) /\ (next + 1)..Len(units) = {} => next = Len(units)
      BY <3>2, <3>3
    <3> QED BY <3>1, <3>4, <1>3
  <2>2. units[next] \in Seq(Plans!Messages) /\ DOMAIN units[next] = {1} /\ m \in Plans!Messages
    <3>1. units[next] \in Seq(Plans!Messages) /\ DOMAIN units[next] = 1..Len(units[next])
      BY <1>1, <1>3
    <3>2. DOMAIN units[next] = {1}
      BY <3>1, <1>7
    <3>3. \A s \in Seq(Plans!Messages) : 1 \in DOMAIN s => s[1] \in Plans!Messages
      OBVIOUS
    <3> QED BY <3>1, <3>2, <3>3
  <2>3. room \in Nat \ {0}
    <3>1. Plans!Size(Plans!Systems) \in Nat /\ Plans!Size(Plans!Kept(chosen)) \in Nat
      BY <1>1, SizesAre
    <3>2. asked.budget \in Int
      BY <1>1, PlanConstants DEF Asks
    <3> QED BY <3>1, <3>2 DEF Plans!Used, Plans!SelectionBudget
  <2> HIDE DEF room, m
  <2>4. shortened \in Plans!Messages /\ Alike(shortened, m) /\ shortened.role # "tool"
    <3>0. m.role # "tool"
      BY <1>7
    <3>1. /\ m.role \in {"system", "user", "assistant", "tool"} /\ m.id \in Nat \ {0}
          /\ m.calls \in SUBSET CallIds /\ m.call \in CallIds /\ m.error \in BOOLEAN
          /\ m.size \in Nat \ {0}
      BY <2>2 DEF Plans!Messages
    <3>2. shortened = [role |-> m.role, id |-> m.id, size |-> Plans!Cut(m.size, room),
                       calls |-> m.calls,
                 call |-> m.call, error |-> m.error]
      BY <2>2 DEF Plans!Messages
    <3>3. Plans!Cut(m.size, room) \in Nat \ {0}
      BY <3>1, <2>3, CutIs
    <3> HIDE DEF shortened
    <3>4. shortened \in Plans!Messages
      BY <3>1, <3>2, <3>3 DEF Plans!Messages
    <3> QED BY <3>0, <3>2, <3>4 DEF Alike
  <2> HIDE DEF shortened
  <2>5. Divided([units EXCEPT ![next] = <<shortened>>], Plans!History, Len(Plans!History))
    BY <1>1, <1>3, <2>2, <2>4, DividedAlike DEF Planned, m
  <2>6. Planned'
    BY <1>4, <1>6, <1>7, <2>5 DEF Planned
  <2>7. Len(units') = Len(units) /\ DOMAIN units' = DOMAIN units
    <3>1. units' \in Seq(Seq(Plans!Messages)) /\ DOMAIN units' = DOMAIN units
      BY <2>6, <1>4, <1>7 DEF Planned, Divided
    <3> QED BY <3>1, <1>1
  <2>8. Newest(chosen)'
    <3>1. chosen' = next..Len(units') /\ next \in 1..(Len(units') + 1)
      BY <1>1, <1>3, <1>4, <1>7, <2>1, <2>7
    <3> QED BY <3>1 DEF Newest
  <2>9. Progress'
    BY <1>2, <1>5, <2>6, <2>8 DEF Progress, OfOmitted
  <2>10. next' \in 0..Len(units') /\ chosen' \subseteq DOMAIN units' /\ marker' \in Nat
    BY <1>1, <1>2, <1>3, <1>4, <1>7, <2>7
  <2> QED BY <1>6, <2>9, <2>10 DEF PlanInv
<1>8. CASE ~shortens
  <2> HIDE DEF shortens
  <2>1. units' = units /\ chosen' = chosen
    BY <1>4, <1>8
  <2>2. Planned'
    BY <1>0, <1>2, <2>1, Within
  <2>3. Newest(chosen)'
    <3>1. next + 1 \in 1..(Len(units) + 1)
      BY <1>1, <1>3
    <3> QED BY <3>1, <2>1, <1>5 DEF Newest
  <2>4. Progress'
    BY <1>2, <1>5, <2>2, <2>3 DEF Progress, OfOmitted
  <2> QED BY <1>1, <1>2, <1>6, <2>1, <2>4 DEF PlanInv
<1> QED BY <1>7, <1>8

\* The last unit with a result is that of the latest result.
LEMMA ToolUnitIs ==
  ASSUME Asks, Planned
  PROVE  LET tool == Plans!SelectLastInSeq(units,
              LAMBDA u : \E i \in DOMAIN u : u[i].role = "tool") IN
         /\ tool = 0 => ToolUnits = {}
         /\ tool # 0 => tool \in DOMAIN units /\ ToolUnits = {tool}
<1> DEFINE T == {w \in 1..Len(units) : \E i \in DOMAIN units[w] : units[w][i].role = "tool"}
           h == asked.history
           t == Plans!LatestTool(h)
<1>0. /\ DOMAIN units = 1..Len(units) /\ Len(units) \in Nat /\ T \in SUBSET (0..Len(units))
      /\ \A v, w \in DOMAIN units : \A k \in DOMAIN units[v], l \in DOMAIN units[w] :
           units[v][k].id = units[w][l].id => v = w
      /\ \A v, w \in DOMAIN units : \A k \in DOMAIN units[v], l \in DOMAIN units[w] :
           units[v][k].id <= units[w][l].id => v <= w
      /\ \A v \in DOMAIN units : \A k \in DOMAIN units[v] :
           units[v][k].id \in DOMAIN h /\ units[v][k].id \in Nat \ {0}
  BY PlannedFacts
<1>1. Plans!SelectLastInSeq(units, LAMBDA u : \E i \in DOMAIN u : u[i].role = "tool") =
        IF T # {} THEN Plans!Max(T) ELSE 0
  BY DEF Plans!SelectLastInSeq
<1>2. h \in Seq(Plans!Messages) /\ DOMAIN h = 1..Len(Plans!History) /\ DOMAIN h = 1..Len(h)
      /\ \A i \in DOMAIN h : Plans!History[i].role = h[i].role
  <2>1. h \in Seq(Plans!Messages) /\ Plans!History \in Seq(Plans!Messages)
    BY HistoryIs DEF Plans!Causal
  <2>2. DOMAIN h = 1..Len(h) /\ Len(h) = Len(Plans!History) /\ DOMAIN Plans!History = DOMAIN h
    BY <2>1, HistoryIs
  <2> QED BY <2>1, <2>2, HistoryIs
<1>3. ASSUME NEW v \in DOMAIN units, NEW k \in DOMAIN units[v]
      PROVE  units[v][k].role = h[units[v][k].id].role
  <2>1. Alike(units[v][k], Plans!History[units[v][k].id])
    BY DEF Planned, Divided
  <2> QED BY <2>1, <1>0, <1>2 DEF Alike
<1>4. \/ t = 0 /\ \A i \in DOMAIN h : h[i].role # "tool"
      \/ t \in DOMAIN h /\ t # 0 /\ h[t].role = "tool"
        /\ \A i \in DOMAIN h : h[i].role = "tool" => i <= t
  BY <1>2, LatestToolIs
<1>5. ASSUME NEW v \in ToolUnits PROVE v \in T
  <2>1. v \in DOMAIN units
    BY DEF ToolUnits
  <2>2. PICK l \in DOMAIN units[v] : units[v][l].id = t
    BY DEF ToolUnits
  <2>3. t # 0
    BY <1>0, <2>1, <2>2
  <2>4. units[v][l].role = "tool"
    BY <1>3, <1>4, <2>1, <2>2, <2>3
  <2> QED BY <1>0, <2>1, <2>4
<1>6. CASE T = {}
  BY <1>1, <1>5, <1>6
<1>7. CASE T # {}
  <2> DEFINE tool == Plans!Max(T)
  <2>1. tool \in T /\ \A w \in T : w <= tool
    <3> HIDE DEF T
    <3> QED BY <1>0, <1>7, MaxIs
  <2>2. tool \in DOMAIN units /\ tool # 0
    BY <1>0, <2>1
  <2> HIDE DEF tool
  <2>3. PICK i \in DOMAIN units[tool] : units[tool][i].role = "tool"
    BY <2>1
  <2> HIDE DEF T, t, h
  <2> DEFINE d == units[tool][i].id
  <2>4. d \in DOMAIN h /\ h[d].role = "tool"
    <3>1. d \in DOMAIN h
      BY <1>0, <2>2
    <3>2. units[tool][i].role = h[d].role
      BY <1>3, <2>2
    <3> QED BY <3>1, <3>2, <2>3
  <2>5. t \in DOMAIN h /\ h[t].role = "tool" /\ d <= t
    BY <1>4, <2>4
  <2>6. PICK v \in DOMAIN units : \E k \in DOMAIN units[v] : units[v][k].id = t
    <3>1. t \in 1..Len(Plans!History) /\ Plans!IsConversation(Plans!History[t])
      BY <1>2, <2>5 DEF Plans!IsConversation
    <3> QED BY <3>1 DEF Planned, Divided
  <2>7. PICK k \in DOMAIN units[v] : units[v][k].id = t
    BY <2>6
  <2>8. v \in ToolUnits
    BY <2>7 DEF ToolUnits, t, h
  <2>9. v <= tool
    BY <1>5, <2>1, <2>8
  <2>10. tool <= v
    <3>1. units[tool][i].id <= units[v][k].id
      BY <2>5, <2>7
    <3> QED BY <3>1, <1>0, <2>2
  <2>11. v = tool
    BY <2>2, <2>9, <2>10, <1>0
  <2>12. ASSUME NEW w \in ToolUnits PROVE w = tool
    <3>1. w \in DOMAIN units
      BY DEF ToolUnits
    <3>2. PICK l \in DOMAIN units[w] : units[w][l].id = t
      BY DEF ToolUnits, t, h
    <3> QED BY <3>1, <3>2, <2>7, <2>11, <1>0
  <2>13. ToolUnits = {tool}
    BY <2>8, <2>11, <2>12
  <2> QED BY <2>2, <2>13, <1>1, <1>7 DEF tool
<1> QED BY <1>6, <1>7

LEMMA KeepKeeps ==
  ASSUME PlanInv, Plans!Keep
  PROVE  PlanInv'
<1> DEFINE tool == Plans!SelectLastInSeq(units, LAMBDA u : \E i \in DOMAIN u : u[i].role = "tool")
<1>0. at = "keeping"
  BY DEF Plans!Keep
<1>1. /\ Asks /\ Planned /\ Progress /\ marker \in Nat
      /\ next \in 0..Len(units) /\ chosen \subseteq DOMAIN units
      /\ DOMAIN units = 1..Len(units) /\ Len(units) \in Nat
  BY <1>0, Within
<1>2. /\ chosen' = IF asked.preserve /\ tool # 0 /\ \A u \in chosen : units[u] # units[tool]
                   THEN chosen \cup {tool} ELSE chosen
      /\ at' = "marking"
      /\ UNCHANGED <<asked, units, next, evidence, marker, sent>>
  BY DEF Plans!Keep
<1>3. Asks' /\ Planned' /\ ToolUnits' = ToolUnits
  BY <1>0, <1>2, Within
<1>4. (tool = 0 => ToolUnits = {}) /\ (tool # 0 => tool \in DOMAIN units /\ ToolUnits = {tool})
  BY <1>1, ToolUnitIs
<1>5. tool # 0 => (tool \in chosen <=> ~ \A u \in chosen : units[u] # units[tool])
  BY <1>1, <1>4, PlaceIs
<1> HIDE DEF tool
<1>6. chosen' = chosen \cup (IF asked.preserve THEN ToolUnits ELSE {})
  BY <1>2, <1>4, <1>5
<1>7. PICK k \in 1..(Len(units) + 1) : chosen = k..Len(units)
  BY <1>0, <1>1 DEF Progress, Newest
<1>8. Shape'
  BY <1>2, <1>3, <1>6, <1>7 DEF Shape
<1>9. evidence = {} /\ marker = 0
  BY <1>0, <1>1 DEF Progress
<1>10. Progress'
  BY <1>2, <1>3, <1>8, <1>9 DEF Progress, OfOmitted
<1>11. chosen' \subseteq DOMAIN units'
  BY <1>1, <1>2, <1>6 DEF ToolUnits
<1> QED BY <1>1, <1>2, <1>3, <1>10, <1>11 DEF PlanInv

LEMMA EntriesAre ==
  ASSUME Asks, Planned
  PROVE  \A e \in Plans!Entries : \E u \in Plans!Omitted : \E k \in DOMAIN units[u] :
              units[u][k].id = e
BY DEF Plans!Entries, Plans!ToSet

LEMMA PlanCount ==
  ASSUME NEW S
  PROVE  Plans!Cardinality(S) = Cardinality(S)
BY DEF Plans!Cardinality, Cardinality

\* What is told of has a size.
LEMMA MarkerIs ==
  ASSUME Asks, Planned, NEW E,
         \A e \in E : \E u \in DOMAIN units : \E k \in DOMAIN units[u] : units[u][k].id = e,
         NEW budget \in Nat \ {0}
  PROVE  Plans!FullMarker(E) \in Nat /\ Plans!FitMarker(E, budget) \in Nat
<1>1. E \subseteq 1..Len(Plans!History) /\ Len(Plans!History) \in Nat
  <2>1. Plans!History \in Seq(Plans!Messages)
    BY HistoryIs DEF Plans!Causal
  <2>2. Len(Plans!History) \in Nat /\ DOMAIN asked.history = 1..Len(Plans!History)
    BY <2>1, HistoryIs
  <2>3. \A u \in DOMAIN units : \A k \in DOMAIN units[u] : units[u][k].id \in DOMAIN asked.history
    BY PlannedFacts
  <2> QED BY <2>2, <2>3
<1>2. IsFiniteSet(1..Len(Plans!History)) /\ IsFiniteSet(E)
  <2>1. IsFiniteSet(1..Len(Plans!History))
    BY <1>1, FS_Interval
  <2> QED BY <1>1, <2>1, FS_Subset
<1>3. Plans!Cardinality(E) \in Nat
  BY <1>2, FS_CardinalityType, PlanCount
<1>4. \A a, b \in Nat : a * b \in Nat
  OBVIOUS
<1>5. EntrySize * Plans!Cardinality(E) \in Nat /\ ShortEntry * Plans!Cardinality(E) \in Nat
  BY <1>3, <1>4, PlanConstants
<1>6. Plans!FullMarker(E) \in Nat \ {0} /\ MarkerBase + ShortEntry * Plans!Cardinality(E) \in Nat
  BY <1>5, PlanConstants DEF Plans!FullMarker
<1>7. Plans!Cut(Plans!FullMarker(E), budget) \in Nat
  BY <1>6, CutIs
<1>8. Plans!FitMarker(E, budget) \in
        {Plans!FullMarker(E), MarkerBase + ShortEntry * Plans!Cardinality(E), MarkerBase,
         Plans!Cut(Plans!FullMarker(E), budget)}
  <2> DEFINE short == MarkerBase + ShortEntry * Plans!Cardinality(E)
             full == Plans!FullMarker(E)
  <2>1. full \in Nat /\ short \in Nat /\ MarkerBase \in Nat
    BY <1>6, PlanConstants
  <2>2. Plans!FitMarker(E, budget) =
          CASE full <= budget -> full
            [] full > budget /\ short <= budget -> short
            [] short > budget /\ MarkerBase <= budget -> MarkerBase
            [] OTHER -> Plans!Cut(full, budget)
    BY DEF Plans!FitMarker
  <2> HIDE DEF short, full
  <2>3. Plans!FitMarker(E, budget) \in {full, short, MarkerBase, Plans!Cut(full, budget)}
    BY <2>1, <2>2
  <2> QED BY <2>3 DEF short, full
<1> QED BY <1>6, <1>7, <1>8, PlanConstants

\* Instructions, with the marker or without it, and the units chosen.
LEMMA PayloadHolds ==
  ASSUME Asks, Planned, chosen \subseteq DOMAIN units
  PROVE  /\ SentOf(Plans!Systems \o Plans!Kept(chosen), asked.history, units, chosen)
         /\ SentOf(Plans!Payload, asked.history, units, chosen)
<1>1. JoinedOf(Plans!Kept(chosen), units, chosen, Len(units)) /\ chosen \in SUBSET DOMAIN units
  BY SizesAre
<1>2. SentOf(Plans!Systems \o Plans!Kept(chosen), asked.history, units, chosen)
  <2>1. Plans!Systems \in Seq(Plans!Messages) /\ Instructions(Plans!Systems, asked.history)
    BY SystemsAre
  <2> QED BY <1>1, <2>1, InstructionsThenUnits DEF Planned
<1>3. SentOf(Plans!Payload, asked.history, units, chosen)
  <2> DEFINE m == Plans!MarkerMessage(marker)
             f == Plans!Systems \o <<m>>
  <2>1. f \in Seq(Plans!Messages \cup {m}) /\ Instructions(f, asked.history)
    BY MarkedInstructions
  <2>2. Plans!Payload = f \o Plans!Kept(chosen)
    BY DEF Plans!Payload
  <2> HIDE DEF m, f
  <2>3. SentOf(f \o Plans!Kept(chosen), asked.history, units, chosen)
    BY <1>1, <2>1, InstructionsThenUnits DEF Planned
  <2> QED BY <2>2, <2>3
<1> QED BY <1>2, <1>3

LEMMA MarkKeeps ==
  ASSUME PlanInv, Plans!Mark
  PROVE  PlanInv'
<1>0. at = "marking"
  BY DEF Plans!Mark
<1>1. /\ Asks /\ Planned /\ Progress /\ marker \in Nat
      /\ next \in 0..Len(units) /\ chosen \subseteq DOMAIN units
  BY <1>0, Within
<1>2. UNCHANGED <<asked, units, next, chosen>>
  BY DEF Plans!Mark
<1>3. Asks' /\ Planned' /\ ToolUnits' = ToolUnits
  BY <1>0, <1>2, Within
<1>4. Shape'
  BY <1>0, <1>1, <1>2, <1>3 DEF Progress, Shape
<1>5. evidence = {} /\ marker = 0
  BY <1>0, <1>1 DEF Progress
<1>6. CASE Plans!Omitted = {}
  <2>1. /\ at' = "done" /\ sent' = Plans!Systems \o Plans!Kept(chosen)
        /\ evidence' = evidence /\ marker' = marker
    BY <1>6 DEF Plans!Mark, Plans!Send
  <2>2. SentOf(sent, asked.history, units, chosen)'
    BY <1>1, <1>2, <2>1, PayloadHolds
  <2>3. Progress'
    BY <1>3, <1>4, <1>5, <2>1, <2>2 DEF Progress, OfOmitted
  <2> QED BY <1>1, <1>2, <1>3, <2>1, <2>3 DEF PlanInv
<1>7. CASE Plans!Omitted # {}
  <2>1. /\ evidence' = Plans!Entries /\ at' = "fitting"
        /\ marker' = IF asked.preserve THEN Plans!FullMarker(Plans!Entries)
                       ELSE Plans!FitMarker(Plans!Entries, Plans!Left(chosen))
    BY <1>7 DEF Plans!Mark
  <2>2. \A e \in Plans!Entries : \E u \in Plans!Omitted : \E k \in DOMAIN units[u] :
             units[u][k].id = e
    BY <1>1, EntriesAre
  <2>3. OfOmitted'
    BY <1>2, <2>1, <2>2 DEF OfOmitted, Plans!Omitted
  <2>4. marker' \in Nat
    <3>1. Plans!Left(chosen) \in Nat \ {0}
      BY <1>1, SizesAre
    <3>2. \A e \in Plans!Entries : \E u \in DOMAIN units : \E k \in DOMAIN units[u] :
               units[u][k].id = e
      BY <2>2 DEF Plans!Omitted
    <3>3. Plans!FullMarker(Plans!Entries) \in Nat
          /\ Plans!FitMarker(Plans!Entries, Plans!Left(chosen)) \in Nat
      BY <1>1, <3>1, <3>2, MarkerIs
    <3> QED BY <2>1, <3>3
  <2>5. Progress'
    BY <1>3, <1>4, <2>1, <2>3 DEF Progress
  <2> QED BY <1>1, <1>2, <1>3, <2>4, <2>5 DEF PlanInv
<1> QED BY <1>6, <1>7

LEMMA DropUnitKeeps ==
  ASSUME PlanInv, Plans!DropUnit
  PROVE  PlanInv'
<1>0. at = "fitting" /\ ~asked.preserve
  BY DEF Plans!DropUnit
<1>1. /\ Asks /\ Planned /\ Progress /\ marker \in Nat
      /\ next \in 0..Len(units) /\ chosen \subseteq DOMAIN units
      /\ DOMAIN units = 1..Len(units) /\ Len(units) \in Nat
  BY <1>0, Within
<1>2. /\ Plans!Cardinality(chosen) > 1 /\ chosen' = chosen \ {Plans!Min(chosen)}
      /\ marker' = Plans!FitMarker(evidence, Plans!Left(chosen'))
      /\ UNCHANGED <<asked, at, units, next, evidence, sent>>
  BY DEF Plans!DropUnit
<1>3. Asks' /\ Planned' /\ ToolUnits' = ToolUnits
  BY <1>0, <1>2, Within
<1>4. PICK k \in 1..(Len(units) + 1) : chosen = k..Len(units)
  BY <1>0, <1>1 DEF Progress, Shape
<1>5. chosen # {}
  BY <1>2, FS_EmptySet, PlanCount
<1>6. k <= Len(units) /\ k \in chosen /\ \A u \in chosen : k <= u
  BY <1>1, <1>4, <1>5
<1>7. Plans!Min(chosen) = k
  <2>1. Plans!Min(chosen) \in chosen /\ \A u \in chosen : Plans!Min(chosen) =< u
    BY <1>6 DEF Plans!Min
  <2> QED BY <2>1, <1>4, <1>6, <1>1
<1>8. chosen' = (k + 1)..Len(units) /\ k + 1 \in 1..(Len(units) + 1)
  BY <1>1, <1>2, <1>4, <1>6, <1>7
<1>9. Shape'
  BY <1>0, <1>2, <1>8 DEF Shape
<1>10. OfOmitted /\ OfOmitted'
  <2>1. OfOmitted
    BY <1>1 DEF Progress
  <2> QED BY <2>1, <1>2 DEF OfOmitted
<1>11. marker' \in Nat
  <2>1. Plans!Left(chosen') \in Nat \ {0}
    BY <1>1, SizesAre
  <2>2. \A e \in evidence : \E u \in DOMAIN units : \E l \in DOMAIN units[u] : units[u][l].id = e
    BY <1>10 DEF OfOmitted
  <2> QED BY <1>1, <1>2, <2>1, <2>2, MarkerIs
<1>12. Progress'
  BY <1>0, <1>2, <1>3, <1>9, <1>10 DEF Progress
<1> QED BY <1>1, <1>2, <1>3, <1>11, <1>12 DEF PlanInv

LEMMA FinishKeeps ==
  ASSUME PlanInv, Plans!Finish
  PROVE  PlanInv'
<1>0. at = "fitting"
  BY DEF Plans!Finish
<1>1. /\ Asks /\ Planned /\ Progress /\ marker \in Nat
      /\ next \in 0..Len(units) /\ chosen \subseteq DOMAIN units
  BY <1>0, Within
<1>2. at' = "done" /\ sent' = Plans!Payload
      /\ UNCHANGED <<asked, units, next, chosen, evidence, marker>>
  BY DEF Plans!Finish, Plans!Send
<1>3. Asks' /\ Planned' /\ ToolUnits' = ToolUnits
  BY <1>0, <1>2, Within
<1>4. Shape' /\ OfOmitted'
  <2>1. Shape /\ OfOmitted
    BY <1>0, <1>1 DEF Progress
  <2> QED BY <2>1, <1>2, <1>3 DEF Shape, OfOmitted
<1>5. SentOf(sent, asked.history, units, chosen)'
  BY <1>1, <1>2, PayloadHolds
<1>6. Progress'
  BY <1>2, <1>3, <1>4, <1>5 DEF Progress
<1> QED BY <1>1, <1>2, <1>3, <1>6 DEF PlanInv

LEMMA PlanStutters ==
  ASSUME PlanInv, UNCHANGED Plans!vars
  PROVE  PlanInv'
<1>1. UNCHANGED <<asked, at, units, next, chosen, evidence, marker, sent>>
  BY DEF Plans!vars
<1>2. Asks => Asks'
  BY <1>1, Frame
<1>3. ToolUnits' = ToolUnits /\ (Planned => Planned')
  BY <1>1, Frame
<1>4. Shape => Shape'
  BY <1>1, <1>3 DEF Shape
<1>5. Progress => Progress'
  BY <1>1, <1>3, <1>4 DEF Progress, OfOmitted, Newest
<1>6. (Unplanned => Unplanned') /\ (Everything => Everything')
  BY <1>1 DEF Unplanned, Everything
<1> QED BY <1>1, <1>2, <1>5, <1>6 DEF PlanInv

-----------------------------------------------------------------------------
(* What the invariant says of a plan that is done.                         *)

LEMMA PlanTypeOK == PlanInv => Plans!TypeOK
<1> SUFFICES ASSUME PlanInv PROVE Plans!TypeOK
  OBVIOUS
<1>1. /\ asked.budget \in Budgets /\ asked.preserve \in BOOLEAN /\ marker \in Nat
      /\ chosen \subseteq DOMAIN units /\ next \in 0..Len(units)
      /\ at \in {"new", "selecting", "keeping", "marking", "fitting", "done"}
  BY DEF PlanInv, Asks, Progress
<1>2. \A u \in DOMAIN units :
        units[u] # <<>> /\ \A i \in DOMAIN units[u] : units[u][i].size > 0
  <2>1. CASE Unplanned
    BY <2>1 DEF Unplanned
  <2>2. CASE Progress
    <3>1. Asks /\ Planned
      BY <2>2 DEF PlanInv, Progress
    <3>2. \A m \in Plans!Messages : m.size > 0
      BY DEF Plans!Messages
    <3>3. \A u \in DOMAIN units : units[u] # <<>>
      BY <3>1, PlannedFacts
    <3> QED BY <3>1, <3>2, <3>3, PlannedFacts
  <2> QED BY <2>1, <2>2 DEF PlanInv
<1> QED BY <1>1, <1>2 DEF Plans!TypeOK

\* A plan that was made, once it is done.
LEMMA DoneFacts ==
  ASSUME Asks, Progress, at = "done", chosen \subseteq DOMAIN units
  PROVE  LET h == asked.history IN
         /\ Planned /\ Shape /\ OfOmitted /\ SentOf(sent, h, units, chosen)
         /\ Plans!Causal(h) /\ DOMAIN h = 1..Len(Plans!History)
         /\ \A i \in DOMAIN h : i \in Nat \ {0}
         /\ \A u \in DOMAIN units : \A k \in DOMAIN units[u] :
              LET i == units[u][k].id IN
              /\ i \in DOMAIN h /\ Plans!IsConversation(h[i])
              /\ units[u][k].role = h[i].role /\ units[u][k].calls = h[i].calls
              /\ units[u][k].call = h[i].call
              /\ h[i].role = "tool" => units[u][k] = Plans!History[i]
         /\ \A i \in DOMAIN h : Plans!IsConversation(h[i]) =>
              \E u \in DOMAIN units : \E k \in DOMAIN units[u] : units[u][k].id = i
         /\ \A i \in DOMAIN h : Plans!IsConversation(h[i]) =>
              (Plans!Sent(i) <=> \E u \in chosen : \E k \in DOMAIN units[u] : units[u][k].id = i)
<1> DEFINE h == asked.history
<1>1. Planned /\ Shape /\ OfOmitted /\ SentOf(sent, h, units, chosen)
  BY DEF Progress
<1>2. /\ Plans!Causal(h) /\ DOMAIN Plans!History = DOMAIN h
      /\ \A i \in DOMAIN h :
           /\ Plans!History[i].role = h[i].role /\ Plans!History[i].calls = h[i].calls
           /\ Plans!History[i].call = h[i].call
  BY HistoryIs
<1>3. DOMAIN h = 1..Len(Plans!History) /\ \A i \in DOMAIN h : i \in Nat \ {0}
  <2>1. Plans!History \in Seq(Plans!Messages)
    BY HistoryIs DEF Plans!Causal
  <2>2. DOMAIN h = 1..Len(Plans!History)
    BY <1>2, <2>1
  <2> QED BY <2>2
<1>4. ASSUME NEW u \in DOMAIN units, NEW k \in DOMAIN units[u]
      PROVE  LET i == units[u][k].id IN
             /\ i \in DOMAIN h /\ Plans!IsConversation(h[i])
             /\ units[u][k].role = h[i].role /\ units[u][k].calls = h[i].calls
             /\ units[u][k].call = h[i].call
             /\ h[i].role = "tool" => units[u][k] = Plans!History[i]
  <2> DEFINE i == units[u][k].id
  <2>1. i \in 1..Len(Plans!History) /\ Alike(units[u][k], Plans!History[i])
        /\ Plans!IsConversation(units[u][k])
    BY <1>1 DEF Planned, Divided
  <2> QED BY <2>1, <1>2, <1>3 DEF Alike, Plans!IsConversation
<1>5. ASSUME NEW i \in DOMAIN h, Plans!IsConversation(h[i])
      PROVE  \E u \in DOMAIN units : \E k \in DOMAIN units[u] : units[u][k].id = i
  <2>1. i \in 1..Len(Plans!History) /\ Plans!IsConversation(Plans!History[i])
    BY <1>2, <1>3, <1>5 DEF Plans!IsConversation
  <2> QED BY <2>1, <1>1 DEF Planned, Divided
<1>6. ASSUME NEW i \in DOMAIN h, Plans!IsConversation(h[i])
      PROVE  Plans!Sent(i) <=> \E u \in chosen : \E k \in DOMAIN units[u] : units[u][k].id = i
  <2>1. ASSUME Plans!Sent(i) PROVE \E u \in chosen : \E k \in DOMAIN units[u] : units[u][k].id = i
    <3>1. PICK x \in DOMAIN sent : sent[x].id = i
      BY <2>1 DEF Plans!Sent
    <3>2. sent[x].id # 0 /\ ~Plans!IsSystem(h[sent[x].id])
      BY <3>1, <1>3, <1>6 DEF Plans!IsSystem, Plans!IsConversation
    <3>3. \E u \in chosen : \E k \in DOMAIN units[u] : sent[x] = units[u][k]
      BY <3>2, <1>1 DEF SentOf
    <3> QED BY <3>1, <3>3
  <2>2. ASSUME NEW u \in chosen, NEW k \in DOMAIN units[u], units[u][k].id = i PROVE Plans!Sent(i)
    <3>1. \E x \in DOMAIN sent : sent[x] = units[u][k]
      BY <1>1 DEF SentOf
    <3> QED BY <3>1, <2>2 DEF Plans!Sent
  <2> QED BY <2>1, <2>2
<1>7. \A u \in DOMAIN units : \A k \in DOMAIN units[u] :
        LET i == units[u][k].id IN
        /\ i \in DOMAIN h /\ Plans!IsConversation(h[i])
        /\ units[u][k].role = h[i].role /\ units[u][k].calls = h[i].calls
        /\ units[u][k].call = h[i].call
        /\ h[i].role = "tool" => units[u][k] = Plans!History[i]
  BY <1>4
<1>8. \A i \in DOMAIN h : Plans!IsConversation(h[i]) =>
        \E u \in DOMAIN units : \E k \in DOMAIN units[u] : units[u][k].id = i
  BY <1>5
<1>9. \A i \in DOMAIN h : Plans!IsConversation(h[i]) =>
        (Plans!Sent(i) <=> \E u \in chosen : \E k \in DOMAIN units[u] : units[u][k].id = i)
  BY <1>6
<1> QED BY ONLY <1>1, <1>2, <1>3, <1>7, <1>8, <1>9

\* The unit of the latest result is the latest exchange.
LEMMA ToolUnitIsExchange ==
  ASSUME Asks, Progress, at = "done", chosen \subseteq DOMAIN units,
         NEW u \in ToolUnits, NEW k \in DOMAIN units[u]
  PROVE  units[u][k].id \in Plans!LatestExchange
<1> DEFINE h == asked.history
           t == Plans!LatestTool(h)
           i == units[u][k].id
           d == units[u][1].id
<1>1. u \in DOMAIN units /\ Planned
  BY DoneFacts DEF ToolUnits
<1>2. PICK l \in DOMAIN units[u] : units[u][l].id = t
  BY DEF ToolUnits
<1>3. 1 \in DOMAIN units[u]
  BY <1>1, PlannedFacts
<1>4. /\ t \in DOMAIN h /\ t # 0 /\ i \in DOMAIN h /\ d \in DOMAIN h
      /\ units[u][k].call = h[i].call /\ units[u][l].call = h[t].call
      /\ units[u][1].calls = h[d].calls /\ units[u][1].role = h[d].role
  BY <1>1, <1>2, <1>3, DoneFacts
<1>5. h[t].role = "tool"
  <2>1. h \in Seq(Plans!Messages)
    BY DoneFacts DEF Plans!Causal
  <2> QED BY <1>4, <2>1, LatestToolIs
<1>6. \A n \in DOMAIN units[u] : n # 1 => Plans!Answers(units[u], units[u][n])
  BY <1>1 DEF Planned, Divided
<1>7. i = t \/ h[t].call \in h[i].calls \/ {h[i].call, h[t].call} \subseteq h[d].calls
  <2>1. CASE l = 1
    <3>1. d = t
      BY <2>1, <1>2
    <3>2. k = 1
      BY <3>1, <1>4, <1>5, <1>6 DEF Plans!Answers
    <3> QED BY <3>1, <3>2
  <2>2. CASE l # 1
    <3>1. h[t].call \in h[d].calls
      BY <2>2, <1>4, <1>6 DEF Plans!Answers
    <3>2. CASE k = 1
      BY <3>1, <3>2
    <3>3. CASE k # 1
      <4>1. h[i].call \in h[d].calls
        BY <3>3, <1>4, <1>6 DEF Plans!Answers
      <4> QED BY <3>1, <4>1
    <3> QED BY <3>2, <3>3
  <2> QED BY <2>1, <2>2
<1>8. /\ i \in DOMAIN h /\ t # 0
      /\ \/ i = t
         \/ \E e \in DOMAIN h : {h[i].call, h[t].call} \subseteq h[e].calls
         \/ h[t].call \in h[i].calls
  BY <1>4, <1>7
<1>9. i \in Plans!LatestExchange
  <2> HIDE DEF i
  <2> QED BY <1>8 DEF Plans!LatestExchange
<1> QED BY <1>9

LEMMA PlanMade ==
  ASSUME Asks, Progress, at = "done", chosen \subseteq DOMAIN units
  PROVE  /\ Plans!PairsStayTogether /\ Plans!InOrder /\ Plans!NoGap
         /\ Plans!LatestResultIsWhole /\ Plans!EvidenceIsOfOmitted
<1> DEFINE h == asked.history
           t == Plans!LatestTool(h)
<1>0. Planned /\ SentOf(sent, h, units, chosen)
  BY DoneFacts
<1>1. ASSUME NEW u \in DOMAIN units, NEW v \in DOMAIN units,
             NEW k \in DOMAIN units[u], NEW l \in DOMAIN units[v]
      PROVE  /\ units[u][k].id = units[v][l].id => u = v
             /\ units[u][k].id <= units[v][l].id => u <= v
  BY <1>0, PlannedFacts
<1>2. Plans!PairsStayTogether
  <2> SUFFICES ASSUME NEW i \in DOMAIN h, NEW j \in DOMAIN h, h[j].call \in h[i].calls
               PROVE  Plans!Sent(i) <=> Plans!Sent(j)
    BY DEF Plans!PairsStayTogether
  <2>1. h[i].role = "assistant" /\ h[j].role = "tool"
    BY DoneFacts DEF Plans!Causal
  <2>2. Plans!IsConversation(h[i]) /\ Plans!IsConversation(h[j])
    BY <2>1 DEF Plans!IsConversation
  <2>3. PICK u \in DOMAIN units :
          \E k, l \in DOMAIN units[u] : units[u][k].id = i /\ units[u][l].id = j
    <3>1. i \in 1..Len(Plans!History) /\ j \in 1..Len(Plans!History)
      BY DoneFacts
    <3>2. Plans!History[j].call \in Plans!History[i].calls
      BY HistoryIs
    <3> QED BY <3>1, <3>2, <1>0 DEF Planned, Divided
  <2>4. PICK k \in DOMAIN units[u], l \in DOMAIN units[u] :
          units[u][k].id = i /\ units[u][l].id = j
    BY <2>3
  <2>5. Plans!Sent(i) <=> u \in chosen
    BY <2>2, <2>4, <1>1, DoneFacts
  <2>6. Plans!Sent(j) <=> u \in chosen
    BY <2>2, <2>4, <1>1, DoneFacts
  <2> QED BY <2>5, <2>6
<1>3. Plans!InOrder
  <2>1. \A i, j \in DOMAIN sent :
          i < j /\ sent[i].id # 0 /\ sent[j].id # 0
            /\ (Plans!IsSystem(sent[i]) <=> Plans!IsSystem(sent[j]))
          => sent[i].id < sent[j].id
    BY <1>0 DEF SentOf
  <2>2. \A i \in DOMAIN h : Plans!IsSystem(h[i]) => Plans!Sent(i)
    BY <1>0 DEF SentOf, Plans!Sent
  <2>3. \A i, j \in DOMAIN sent : i < j
          /\ Plans!IsConversation(sent[i]) => Plans!IsConversation(sent[j])
    BY <1>0 DEF SentOf
  <2> QED BY <2>1, <2>2, <2>3 DEF Plans!InOrder
<1>4. Plans!NoGap
  <2> SUFFICES ASSUME NEW i \in DOMAIN h, NEW j \in DOMAIN h,
                      Plans!IsConversation(h[i]), Plans!IsConversation(h[j]), i < j,
                      Plans!Sent(i),
                      ~(asked.preserve /\ i \in Plans!LatestExchange)
               PROVE  Plans!Sent(j)
    BY DEF Plans!NoGap
  <2>1. PICK u \in chosen : \E k \in DOMAIN units[u] : units[u][k].id = i
    BY DoneFacts
  <2>2. PICK k \in DOMAIN units[u] : units[u][k].id = i
    BY <2>1
  <2>3. PICK n \in 1..(Len(units) + 1) :
          chosen = n..Len(units) \cup (IF asked.preserve THEN ToolUnits ELSE {})
    BY DoneFacts DEF Shape
  <2>4. u \in n..Len(units)
    <3>1. ~(asked.preserve /\ u \in ToolUnits)
      BY <2>2, ToolUnitIsExchange
    <3> QED BY <2>3, <3>1
  <2>5. PICK v \in DOMAIN units : \E l \in DOMAIN units[v] : units[v][l].id = j
    BY DoneFacts
  <2>6. PICK l \in DOMAIN units[v] : units[v][l].id = j
    BY <2>5
  <2>7. u \in DOMAIN units /\ u <= v
    <3>1. u \in DOMAIN units
      OBVIOUS
    <3>2. i \in Nat /\ j \in Nat
      BY DoneFacts
    <3>3. units[u][k].id <= units[v][l].id
      BY <2>2, <2>6, <3>2
    <3> QED BY <3>1, <3>3, <1>1
  <2>8. v \in n..Len(units)
    <3>1. DOMAIN units = 1..Len(units) /\ Len(units) \in Nat
      BY <1>0, PlannedFacts
    <3> QED BY <3>1, <2>4, <2>7
  <2>9. v \in chosen
    BY <2>3, <2>8
  <2> QED BY <2>6, <2>9, DoneFacts
<1>5. Plans!LatestResultIsWhole
  <2> SUFFICES ASSUME asked.preserve, t # 0 PROVE h[t] \in Plans!ToSet(sent)
    BY DEF Plans!LatestResultIsWhole
  <2>1. t \in DOMAIN h /\ h[t].role = "tool"
    <3>1. h \in Seq(Plans!Messages)
      BY DoneFacts DEF Plans!Causal
    <3> QED BY <3>1, LatestToolIs
  <2>2. PICK v \in DOMAIN units : \E l \in DOMAIN units[v] : units[v][l].id = t
    BY <2>1, DoneFacts DEF Plans!IsConversation
  <2>3. PICK l \in DOMAIN units[v] : units[v][l].id = t
    BY <2>2
  <2>4. v \in chosen
    <3>1. v \in ToolUnits
      BY <2>3 DEF ToolUnits
    <3> QED BY <3>1, DoneFacts DEF Shape
  <2>5. units[v][l] = Plans!History[t]
    BY <2>1, <2>3, DoneFacts
  <2>6. Plans!History[t] = h[t]
    BY HistoryIs
  <2>7. PICK x \in DOMAIN sent : sent[x] = units[v][l]
    BY <2>4, <1>0 DEF SentOf
  <2> QED BY <2>5, <2>6, <2>7 DEF Plans!ToSet
<1>6. Plans!EvidenceIsOfOmitted
  <2> SUFFICES ASSUME NEW e \in evidence, Plans!Sent(e) PROVE FALSE
    BY DEF Plans!EvidenceIsOfOmitted
  <2>1. PICK u \in DOMAIN units \ chosen : \E k \in DOMAIN units[u] : units[u][k].id = e
    BY DoneFacts DEF OfOmitted
  <2>2. PICK k \in DOMAIN units[u] : units[u][k].id = e
    BY <2>1
  <2>3. e \in DOMAIN h /\ Plans!IsConversation(h[e])
    BY <2>2, DoneFacts
  <2>4. PICK v \in chosen : \E l \in DOMAIN units[v] : units[v][l].id = e
    BY <2>3, DoneFacts
  <2>5. PICK l \in DOMAIN units[v] : units[v][l].id = e
    BY <2>4
  <2>6. v = u
    BY <2>2, <2>5, <1>1
  <2> QED BY <2>6
<1> QED BY <1>2, <1>3, <1>4, <1>5, <1>6

LEMMA EverythingSent ==
  ASSUME Asks, Unplanned, Everything
  PROVE  /\ Plans!PairsStayTogether /\ Plans!InOrder /\ Plans!NoGap
         /\ Plans!LatestResultIsWhole /\ Plans!EvidenceIsOfOmitted
<1>1. \A i \in DOMAIN asked.history : Plans!Sent(i)
  BY DEF Everything, Plans!Sent
<1>2. \A i \in DOMAIN sent : sent[i].id = i
  BY DEF Everything
<1>3. marker = 0 /\ evidence = {}
  BY DEF Unplanned
<1>4. Plans!InOrder
  BY <1>1, <1>2, <1>3 DEF Plans!InOrder
<1>5. Plans!LatestResultIsWhole
  <2> SUFFICES ASSUME asked.preserve, Plans!LatestTool(asked.history) # 0
               PROVE  asked.history[Plans!LatestTool(asked.history)] \in Plans!ToSet(sent)
    BY DEF Plans!LatestResultIsWhole
  <2>1. asked.history \in Seq(Plans!Messages)
    BY HistoryIs DEF Plans!Causal
  <2>2. Plans!LatestTool(asked.history) \in DOMAIN asked.history
    BY <2>1, LatestToolIs
  <2> QED BY <2>2 DEF Everything, Plans!ToSet
<1> QED BY <1>1, <1>3, <1>4, <1>5 DEF Plans!PairsStayTogether, Plans!NoGap,
                                      Plans!EvidenceIsOfOmitted

LEMMA PlanIsWhole ==
  PlanInv => Plans!TypeOK /\ Plans!PairsStayTogether /\ Plans!InOrder /\ Plans!NoGap
               /\ Plans!LatestResultIsWhole /\ Plans!EvidenceIsOfOmitted
<1> SUFFICES ASSUME PlanInv
             PROVE  /\ Plans!PairsStayTogether /\ Plans!InOrder /\ Plans!NoGap
                    /\ Plans!LatestResultIsWhole /\ Plans!EvidenceIsOfOmitted
  BY PlanTypeOK
<1>1. CASE at # "done"
  BY <1>1 DEF Plans!PairsStayTogether, Plans!InOrder, Plans!NoGap, Plans!LatestResultIsWhole,
              Plans!EvidenceIsOfOmitted
<1>2. CASE at = "done"
  <2>1. Asks /\ chosen \subseteq DOMAIN units /\ ((Unplanned /\ Everything) \/ Progress)
    BY <1>2 DEF PlanInv
  <2> QED BY <1>2, <2>1, PlanMade, EverythingSent
<1> QED BY <1>1, <1>2

LEMMA PlanMoves ==
  ASSUME PlanInv, Plans!Next
  PROVE  PlanInv'
BY SendAllKeeps, DivideKeeps, SelectKeeps, OverflowKeeps, SelectedAllKeeps, KeepKeeps, MarkKeeps,
   DropUnitKeeps, FinishKeeps DEF Plans!Next

\* What a model is sent of a history is in order and without a gap, has both halves
\* of each exchange, the latest result whole when that is asked for, and a marker that
\* tells of omitted messages only (plan_context).
THEOREM PlansStayWhole == Spec => []PlansAreWhole
<1> DEFINE Inv == part = "plans" => PlanInv
<1>1. Init => Inv
  BY PlanStarts DEF Init
<1>2. Inv /\ [Next]_vars => Inv'
  <2> SUFFICES ASSUME part = "plans", PlanInv, [Next]_vars PROVE PlanInv'
    BY DEF Next, vars
  <2>1. Plans!Next \/ UNCHANGED planVars
    BY DEF Next, vars
  <2>2. UNCHANGED planVars => UNCHANGED Plans!vars
    BY DEF planVars, Plans!vars
  <2> QED BY <2>1, <2>2, PlanMoves, PlanStutters
<1>3. Inv => PlansAreWhole
  BY PlanIsWhole DEF PlansAreWhole
<1> QED BY <1>1, <1>2, <1>3, PTL DEF Spec
=============================================================================
