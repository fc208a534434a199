------------------------------ MODULE MCLive_proofs ------------------------------
(***************************************************************************)
(* Proofs about two things that MCLive checks on small instances: the      *)
(* validation of the graphs (DagValidation), for every plan and every      *)
(* order of iteration; and what is kept in files (LocalFiles), by the      *)
(* downloads of local models (ModelDownloads), the jobs that prepare them  *)
(* (ModelJobs) and the restores of a backup (StateRestore), for any        *)
(* requests, any revisions and sizes, and any number of faults and         *)
(* restarts.                                                               *)
(***************************************************************************)
EXTENDS DagValidation, LocalFiles, SequenceTheorems, FiniteSetTheorems, TLAPS

-----------------------------------------------------------------------------
(* The depth-first search of validate_stages gives the right verdict.  The *)
(* inductive invariant has three parts: the stack is a path of the graph   *)
(* whose nodes are the ones being visited; what a frame no longer has to   *)
(* look at was visited, or is the frame above it; and the visited nodes    *)
(* are closed and acyclic.                                                 *)

Nodes(st) == {st[i].node : i \in 1..Len(st)}

\* The frames are a path without repetition.
IsPath(st) ==
  /\ st \in Seq(Frame)
  /\ \A i, j \in 1..Len(st) : st[i].node = st[j].node => i = j
  /\ \A i \in 1..Len(st) : st[i].left \subseteq graph[st[i].node]
  /\ \A i \in 1..(Len(st) - 1) : st[i + 1].node \in graph[st[i].node]

\* What the frame i has already looked at.
Looked(st, i) == graph[st[i].node] \ st[i].left

\* It was visited, or is the frame above, or, at the top, is `node'.
DoneBut(st, node) ==
  \A i \in 1..Len(st) : \A d \in Looked(st, i) :
    \/ d \in visited
    \/ i < Len(st) /\ st[i + 1].node = d
    \/ i = Len(st) /\ d = node

FramesDone ==
  \A i \in 1..Len(stack) : \A d \in Looked(stack, i) :
    d \in visited \/ (i < Len(stack) /\ stack[i + 1].node = d)

Closed == \A v \in visited : graph[v] \subseteq visited

VisitedAcyclic ==
  \A S \in SUBSET visited : S # {} => \E s \in S : graph[s] \cap S = {}

Search ==
  /\ graph \in GraphType
  /\ IsPath(stack)
  /\ visiting = Nodes(stack)
  /\ visited \cap visiting = {}
  /\ Closed
  /\ VisitedAcyclic
  /\ FramesDone
  /\ Stages \ rest \subseteq visited \cup visiting

Inv ==
  /\ TypeOK
  /\ verdict = "running" => Search
  /\ VerdictIsRight

-----------------------------------------------------------------------------

\* A path that can be continued to one of its own nodes is a cycle.
LEMMA CycleFound ==
  ASSUME NEW st, IsPath(st), graph \in GraphType, st # <<>>,
         NEW j \in 1..Len(st), st[j].node \in graph[st[Len(st)].node]
  PROVE  ~Acyclic(graph)
PROOF
  <1> DEFINE n == Len(st)
             S == {st[i].node : i \in j..n}
  <1>1. n \in Nat /\ j \in 1..n /\ st \in Seq(Frame)
    BY DEF IsPath
  <1>2. \A i \in 1..n : st[i] \in Frame /\ st[i].node \in Stages
    <2> TAKE i \in 1..n
    <2>1. st[i] \in Frame
      BY <1>1
    <2> QED
      BY <2>1 DEF Frame
  <1>3. S \in (SUBSET Stages) \ {{}}
    <2>1. S \subseteq Stages
      BY <1>1, <1>2
    <2>2. st[j].node \in S
      BY <1>1
    <2> QED
      BY <2>1, <2>2
  <1>4. ASSUME NEW i \in j..n PROVE graph[st[i].node] \cap S # {}
    <2>1. CASE i = n
      BY <2>1, <1>1
    <2>2. CASE i # n
      <3>1. i \in 1..(n - 1) /\ i + 1 \in j..n
        BY <2>2, <1>1
      <3>2. st[i + 1].node \in graph[st[i].node]
        BY <3>1 DEF IsPath
      <3>3. st[i + 1].node \in S
        BY <3>1
      <3> QED
        BY <3>2, <3>3
    <2> QED
      BY <2>1, <2>2
  <1>5. \A s \in S : graph[s] \cap S # {}
    BY <1>4
  <1> QED
    BY <1>3, <1>5 DEF Acyclic

\* Graphs over known stages need no more than the visited part.
LEMMA AllVisited ==
  ASSUME VisitedAcyclic, visited = Stages
  PROVE  Acyclic(graph)
PROOF
  BY DEF VisitedAcyclic, Acyclic

\* A call of visit(node) reports a cycle only when there is one, and otherwise
\* keeps the stack a path and `node' visited or being visited.
LEMMA VisitStep ==
  ASSUME graph \in GraphType, NEW node \in Stages, NEW below,
         verdict = "running", IsPath(below), visiting = Nodes(below),
         visited \cap visiting = {}, DoneBut(below, node),
         below # <<>> => node \in graph[below[Len(below)].node],
         Visit(node, below), graph' = graph, visited' = visited
  PROVE  /\ IsPath(stack)'
         /\ \/ verdict' = "cycle" /\ ~Acyclic(graph)
            \/ /\ verdict' = "running"
               /\ visiting' = Nodes(stack')
               /\ (visited \cap visiting = {})'
               /\ FramesDone'
               /\ visiting \cup {node} \subseteq visited \cup visiting'
PROOF
  <1> DEFINE n == Len(below)
             frame == [node |-> node, left |-> graph[node]]
  <1>1. below \in Seq(Frame) /\ n \in Nat
    BY DEF IsPath
  <1>2. CASE node \in visiting
    <2>1. verdict' = "cycle" /\ stack' = below
      BY <1>2 DEF Visit
    <2>2. PICK j \in 1..n : below[j].node = node
      BY <1>2 DEF Nodes
    <2>3. below # <<>>
      BY <1>1, <2>2
    <2>4. ~Acyclic(graph)
      BY <2>2, <2>3, CycleFound
    <2>5. IsPath(stack)'
      BY <2>1 DEF IsPath
    <2> QED
      BY <2>1, <2>4, <2>5
  <1>3. CASE node \notin visiting /\ node \in visited
    <2>1. verdict' = "running" /\ stack' = below /\ visiting' = visiting
      BY <1>3 DEF Visit
    <2>2. IsPath(stack)'
      BY <2>1 DEF IsPath
    <2>3. FramesDone'
      BY <2>1, <1>3 DEF FramesDone, DoneBut, Looked
    <2> QED
      BY <1>3, <2>1, <2>2, <2>3
  <1>4. CASE node \notin visiting /\ node \notin visited
    <2>1. /\ verdict' = "running"
          /\ stack' = Append(below, frame)
          /\ visiting' = visiting \cup {node}
      BY <1>4 DEF Visit
    <2>2. frame \in Frame
      BY DEF Frame, GraphType
    <2> HIDE DEF frame
    <2>3. /\ stack' \in Seq(Frame)
          /\ Len(stack') = n + 1
          /\ \A i \in 1..n : stack'[i] = below[i]
          /\ stack'[n + 1] = frame
      BY <1>1, <2>1, <2>2, AppendProperties
    <2>4. frame.node = node /\ frame.left = graph[node]
      BY DEF frame
    <2>5. \A i \in 1..n : below[i].node # node
      BY <1>4 DEF Nodes
    <2>6. IsPath(stack)'
      <3>1. \A i, j \in 1..(n + 1) : stack'[i].node = stack'[j].node => i = j
        <4>1. \A i, j \in 1..n : below[i].node = below[j].node => i = j
          BY DEF IsPath
        <4> QED
          BY <1>1, <2>3, <2>4, <2>5, <4>1
      <3>2. \A i \in 1..(n + 1) : stack'[i].left \subseteq graph[stack'[i].node]
        <4>1. \A i \in 1..n : below[i].left \subseteq graph[below[i].node]
          BY DEF IsPath
        <4> QED
          BY <1>1, <2>3, <2>4, <4>1
      <3>3. ASSUME NEW i \in 1..n
            PROVE  stack'[i + 1].node \in graph[stack'[i].node]
        <4>1. CASE i = n
          <5>1. below # <<>>
            BY <1>1, <4>1
          <5> QED
            BY <1>1, <2>3, <2>4, <4>1, <5>1
        <4>2. CASE i # n
          <5>1. i \in 1..(n - 1) /\ i + 1 \in 1..n
            BY <1>1, <4>2
          <5>2. below[i + 1].node \in graph[below[i].node]
            BY <5>1 DEF IsPath
          <5> QED
            BY <2>3, <5>1, <5>2
        <4> QED
          BY <4>1, <4>2
      <3>4. Len(stack') - 1 = n
        BY <1>1, <2>3
      <3> QED
        BY <2>3, <3>1, <3>2, <3>3, <3>4 DEF IsPath
    <2>7. visiting' = Nodes(stack')
      <3>1. Nodes(stack') = {stack'[i].node : i \in 1..(n + 1)}
        BY <2>3 DEF Nodes
      <3>2. Nodes(stack') = Nodes(below) \cup {node}
        BY <1>1, <2>3, <2>4, <3>1 DEF Nodes
      <3> QED
        BY <2>1, <3>2
    <2>8. FramesDone'
      <3>1. ASSUME NEW i \in 1..n, NEW d \in graph[stack'[i].node] \ stack'[i].left
            PROVE  d \in visited \/ (i < n + 1 /\ stack'[i + 1].node = d)
        <4>1. d \in Looked(below, i)
          BY <2>3 DEF Looked
        <4>2. \/ d \in visited
              \/ i < n /\ below[i + 1].node = d
              \/ i = n /\ d = node
          BY <4>1 DEF DoneBut
        <4> QED
          BY <1>1, <2>3, <2>4, <4>2
      <3>2. graph[stack'[n + 1].node] \ stack'[n + 1].left = {}
        BY <2>3, <2>4
      <3>3. \A i \in 1..(n + 1) : i \in 1..n \/ i = n + 1
        BY <1>1
      <3> QED
        BY <2>3, <3>1, <3>2, <3>3 DEF FramesDone, Looked
    <2> QED
      BY <1>4, <2>1, <2>6, <2>7, <2>8
  <1> QED
    BY <1>2, <1>3, <1>4

\* The frames below the top are a path too.
LEMMA PopPath ==
  ASSUME IsPath(stack), stack # <<>>
  PROVE  LET n == Len(stack)
             below == SubSeq(stack, 1, n - 1)
         IN  /\ n \in Nat \ {0}
             /\ below \in Seq(Frame)
             /\ Len(below) = n - 1
             /\ \A i \in 1..(n - 1) : below[i] = stack[i]
             /\ IsPath(below)
             /\ Nodes(below) = Nodes(stack) \ {stack[n].node}
             /\ stack[n] \in Frame
PROOF
  <1> DEFINE n == Len(stack)
             below == SubSeq(stack, 1, n - 1)
  <1>1. stack \in Seq(Frame) /\ n \in Nat \ {0}
    BY DEF IsPath
  <1>2. \A i \in 1..n : stack[i] \in Frame
    BY <1>1
  <1>3. /\ below \in Seq(Frame)
        /\ Len(below) = n - 1
        /\ \A i \in 1..(n - 1) : below[i] = stack[i]
    <2>1. \A i \in 1..(n - 1) : stack[i] \in Frame
      BY <1>1, <1>2
    <2>2. /\ below \in Seq(Frame)
          /\ Len(below) = IF 1 <= n - 1 THEN n - 1 - 1 + 1 ELSE 0
          /\ \A i \in 1..(n - 1 - 1 + 1) : below[i] = stack[1 + i - 1]
      <3> HIDE DEF n
      <3> QED
        BY <1>1, <2>1, SubSeqProperties
    <2> HIDE DEF below, n
    <2> QED
      BY <1>1, <2>2
  <1> HIDE DEF below
  <1>4. IsPath(below)
    <2>1. \A i, j \in 1..(n - 1) : below[i].node = below[j].node => i = j
      BY <1>1, <1>3 DEF IsPath
    <2>2. \A i \in 1..(n - 1) : below[i].left \subseteq graph[below[i].node]
      BY <1>1, <1>3 DEF IsPath
    <2>3. \A i \in 1..(n - 1 - 1) : below[i + 1].node \in graph[below[i].node]
      BY <1>1, <1>3 DEF IsPath
    <2> QED
      BY <1>3, <2>1, <2>2, <2>3 DEF IsPath
  <1>5. Nodes(below) = Nodes(stack) \ {stack[n].node}
    <2>1. \A i \in 1..(n - 1) : stack[i].node # stack[n].node
      BY <1>1 DEF IsPath
    <2>2. 1..n = 1..(n - 1) \cup {n}
      BY <1>1
    <2>3. Nodes(below) = {stack[i].node : i \in 1..(n - 1)}
      BY <1>1, <1>3 DEF Nodes
    <2>4. Nodes(stack) = {stack[i].node : i \in 1..(n - 1)} \cup {stack[n].node}
      BY <2>2 DEF Nodes
    <2> QED
      BY <2>1, <2>3, <2>4
  <1> QED
    BY <1>1, <1>2, <1>3, <1>4, <1>5 DEF below

\* Looking at one more dependency of the top frame.
LEMMA LookPath ==
  ASSUME IsPath(stack), stack # <<>>, FramesDone, graph \in GraphType,
         NEW dep \in stack[Len(stack)].left
  PROVE  LET n == Len(stack)
             below == [stack EXCEPT ![n].left = stack[n].left \ {dep}]
         IN  /\ n \in Nat \ {0}
             /\ Len(below) = n
             /\ IsPath(below)
             /\ Nodes(below) = Nodes(stack)
             /\ below # <<>>
             /\ dep \in graph[below[n].node]
             /\ DoneBut(below, dep)
PROOF
  <1> DEFINE n == Len(stack)
             top == [stack[n] EXCEPT !.left = stack[n].left \ {dep}]
             below == [stack EXCEPT ![n].left = stack[n].left \ {dep}]
  <1>1. stack \in Seq(Frame) /\ n \in Nat \ {0} /\ n \in 1..n
    BY DEF IsPath
  <1>2. stack[n] \in Frame
    BY <1>1
  <1>3. /\ top \in Frame
        /\ top.node = stack[n].node
        /\ top.left = stack[n].left \ {dep}
    BY <1>2 DEF Frame
  <1>4. below = [stack EXCEPT ![n] = top]
    BY <1>1
  <1>5. /\ below \in Seq(Frame)
        /\ Len(below) = n
        /\ \A i \in 1..n : below[i] = IF i = n THEN top ELSE stack[i]
    <2> HIDE DEF top, below
    <2> QED
      BY <1>1, <1>3, <1>4, ExceptSeq
  <1> HIDE DEF top, below
  <1>6. /\ \A i \in 1..n : below[i].node = stack[i].node
        /\ \A i \in 1..n : i # n => below[i].left = stack[i].left
        /\ below[n].left = stack[n].left \ {dep}
    BY <1>1, <1>3, <1>5
  <1>7. IsPath(below)
    <2>1. \A i, j \in 1..n : below[i].node = below[j].node => i = j
      BY <1>6 DEF IsPath
    <2>2. \A i \in 1..n : below[i].left \subseteq graph[below[i].node]
      BY <1>6 DEF IsPath
    <2>3. \A i \in 1..(n - 1) : below[i + 1].node \in graph[below[i].node]
      BY <1>1, <1>6 DEF IsPath
    <2> QED
      BY <1>5, <2>1, <2>2, <2>3 DEF IsPath
  <1>8. Nodes(below) = Nodes(stack)
    BY <1>5, <1>6 DEF Nodes
  <1>9. below # <<>>
    BY <1>1, <1>5
  <1>10. dep \in graph[below[n].node]
    <2>1. stack[n].left \subseteq graph[stack[n].node]
      BY <1>1 DEF IsPath
    <2> QED
      BY <1>1, <1>6, <2>1
  <1>11. ASSUME NEW i \in 1..n, NEW d \in graph[below[i].node] \ below[i].left
         PROVE  \/ d \in visited
                \/ i < n /\ below[i + 1].node = d
                \/ i = n /\ d = dep
    <2>1. d \in Looked(stack, i) \/ (i = n /\ d = dep)
      BY <1>6 DEF Looked
    <2>2. CASE d \in Looked(stack, i)
      <3>1. d \in visited \/ (i < n /\ stack[i + 1].node = d)
        BY <2>2 DEF FramesDone
      <3>2. i < n => i + 1 \in 1..n
        BY <1>1
      <3> QED
        BY <1>6, <3>1, <3>2
    <2> QED
      BY <2>1, <2>2
  <1>12. DoneBut(below, dep)
    BY <1>5, <1>11 DEF DoneBut, Looked
  <1> QED
    BY <1>1, <1>5, <1>7, <1>8, <1>9, <1>10, <1>12 DEF below

-----------------------------------------------------------------------------

LEMMA InitInv == Init => Inv
PROOF
  <1> SUFFICES ASSUME Init PROVE Inv
    OBVIOUS
  <1> USE DEF Init
  <1>1. Len(stack) = 0 /\ stack \in Seq(Frame)
    OBVIOUS
  <1>2. IsPath(stack) /\ Nodes(stack) = {}
    BY <1>1 DEF IsPath, Nodes
  <1>3. TypeOK
    BY <1>1 DEF TypeOK
  <1>4. verdict = "running" => Search
    BY <1>1, <1>2 DEF Search, Closed, VisitedAcyclic, FramesDone
  <1> QED
    BY <1>3, <1>4 DEF Inv, VerdictIsRight

\* After a call of visit() the invariant holds again.
LEMMA AfterVisit ==
  ASSUME Inv, verdict = "running", graph' = graph, visited' = visited,
         rest' \subseteq Stages, IsPath(stack)', visiting' \subseteq Stages,
         \/ verdict' = "cycle" /\ ~Acyclic(graph)
         \/ /\ verdict' = "running"
            /\ visiting' = Nodes(stack')
            /\ (visited \cap visiting = {})'
            /\ FramesDone'
            /\ Stages \ rest' \subseteq visited \cup visiting'
  PROVE  Inv'
PROOF
  <1>1. Search /\ TypeOK
    BY DEF Inv
  <1>2. TypeOK'
    BY <1>1 DEF TypeOK, IsPath
  <1>3. CASE verdict' = "cycle" /\ ~Acyclic(graph)
    BY <1>2, <1>3 DEF Inv, VerdictIsRight
  <1>4. CASE /\ verdict' = "running"
             /\ visiting' = Nodes(stack')
             /\ (visited \cap visiting = {})'
             /\ FramesDone'
             /\ Stages \ rest' \subseteq visited \cup visiting'
    <2>1. (graph \in GraphType /\ Closed /\ VisitedAcyclic)'
      BY <1>1 DEF Search, GraphType, Closed, VisitedAcyclic
    <2>2. Search'
      BY <1>4, <2>1 DEF Search
    <2> QED
      BY <1>2, <1>4, <2>2 DEF Inv, VerdictIsRight
  <1> QED
    BY <1>3, <1>4

LEMMA VisitStageInv ==
  ASSUME Inv, NEW node \in Stages, VisitStage(node)
  PROVE  Inv'
PROOF
  <1>1. /\ Search /\ TypeOK /\ verdict = "running" /\ stack = <<>>
        /\ Visit(node, stack) /\ graph' = graph /\ visited' = visited
        /\ rest' = rest \ {node} /\ rest \subseteq Stages
    BY DEF Inv, VisitStage, TypeOK
  <1>2. DoneBut(stack, node)
    BY <1>1 DEF DoneBut
  <1>3. /\ IsPath(stack)'
        /\ \/ verdict' = "cycle" /\ ~Acyclic(graph)
           \/ /\ verdict' = "running"
              /\ visiting' = Nodes(stack')
              /\ (visited \cap visiting = {})'
              /\ FramesDone'
              /\ visiting \cup {node} \subseteq visited \cup visiting'
    BY <1>1, <1>2, VisitStep DEF Search
  <1>4. Stages \ rest \subseteq visited \cup visiting
    BY <1>1 DEF Search
  <1>5. visiting' \subseteq Stages
    BY <1>1 DEF Visit, TypeOK
  <1> QED
    BY <1>1, <1>3, <1>4, <1>5, AfterVisit

LEMMA VisitDependencyInv ==
  ASSUME Inv, NEW dep \in Stages, VisitDependency(dep)
  PROVE  Inv'
PROOF
  <1> DEFINE n == Len(stack)
             below == [stack EXCEPT ![n].left = stack[n].left \ {dep}]
  <1>1. /\ Search /\ TypeOK /\ verdict = "running" /\ stack # <<>>
        /\ dep \in stack[n].left
        /\ Visit(dep, below) /\ graph' = graph /\ visited' = visited
        /\ rest' = rest
    BY DEF Inv, VisitDependency
  <1>2. /\ Len(below) = n
        /\ IsPath(below)
        /\ Nodes(below) = Nodes(stack)
        /\ dep \in graph[below[n].node]
        /\ DoneBut(below, dep)
    BY <1>1, LookPath DEF Search
  <1>3. visiting' \subseteq Stages
    BY <1>1 DEF Visit, TypeOK
  <1> HIDE DEF below
  <1>4. /\ IsPath(stack)'
        /\ \/ verdict' = "cycle" /\ ~Acyclic(graph)
           \/ /\ verdict' = "running"
              /\ visiting' = Nodes(stack')
              /\ (visited \cap visiting = {})'
              /\ FramesDone'
              /\ visiting \cup {dep} \subseteq visited \cup visiting'
    BY <1>1, <1>2, VisitStep DEF Search
  <1>5. Stages \ rest \subseteq visited \cup visiting
    BY <1>1 DEF Search
  <1>6. rest' \subseteq Stages
    BY <1>1 DEF TypeOK
  <1> QED
    BY <1>1, <1>3, <1>4, <1>5, <1>6, AfterVisit

\* The node that is left has all its dependencies visited: the visited nodes
\* stay closed, and a set of them with the node in it has a sink.
LEMMA ReturnInv ==
  ASSUME Inv, Return
  PROVE  Inv'
PROOF
  <1> DEFINE n == Len(stack)
             node == stack[n].node
             below == SubSeq(stack, 1, n - 1)
  <1>1. /\ Search /\ TypeOK /\ verdict = "running" /\ stack # <<>>
        /\ stack[n].left = {} /\ verdict' = "running"
        /\ visited' = visited \cup {node} /\ visiting' = visiting \ {node}
        /\ stack' = below /\ graph' = graph /\ rest' = rest
    BY DEF Inv, Return
  <1>2. /\ n \in Nat \ {0}
        /\ below \in Seq(Frame)
        /\ Len(below) = n - 1
        /\ \A i \in 1..(n - 1) : below[i] = stack[i]
        /\ IsPath(below)
        /\ Nodes(below) = Nodes(stack) \ {node}
        /\ stack[n] \in Frame
    BY <1>1, PopPath DEF Search
  <1> HIDE DEF below, node
  <1>3. node \in Stages /\ node = stack[n].node /\ node \in visiting
    BY <1>1, <1>2 DEF Frame, node, Search, Nodes
  <1>4. /\ graph \in GraphType /\ visiting = Nodes(stack)
        /\ visited \cap visiting = {} /\ Closed /\ VisitedAcyclic /\ FramesDone
        /\ Stages \ rest \subseteq visited \cup visiting
    BY <1>1 DEF Search
  <1>5. graph[node] \subseteq visited
    <2>1. Looked(stack, n) = graph[node]
      BY <1>1, <1>3 DEF Looked
    <2> QED
      BY <1>2, <1>4, <2>1 DEF FramesDone
  <1>6. node \notin visited
    BY <1>3, <1>4
  <1>7. IsPath(stack)'
    BY <1>1, <1>2 DEF IsPath
  <1>8. TypeOK'
    BY <1>1, <1>3, <1>7 DEF TypeOK, IsPath
  <1>9. visiting' = Nodes(stack') /\ (visited \cap visiting = {})'
    BY <1>1, <1>2, <1>4
  <1>10. Closed'
    BY <1>1, <1>4, <1>5 DEF Closed
  <1>11. VisitedAcyclic'
    <2>1. ASSUME NEW S \in SUBSET (visited \cup {node}), S # {}
          PROVE  \E s \in S : graph[s] \cap S = {}
      <3>1. CASE S \cap visited = {}
        BY <1>5, <2>1, <3>1
      <3>2. CASE S \cap visited # {}
        <4>1. PICK s \in S \cap visited : graph[s] \cap (S \cap visited) = {}
          BY <1>4, <3>2 DEF VisitedAcyclic
        <4>2. graph[s] \subseteq visited
          BY <1>4 DEF Closed
        <4> QED
          BY <4>1, <4>2
      <3> QED
        BY <3>1, <3>2
    <2> QED
      BY <1>1, <2>1 DEF VisitedAcyclic
  <1>12. FramesDone'
    <2>1. ASSUME NEW i \in 1..(n - 1), NEW d \in graph[below[i].node] \ below[i].left
          PROVE  d \in visited \cup {node} \/ (i < n - 1 /\ below[i + 1].node = d)
      <3>1. i \in 1..n /\ d \in Looked(stack, i)
        BY <1>2 DEF Looked
      <3>2. d \in visited \/ stack[i + 1].node = d
        BY <1>4, <3>1 DEF FramesDone
      <3>3. CASE i = n - 1
        BY <1>2, <1>3, <3>2, <3>3
      <3>4. CASE i # n - 1
        BY <1>2, <3>2, <3>4
      <3> QED
        BY <3>3, <3>4
    <2> QED
      BY <1>1, <1>2, <2>1 DEF FramesDone, Looked
  <1>13. Search'
    <2>1. (graph \in GraphType)' /\ (Stages \ rest \subseteq visited \cup visiting)'
      BY <1>1, <1>4 DEF GraphType
    <2> QED
      BY <1>7, <1>9, <1>10, <1>11, <1>12, <2>1 DEF Search
  <1> QED
    BY <1>1, <1>8, <1>13 DEF Inv, VerdictIsRight

LEMMA AcceptInv ==
  ASSUME Inv, Accept
  PROVE  Inv'
PROOF
  <1>1. /\ Search /\ TypeOK /\ stack = <<>> /\ rest = {} /\ verdict' = "valid"
        /\ UNCHANGED <<graph, rest, stack, visiting, visited>>
    BY DEF Inv, Accept
  <1>2. visited = Stages
    <2>1. visiting = {}
      BY <1>1 DEF Search, Nodes
    <2> QED
      BY <1>1, <2>1 DEF Search, TypeOK
  <1>3. Acyclic(graph)
    BY <1>1, <1>2, AllVisited DEF Search
  <1>4. TypeOK'
    BY <1>1 DEF TypeOK
  <1>5. Acyclic(graph)'
    BY <1>1, <1>3 DEF Acyclic
  <1> QED
    BY <1>1, <1>4, <1>5 DEF Inv, VerdictIsRight

\* validate_stages accepts a plan over known stages only when it has no cycle,
\* and reports a cycle only when there is one.
THEOREM VerdictIsCorrect == Spec => []VerdictIsRight
PROOF
  <1>1. Inv /\ [Next]_vars => Inv'
    <2> SUFFICES ASSUME Inv, [Next]_vars PROVE Inv'
      OBVIOUS
    <2>1. ASSUME NEW s \in Stages, VisitStage(s) PROVE Inv'
      BY <2>1, VisitStageInv
    <2>2. ASSUME NEW s \in Stages, VisitDependency(s) PROVE Inv'
      BY <2>2, VisitDependencyInv
    <2>3. CASE Return
      BY <2>3, ReturnInv
    <2>4. CASE Accept
      BY <2>4, AcceptInv
    <2>5. CASE UNCHANGED vars
      BY <2>5 DEF vars, Inv, TypeOK, Search, IsPath, Nodes, Closed, VisitedAcyclic,
        FramesDone, Looked, VerdictIsRight, Acyclic, GraphType
    <2> QED
      BY <2>1, <2>2, <2>3, <2>4, <2>5 DEF Next
  <1>2. Inv => VerdictIsRight
    BY DEF Inv
  <1> QED
    BY <1>1, <1>2, InitInv, PTL DEF Spec

-----------------------------------------------------------------------------
(* Downloads.  The invariant has one part for each actor: a download holds *)
(* the lock from the inspection on, and has on disk what its position says *)
(* (DownOK): a note that is its own, a partial file that is what it hashed *)
(* so far and, with what is to come, the whole file; and what it removes,  *)
(* it removes in an order that leaves no partial file without its note.    *)

\* A download that has begun and is not over.
Busy(d) == getting[d] \notin {"new", "over"}

\* Where a download holds the lock; and where it has read the whole body.
Holding ==
  {"inspecting", "noting", "getting", "receiving", "publishing", "describing", "checking"}
Late == {"publishing", "describing", "checking"}

\* The hash of a label is that of a whole file of its revision.
IsWhole(label) == label # None =>
  label.hash \in Seq(Files!Chunks) /\ Len(label.hash) = Size
  /\ Files!InOrder(label.hash, label.revision)

\* What a download that is cancelled or starts afresh still has to remove, in this order;
\* what one that failed has; and what one that was rejected has.
AbortLists == {<<"part", "meta">>, <<"meta">>, <<>>}
FailLists ==
  {<<"part", "meta", "final", "source">>, <<"meta", "final", "source">>,
   <<"final", "source">>, <<"source">>}
RejectLists ==
  {<<"final", "part", "source", "meta">>, <<"part", "source", "meta">>, <<"source", "meta">>}
Lists == AbortLists \cup FailLists \cup RejectLists
\* Those on which the file still is.
WithFinal ==
  {<<"part", "meta", "final", "source">>, <<"meta", "final", "source">>, <<"final", "source">>,
   <<"final", "part", "source", "meta">>}

\* What the download expects of the file is a version of its revision.
Expects(d) ==
  IF RevisionOf[d] \in Hashed
  THEN \E v \in 0..MaxVersion : transfer[d].expected = Files!Whole(RevisionOf[d], v)
  ELSE transfer[d].expected = None

\* What comes first on the list is removed before the rest.
Removes(a) ==
  /\ todo[a] \in {<<"meta">>, <<"meta", "final", "source">>, <<"source", "meta">>} =>
       disk.part = None
  /\ todo[a] \in {<<"source">>, <<"source", "meta">>, <<"part", "source", "meta">>} =>
       disk.final = None

\* A download at its position: what it has to remove, the partial file, and the file.
TodoOK(d) ==
  /\ todo[d] # <<>> => fileLock = d /\ getting[d] \in {"noting", "describing", "leaving"}
  /\ todo[d] \in Lists
  /\ getting[d] = "noting" => todo[d] \in AbortLists
  /\ getting[d] = "describing" => todo[d] \in {<<"meta">>, <<>>}
  /\ Removes(d)
PartOK(d) ==
  /\ (getting[d] = "noting" /\ todo[d] = <<>>) =>
       disk.part = None \/ disk.meta = Files!Describes(d, transfer[d].expected)
  /\ getting[d] \in {"getting", "receiving", "publishing"} =>
       disk.meta = Files!Describes(d, transfer[d].expected)
  /\ getting[d] \in {"receiving", "publishing"} =>
       /\ disk.part = transfer[d].digest /\ disk.part \in Seq(Files!Chunks)
       /\ Files!InOrder(disk.part, RevisionOf[d])
  /\ getting[d] = "receiving" =>
       /\ Len(disk.part) + Len(transfer[d].body) = Size
       /\ \E v \in 0..MaxVersion : \A i \in 1..Len(transfer[d].body) :
            transfer[d].body[i] = <<RevisionOf[d], v, Len(disk.part) + i>>
  /\ getting[d] = "publishing" => Len(disk.part) = Size
FinalOK(d) ==
  /\ getting[d] \in {"describing", "checking"} =>
       /\ disk.final = transfer[d].digest
       /\ Len(disk.final) = Size /\ Files!InOrder(disk.final, RevisionOf[d])
  /\ getting[d] = "checking" => disk.source = Files!Describes(d, transfer[d].digest)

\* The invariant of a download.
DownOK(d) ==
  /\ registered = d <=> Busy(d)
  /\ getting[d] \in Holding => fileLock = d
  /\ getting[d] \in Holding \cup {"waiting"} => Expects(d)
  /\ TodoOK(d) /\ PartOK(d) /\ FinalOK(d)

\* A cancellation that has removed what there was keeps its download quiet.
QuietFor(c) ==
  (/\ target[c] # None /\ Busy(target[c])
   /\ \/ getting[c] = "leaving" /\ todo[c] \in {<<"meta">>, <<>>}
      \/ getting[c] = "over" /\ reply[c] = "cancelled")
  => disk.part \in {None, <<>>} /\ getting[target[c]] \notin Late

\* The invariant of a cancellation.
DelOK(c) ==
  /\ getting[c] \in {"new", "waiting", "leaving", "over"}
  /\ todo[c] # <<>> => fileLock = c /\ getting[c] = "leaving"
  /\ todo[c] \in AbortLists /\ Removes(c)
  /\ target[c] # None =>
       getting[target[c]] # "new" /\ (Busy(target[c]) => target[c] \in cancelled)
  /\ QuietFor(c)

\* The file at rest is what its source says, when nobody is about to write either.
Verified == disk.final # None =>
  /\ disk.source # None /\ disk.final = disk.source.hash
  /\ disk.source.revision \in Hashed =>
       \E v \in 0..MaxVersion : disk.final = Files!Whole(disk.source.revision, v)
Settled ==
  /\ lost.crashes = 0
  /\ \A d \in Downloads :
       getting[d] \notin {"describing", "checking"}
       /\ todo[d] \notin WithFinal
RestOK == Settled => Verified

\* The invariant of an installation.
InstOK(i) ==
  /\ getting[i] \in {"new", "hashing", "writing", "over"} /\ todo[i] = <<>>
  /\ IsWhole(source[i]) /\ (getting[i] \in {"hashing", "writing"} => source[i] # None)
DiskOK == Files!PartIsABeginning /\ IsWhole(disk.source) /\ IsWhole(manifest) /\ RestOK

\* The invariant of the files.
FilesInv ==
  /\ Files!TypeOK /\ DiskOK
  /\ \A d \in Downloads : DownOK(d)
  /\ \A c \in Deletes : DelOK(c)
  /\ \A i \in Installs : InstOK(i)

LEMMA FileConstants ==
  /\ None \notin Files!Actors /\ None \notin Seq(Files!Chunks) /\ None \notin Files!Labels
  /\ Downloads \cap Deletes = {} /\ Downloads \cap Installs = {} /\ Deletes \cap Installs = {}
  /\ RevisionOf \in [Downloads \cup Installs -> Revisions]
  /\ Size \in Nat /\ Size > 0 /\ MaxVersion \in Nat /\ MaxFaults \in Nat /\ MaxCrashes \in Nat
<1>1. None \notin Files!Actors /\ None \notin Seq(Files!Chunks) /\ None \notin Files!Labels
  BY FileParameters DEF Files!Parameters
<1>2. Downloads \cap Deletes = {} /\ Downloads \cap Installs = {} /\ Deletes \cap Installs = {}
  BY FileParameters DEF Files!Parameters
<1> QED BY FileParameters, <1>1, <1>2 DEF Files!Parameters

LEMMA Types == Files!TypeOK =>
  /\ disk.part \in Files!Contents /\ disk.meta \in Files!Labels \cup {None}
  /\ disk.final \in Files!Contents /\ disk.source \in Files!Labels \cup {None}
  /\ disk = [part |-> disk.part, meta |-> disk.meta, final |-> disk.final, source |-> disk.source]
  /\ \A d \in Downloads :
       /\ transfer[d] \in [expected : Files!Contents, body : Seq(Files!Chunks),
                           digest : Seq(Files!Chunks)]
       /\ transfer[d].expected \in Files!Contents /\ transfer[d].body \in Seq(Files!Chunks)
       /\ transfer[d].digest \in Seq(Files!Chunks)
  /\ \A a \in Files!Actors : getting[a] \in Files!Positions /\ reply[a] \in Files!Results
BY DEF Files!TypeOK

LEMMA WholeFile ==
  ASSUME NEW rev \in Revisions, NEW v \in 0..MaxVersion
  PROVE  /\ Files!Whole(rev, v) \in Seq(Files!Chunks) /\ Len(Files!Whole(rev, v)) = Size
         /\ DOMAIN Files!Whole(rev, v) = 1..Size /\ Files!Whole(rev, v) # None
         /\ \A i \in 1..Size : Files!Whole(rev, v)[i] = <<rev, v, i>>
<1>1. \A i \in 1..Size : <<rev, v, i>> \in Files!Chunks
  BY DEF Files!Chunks
<1>2. Files!Whole(rev, v) \in [1..Size -> Files!Chunks]
  BY <1>1 DEF Files!Whole
<1>3. Files!Whole(rev, v) \in Seq(Files!Chunks) /\ Len(Files!Whole(rev, v)) = Size
  BY <1>2, FileConstants
<1> QED BY <1>3, FileConstants DEF Files!Whole

LEMMA RestOfFile ==
  ASSUME NEW rev \in Revisions, NEW v \in 0..MaxVersion,
         NEW n \in Nat, n < Size
  PROVE  LET remaining == SubSeq(Files!Whole(rev, v), n + 1, Size) IN
         /\ remaining \in Seq(Files!Chunks) /\ Len(remaining) = Size - n
         /\ \A i \in 1..Len(remaining) : remaining[i] = <<rev, v, n + i>>
<1>1. Files!Whole(rev, v) \in Seq(Files!Chunks) /\ Len(Files!Whole(rev, v)) = Size
      /\ \A i \in 1..Size : Files!Whole(rev, v)[i] = <<rev, v, i>>
  BY WholeFile
<1>2. \A s \in Seq(Files!Chunks) : Len(s) = Size =>
        /\ SubSeq(s, n + 1, Size) \in Seq(Files!Chunks)
        /\ Len(SubSeq(s, n + 1, Size)) = Size - n
        /\ \A i \in 1..(Size - n) : SubSeq(s, n + 1, Size)[i] = s[n + i]
  BY FileConstants
<1>3. \A i \in 1..(Size - n) : n + i \in 1..Size
  BY FileConstants
<1> DEFINE remaining == SubSeq(Files!Whole(rev, v), n + 1, Size)
<1>4. /\ remaining \in Seq(Files!Chunks) /\ Len(remaining) = Size - n
      /\ \A i \in 1..(Size - n) : remaining[i] = Files!Whole(rev, v)[n + i]
  BY <1>1, <1>2
<1>5. \A i \in 1..(Size - n) : remaining[i] = <<rev, v, n + i>>
  BY <1>1, <1>3, <1>4
<1> HIDE DEF remaining
<1>6. /\ remaining \in Seq(Files!Chunks) /\ Len(remaining) = Size - n
      /\ \A i \in 1..Len(remaining) : remaining[i] = <<rev, v, n + i>>
  BY <1>4, <1>5
<1> QED BY <1>6 DEF remaining

LEMMA LongerOrder ==
  ASSUME NEW s \in Seq(Files!Chunks), NEW rev \in Revisions, NEW v \in 0..MaxVersion,
         Files!InOrder(s, rev), NEW c, c = <<rev, v, Len(s) + 1>>, Len(s) < Size
  PROVE  /\ Append(s, c) \in Seq(Files!Chunks) /\ Files!InOrder(Append(s, c), rev)
         /\ Len(Append(s, c)) = Len(s) + 1
<1>1. c \in Files!Chunks
  BY FileConstants DEF Files!Chunks
<1>2. Append(s, c) \in Seq(Files!Chunks) /\ Len(Append(s, c)) = Len(s) + 1
      /\ DOMAIN Append(s, c) = 1..(Len(s) + 1)
  BY <1>1
<1>3. ASSUME NEW n \in 1..(Len(s) + 1)
      PROVE  Append(s, c)[n][1] = rev /\ Append(s, c)[n][3] = n
  <2>1. CASE n = Len(s) + 1
    BY <2>1, <1>1
  <2>2. CASE n # Len(s) + 1
    <3>1. n \in DOMAIN s /\ Append(s, c)[n] = s[n]
      BY <2>2, <1>1
    <3> QED BY <3>1 DEF Files!InOrder
  <2> QED BY <2>1, <2>2
<1> QED BY <1>2, <1>3 DEF Files!InOrder

\* What a step of one actor leaves alone.
Only(a) ==
  /\ \A b \in Files!Actors \ {a} : getting'[b] = getting[b] /\ todo'[b] = todo[b]
       /\ reply'[b] = reply[b]
  /\ \A b \in Files!Actors \ {a} : (registered' = b <=> registered = b)
       /\ (fileLock' = b <=> fileLock = b)
  /\ manifest' = manifest
  /\ source' = source

LEMMA DownloadMoves ==
  ASSUME NEW d \in Downloads, FilesInv, Only(d),
         \A e \in Downloads \ {d} : transfer'[e] = transfer[e],
         cancelled' = cancelled, target' = target,
         disk' = disk \/ (fileLock = d /\ Busy(d)),
         getting[d] # "over", getting'[d] # "new",
         (d \in cancelled /\ getting[d] \notin Late /\ disk.part \in {None, <<>>}) =>
           getting'[d] = "over" \/ (getting'[d] \notin Late /\ disk'.part \in {None, <<>>}),
         Files!TypeOK', Files!PartIsABeginning', IsWhole(disk.source)', RestOK', DownOK(d)'
  PROVE  FilesInv'
<1>1. d \in Files!Actors /\ Downloads \subseteq Files!Actors /\ Deletes \subseteq Files!Actors
      /\ Installs \subseteq Files!Actors /\ d \notin Deletes /\ d \notin Installs
  BY FileConstants DEF Files!Actors
<1>2. DownOK(d)
  BY DEF FilesInv
<1>3. DiskOK'
  BY DEF FilesInv, DiskOK, Only, IsWhole, Files!InOrder
<1>4. ASSUME NEW e \in Downloads PROVE DownOK(e)'
  <2>1. CASE e = d
    BY <2>1
  <2>2. CASE e # d
    <3>1. getting'[e] = getting[e] /\ todo'[e] = todo[e] /\ transfer'[e] = transfer[e]
          /\ (registered' = e <=> registered = e) /\ (fileLock' = e <=> fileLock = e)
      BY <2>2, <1>1 DEF Only
    <3>2. DownOK(e)
      BY DEF FilesInv
    <3>3. CASE disk' = disk
      <4>1. /\ (Busy(e) <=> Busy(e)') /\ (Expects(e) <=> Expects(e)')
            /\ (TodoOK(e) <=> TodoOK(e)')
        BY <3>1, <3>3 DEF TodoOK, Busy, Expects, Removes
      <4>2. PartOK(e) => PartOK(e)'
        BY <3>1, <3>3, ZenonT(60) DEF PartOK
      <4>3. FinalOK(e) => FinalOK(e)'
        BY <3>1, <3>3, Zenon DEF FinalOK
      <4> QED BY <4>1, <4>2, <4>3, <3>1, <3>2 DEF DownOK
    <3>4. CASE fileLock = d
      <4>1. getting[e] \notin Holding /\ todo[e] = <<>>
        BY <3>2, <3>4, <2>2 DEF DownOK, TodoOK
      <4>2. Expects(e)' <=> Expects(e)
        BY <3>1 DEF Expects
      <4>3. TodoOK(e)'
        BY <4>1, <3>1 DEF TodoOK, Removes, Lists, AbortLists
      <4>4. PartOK(e)' /\ FinalOK(e)'
        BY <4>1, <3>1 DEF PartOK, FinalOK, Holding
      <4> QED BY <4>1, <4>2, <4>3, <4>4, <3>1, <3>2 DEF DownOK, Busy
    <3> QED BY <3>3, <3>4
  <2> QED BY <2>1, <2>2
<1>5. ASSUME NEW c \in Deletes PROVE DelOK(c)'
  <2>1. getting'[c] = getting[c] /\ todo'[c] = todo[c] /\ reply'[c] = reply[c]
        /\ (fileLock' = c <=> fileLock = c) /\ target'[c] = target[c]
    BY <1>1 DEF Only
  <2>2. DelOK(c)
    BY DEF FilesInv
  <2>3. target[c] # None => target[c] \in Downloads
    BY DEF FilesInv, Files!TypeOK
  <2>4. Removes(c)'
    <3>1. CASE disk' = disk
      BY <3>1, <2>1, <2>2 DEF DelOK, Removes
    <3>2. CASE fileLock = d
      <4>1. todo[c] = <<>>
        BY <3>2, <2>2, <1>1 DEF DelOK
      <4> QED BY <4>1, <2>1 DEF Removes
    <3> QED BY <3>1, <3>2
  <2>5. ASSUME target[c] # None
        PROVE  /\ getting'[target[c]] # "new"
               /\ (getting'[target[c]] # "over" => target[c] \in cancelled)
    <3>1. CASE target[c] = d
      BY <3>1, <2>2, <2>5 DEF DelOK, Busy
    <3>2. CASE target[c] # d
      <4>1. getting'[target[c]] = getting[target[c]]
        BY <3>2, <2>3, <2>5, <1>1 DEF Only
      <4> QED BY <4>1, <2>2, <2>5 DEF DelOK, Busy
    <3> QED BY <3>1, <3>2
  <2>6. QuietFor(c)'
    <3> SUFFICES ASSUME target[c] # None, getting'[target[c]] # "over",
    getting'[target[c]] # "new",
                        \/ getting[c] = "leaving" /\ todo[c] \in {<<"meta">>, <<>>}
                        \/ getting[c] = "over" /\ reply[c] = "cancelled"
                 PROVE  disk'.part \in {None, <<>>} /\ getting'[target[c]] \notin Late
      BY <2>1 DEF QuietFor, Busy, Late
    <3>1. CASE target[c] = d
      <4>1. Busy(d)
        BY <3>1, <2>2 DEF DelOK, Busy
      <4>2. disk.part \in {None, <<>>} /\ getting[d] \notin Late /\ d \in cancelled
        BY <4>1, <3>1, <2>2 DEF DelOK, QuietFor
      <4> QED BY <4>2, <3>1
    <3>2. CASE target[c] # d
      <4>1. getting'[target[c]] = getting[target[c]]
        BY <3>2, <2>3, <1>1 DEF Only
      <4>2. Busy(target[c])
        BY <4>1 DEF Busy
      <4>3. disk.part \in {None, <<>>} /\ getting[target[c]] \notin Late
        BY <4>2, <2>2 DEF DelOK, QuietFor
      <4>4. registered = target[c]
        BY <4>2, <2>3 DEF FilesInv, DownOK
      <4>5. ~Busy(d)
        BY <4>4, <3>2, <1>2 DEF DownOK
      <4>6. disk' = disk
        BY <4>5
      <4> QED BY <4>3, <4>1, <4>6
    <3> QED BY <3>1, <3>2
  <2> QED BY <2>1, <2>2, <2>4, <2>5, <2>6 DEF DelOK, Busy
<1>6. ASSUME NEW i \in Installs PROVE InstOK(i)'
  <2>1. getting'[i] = getting[i] /\ todo'[i] = todo[i] /\ source'[i] = source[i]
    BY <1>1 DEF Only
  <2> QED BY <2>1 DEF FilesInv, InstOK, IsWhole, Files!InOrder
<1> QED BY <1>3, <1>4, <1>5, <1>6 DEF FilesInv

LEMMA DeleteMoves ==
  ASSUME NEW c \in Deletes, FilesInv, Only(c),
         transfer' = transfer, cancelled \subseteq cancelled', registered' = registered,
         \A b \in Deletes \ {c} : target'[b] = target[b],
         disk' = disk \/ fileLock = c,
         disk'.part \in {None, disk.part},
         Files!TypeOK', Files!PartIsABeginning', IsWhole(disk.source)', RestOK', DelOK(c)'
  PROVE  FilesInv'
<1>1. c \in Files!Actors /\ Downloads \subseteq Files!Actors /\ Deletes \subseteq Files!Actors
      /\ Installs \subseteq Files!Actors /\ c \notin Downloads /\ c \notin Installs
  BY FileConstants DEF Files!Actors
<1>3. DiskOK'
  BY DEF FilesInv, DiskOK, Only, IsWhole, Files!InOrder
<1>4. ASSUME NEW e \in Downloads PROVE DownOK(e)'
  <3>1. getting'[e] = getting[e] /\ todo'[e] = todo[e] /\ transfer'[e] = transfer[e]
        /\ (registered' = e <=> registered = e) /\ (fileLock' = e <=> fileLock = e)
    BY <1>1 DEF Only
  <3>2. DownOK(e)
    BY DEF FilesInv
  <3>3. CASE disk' = disk
    <4>1. /\ (Busy(e) <=> Busy(e)') /\ (Expects(e) <=> Expects(e)')
          /\ (TodoOK(e) <=> TodoOK(e)')
      BY <3>1, <3>3 DEF TodoOK, Busy, Expects, Removes
    <4>2. PartOK(e) => PartOK(e)'
      BY <3>1, <3>3, ZenonT(60) DEF PartOK
    <4>3. FinalOK(e) => FinalOK(e)'
      BY <3>1, <3>3, Zenon DEF FinalOK
    <4> QED BY <4>1, <4>2, <4>3, <3>1, <3>2 DEF DownOK
  <3>4. CASE fileLock = c
    <4>1. getting[e] \notin Holding /\ todo[e] = <<>>
      BY <3>2, <3>4, <1>1 DEF DownOK, TodoOK
    <4>2. Expects(e)' <=> Expects(e)
      BY <3>1 DEF Expects
    <4>3. TodoOK(e)'
      BY <4>1, <3>1 DEF TodoOK, Removes, Lists, AbortLists
    <4>4. PartOK(e)' /\ FinalOK(e)'
      BY <4>1, <3>1 DEF PartOK, FinalOK, Holding
    <4> QED BY <4>1, <4>2, <4>3, <4>4, <3>1, <3>2 DEF DownOK, Busy
  <3> QED BY <3>3, <3>4
<1>5. ASSUME NEW b \in Deletes PROVE DelOK(b)'
  <2>1. CASE b = c
    BY <2>1
  <2>2. CASE b # c
    <3>1. getting'[b] = getting[b] /\ todo'[b] = todo[b] /\ reply'[b] = reply[b]
          /\ (fileLock' = b <=> fileLock = b) /\ target'[b] = target[b]
      BY <1>1, <2>2 DEF Only
    <3>2. DelOK(b)
      BY DEF FilesInv
    <3>3. target[b] # None => getting'[target[b]] = getting[target[b]]
      BY <1>1 DEF Only, FilesInv, Files!TypeOK
    <3>4. Removes(b)'
      <4>1. CASE disk' = disk
        BY <4>1, <3>1, <3>2 DEF DelOK, Removes
      <4>2. CASE fileLock = c
        <5>1. todo[b] = <<>>
          BY <4>2, <3>2, <2>2 DEF DelOK
        <5> QED BY <5>1, <3>1 DEF Removes
      <4> QED BY <4>1, <4>2
    <3>5. QuietFor(b)'
      BY <3>1, <3>2, <3>3 DEF DelOK, QuietFor, Busy
    <3> QED BY <3>1, <3>2, <3>3, <3>4, <3>5 DEF DelOK, Busy
  <2> QED BY <2>1, <2>2
<1>6. ASSUME NEW i \in Installs PROVE InstOK(i)'
  <2>1. getting'[i] = getting[i] /\ todo'[i] = todo[i] /\ source'[i] = source[i]
    BY <1>1 DEF Only
  <2> QED BY <2>1 DEF FilesInv, InstOK, IsWhole, Files!InOrder
<1> QED BY <1>3, <1>4, <1>5, <1>6 DEF FilesInv

LEMMA InstallMoves ==
  ASSUME NEW i \in Installs, FilesInv, Files!TypeOK',
         \A b \in Files!Actors \ {i} : getting'[b] = getting[b] /\ reply'[b] = reply[b],
         \A b \in Installs \ {i} : source'[b] = source[b],
         UNCHANGED <<registered, cancelled, fileLock, todo, transfer, target, disk, lost>>,
         IsWhole(manifest)', InstOK(i)'
  PROVE  FilesInv'
<1>1. i \in Files!Actors /\ Downloads \subseteq Files!Actors /\ Deletes \subseteq Files!Actors
      /\ Installs \subseteq Files!Actors /\ i \notin Downloads /\ i \notin Deletes
  BY FileConstants DEF Files!Actors
<1>2. \A d \in Downloads : getting'[d] = getting[d]
  BY <1>1
<1>3. DiskOK'
  BY <1>2 DEF FilesInv, DiskOK, IsWhole, Files!InOrder, Files!PartIsABeginning, Files!Missing,
              RestOK,
    Settled, Verified, Files!Whole
<1>4. ASSUME NEW e \in Downloads PROVE DownOK(e)'
  <2>1. getting'[e] = getting[e] /\ DownOK(e)
    BY <1>2 DEF FilesInv
  <2>2. (Busy(e) <=> Busy(e)') /\ (Expects(e) <=> Expects(e)') /\ (TodoOK(e) <=> TodoOK(e)')
    BY <2>1 DEF TodoOK, Busy, Expects, Removes
  <2>3. PartOK(e) => PartOK(e)'
    BY <2>1, ZenonT(60) DEF PartOK
  <2>4. FinalOK(e) => FinalOK(e)'
    BY <2>1, Zenon DEF FinalOK, Files!Describes, Files!InOrder
  <2> QED BY <2>1, <2>2, <2>3, <2>4 DEF DownOK
<1>5. ASSUME NEW b \in Deletes PROVE DelOK(b)'
  <2>1. getting'[b] = getting[b] /\ reply'[b] = reply[b] /\ DelOK(b)
    BY <1>1 DEF FilesInv
  <2>2. target[b] # None => getting'[target[b]] = getting[target[b]]
    BY <1>2 DEF FilesInv, Files!TypeOK
  <2> QED BY <2>1, <2>2 DEF DelOK, Removes, QuietFor, Busy
<1>6. ASSUME NEW j \in Installs PROVE InstOK(j)'
  <2>1. CASE j = i
    BY <2>1
  <2>2. CASE j # i
    <3>1. getting'[j] = getting[j] /\ source'[j] = source[j] /\ InstOK(j)
      BY <1>1, <2>2 DEF FilesInv
    <3> QED BY <3>1 DEF InstOK, IsWhole, Files!InOrder
  <2> QED BY <2>1, <2>2
<1> QED BY <1>3, <1>4, <1>5, <1>6 DEF FilesInv

LEMMA Downloader ==
  ASSUME NEW d \in Downloads
  PROVE  /\ d \in Files!Actors /\ d \notin Deletes /\ d \notin Installs /\ d # None
         /\ RevisionOf[d] \in Revisions
         /\ \A hash \in Files!Contents : Files!Describes(d, hash) \in Files!Labels
              /\ Files!Describes(d, hash) # None
         /\ \A hash : Files!Describes(d, hash).revision = RevisionOf[d]
              /\ Files!Describes(d, hash).hash = hash
<1>1. d \in Files!Actors /\ d \notin Deletes /\ d \notin Installs /\ d # None
  BY FileConstants DEF Files!Actors
<1>2. RevisionOf[d] \in Revisions
  BY FileConstants
<1> QED BY <1>1, <1>2, FileConstants DEF Files!Describes, Files!Labels

LEMMA NewIsClean ==
  ASSUME FilesInv, NEW d \in Downloads, getting[d] \in {"new", "asking", "waiting"}
  PROVE  todo[d] = <<>>
BY DEF FilesInv, DownOK, TodoOK

LEMMA IdleIsFine ==
  ASSUME NEW d \in Downloads, getting'[d] \in {"asking", "leaving", "over"}, todo'[d] = <<>>,
         registered' = d <=> getting'[d] # "over"
  PROVE  DownOK(d)'
<1>1. Removes(d)' /\ TodoOK(d)'
  BY DEF TodoOK, Removes, Lists, AbortLists
<1>2. PartOK(d)' /\ FinalOK(d)'
  BY DEF PartOK, FinalOK
<1> QED BY <1>1, <1>2 DEF DownOK, Busy, Holding

LEMMA NothingWithFinal == <<>> \notin WithFinal
BY DEF WithFinal

LEMMA StillDisk ==
  ASSUME NEW d \in Downloads, FilesInv, Only(d), disk' = disk,
         lost'.crashes = lost.crashes,
         getting[d] \notin {"describing", "checking"},
         todo[d] \notin WithFinal
  PROVE  Files!PartIsABeginning' /\ IsWhole(disk.source)' /\ RestOK'
<1>1. Files!PartIsABeginning' /\ IsWhole(disk.source)'
  BY DEF FilesInv, DiskOK, Files!PartIsABeginning, Files!Missing, Files!InOrder, IsWhole
<1>2. Settled' => Settled
  <2>1. ASSUME NEW e \in Downloads, Settled'
        PROVE  /\ getting[e] \notin {"describing", "checking"}
               /\ todo[e] \notin WithFinal
    <3>1. CASE e = d
      BY <3>1
    <3>2. CASE e # d
      <4>1. getting'[e] = getting[e] /\ todo'[e] = todo[e]
        BY <3>2, Downloader DEF Only
      <4> QED BY <4>1, <2>1 DEF Settled
    <3> QED BY <3>1, <3>2
  <2> QED BY <2>1 DEF Settled
<1>3. Verified <=> Verified'
  BY DEF Verified, Files!Whole
<1> QED BY <1>1, <1>2, <1>3 DEF FilesInv, DiskOK, RestOK

\* Register.
LEMMA RegisterKeeps ==
  ASSUME FilesInv, NEW d \in Downloads, Files!Register(d)
  PROVE  FilesInv'
<1>1. d \in Files!Actors /\ d # None
  BY Downloader
<1>2. Files!TypeOK /\ DownOK(d) /\ todo[d] = <<>> /\ getting[d] = "new"
  BY NewIsClean DEF FilesInv, Files!Register
<1>3. getting \in [Files!Actors -> Files!Positions] /\ reply \in [Files!Actors -> Files!Results]
  BY <1>2 DEF Files!TypeOK
<1>4. Files!TypeOK'
  BY <1>1, <1>2, <1>3 DEF Files!TypeOK, Files!Register, Files!Go, Files!Return,
                          Files!Positions, Files!Results
<1>5. getting' = [getting EXCEPT ![d] = getting'[d]] /\ reply' = [reply EXCEPT ![d] = reply'[d]]
      /\ getting'[d] \in {"asking", "over"} /\ todo' = todo
  BY <1>1, <1>3 DEF Files!Register, Files!Go, Files!Return
<1>6. Only(d)
  <2>1. \A b \in Files!Actors \ {d} : registered' = b <=> registered = b
    BY <1>1, FileConstants DEF Files!Register
  <2> QED BY <2>1, <1>1, <1>3, <1>5 DEF Only, Files!Register
<1>7. registered' = d <=> getting'[d] = "asking"
  <2>1. registered # d
    BY <1>2 DEF DownOK, Busy
  <2>2. CASE registered = None
    BY <2>2, <1>1, <1>3 DEF Files!Register, Files!Go
  <2>3. CASE registered # None
    BY <2>1, <2>3, <1>1, <1>3 DEF Files!Register, Files!Return
  <2> QED BY <2>2, <2>3
<1>8. DownOK(d)'
  BY <1>2, <1>5, <1>7, IdleIsFine
<1>9. disk' = disk /\ lost' = lost
  BY DEF Files!Register
<1>10. Files!PartIsABeginning' /\ IsWhole(disk.source)' /\ RestOK'
  BY <1>2, <1>6, <1>9, NothingWithFinal, StillDisk
<1> QED BY <1>2, <1>4, <1>5, <1>6, <1>8, <1>9, <1>10, DownloadMoves DEF Files!Register, Late

LEMMA ListsDiffer ==
  /\ <<"part", "meta">> \in Lists /\ <<"part", "meta">> \in AbortLists
  /\ <<>> \in Lists /\ <<>> \in AbortLists
  /\ <<"part", "meta", "final", "source">> \in Lists
  /\ <<"final", "part", "source", "meta">> \in Lists
  /\ \A files \in {<<>>, <<"part", "meta">>, <<"part", "meta", "final", "source">>,
                   <<"final", "part", "source", "meta">>} :
       files \notin {<<"meta">>, <<"meta", "final", "source">>, <<"source", "meta">>,
                     <<"source">>, <<"part", "source", "meta">>}
  /\ <<"part", "meta">> # <<>>
  /\ <<"meta">> \notin WithFinal
BY DEF Lists, AbortLists, FailLists, RejectLists, WithFinal

LEMMA FaultTyped ==
  ASSUME Files!TypeOK, Files!Fault \/ lost' = lost
  PROVE  lost' \in [faults : 0..MaxFaults, crashes : 0..MaxCrashes]
         /\ lost'.crashes = lost.crashes
BY FileConstants DEF Files!TypeOK, Files!Fault

LEMMA ListsTyped ==
  /\ <<>> \in Seq({"part", "meta", "final", "source"})
  /\ <<"part", "meta">> \in Seq({"part", "meta", "final", "source"})
  /\ <<"part", "meta", "final", "source">> \in Seq({"part", "meta", "final", "source"})
  /\ <<"final", "part", "source", "meta">> \in Seq({"part", "meta", "final", "source"})
<1> DEFINE Names == {"part", "meta", "final", "source"}
<1>1. \A a, b, c, d \in Names : <<a, b>> \in Seq(Names) /\ <<a, b, c, d>> \in Seq(Names)
  OBVIOUS
<1>2. "part" \in Names /\ "meta" \in Names /\ "final" \in Names /\ "source" \in Names
  OBVIOUS
<1>3. <<>> \in Seq(Names)
  OBVIOUS
<1> HIDE DEF Names
<1>4. <<"part", "meta">> \in Seq(Names) /\ <<"part", "meta", "final", "source">> \in Seq(Names)
      /\ <<"final", "part", "source", "meta">> \in Seq(Names)
  BY <1>1, <1>2
<1> QED BY <1>3, <1>4 DEF Names

\* A download leaves with a list of files that it then removes.
LEMMA LeaveKeepsFiles ==
  ASSUME FilesInv, NEW d \in Downloads, getting[d] \in Holding \cup {"asking"},
         todo[d] \notin WithFinal,
         NEW value \in Files!Results,
         NEW files \in {<<>>, <<"part", "meta">>, <<"part", "meta", "final", "source">>,
                        <<"final", "part", "source", "meta">>},
         files # <<>> => fileLock = d,
         Files!Leave(d, value, files), Files!Fault \/ lost' = lost,
         UNCHANGED <<remote, Files!memory, transfer, target, disk, manifest, source>>,
         getting[d] \in {"describing", "checking"} => RestOK'
  PROVE  FilesInv'
<1>1. d \in Files!Actors /\ d # None
  BY Downloader
<1>2. Files!TypeOK /\ DownOK(d) /\ Busy(d) /\ registered = d
  BY DEF FilesInv, DownOK, Busy, Holding
<1>3. getting \in [Files!Actors -> Files!Positions] /\ reply \in [Files!Actors -> Files!Results]
      /\ todo \in [Files!Actors -> Seq({"part", "meta", "final", "source"})]
  BY <1>2 DEF Files!TypeOK
<1>4. getting' = [getting EXCEPT ![d] = "leaving"] /\ todo' = [todo EXCEPT ![d] = files]
      /\ reply' = [reply EXCEPT ![d] = value]
  BY DEF Files!Leave
<1>5. files \in Seq({"part", "meta", "final", "source"})
  BY ListsTyped
<1>6. Files!TypeOK'
  <2>1. getting' \in [Files!Actors -> Files!Positions]
        /\ reply' \in [Files!Actors -> Files!Results]
        /\ todo' \in [Files!Actors -> Seq({"part", "meta", "final", "source"})]
    BY <1>3, <1>4, <1>5 DEF Files!Positions
  <2>2. lost' \in [faults : 0..MaxFaults, crashes : 0..MaxCrashes]
    BY <1>2, FaultTyped
  <2> QED BY <1>2, <2>1, <2>2 DEF Files!TypeOK, Files!memory
<1>7. getting'[d] = "leaving" /\ todo'[d] = files
  BY <1>1, <1>3, <1>4
<1>8. Only(d)
  BY <1>3, <1>4 DEF Only, Files!memory
<1>9. DownOK(d)'
  <2>1. Removes(d)'
    BY <1>7, ListsDiffer DEF Removes
  <2>2. TodoOK(d)'
    <3>1. files \in Lists
      BY ListsDiffer
    <3> QED BY <3>1, <2>1, <1>7 DEF TodoOK, Files!memory
  <2>3. PartOK(d)' /\ FinalOK(d)'
    BY <1>7 DEF PartOK, FinalOK
  <2> QED BY <2>2, <2>3, <1>7, <1>2 DEF DownOK, Busy, Holding, Files!memory
<1>11. Files!PartIsABeginning' /\ IsWhole(disk.source)'
  BY DEF FilesInv, DiskOK, Files!PartIsABeginning, Files!Missing, Files!InOrder, IsWhole
<1>12. RestOK'
  <2>1. CASE getting[d] \notin {"describing", "checking"}
    BY <2>1, <1>2, <1>8, StillDisk, FaultTyped
  <2> QED BY <2>1
<1> QED BY <1>2, <1>6, <1>7, <1>8, <1>9, <1>11, <1>12, DownloadMoves DEF Files!memory, Late, Busy

LEMMA AskKeeps ==
  ASSUME FilesInv, NEW d \in Downloads, Files!Ask(d)
  PROVE  FilesInv'
<1>1. d \in Files!Actors /\ d # None /\ RevisionOf[d] \in Revisions
  BY Downloader
<1>2. Files!TypeOK /\ DownOK(d) /\ todo[d] = <<>> /\ getting[d] = "asking"
  BY DEF FilesInv, Files!Ask, Files!At
<1>3. CASE Files!Fault /\ Files!Leave(d, "failed", <<>>) /\ UNCHANGED transfer
  BY <1>3, <1>2, NothingWithFinal, LeaveKeepsFiles DEF Files!Ask, Files!Results
<1>4. CASE /\ transfer' = [transfer EXCEPT ![d].expected = Files!Published(RevisionOf[d])]
           /\ Files!Go(d, "waiting") /\ UNCHANGED lost
  <2>1. getting \in [Files!Actors -> Files!Positions] /\ reply \in [Files!Actors -> Files!Results]
        /\ transfer \in [Downloads -> [expected : Files!Contents, body : Seq(Files!Chunks),
                                       digest : Seq(Files!Chunks)]]
    BY <1>2 DEF Files!TypeOK
  <2>2. remote[RevisionOf[d]] \in 0..MaxVersion
    BY <1>1, <1>2 DEF Files!TypeOK
  <2>3. Files!Published(RevisionOf[d]) \in Files!Contents
    BY <2>2, <1>1, WholeFile DEF Files!Published, Files!Contents
  <2>4. getting' = [getting EXCEPT ![d] = "waiting"] /\ todo' = todo /\ reply' = reply
        /\ getting'[d] = "waiting" /\ todo'[d] = <<>>
    BY <1>4, <1>1, <1>2, <2>1 DEF Files!Go
  <2>5. Files!TypeOK'
    <3>1. transfer' \in [Downloads -> [expected : Files!Contents, body : Seq(Files!Chunks),
                                       digest : Seq(Files!Chunks)]]
      BY <1>4, <2>1, <2>3
    <3>2. getting' \in [Files!Actors -> Files!Positions]
      BY <2>1, <2>4 DEF Files!Positions
    <3> QED BY <1>2, <1>4, <2>4, <3>1, <3>2 DEF Files!TypeOK, Files!Ask, Files!memory
  <2>6. Only(d)
    BY <2>1, <2>4 DEF Only, Files!Ask, Files!memory
  <2>7. registered = d
    BY <1>2 DEF DownOK, Busy
  <2>8. DownOK(d)'
    <3>1. transfer'[d].expected = Files!Published(RevisionOf[d])
      BY <1>4, <2>1
    <3>2. Expects(d)'
      BY <3>1, <2>2, <1>1 DEF Expects, Files!Published
    <3>3. TodoOK(d)'
      BY <2>4, ListsDiffer DEF TodoOK, Removes
    <3>4. PartOK(d)' /\ FinalOK(d)'
      BY <2>4 DEF PartOK, FinalOK
    <3> QED BY <2>4, <2>7, <3>2, <3>3, <3>4 DEF DownOK, Busy, Holding, Files!Ask, Files!memory
  <2>9. Files!PartIsABeginning' /\ IsWhole(disk.source)' /\ RestOK'
    BY <1>2, <1>4, <2>6, NothingWithFinal, StillDisk DEF Files!Ask
  <2>10. \A e \in Downloads \ {d} : transfer'[e] = transfer[e]
    BY <1>4, <2>1
  <2> QED BY <1>2, <1>4, <2>4, <2>5, <2>6, <2>8, <2>9, <2>10, DownloadMoves
       DEF Files!Ask, Files!memory, Late
<1> QED BY <1>3, <1>4 DEF Files!Ask

LEMMA LockFileKeeps ==
  ASSUME FilesInv, NEW d \in Downloads, Files!LockFile(d)
  PROVE  FilesInv'
<1>1. d \in Files!Actors /\ d # None
  BY Downloader
<1>2. Files!TypeOK /\ DownOK(d) /\ todo[d] = <<>> /\ getting[d] = "waiting" /\ fileLock = None
  BY DEF FilesInv, Files!LockFile, Files!At
<1>3. getting \in [Files!Actors -> Files!Positions]
  BY <1>2 DEF Files!TypeOK
<1>4. getting' = [getting EXCEPT ![d] = "inspecting"] /\ todo' = todo /\ reply' = reply
      /\ fileLock' = d
      /\ getting'[d] = "inspecting" /\ todo'[d] = <<>>
  BY <1>1, <1>2, <1>3 DEF Files!LockFile, Files!Go
<1>5. Files!TypeOK'
  <2>1. getting' \in [Files!Actors -> Files!Positions]
    BY <1>3, <1>4 DEF Files!Positions
  <2> QED BY <1>2, <1>4, <2>1 DEF Files!TypeOK, Files!LockFile
<1>6. Only(d)
  <2>1. \A b \in Files!Actors \ {d} : fileLock' = b <=> fileLock = b
    BY <1>2, <1>4, FileConstants
  <2> QED BY <1>3, <1>4, <2>1 DEF Only, Files!LockFile
<1>7. DownOK(d)'
  <2>1. Expects(d)'
    BY <1>2 DEF DownOK, Expects, Files!LockFile
  <2>2. TodoOK(d)'
    BY <1>4, ListsDiffer DEF TodoOK, Removes
  <2>3. PartOK(d)' /\ FinalOK(d)'
    BY <1>4 DEF PartOK, FinalOK
  <2> QED BY <1>2, <1>4, <2>1, <2>2, <2>3 DEF DownOK, Busy, Holding, Files!LockFile
<1>8. Files!PartIsABeginning' /\ IsWhole(disk.source)' /\ RestOK'
  BY <1>2, <1>6, NothingWithFinal, StillDisk DEF Files!LockFile
<1> QED BY <1>2, <1>4, <1>5, <1>6, <1>7, <1>8, DownloadMoves DEF Files!LockFile, Late

\* A partial file that is not what is asked for is removed before it is noted anew.
LEMMA InspectKeeps ==
  ASSUME FilesInv, NEW d \in Downloads, Files!Inspect(d)
  PROVE  FilesInv'
<1>1. d \in Files!Actors /\ d # None
  BY Downloader
<1>2. Files!TypeOK /\ DownOK(d) /\ todo[d] = <<>> /\ getting[d] = "inspecting"
  BY DEF FilesInv, Files!Inspect, Files!At
<1>3. getting \in [Files!Actors -> Files!Positions]
      /\ todo \in [Files!Actors -> Seq({"part", "meta", "final", "source"})]
  BY <1>2 DEF Files!TypeOK
<1> DEFINE former == disk.part # None /\ disk.meta # Files!Describes(d, transfer[d].expected)
<1>4. /\ getting' = [getting EXCEPT ![d] = "noting"] /\ reply' = reply
      /\ todo' = [todo EXCEPT ![d] = IF former THEN <<"part", "meta">> ELSE <<>>]
  BY DEF Files!Inspect, Files!Missing
<1>5. getting'[d] = "noting" /\ todo'[d] = IF former THEN <<"part", "meta">> ELSE <<>>
  BY <1>1, <1>3, <1>4
<1>6. Files!TypeOK'
  <2>1. getting' \in [Files!Actors -> Files!Positions]
    BY <1>3, <1>4 DEF Files!Positions
  <2>3. todo' \in [Files!Actors -> Seq({"part", "meta", "final", "source"})]
    BY <1>3, <1>4, ListsTyped
  <2> QED BY <1>2, <1>4, <2>1, <2>3 DEF Files!TypeOK, Files!Inspect, Files!memory
<1>7. Only(d)
  BY <1>3, <1>4 DEF Only, Files!Inspect, Files!memory
<1>8. DownOK(d)'
  <2>1. Expects(d)' /\ fileLock = d /\ registered = d
    BY <1>2 DEF DownOK, Expects, Files!Inspect, Holding, Busy
  <2>2. TodoOK(d)'
    BY <1>5, <2>1, ListsDiffer DEF TodoOK, Removes, Files!Inspect, Files!memory
  <2>3. PartOK(d)'
    <3>1. todo'[d] = <<>> => ~former
      BY <1>5, ListsDiffer
    <3>2. disk' = disk /\ transfer' = transfer
      BY DEF Files!Inspect
    <3> QED BY <1>5, <3>1, <3>2 DEF PartOK, Files!Describes
  <2>4. FinalOK(d)'
    BY <1>5 DEF FinalOK
  <2> QED BY <1>5, <2>1, <2>2, <2>3, <2>4 DEF DownOK, Busy, Files!Inspect, Files!memory
<1>9. Files!PartIsABeginning' /\ IsWhole(disk.source)' /\ RestOK'
  BY <1>2, <1>7, NothingWithFinal, StillDisk DEF Files!Inspect
<1> QED BY <1>2, <1>5, <1>6, <1>7, <1>8, <1>9, DownloadMoves DEF Files!Inspect, Files!memory, Late

LEMMA FileFields ==
  ASSUME Files!TypeOK, NEW p \in Files!Contents, NEW m \in Files!Labels \cup {None},
         NEW f \in Files!Contents, NEW s \in Files!Labels \cup {None},
         disk' = [part |-> p, meta |-> m, final |-> f, source |-> s]
  PROVE  /\ disk'.part = p /\ disk'.meta = m /\ disk'.final = f /\ disk'.source = s
         /\ disk' \in [part : Files!Contents, meta : Files!Labels \cup {None},
                       final : Files!Contents, source : Files!Labels \cup {None}]
OBVIOUS

LEMMA NoteKeeps ==
  ASSUME FilesInv, NEW d \in Downloads, Files!Note(d)
  PROVE  FilesInv'
<1>1. d \in Files!Actors /\ d # None
  BY Downloader
<1>2. Files!TypeOK /\ DownOK(d) /\ todo[d] = <<>> /\ getting[d] = "noting" /\ Busy(d)
      /\ fileLock = d
  BY DEF FilesInv, Files!Note, Files!At, DownOK, Busy, Holding
<1>3. getting \in [Files!Actors -> Files!Positions]
  BY <1>2 DEF Files!TypeOK
<1>4. /\ getting' = [getting EXCEPT ![d] = "getting"] /\ todo' = todo /\ reply' = reply
      /\ getting'[d] = "getting" /\ todo'[d] = <<>> /\ transfer' = transfer
  BY <1>1, <1>2, <1>3 DEF Files!Note, Files!Go
<1> DEFINE label == Files!Describes(d, transfer[d].expected)
<1>5. label \in Files!Labels /\ label # None /\ label.revision = RevisionOf[d]
  BY <1>2, Types, Downloader
<1> HIDE DEF label
<1>6. /\ disk'.part = disk.part /\ disk'.meta = label /\ disk'.final = disk.final
      /\ disk'.source = disk.source
      /\ disk' \in [part : Files!Contents, meta : Files!Labels \cup {None},
                    final : Files!Contents, source : Files!Labels \cup {None}]
  <2>1. disk' = [disk EXCEPT !.meta = label]
    BY DEF Files!Note, label
  <2>2. disk' = [part |-> disk.part, meta |-> label, final |-> disk.final, source |-> disk.source]
    BY <2>1, <1>2, Types
  <2> QED BY <2>2, <1>5, <1>2, Types, FileFields
<1>7. Files!TypeOK'
  <2>1. getting' \in [Files!Actors -> Files!Positions]
    BY <1>3, <1>4 DEF Files!Positions
  <2> QED BY <1>2, <1>4, <1>6, <2>1 DEF Files!TypeOK, Files!Note, Files!memory
<1>8. Only(d)
  BY <1>3, <1>4 DEF Only, Files!Note, Files!memory
<1>9. DownOK(d)'
  <2>1. Expects(d)' /\ registered = d
    BY <1>2 DEF DownOK, Expects, Files!Note, Holding
  <2>2. TodoOK(d)'
    BY <1>4, ListsDiffer DEF TodoOK, Removes
  <2>3. PartOK(d)'
    BY <1>4, <1>6 DEF PartOK, label, Files!Describes
  <2>4. FinalOK(d)'
    BY <1>4 DEF FinalOK
  <2> QED BY <1>2, <1>4, <2>1, <2>2, <2>3, <2>4 DEF DownOK, Busy, Files!Note, Files!memory
<1>10. Files!PartIsABeginning'
  <2>1. disk.part = None \/ disk.meta = label
    BY <1>2 DEF DownOK, PartOK, label
  <2> QED BY <2>1, <1>5, <1>6 DEF FilesInv, DiskOK, Files!PartIsABeginning, Files!Missing,
                                  Files!InOrder
<1>11. IsWhole(disk.source)'
  BY <1>6 DEF FilesInv, DiskOK, IsWhole, Files!InOrder
<1>12. RestOK'
  <2>1. Settled' => Settled
    <3>1. \A e \in Downloads : e = d \/ (getting'[e] = getting[e] /\ todo'[e] = todo[e])
      BY <1>8, Downloader DEF Only
    <3> QED BY <3>1, <1>2, NothingWithFinal DEF Settled, Files!Note
  <2>2. Verified <=> Verified'
    BY <1>6 DEF Verified, Files!Whole
  <2> QED BY <2>1, <2>2 DEF FilesInv, DiskOK, RestOK
<1> QED BY <1>2, <1>4, <1>6, <1>7, <1>8, <1>9, <1>10, <1>11, <1>12, DownloadMoves
     DEF Files!Note, Files!memory, Late

\* What is kept of a partial file, and what is to come, are the beginning and the end of
\* one revision.
LEMMA GetKeeps ==
  ASSUME FilesInv, NEW d \in Downloads, Files!Get(d)
  PROVE  FilesInv'
<1>1. d \in Files!Actors /\ d # None /\ RevisionOf[d] \in Revisions
  BY Downloader
<1>2. Files!TypeOK /\ DownOK(d) /\ todo[d] = <<>> /\ getting[d] = "getting" /\ Busy(d)
      /\ fileLock = d
  BY DEF FilesInv, Files!Get, Files!At, DownOK, Busy, Holding
<1>3. getting \in [Files!Actors -> Files!Positions]
  BY <1>2 DEF Files!TypeOK
<1>4. /\ getting' = [getting EXCEPT ![d] = "receiving"] /\ todo' = todo /\ reply' = reply
      /\ getting'[d] = "receiving" /\ todo'[d] = <<>>
  BY <1>1, <1>2, <1>3 DEF Files!Get, Files!Go
<1> DEFINE rev == RevisionOf[d]
<1> DEFINE v == remote[rev]
<1>5. v \in 0..MaxVersion
  BY <1>1, <1>2 DEF Files!TypeOK
<1>6. disk.meta = Files!Describes(d, transfer[d].expected) /\ disk.meta.revision = rev
      /\ disk.meta # None
  <2>1. disk.meta = Files!Describes(d, transfer[d].expected)
    BY <1>2 DEF DownOK, PartOK
  <2> QED BY <2>1, <1>2, Types, Downloader
<1>7. PICK offset \in {0, Files!Offset(d)} :
        LET kept == IF offset = 0 THEN <<>> ELSE disk.part IN
        /\ offset < Size
        /\ disk' = [disk EXCEPT !.part = kept]
        /\ transfer' = [transfer EXCEPT
             ![d].body = SubSeq(Files!Whole(rev, v), offset + 1, Size),
             ![d].digest = kept]
  BY DEF Files!Get
<1> DEFINE kept == IF offset = 0 THEN <<>> ELSE disk.part
<1> DEFINE remaining == SubSeq(Files!Whole(rev, v), offset + 1, Size)
<1>8. offset \in Nat /\ kept \in Seq(Files!Chunks) /\ Len(kept) = offset
      /\ Files!InOrder(kept, rev)
      /\ (disk.part \in {None, <<>>} => kept = <<>>)
  <2>1. CASE offset = 0
    BY <2>1 DEF Files!InOrder
  <2>2. CASE offset # 0
    <3>1. disk.part # None /\ offset = Len(disk.part)
      BY <2>2 DEF Files!Offset, Files!Missing
    <3>2. disk.part \in Seq(Files!Chunks)
      BY <3>1, <1>2, Types DEF Files!Contents
    <3>3. Files!InOrder(disk.part, rev)
      BY <3>1, <1>6 DEF FilesInv, DiskOK, Files!PartIsABeginning, Files!Missing
    <3>4. disk.part # <<>>
      BY <3>1, <2>2
    <3> QED BY <2>2, <3>1, <3>2, <3>3, <3>4
  <2> QED BY <2>1, <2>2
<1>9. /\ remaining \in Seq(Files!Chunks) /\ Len(remaining) = Size - offset
      /\ \A i \in 1..Len(remaining) : remaining[i] = <<rev, v, offset + i>>
  BY <1>1, <1>5, <1>7, <1>8, RestOfFile
<1>10. disk' = [disk EXCEPT !.part = kept]
       /\ transfer' = [transfer EXCEPT ![d].body = remaining, ![d].digest = kept]
  BY <1>7
<1> HIDE DEF kept, remaining, v
<1>11. /\ disk'.part = kept /\ disk'.meta = disk.meta /\ disk'.final = disk.final
       /\ disk'.source = disk.source
       /\ disk' \in [part : Files!Contents, meta : Files!Labels \cup {None},
                     final : Files!Contents, source : Files!Labels \cup {None}]
  <2>1. disk' = [part |-> kept, meta |-> disk.meta, final |-> disk.final, source |-> disk.source]
    BY <1>10, <1>2, Types
  <2>2. kept \in Files!Contents
    BY <1>8 DEF Files!Contents
  <2> QED BY <2>1, <2>2, <1>2, Types, FileFields
<1>12. /\ transfer' \in [Downloads -> [expected : Files!Contents, body : Seq(Files!Chunks),
                                       digest : Seq(Files!Chunks)]]
       /\ transfer'[d].expected = transfer[d].expected /\ transfer'[d].body = remaining
       /\ transfer'[d].digest = kept
       /\ \A e \in Downloads \ {d} : transfer'[e] = transfer[e]
  <2>1. transfer \in [Downloads -> [expected : Files!Contents, body : Seq(Files!Chunks),
                                    digest : Seq(Files!Chunks)]]
    BY <1>2 DEF Files!TypeOK
  <2> QED BY <2>1, <1>8, <1>9, <1>10
<1>13. Files!TypeOK'
  <2>1. getting' \in [Files!Actors -> Files!Positions]
    BY <1>3, <1>4 DEF Files!Positions
  <2> QED BY <1>2, <1>4, <1>11, <1>12, <2>1 DEF Files!TypeOK, Files!Get, Files!memory
<1>14. Only(d)
  BY <1>3, <1>4 DEF Only, Files!Get, Files!memory
<1>15. DownOK(d)'
  <2>1. Expects(d)' /\ registered = d
    BY <1>2, <1>12 DEF DownOK, Expects, Holding
  <2>2. TodoOK(d)'
    BY <1>4, ListsDiffer DEF TodoOK, Removes
  <2>3. PartOK(d)'
    <3>1. disk'.meta = Files!Describes(d, transfer'[d].expected)
      BY <1>6, <1>11, <1>12
    <3>2. Len(disk'.part) + Len(transfer'[d].body) = Size
      <4>1. Len(disk'.part) = offset /\ Len(transfer'[d].body) = Size - offset
        BY <1>8, <1>9, <1>11, <1>12
      <4>2. offset \in Int /\ Size \in Int
        BY <1>8, FileConstants
      <4> QED BY <4>1, <4>2
    <3>3. \A i \in 1..Len(remaining) : remaining[i] = <<rev, v, Len(kept) + i>>
      BY <1>8, <1>9
    <3>4. \E w \in 0..MaxVersion : \A i \in 1..Len(transfer'[d].body) :
            transfer'[d].body[i] = <<rev, w, Len(disk'.part) + i>>
      BY <1>5, <3>3, <1>11, <1>12
    <3>5. disk'.part = transfer'[d].digest /\ disk'.part \in Seq(Files!Chunks)
          /\ Files!InOrder(disk'.part, rev)
      BY <1>8, <1>11, <1>12
    <3> QED BY <1>4, <3>1, <3>2, <3>4, <3>5, Zenon DEF PartOK
  <2>4. FinalOK(d)'
    BY <1>4 DEF FinalOK
  <2> QED BY <1>2, <1>4, <2>1, <2>2, <2>3, <2>4 DEF DownOK, Busy, Files!Get, Files!memory
<1>16. Files!PartIsABeginning'
  BY <1>6, <1>8, <1>11 DEF Files!PartIsABeginning, Files!Missing
<1>17. IsWhole(disk.source)'
  BY <1>11 DEF FilesInv, DiskOK, IsWhole, Files!InOrder
<1>18. RestOK'
  <2>1. Settled' => Settled
    <3>1. \A e \in Downloads : e = d \/ (getting'[e] = getting[e] /\ todo'[e] = todo[e])
      BY <1>14, Downloader DEF Only
    <3> QED BY <3>1, <1>2, NothingWithFinal DEF Settled, Files!Get
  <2>2. Verified <=> Verified'
    BY <1>11 DEF Verified, Files!Whole
  <2> QED BY <2>1, <2>2 DEF FilesInv, DiskOK, RestOK
<1>19. disk.part \in {None, <<>>} => disk'.part \in {None, <<>>}
  BY <1>8, <1>11
<1>20. target' = target /\ cancelled' = cancelled
  BY DEF Files!Get, Files!memory
<1> QED BY <1>2, <1>4, <1>12, <1>13, <1>14, <1>15, <1>16, <1>17, <1>18, <1>19, <1>20,
     DownloadMoves DEF Late

LEMMA RefusedKeeps ==
  ASSUME FilesInv, NEW d \in Downloads, Files!Refused(d)
  PROVE  FilesInv'
<1>1. DownOK(d) /\ todo[d] = <<>> /\ getting[d] = "getting" /\ fileLock = d
  BY DEF FilesInv, Files!Refused, Files!At, DownOK, Holding
<1> QED BY <1>1, NothingWithFinal, LeaveKeepsFiles
      DEF Files!Refused, Files!Fails, Files!Results, Holding

LEMMA BrokenKeeps ==
  ASSUME FilesInv, NEW d \in Downloads, Files!Broken(d)
  PROVE  FilesInv'
<1>1. /\ getting[d] \in {"getting", "receiving", "publishing", "describing"}
      /\ todo[d] \in {<<>>, <<"meta">>} /\ fileLock = d
  BY DEF FilesInv, Files!Broken, DownOK, TodoOK, Holding
<1>2. todo[d] \notin WithFinal
  BY <1>1, ListsDiffer, NothingWithFinal
<1>3. CASE getting[d] \in {"getting", "receiving"} /\ Files!Leave(d, "interrupted", <<>>)
  BY <1>1, <1>2, <1>3, LeaveKeepsFiles DEF Files!Broken, Files!Results, Holding
<1>4. CASE Files!Fails(d)
  <2>1. RestOK'
    <3>1. todo'[d] = <<"part", "meta", "final", "source">>
      BY <1>4, Downloader DEF Files!Fails, Files!Leave, FilesInv, Files!TypeOK
    <3> QED BY <3>1 DEF RestOK, Settled, WithFinal
  <2> QED BY <1>1, <1>2, <1>4, <2>1, LeaveKeepsFiles
        DEF Files!Broken, Files!Fails, Files!Results, Holding
<1> QED BY <1>3, <1>4 DEF Files!Broken

LEMMA StoppedKeeps ==
  ASSUME FilesInv, NEW d \in Downloads, Files!Stopped(d)
  PROVE  FilesInv'
<1>1. DownOK(d) /\ todo[d] = <<>> /\ getting[d] = "receiving" /\ fileLock = d
  BY DEF FilesInv, Files!Stopped, Files!At, DownOK, Holding
<1> QED BY <1>1, NothingWithFinal, LeaveKeepsFiles
      DEF Files!Stopped, Files!Abort, Files!Results, Holding

LEMMA TailFacts ==
  ASSUME NEW s \in Seq(Files!Chunks), s # <<>>
  PROVE  /\ Head(s) = s[1] /\ 1 \in 1..Len(s) /\ Tail(s) \in Seq(Files!Chunks)
         /\ Len(Tail(s)) = Len(s) - 1
         /\ \A i \in 1..Len(Tail(s)) : Tail(s)[i] = s[i + 1] /\ i + 1 \in 1..Len(s)
OBVIOUS

LEMMA ReceiveKeeps ==
  ASSUME FilesInv, NEW d \in Downloads, Files!Receive(d)
  PROVE  FilesInv'
<1>1. d \in Files!Actors /\ d # None /\ RevisionOf[d] \in Revisions
  BY Downloader
<1>2. Files!TypeOK /\ DownOK(d) /\ todo[d] = <<>> /\ getting[d] = "receiving" /\ Busy(d)
      /\ fileLock = d
      /\ d \notin cancelled
  BY DEF FilesInv, Files!Receive, Files!At, DownOK, Busy, Holding
<1>3. getting \in [Files!Actors -> Files!Positions]
  BY <1>2 DEF Files!TypeOK
<1> DEFINE rev == RevisionOf[d]
<1> DEFINE body == transfer[d].body
<1>4. /\ disk.meta = Files!Describes(d, transfer[d].expected)
      /\ disk.part = transfer[d].digest /\ disk.part \in Seq(Files!Chunks)
      /\ Files!InOrder(disk.part, rev)
      /\ Len(disk.part) + Len(body) = Size
      /\ \E v \in 0..MaxVersion : \A i \in 1..Len(body) : body[i] = <<rev, v, Len(disk.part) + i>>
      /\ body \in Seq(Files!Chunks)
  BY <1>2, Types DEF DownOK, PartOK
<1>5. disk.meta # None /\ disk.meta.revision = rev
  BY <1>2, <1>4, Types, Downloader
<1>6. CASE body # <<>>
  <2>1. /\ disk' = [disk EXCEPT !.part = Append(@, Head(body))]
        /\ transfer' = [transfer EXCEPT ![d].body = Tail(@), ![d].digest = Append(@, Head(body))]
        /\ UNCHANGED <<getting, todo, reply>>
    BY <1>6 DEF Files!Receive
  <2>2. PICK v \in 0..MaxVersion :
          \A i \in 1..Len(body) : body[i] = <<rev, v, Len(disk.part) + i>>
    BY <1>4
  <2> HIDE DEF body
  <2>3. Head(body) = <<rev, v, Len(disk.part) + 1>> /\ Head(body) \in Files!Chunks
        /\ Len(disk.part) < Size
    <3>1. Head(body) = body[1] /\ Len(body) > 0 /\ Len(body) \in Nat
      BY <1>4, <1>6
    <3>2. Len(disk.part) \in Nat
      BY <1>4
    <3> QED BY <3>1, <3>2, <2>2, <1>4, <1>6, TailFacts, FileConstants
  <2> DEFINE more == Append(disk.part, Head(body))
  <2>4. more \in Seq(Files!Chunks) /\ Files!InOrder(more, rev) /\ Len(more) = Len(disk.part) + 1
    <3>1. \A s \in Seq(Files!Chunks) : (Files!InOrder(s, rev) /\ Len(s) < Size) =>
            LET c == <<rev, v, Len(s) + 1>> IN
            /\ Append(s, c) \in Seq(Files!Chunks) /\ Files!InOrder(Append(s, c), rev)
            /\ Len(Append(s, c)) = Len(s) + 1
      BY <1>1, <2>2, LongerOrder
    <3> QED BY <3>1, <2>3, <1>4
  <2>5. Tail(body) \in Seq(Files!Chunks) /\ Len(Tail(body)) = Len(body) - 1
        /\ \A i \in 1..Len(Tail(body)) : Tail(body)[i] = <<rev, v, Len(more) + i>>
    <3>1. \A i \in 1..Len(Tail(body)) : Tail(body)[i] = <<rev, v, Len(disk.part) + (i + 1)>>
      BY <2>2, <1>4, <1>6, TailFacts
    <3>2. Len(disk.part) \in Nat /\ Len(Tail(body)) \in Nat
      BY <1>4, <1>6, TailFacts
    <3>3. \A i \in 1..Len(Tail(body)) : Len(disk.part) + (i + 1) = Len(more) + i
      <4>1. \A a, b, n \in Nat : b = a + 1 => \A i \in 1..n : a + (i + 1) = b + i
        OBVIOUS
      <4>2. Len(more) \in Nat /\ Len(more) = Len(disk.part) + 1
        BY <2>4
      <4> QED BY <4>1, <4>2, <3>2, Zenon
    <3> QED BY <3>1, <3>3, <1>4, <1>6, TailFacts
  <2> HIDE DEF more
  <2>6. /\ disk'.part = more /\ disk'.meta = disk.meta /\ disk'.final = disk.final
        /\ disk'.source = disk.source
        /\ disk' \in [part : Files!Contents, meta : Files!Labels \cup {None},
                      final : Files!Contents, source : Files!Labels \cup {None}]
    <3>1. disk' = [part |-> more, meta |-> disk.meta, final |-> disk.final,
                   source |-> disk.source]
      BY <2>1, <1>2, Types DEF more
    <3>2. more \in Files!Contents
      BY <2>4 DEF Files!Contents
    <3> QED BY <3>1, <3>2, <1>2, Types, FileFields
  <2>7. /\ transfer' \in [Downloads -> [expected : Files!Contents, body : Seq(Files!Chunks),
                                        digest : Seq(Files!Chunks)]]
        /\ transfer'[d].expected = transfer[d].expected /\ transfer'[d].body = Tail(body)
        /\ transfer'[d].digest = more
        /\ \A e \in Downloads \ {d} : transfer'[e] = transfer[e]
    <3>1. transfer \in [Downloads -> [expected : Files!Contents, body : Seq(Files!Chunks),
                                      digest : Seq(Files!Chunks)]]
      BY <1>2 DEF Files!TypeOK
    <3>2. transfer' = [transfer EXCEPT ![d].body = Tail(body), ![d].digest = more]
      BY <2>1, <1>4 DEF more, body
    <3> QED BY <3>1, <3>2, <2>4, <2>5
  <2>8. Files!TypeOK'
    BY <1>2, <2>1, <2>6, <2>7 DEF Files!TypeOK, Files!Receive, Files!memory
  <2>9. Only(d)
    BY <2>1 DEF Only, Files!Receive, Files!memory
  <2>10. DownOK(d)'
    <3>1. Expects(d)' /\ registered = d
      BY <1>2, <2>7 DEF DownOK, Expects, Holding
    <3>2. TodoOK(d)'
      BY <1>2, <2>1, ListsDiffer DEF TodoOK, Removes
    <3>3. PartOK(d)'
      <4>1. disk'.meta = Files!Describes(d, transfer'[d].expected)
        BY <1>4, <2>6, <2>7
      <4>2. Len(disk'.part) + Len(transfer'[d].body) = Size
        <5>1. Len(disk.part) \in Nat /\ Len(body) \in Nat
          BY <1>4 DEF body
        <5>2. Len(more) + Len(Tail(body)) = Size
          <6>1. \A a, b, m, t \in Int : (a + b = Size /\ m = a + 1 /\ t = b - 1) => m + t = Size
            BY FileConstants
          <6>2. Len(more) \in Int /\ Len(Tail(body)) \in Int
            BY <2>4, <2>5
          <6> QED BY <6>1, <6>2, <5>1, <1>4, <2>4, <2>5
        <5> QED BY <5>2, <2>6, <2>7
      <4>4. \E w \in 0..MaxVersion : \A i \in 1..Len(transfer'[d].body) :
              transfer'[d].body[i] = <<rev, w, Len(disk'.part) + i>>
        BY <2>5, <2>6, <2>7
      <4>5. disk'.part = transfer'[d].digest /\ disk'.part \in Seq(Files!Chunks)
            /\ Files!InOrder(disk'.part, rev)
        BY <2>4, <2>6, <2>7
      <4>6. getting'[d] = "receiving"
        BY <1>2, <2>1
      <4> QED BY <4>6, <4>1, <4>2, <4>4, <4>5, Zenon DEF PartOK
    <3>4. FinalOK(d)'
      BY <1>2, <2>1 DEF FinalOK
    <3> QED BY <1>2, <2>1, <3>1, <3>2, <3>3, <3>4 DEF DownOK, Busy, Files!Receive, Files!memory
  <2>11. Files!PartIsABeginning'
    BY <1>5, <2>4, <2>6 DEF Files!PartIsABeginning, Files!Missing
  <2>12. IsWhole(disk.source)'
    BY <2>6 DEF FilesInv, DiskOK, IsWhole, Files!InOrder
  <2>13. RestOK'
    <3>1. Settled' => Settled
      BY <2>1 DEF Settled, Files!Receive
    <3>2. Verified <=> Verified'
      BY <2>6 DEF Verified, Files!Whole
    <3> QED BY <3>1, <3>2 DEF FilesInv, DiskOK, RestOK
  <2>14. target' = target /\ cancelled' = cancelled
    BY DEF Files!Receive, Files!memory
  <2> QED BY <1>2, <2>1, <2>7, <2>8, <2>9, <2>10, <2>11, <2>12, <2>13, <2>14, DownloadMoves
<1>7. CASE body = <<>>
  <2>1. Files!Go(d, "publishing") /\ UNCHANGED <<disk, transfer>>
    BY <1>7 DEF Files!Receive
  <2>2. /\ getting' = [getting EXCEPT ![d] = "publishing"] /\ todo' = todo /\ reply' = reply
        /\ getting'[d] = "publishing" /\ todo'[d] = <<>>
    BY <2>1, <1>1, <1>2, <1>3 DEF Files!Go
  <2>3. Files!TypeOK'
    <3>1. getting' \in [Files!Actors -> Files!Positions]
      BY <1>3, <2>2 DEF Files!Positions
    <3> QED BY <1>2, <2>1, <2>2, <3>1 DEF Files!TypeOK, Files!Receive, Files!memory
  <2>4. Only(d)
    BY <1>3, <2>2 DEF Only, Files!Receive, Files!memory
  <2>5. DownOK(d)'
    <3>1. Expects(d)' /\ registered = d
      BY <1>2, <2>1 DEF DownOK, Expects, Holding
    <3>2. TodoOK(d)'
      BY <2>2, ListsDiffer DEF TodoOK, Removes
    <3>3. Len(disk.part) = Size
      <4>1. Len(disk.part) \in Nat /\ Len(body) = 0
        BY <1>4, <1>7
      <4> QED BY <4>1, <1>4
    <3>4. PartOK(d)'
      BY <2>1, <2>2, <3>3, <1>4, Zenon DEF PartOK
    <3>5. FinalOK(d)'
      BY <2>2 DEF FinalOK
    <3> QED BY <1>2, <2>2, <3>1, <3>2, <3>4, <3>5 DEF DownOK, Busy, Files!Receive, Files!memory
  <2>6. Files!PartIsABeginning' /\ IsWhole(disk.source)' /\ RestOK'
    BY <1>2, <2>1, <2>4, StillDisk, NothingWithFinal DEF Files!Receive
  <2>7. target' = target /\ cancelled' = cancelled
    BY DEF Files!Receive, Files!memory
  <2> QED BY <1>2, <2>1, <2>2, <2>3, <2>4, <2>5, <2>6, <2>7, DownloadMoves
<1> QED BY <1>6, <1>7

LEMMA PublishKeeps ==
  ASSUME FilesInv, NEW d \in Downloads, Files!Publish(d)
  PROVE  FilesInv'
<1>1. d \in Files!Actors /\ d # None /\ RevisionOf[d] \in Revisions
  BY Downloader
<1>2. Files!TypeOK /\ DownOK(d) /\ todo[d] = <<>> /\ getting[d] = "publishing" /\ Busy(d)
      /\ fileLock = d
  BY DEF FilesInv, Files!Publish, Files!At, DownOK, Busy, Holding
<1>3. getting \in [Files!Actors -> Files!Positions]
      /\ todo \in [Files!Actors -> Seq({"part", "meta", "final", "source"})]
  BY <1>2 DEF Files!TypeOK
<1>4. /\ disk.part = transfer[d].digest /\ disk.part \in Seq(Files!Chunks)
      /\ Files!InOrder(disk.part, RevisionOf[d]) /\ Len(disk.part) = Size
  BY <1>2 DEF DownOK, PartOK
<1>5. /\ getting' = [getting EXCEPT ![d] = "describing"]
      /\ todo' = [todo EXCEPT ![d] = <<"meta">>]
      /\ reply' = reply /\ transfer' = transfer
      /\ getting'[d] = "describing" /\ todo'[d] = <<"meta">>
  BY <1>1, <1>3 DEF Files!Publish
<1>6. /\ disk'.part = None /\ disk'.meta = disk.meta /\ disk'.final = disk.part
      /\ disk'.source = disk.source
      /\ disk' \in [part : Files!Contents, meta : Files!Labels \cup {None},
                    final : Files!Contents, source : Files!Labels \cup {None}]
  <2>1. disk' = [part |-> None, meta |-> disk.meta, final |-> disk.part, source |-> disk.source]
    BY <1>2, Types DEF Files!Publish
  <2>2. None \in Files!Contents
    BY DEF Files!Contents
  <2> QED BY <2>1, <2>2, <1>2, Types, FileFields
<1>7. Files!TypeOK'
  <2>1. getting' \in [Files!Actors -> Files!Positions]
    BY <1>3, <1>5 DEF Files!Positions
  <2>2. <<"meta">> \in Seq({"part", "meta", "final", "source"})
    OBVIOUS
  <2>3. todo' \in [Files!Actors -> Seq({"part", "meta", "final", "source"})]
    BY <1>3, <1>5, <2>2
  <2> QED BY <1>2, <1>5, <1>6, <2>1, <2>3 DEF Files!TypeOK, Files!Publish, Files!memory
<1>8. Only(d)
  BY <1>3, <1>5 DEF Only, Files!Publish, Files!memory
<1>9. DownOK(d)'
  <2>1. Expects(d)' /\ registered = d
    BY <1>2, <1>5 DEF DownOK, Expects, Holding
  <2>2. TodoOK(d)'
    <3>1. <<"meta">> \in Lists
      BY DEF Lists, AbortLists
    <3>2. <<"meta">> \notin {<<"source">>, <<"source", "meta">>, <<"part", "source", "meta">>}
      OBVIOUS
    <3>3. Removes(d)'
      BY <1>5, <1>6, <3>2 DEF Removes
    <3> QED BY <1>2, <1>5, <3>1, <3>3 DEF TodoOK, Files!Publish, Files!memory
  <2>3. PartOK(d)'
    BY <1>5 DEF PartOK
  <2>4. FinalOK(d)'
    BY <1>4, <1>5, <1>6 DEF FinalOK
  <2> QED BY <1>2, <1>5, <2>1, <2>2, <2>3, <2>4 DEF DownOK, Busy, Files!Publish, Files!memory
<1>10. Files!PartIsABeginning'
  BY <1>6 DEF Files!PartIsABeginning, Files!Missing
<1>11. IsWhole(disk.source)'
  BY <1>6 DEF FilesInv, DiskOK, IsWhole, Files!InOrder
<1>12. RestOK'
  BY <1>5 DEF RestOK, Settled
<1>13. target' = target /\ cancelled' = cancelled
  BY DEF Files!Publish, Files!memory
<1> QED BY <1>2, <1>5, <1>7, <1>8, <1>9, <1>10, <1>11, <1>12, <1>13, DownloadMoves DEF Late

LEMMA DescribeKeeps ==
  ASSUME FilesInv, NEW d \in Downloads, Files!Describe(d)
  PROVE  FilesInv'
<1>1. d \in Files!Actors /\ d # None /\ RevisionOf[d] \in Revisions
  BY Downloader
<1>2. Files!TypeOK /\ DownOK(d) /\ todo[d] = <<>> /\ getting[d] = "describing" /\ Busy(d)
      /\ fileLock = d
  BY DEF FilesInv, Files!Describe, Files!At, DownOK, Busy, Holding
<1>3. getting \in [Files!Actors -> Files!Positions]
  BY <1>2 DEF Files!TypeOK
<1>4. /\ disk.final = transfer[d].digest /\ transfer[d].digest \in Seq(Files!Chunks)
      /\ Files!InOrder(disk.final, RevisionOf[d]) /\ Len(disk.final) = Size
  BY <1>2, Types DEF DownOK, FinalOK
<1>5. /\ getting' = [getting EXCEPT ![d] = "checking"] /\ todo' = todo
      /\ reply' = reply /\ transfer' = transfer
      /\ getting'[d] = "checking" /\ todo'[d] = <<>>
  BY <1>1, <1>2, <1>3 DEF Files!Describe, Files!Go
<1> DEFINE label == Files!Describes(d, transfer[d].digest)
<1>6. label \in Files!Labels /\ label.revision = RevisionOf[d] /\ label.hash = transfer[d].digest
  BY <1>4, Downloader DEF Files!Contents
<1> HIDE DEF label
<1>7. /\ disk'.part = disk.part /\ disk'.meta = disk.meta /\ disk'.final = disk.final
      /\ disk'.source = label
      /\ disk' \in [part : Files!Contents, meta : Files!Labels \cup {None},
                    final : Files!Contents, source : Files!Labels \cup {None}]
  <2>1. disk' = [disk EXCEPT !.source = label]
    BY DEF Files!Describe, label
  <2>2. disk' = [part |-> disk.part, meta |-> disk.meta, final |-> disk.final, source |-> label]
    BY <2>1, <1>2, Types
  <2> QED BY <2>2, <1>6, <1>2, Types, FileFields
<1>8. Files!TypeOK'
  <2>1. getting' \in [Files!Actors -> Files!Positions]
    BY <1>3, <1>5 DEF Files!Positions
  <2> QED BY <1>2, <1>5, <1>7, <2>1 DEF Files!TypeOK, Files!Describe, Files!memory
<1>9. Only(d)
  BY <1>3, <1>5 DEF Only, Files!Describe, Files!memory
<1>10. DownOK(d)'
  <2>1. Expects(d)' /\ registered = d
    BY <1>2, <1>5 DEF DownOK, Expects, Holding
  <2>2. TodoOK(d)'
    BY <1>5, ListsDiffer DEF TodoOK, Removes
  <2>3. PartOK(d)'
    BY <1>5 DEF PartOK
  <2>4. FinalOK(d)'
    BY <1>4, <1>5, <1>7 DEF FinalOK, label, Files!Describes
  <2> QED BY <1>2, <1>5, <2>1, <2>2, <2>3, <2>4 DEF DownOK, Busy, Holding, Files!Describe,
      Files!memory
<1>11. Files!PartIsABeginning'
  BY <1>7 DEF FilesInv, DiskOK, Files!PartIsABeginning, Files!Missing, Files!InOrder
<1>12. IsWhole(disk.source)'
  BY <1>4, <1>6, <1>7 DEF IsWhole
<1>13. RestOK'
  BY <1>5 DEF RestOK, Settled
<1>14. target' = target /\ cancelled' = cancelled
  BY DEF Files!Describe, Files!memory
<1> QED BY <1>2, <1>5, <1>8, <1>9, <1>10, <1>11, <1>12, <1>13, <1>14, DownloadMoves DEF Late

\* What was downloaded is one version of the file, if the host publishes a hash.
LEMMA CheckKeeps ==
  ASSUME FilesInv, NEW d \in Downloads, Files!Check(d)
  PROVE  FilesInv'
<1>1. d \in Files!Actors /\ d # None /\ RevisionOf[d] \in Revisions
  BY Downloader
<1>2. Files!TypeOK /\ DownOK(d) /\ todo[d] = <<>> /\ getting[d] = "checking" /\ Busy(d)
      /\ fileLock = d
  BY DEF FilesInv, Files!Check, Files!At, DownOK, Busy, Holding
<1>3. disk.final = transfer[d].digest /\ disk.source = Files!Describes(d, transfer[d].digest)
      /\ Expects(d) /\ transfer[d].digest \in Seq(Files!Chunks)
  BY <1>2, Types DEF DownOK, FinalOK, Holding
<1>4. CASE transfer[d].expected \notin {None, transfer[d].digest}
  <2>1. Files!Rejects(d)
    BY <1>4 DEF Files!Check
  <2>2. RestOK'
    <3>1. todo'[d] = <<"final", "part", "source", "meta">>
      BY <2>1, <1>1, <1>2 DEF Files!Rejects, Files!Leave, Files!TypeOK
    <3> QED BY <3>1 DEF RestOK, Settled, WithFinal
  <2> QED BY <1>2, <2>1, <2>2, NothingWithFinal, LeaveKeepsFiles
      DEF Files!Check, Files!Rejects, Files!Results, Holding
<1>5. CASE transfer[d].expected \in {None, transfer[d].digest}
  <2>1. Files!Leave(d, "downloaded", <<>>)
    BY <1>5 DEF Files!Check
  <2>2. Verified
    <3>1. /\ disk.source # None /\ disk.source.revision = RevisionOf[d]
          /\ disk.source.hash = transfer[d].digest
      BY <1>3, Downloader DEF Files!Contents
    <3>2. ASSUME RevisionOf[d] \in Hashed
          PROVE  \E v \in 0..MaxVersion : disk.final = Files!Whole(RevisionOf[d], v)
      <4>1. PICK v \in 0..MaxVersion : transfer[d].expected = Files!Whole(RevisionOf[d], v)
        BY <3>2, <1>3 DEF Expects
      <4>2. transfer[d].expected # None
        BY <4>1, <1>1, WholeFile
      <4> QED BY <4>1, <4>2, <1>3, <1>5
    <3> QED BY <3>1, <3>2, <1>3 DEF Verified
  <2>3. RestOK'
    BY <2>2 DEF RestOK, Verified, Files!Check, Files!Whole
  <2> QED BY <1>2, <2>1, <2>3, NothingWithFinal, LeaveKeepsFiles
        DEF Files!Check, Files!Results, Holding
<1> QED BY <1>4, <1>5

\* The lists that are left once the partial file, or the file, is gone.
Partless == {<<"meta">>, <<"meta", "final", "source">>, <<"source", "meta">>}
Finalless == {<<"source">>, <<"source", "meta">>, <<"part", "source", "meta">>}
FilesHold == {"part", "meta", "final", "source"}

\* What the lists of files to remove go through.
LEMMA ListsShrink ==
  ASSUME NEW files \in Lists, files # <<>>
  PROVE  /\ Head(files) \in FilesHold /\ Tail(files) \in Lists
         /\ Head(files) = "meta" => files \in Partless
         /\ Head(files) = "source" => files \in Finalless
         /\ Tail(files) \in Partless => Head(files) = "part" \/ files \in Partless
         /\ Tail(files) \in Finalless => Head(files) = "final" \/ files \in Finalless
         /\ files \in WithFinal => Tail(files) \in WithFinal \/ Head(files) = "final"
         /\ files \in AbortLists =>
              /\ Tail(files) \in AbortLists /\ Head(files) \in {"part", "meta"}
              /\ Tail(files) = <<"meta">> => Head(files) = "part"
              /\ Tail(files) = <<>> => files = <<"meta">>
         /\ files = <<"meta">> => Tail(files) = <<>> /\ Head(files) = "meta"
<1> USE DEF Lists, AbortLists, FailLists, RejectLists, Partless, Finalless, WithFinal, FilesHold
<1>1. CASE files = <<"part", "meta">>
  BY <1>1
<1>2. CASE files = <<"meta">>
  BY <1>2
<1>3. CASE files = <<"part", "meta", "final", "source">>
  BY <1>3
<1>4. CASE files = <<"meta", "final", "source">>
  BY <1>4
<1>5. CASE files = <<"final", "source">>
  BY <1>5
<1>6. CASE files = <<"source">>
  BY <1>6
<1>7. CASE files = <<"final", "part", "source", "meta">>
  BY <1>7
<1>8. CASE files = <<"part", "source", "meta">>
  BY <1>8
<1>9. CASE files = <<"source", "meta">>
  BY <1>9
<1> QED BY <1>1, <1>2, <1>3, <1>4, <1>5, <1>6, <1>7, <1>8, <1>9

LEMMA Unlinked ==
  ASSUME Files!TypeOK, NEW name \in FilesHold, disk' = [disk EXCEPT ![name] = None]
  PROVE  /\ disk'.part = IF name = "part" THEN None ELSE disk.part
         /\ disk'.meta = IF name = "meta" THEN None ELSE disk.meta
         /\ disk'.final = IF name = "final" THEN None ELSE disk.final
         /\ disk'.source = IF name = "source" THEN None ELSE disk.source
         /\ disk' \in [part : Files!Contents, meta : Files!Labels \cup {None},
                       final : Files!Contents, source : Files!Labels \cup {None}]
<1>1. disk \in [part : Files!Contents, meta : Files!Labels \cup {None},
                final : Files!Contents, source : Files!Labels \cup {None}]
                /\ None \in Files!Contents
  BY DEF Files!TypeOK, Files!Contents
<1> HIDE DEF Files!Contents, Files!Labels
<1>2. CASE name = "part"
  BY <1>1, <1>2
<1>3. CASE name = "meta"
  BY <1>1, <1>3
<1>4. CASE name = "final"
  BY <1>1, <1>4
<1>5. CASE name = "source"
  BY <1>1, <1>5
<1> QED BY <1>2, <1>3, <1>4, <1>5 DEF FilesHold

LEMMA UnlinkTyped ==
  ASSUME Files!TypeOK, NEW a \in Files!Actors, Files!Unlink(a), todo[a] \in Lists
  PROVE  /\ Files!TypeOK' /\ todo' = [todo EXCEPT ![a] = Tail(todo[a])]
         /\ todo'[a] = Tail(todo[a]) /\ Only(a)
<1>1. todo \in [Files!Actors -> Seq(FilesHold)]
  BY DEF Files!TypeOK, FilesHold
<1>2. todo' = [todo EXCEPT ![a] = Tail(todo[a])] /\ todo[a] # <<>>
  BY DEF Files!Unlink
<1>3. todo' \in [Files!Actors -> Seq(FilesHold)]
  BY <1>1, <1>2
<1>4. disk' \in [part : Files!Contents, meta : Files!Labels \cup {None},
                 final : Files!Contents, source : Files!Labels \cup {None}]
  BY <1>2, ListsShrink, Unlinked DEF Files!Unlink
<1>5. Files!TypeOK'
  BY <1>3, <1>4 DEF Files!TypeOK, Files!Unlink, Files!memory, FilesHold
<1> QED BY <1>1, <1>2, <1>5 DEF Only, Files!Unlink, Files!memory

LEMMA UnlinkDisk ==
  ASSUME FilesInv, NEW a \in Files!Actors, Files!Unlink(a), todo[a] \in Lists, Removes(a)
  PROVE  /\ Removes(a)' /\ Files!PartIsABeginning' /\ IsWhole(disk.source)'
         /\ disk'.part \in {None, disk.part}
<1> DEFINE name == Head(todo[a])
<1>1. Files!TypeOK /\ name \in FilesHold /\ todo[a] # <<>>
  BY ListsShrink DEF FilesInv, Files!Unlink
<1>2. todo'[a] = Tail(todo[a])
  BY <1>1, UnlinkTyped
<1>3. /\ disk'.part = IF name = "part" THEN None ELSE disk.part
      /\ disk'.meta = IF name = "meta" THEN None ELSE disk.meta
      /\ disk'.final = IF name = "final" THEN None ELSE disk.final
      /\ disk'.source = IF name = "source" THEN None ELSE disk.source
  BY <1>1, Unlinked DEF Files!Unlink
<1> HIDE DEF name
<1>4. /\ todo[a] \in Partless => disk.part = None
      /\ todo[a] \in Finalless => disk.final = None
  BY DEF Removes, Partless, Finalless
<1>5. Removes(a)'
  <2>1. Tail(todo[a]) \in Partless => name = "part" \/ todo[a] \in Partless
    BY <1>1, ListsShrink DEF name
  <2>2. Tail(todo[a]) \in Finalless => name = "final" \/ todo[a] \in Finalless
    BY <1>1, ListsShrink DEF name
  <2>3. Tail(todo[a]) \in Partless => disk'.part = None
    BY <2>1, <1>3, <1>4
  <2>4. Tail(todo[a]) \in Finalless => disk'.final = None
    BY <2>2, <1>3, <1>4
  <2> QED BY <2>3, <2>4, <1>2 DEF Removes, Partless, Finalless
<1>6. Files!PartIsABeginning'
  <2>1. name = "meta" => disk.part = None
    BY <1>1, <1>4, ListsShrink DEF name
  <2> QED BY <2>1, <1>3 DEF FilesInv, DiskOK, Files!PartIsABeginning, Files!Missing, Files!InOrder
<1>7. IsWhole(disk.source)'
  BY <1>3 DEF FilesInv, DiskOK, IsWhole, Files!InOrder
<1> QED BY <1>3, <1>5, <1>6, <1>7

LEMMA UnlinkVerified ==
  ASSUME FilesInv, NEW a \in Files!Actors, Files!Unlink(a), todo[a] \in Lists, Removes(a)
  PROVE  /\ Verified => Verified'
         /\ todo[a] \in WithFinal => Tail(todo[a]) \in WithFinal \/ Verified'
<1> DEFINE name == Head(todo[a])
<1>1. Files!TypeOK /\ name \in FilesHold /\ todo[a] # <<>>
  BY ListsShrink DEF FilesInv, Files!Unlink
<1>2. /\ disk'.final = IF name = "final" THEN None ELSE disk.final
      /\ disk'.source = IF name = "source" THEN None ELSE disk.source
  BY <1>1, Unlinked DEF Files!Unlink
<1>3. name = "source" => disk.final = None
  BY <1>1, ListsShrink DEF Removes, Finalless
<1>4. todo[a] \in WithFinal => Tail(todo[a]) \in WithFinal \/ name = "final"
  BY <1>1, ListsShrink
<1> HIDE DEF name
<1>5. name = "final" => Verified'
  BY <1>2 DEF Verified
<1>6. Verified => Verified'
  <2>1. CASE name = "final"
    BY <2>1, <1>5
  <2>2. CASE name = "source"
    <3>1. disk'.final = None
      BY <2>2, <1>2, <1>3
    <3> QED BY <3>1 DEF Verified
  <2>3. CASE name \notin {"final", "source"}
    BY <2>3, <1>2 DEF Verified, Files!Whole
  <2> QED BY <2>1, <2>2, <2>3
<1> QED BY <1>4, <1>5, <1>6

LEMMA DownloadUnlinks ==
  ASSUME FilesInv, NEW d \in Downloads, Files!Unlink(d)
  PROVE  FilesInv'
<1>1. d \in Files!Actors /\ d # None
  BY Downloader
<1>2. /\ Files!TypeOK /\ DownOK(d) /\ TodoOK(d) /\ PartOK(d) /\ FinalOK(d)
      /\ todo[d] # <<>> /\ fileLock = d /\ getting[d] \in {"noting", "describing", "leaving"}
      /\ todo[d] \in Lists /\ Removes(d) /\ Busy(d)
  BY DEF FilesInv, DownOK, TodoOK, Files!Unlink, Busy
<1>3. Files!TypeOK' /\ todo'[d] = Tail(todo[d]) /\ Only(d)
  BY <1>1, <1>2, UnlinkTyped
<1>4. Removes(d)' /\ Files!PartIsABeginning' /\ IsWhole(disk.source)'
      /\ disk'.part \in {None, disk.part}
  BY <1>1, <1>2, UnlinkDisk
<1> DEFINE name == Head(todo[d])
<1>5. /\ disk'.part = IF name = "part" THEN None ELSE disk.part
      /\ disk'.meta = IF name = "meta" THEN None ELSE disk.meta
      /\ disk'.final = IF name = "final" THEN None ELSE disk.final
      /\ disk'.source = IF name = "source" THEN None ELSE disk.source
  BY <1>2, ListsShrink, Unlinked DEF Files!Unlink
<1> HIDE DEF name
<1>6. UNCHANGED <<remote, Files!memory, getting, reply, transfer, target, manifest, source, lost>>
  BY DEF Files!Unlink
<1>7. DownOK(d)'
  <2>1. (getting[d] \in Holding => Expects(d)') /\ registered = d
    BY <1>2, <1>6 DEF DownOK, Expects, Holding
  <2>2. TodoOK(d)'
    <3>1. Tail(todo[d]) \in Lists
      BY <1>2, ListsShrink
    <3>2. getting[d] = "noting" => Tail(todo[d]) \in AbortLists
      BY <1>2, ListsShrink DEF TodoOK
    <3>3. getting[d] = "describing" => Tail(todo[d]) = <<>>
      BY <1>2, ListsShrink DEF TodoOK
    <3> QED BY <3>1, <3>2, <3>3, <1>2, <1>3, <1>4, <1>6 DEF TodoOK, Files!memory
  <2>3. PartOK(d)'
    <3>1. ASSUME getting[d] = "noting", Tail(todo[d]) = <<>>
          PROVE  disk'.part = None
      <4>1. todo[d] = <<"meta">>
        BY <3>1, <1>2, ListsShrink DEF TodoOK
      <4>2. disk.part = None
        BY <4>1, <1>2 DEF Removes
      <4> QED BY <4>2, <1>5
    <3> QED BY <3>1, <1>2, <1>3, <1>6 DEF PartOK
  <2>4. FinalOK(d)'
    <3>1. getting[d] = "describing" => name = "meta"
      BY <1>2, ListsShrink DEF TodoOK, name
    <3> QED BY <3>1, <1>2, <1>5, <1>6 DEF FinalOK
  <2> QED BY <1>2, <1>6, <2>1, <2>2, <2>3, <2>4 DEF DownOK, Busy, Holding, Files!memory
<1>8. RestOK'
  <2>1. Settled' => Settled \/ (todo[d] \in WithFinal /\ Tail(todo[d]) \notin WithFinal)
    <3>1. \A e \in Downloads : e = d \/ (getting'[e] = getting[e] /\ todo'[e] = todo[e])
      BY <1>3, Downloader DEF Only
    <3> QED BY <3>1, <1>3, <1>6 DEF Settled
  <2>2. /\ Verified => Verified'
        /\ todo[d] \in WithFinal => Tail(todo[d]) \in WithFinal \/ Verified'
    BY <1>1, <1>2, UnlinkVerified
  <2> QED BY <2>1, <2>2 DEF FilesInv, DiskOK, RestOK
<1>9. (d \in cancelled /\ getting[d] \notin Late /\ disk.part \in {None, <<>>}) =>
        getting'[d] = "over" \/ (getting'[d] \notin Late /\ disk'.part \in {None, <<>>})
  BY <1>4, <1>6
<1> QED BY <1>2, <1>3, <1>4, <1>6, <1>7, <1>8, <1>9, DownloadMoves DEF Files!memory

LEMMA DeleteUnlinks ==
  ASSUME FilesInv, NEW c \in Deletes, Files!Unlink(c)
  PROVE  FilesInv'
<1>1. c \in Files!Actors /\ c \notin Downloads
  BY FileConstants DEF Files!Actors
<1>2. /\ Files!TypeOK /\ DelOK(c) /\ todo[c] # <<>> /\ fileLock = c /\ getting[c] = "leaving"
      /\ todo[c] \in AbortLists /\ todo[c] \in Lists /\ Removes(c)
  BY DEF FilesInv, DelOK, Files!Unlink, Lists
<1>3. Files!TypeOK' /\ todo'[c] = Tail(todo[c]) /\ Only(c)
  BY <1>1, <1>2, UnlinkTyped
<1>4. Removes(c)' /\ Files!PartIsABeginning' /\ IsWhole(disk.source)'
      /\ disk'.part \in {None, disk.part}
  BY <1>1, <1>2, UnlinkDisk
<1>5. UNCHANGED <<remote, Files!memory, getting, reply, transfer, target, manifest, source, lost>>
  BY DEF Files!Unlink
<1>6. RestOK'
  <2>1. Settled' => Settled
    <3>1. \A e \in Downloads : getting'[e] = getting[e] /\ todo'[e] = todo[e]
      BY <1>1, <1>3, Downloader DEF Only
    <3> QED BY <3>1, <1>5 DEF Settled
  <2>2. Verified => Verified'
    BY <1>1, <1>2, UnlinkVerified
  <2> QED BY <2>1, <2>2 DEF FilesInv, DiskOK, RestOK
<1>7. QuietFor(c)'
  <2>1. ASSUME target[c] # None, Tail(todo[c]) \in {<<"meta">>, <<>>}
        PROVE  disk'.part \in {None, <<>>} /\ getting[target[c]] \notin Late
    <3>1. getting[target[c]] \notin Late
      <4>1. target[c] \in Downloads
        BY <2>1, <1>2 DEF Files!TypeOK
      <4>2. getting[target[c]] \in Holding => fileLock = target[c]
        BY <4>1 DEF FilesInv, DownOK
      <4> QED BY <4>1, <4>2, <1>1, <1>2 DEF Late, Holding
    <3>2. disk'.part = None
      <4>1. Head(todo[c]) = "part" \/ todo[c] = <<"meta">>
        BY <2>1, <1>2, ListsShrink
      <4>2. todo[c] = <<"meta">> => disk.part = None
        BY <1>2 DEF Removes
      <4>3. disk'.part = IF Head(todo[c]) = "part" THEN None ELSE disk.part
        BY <1>2, ListsShrink, Unlinked DEF Files!Unlink
      <4> QED BY <4>1, <4>2, <4>3
    <3> QED BY <3>1, <3>2
  <2> QED BY <2>1, <1>2, <1>3, <1>5 DEF QuietFor, Busy
<1>8. DelOK(c)'
  <2>1. Tail(todo[c]) \in AbortLists
    BY <1>2, ListsShrink
  <2> QED BY <2>1, <1>2, <1>3, <1>4, <1>5, <1>7 DEF DelOK, Busy, Files!memory
<1>9. \A b \in Deletes \ {c} : target'[b] = target[b]
  BY <1>5
<1> QED BY <1>2, <1>3, <1>4, <1>5, <1>6, <1>8, <1>9, DeleteMoves DEF Files!memory

LEMMA DownloadEnds ==
  ASSUME FilesInv, NEW d \in Downloads, Files!End(d)
  PROVE  FilesInv'
<1>1. d \in Files!Actors /\ d # None
  BY Downloader
<1>2. Files!TypeOK /\ DownOK(d) /\ todo[d] = <<>> /\ getting[d] = "leaving" /\ Busy(d)
      /\ registered = d
  BY DEF FilesInv, Files!End, Files!At, DownOK, Busy
<1>3. getting \in [Files!Actors -> Files!Positions] /\ reply \in [Files!Actors -> Files!Results]
  BY <1>2 DEF Files!TypeOK
<1>4. /\ getting' = [getting EXCEPT ![d] = "over"] /\ todo' = todo /\ reply' = reply
      /\ getting'[d] = "over" /\ todo'[d] = <<>> /\ registered' = None
      /\ fileLock' = (IF fileLock = d THEN None ELSE fileLock)
  BY <1>1, <1>2, <1>3 DEF Files!End, Files!Return
<1>5. Files!TypeOK'
  <2>1. getting' \in [Files!Actors -> Files!Positions]
    BY <1>3, <1>4 DEF Files!Positions
  <2>2. fileLock' \in Downloads \cup Deletes \cup {None}
    BY <1>2, <1>4 DEF Files!TypeOK
  <2> QED BY <1>2, <1>4, <2>1, <2>2 DEF Files!TypeOK, Files!End
<1>6. Only(d)
  <2>1. \A b \in Files!Actors \ {d} : (registered' = b <=> registered = b)
          /\ (fileLock' = b <=> fileLock = b)
    BY <1>2, <1>4, FileConstants
  <2> QED BY <1>3, <1>4, <2>1 DEF Only, Files!End
<1>7. DownOK(d)'
  BY <1>1, <1>4, IdleIsFine
<1>8. Files!PartIsABeginning' /\ IsWhole(disk.source)' /\ RestOK'
  BY <1>2, <1>6, NothingWithFinal, StillDisk DEF Files!End
<1> QED BY <1>2, <1>4, <1>5, <1>6, <1>7, <1>8, DownloadMoves DEF Files!End

LEMMA DeleteStays ==
  ASSUME FilesInv, NEW c \in Deletes, Only(c), disk' = disk, lost' = lost
  PROVE  Files!PartIsABeginning' /\ IsWhole(disk.source)' /\ RestOK'
<1>1. Files!PartIsABeginning' /\ IsWhole(disk.source)'
  BY DEF FilesInv, DiskOK, Files!PartIsABeginning, Files!Missing, Files!InOrder, IsWhole
<1>2. \A e \in Downloads : getting'[e] = getting[e] /\ todo'[e] = todo[e]
  BY FileConstants, Downloader DEF Only
<1>3. Settled' <=> Settled
  BY <1>2 DEF Settled
<1>4. Verified <=> Verified'
  BY DEF Verified, Files!Whole
<1> QED BY <1>1, <1>3, <1>4 DEF FilesInv, DiskOK, RestOK

LEMMA DeleteEnds ==
  ASSUME FilesInv, NEW c \in Deletes, Files!End(c)
  PROVE  FilesInv'
<1>1. c \in Files!Actors /\ c # None /\ c \notin Downloads
  BY FileConstants DEF Files!Actors
<1>2. Files!TypeOK /\ DelOK(c) /\ todo[c] = <<>> /\ getting[c] = "leaving" /\ registered # c
  BY <1>1 DEF FilesInv, Files!End, Files!At, Files!TypeOK
<1>3. getting \in [Files!Actors -> Files!Positions] /\ reply \in [Files!Actors -> Files!Results]
  BY <1>2 DEF Files!TypeOK
<1>4. /\ getting' = [getting EXCEPT ![c] = "over"] /\ todo' = todo /\ reply' = reply
      /\ getting'[c] = "over" /\ todo'[c] = <<>> /\ registered' = registered
      /\ fileLock' = (IF fileLock = c THEN None ELSE fileLock)
  BY <1>1, <1>2, <1>3 DEF Files!End, Files!Return
<1>5. Files!TypeOK'
  <2>1. getting' \in [Files!Actors -> Files!Positions]
    BY <1>3, <1>4 DEF Files!Positions
  <2>2. fileLock' \in Downloads \cup Deletes \cup {None}
    BY <1>2, <1>4 DEF Files!TypeOK
  <2> QED BY <1>2, <1>4, <2>1, <2>2 DEF Files!TypeOK, Files!End
<1>6. Only(c)
  <2>1. \A b \in Files!Actors \ {c} : fileLock' = b <=> fileLock = b
    BY <1>2, <1>4, FileConstants
  <2> QED BY <1>3, <1>4, <2>1 DEF Only, Files!End
<1>7. DelOK(c)'
  <2>1. target[c] # None => target[c] \in Downloads /\ getting'[target[c]] = getting[target[c]]
    BY <1>1, <1>2, <1>3, <1>4 DEF Files!TypeOK
  <2>2. disk' = disk /\ target' = target /\ cancelled' = cancelled
    BY DEF Files!End
  <2>3. Removes(c)'
    BY <1>4, ListsDiffer DEF Removes
  <2>4. QuietFor(c)'
    BY <1>2, <1>4, <2>1, <2>2 DEF DelOK, QuietFor, Busy
  <2> QED BY <1>2, <1>4, <2>1, <2>2, <2>3, <2>4, ListsDiffer DEF DelOK, Busy
<1>8. Files!PartIsABeginning' /\ IsWhole(disk.source)' /\ RestOK'
  BY <1>6, DeleteStays DEF Files!End
<1>9. transfer' = transfer /\ cancelled' = cancelled /\ target' = target /\ disk' = disk
  BY DEF Files!End
<1> QED BY <1>4, <1>5, <1>6, <1>7, <1>8, <1>9, DeleteMoves

LEMMA MarkKeeps ==
  ASSUME FilesInv, NEW c \in Deletes, Files!Mark(c)
  PROVE  FilesInv'
<1>1. c \in Files!Actors /\ c # None /\ c \notin Downloads
  BY FileConstants DEF Files!Actors
<1>2. Files!TypeOK /\ DelOK(c) /\ todo[c] = <<>> /\ getting[c] = "new"
  BY DEF FilesInv, Files!Mark, DelOK
<1>3. getting \in [Files!Actors -> Files!Positions]
      /\ target \in [Deletes -> Downloads \cup {None}]
  BY <1>2 DEF Files!TypeOK
<1>4. /\ getting' = [getting EXCEPT ![c] = "waiting"] /\ todo' = todo /\ reply' = reply
      /\ getting'[c] = "waiting" /\ todo'[c] = <<>> /\ target' = [target EXCEPT ![c] = registered]
      /\ target'[c] = registered
      /\ cancelled' = cancelled \cup ({registered} \ {None})
  BY <1>1, <1>2, <1>3 DEF Files!Mark, Files!Go
<1>5. Files!TypeOK'
  <2>1. getting' \in [Files!Actors -> Files!Positions]
    BY <1>3, <1>4 DEF Files!Positions
  <2>2. registered \in Downloads \cup {None}
    BY <1>2 DEF Files!TypeOK
  <2>3. cancelled' \subseteq Downloads /\ target' \in [Deletes -> Downloads \cup {None}]
    BY <1>2, <1>3, <1>4, <2>2 DEF Files!TypeOK
  <2> QED BY <1>2, <1>4, <2>1, <2>3 DEF Files!TypeOK, Files!Mark
<1>6. Only(c)
  BY <1>3, <1>4 DEF Only, Files!Mark
<1>7. DelOK(c)'
  <2>1. ASSUME registered # None
        PROVE  getting'[registered] # "new" /\ registered \in cancelled'
    <3>1. registered \in Downloads
      BY <2>1, <1>2 DEF Files!TypeOK
    <3>2. getting[registered] # "new"
      BY <3>1 DEF FilesInv, DownOK, Busy
    <3> QED BY <3>1, <3>2, <2>1, <1>1, <1>3, <1>4
  <2>2. Removes(c)'
    BY <1>4, ListsDiffer DEF Removes
  <2>3. QuietFor(c)'
    BY <1>4 DEF QuietFor
  <2> QED BY <1>4, <2>1, <2>2, <2>3, ListsDiffer DEF DelOK, Busy
<1>8. Files!PartIsABeginning' /\ IsWhole(disk.source)' /\ RestOK'
  BY <1>6, DeleteStays DEF Files!Mark
<1>9. transfer' = transfer /\ cancelled \subseteq cancelled' /\ disk' = disk
      /\ registered' = registered /\ \A b \in Deletes \ {c} : target'[b] = target[b]
  BY <1>3, <1>4 DEF Files!Mark
<1> QED BY <1>4, <1>5, <1>6, <1>7, <1>8, <1>9, DeleteMoves

LEMMA RemoveKeeps ==
  ASSUME FilesInv, NEW c \in Deletes, Files!Remove(c)
  PROVE  FilesInv'
<1>1. c \in Files!Actors /\ c # None /\ c \notin Downloads
  BY FileConstants DEF Files!Actors
<1>2. Files!TypeOK /\ DelOK(c) /\ todo[c] = <<>> /\ getting[c] = "waiting" /\ fileLock = None
  BY DEF FilesInv, Files!Remove, Files!At
<1>3. getting \in [Files!Actors -> Files!Positions] /\ reply \in [Files!Actors -> Files!Results]
      /\ todo \in [Files!Actors -> Seq({"part", "meta", "final", "source"})]
  BY <1>2 DEF Files!TypeOK
<1>4. /\ getting' = [getting EXCEPT ![c] = "leaving"]
      /\ todo' = [todo EXCEPT ![c] = <<"part", "meta">>]
      /\ reply' = [reply EXCEPT ![c] = "cancelled"]
      /\ getting'[c] = "leaving" /\ todo'[c] = <<"part", "meta">> /\ fileLock' = c
  BY <1>1, <1>2, <1>3 DEF Files!Remove, Files!Leave
<1>5. Files!TypeOK'
  <2>1. getting' \in [Files!Actors -> Files!Positions]
        /\ reply' \in [Files!Actors -> Files!Results]
    BY <1>3, <1>4 DEF Files!Positions, Files!Results
  <2>2. todo' \in [Files!Actors -> Seq({"part", "meta", "final", "source"})]
    BY <1>3, <1>4, ListsTyped
  <2> QED BY <1>2, <1>4, <2>1, <2>2 DEF Files!TypeOK, Files!Remove
<1>6. Only(c)
  <2>1. \A b \in Files!Actors \ {c} : fileLock' = b <=> fileLock = b
    BY <1>2, <1>4, FileConstants
  <2> QED BY <1>3, <1>4, <2>1 DEF Only, Files!Remove
<1>7. DelOK(c)'
  <2>1. target[c] # None => target[c] \in Downloads /\ getting'[target[c]] = getting[target[c]]
    BY <1>1, <1>2, <1>3, <1>4 DEF Files!TypeOK
  <2>2. target' = target /\ cancelled' = cancelled
    BY DEF Files!Remove
  <2>3. Removes(c)'
    BY <1>4, ListsDiffer DEF Removes
  <2>4. QuietFor(c)'
    BY <1>4, ListsDiffer DEF QuietFor
  <2> QED BY <1>2, <1>4, <2>1, <2>2, <2>3, <2>4, ListsDiffer DEF DelOK, Busy
<1>8. Files!PartIsABeginning' /\ IsWhole(disk.source)' /\ RestOK'
  BY <1>6, DeleteStays DEF Files!Remove
<1>9. transfer' = transfer /\ cancelled' = cancelled /\ target' = target /\ disk' = disk
      /\ registered' = registered
  BY DEF Files!Remove
<1> QED BY <1>4, <1>5, <1>6, <1>7, <1>8, <1>9, DeleteMoves

\* An installation reads, and writes a manifest of what it read.
LEMMA LookKeeps ==
  ASSUME FilesInv, NEW i \in Installs, Files!Look(i)
  PROVE  FilesInv'
<1>1. i \in Files!Actors
  BY DEF Files!Actors
<1>2. Files!TypeOK /\ InstOK(i) /\ todo[i] = <<>>
  BY DEF FilesInv, InstOK
<1>3. getting \in [Files!Actors -> Files!Positions] /\ reply \in [Files!Actors -> Files!Results]
      /\ source \in [Installs -> Files!Labels \cup {None}]
  BY <1>2 DEF Files!TypeOK
<1>4. /\ getting' = [getting EXCEPT ![i] = getting'[i]] /\ getting'[i] \in {"hashing", "over"}
      /\ reply' = [reply EXCEPT ![i] = reply'[i]]
      /\ source' = [source EXCEPT ![i] = disk.source] /\ source'[i] = disk.source
      /\ getting'[i] = "hashing" => disk.source # None
  BY <1>1, <1>3 DEF Files!Look, Files!Go, Files!Return, Files!Missing
<1>5. Files!TypeOK'
  <2>1. getting' \in [Files!Actors -> Files!Positions]
    BY <1>3, <1>4 DEF Files!Positions
  <2>2. reply' \in [Files!Actors -> Files!Results]
    BY <1>1, <1>3 DEF Files!Look, Files!Go, Files!Return, Files!Results
  <2>3. source' \in [Installs -> Files!Labels \cup {None}]
    BY <1>2, <1>3, <1>4, Types
  <2> QED BY <1>2, <2>1, <2>2, <2>3 DEF Files!TypeOK, Files!Look, Files!Go, Files!Return,
                                        Files!memory
<1>6. InstOK(i)'
  BY <1>2, <1>4 DEF InstOK, FilesInv, DiskOK, IsWhole, Files!InOrder, Files!Look, Files!Go,
                    Files!Return
<1>7. UNCHANGED <<registered, cancelled, fileLock, todo, transfer, target, disk, lost>>
      /\ manifest' = manifest
  BY DEF Files!Look, Files!Go, Files!Return, Files!memory
<1>8. IsWhole(manifest)'
  BY <1>7 DEF FilesInv, DiskOK, IsWhole, Files!InOrder
<1>9. /\ \A b \in Files!Actors \ {i} : getting'[b] = getting[b] /\ reply'[b] = reply[b]
      /\ \A b \in Installs \ {i} : source'[b] = source[b]
  BY <1>3, <1>4
<1> QED BY <1>5, <1>6, <1>7, <1>8, <1>9, InstallMoves

LEMMA HashKeeps ==
  ASSUME FilesInv, NEW i \in Installs, Files!Hash(i)
  PROVE  FilesInv'
<1>1. i \in Files!Actors
  BY DEF Files!Actors
<1>2. Files!TypeOK /\ InstOK(i) /\ todo[i] = <<>> /\ getting[i] = "hashing"
  BY DEF FilesInv, InstOK, Files!Hash, Files!At
<1>3. getting \in [Files!Actors -> Files!Positions] /\ reply \in [Files!Actors -> Files!Results]
  BY <1>2 DEF Files!TypeOK
<1>4. /\ getting' = [getting EXCEPT ![i] = getting'[i]] /\ getting'[i] \in {"writing", "over"}
      /\ reply' = [reply EXCEPT ![i] = reply'[i]]
  BY <1>1, <1>3 DEF Files!Hash, Files!Go, Files!Return
<1>5. Files!TypeOK'
  <2>1. getting' \in [Files!Actors -> Files!Positions]
    BY <1>3, <1>4 DEF Files!Positions
  <2>2. reply' \in [Files!Actors -> Files!Results]
    BY <1>1, <1>3 DEF Files!Hash, Files!Go, Files!Return, Files!Results
  <2> QED BY <1>2, <2>1, <2>2 DEF Files!TypeOK, Files!Hash, Files!Go, Files!Return, Files!memory
<1>6. InstOK(i)'
  BY <1>2, <1>4 DEF InstOK, IsWhole, Files!InOrder, Files!Hash, Files!Go, Files!Return
<1>7. UNCHANGED <<registered, cancelled, fileLock, todo, transfer, target, disk, lost>>
      /\ manifest' = manifest /\ source' = source
  BY DEF Files!Hash, Files!Go, Files!Return, Files!memory
<1>8. IsWhole(manifest)'
  BY <1>7 DEF FilesInv, DiskOK, IsWhole, Files!InOrder
<1>9. \A b \in Files!Actors \ {i} : getting'[b] = getting[b] /\ reply'[b] = reply[b]
  BY <1>3, <1>4
<1> QED BY <1>5, <1>6, <1>7, <1>8, <1>9, InstallMoves

LEMMA WriteManifestKeeps ==
  ASSUME FilesInv, NEW i \in Installs, Files!WriteManifest(i)
  PROVE  FilesInv'
<1>1. i \in Files!Actors
  BY DEF Files!Actors
<1>2. Files!TypeOK /\ InstOK(i) /\ todo[i] = <<>> /\ getting[i] = "writing"
  BY DEF FilesInv, InstOK, Files!WriteManifest, Files!At
<1>3. getting \in [Files!Actors -> Files!Positions] /\ reply \in [Files!Actors -> Files!Results]
      /\ source[i] \in Files!Labels \cup {None}
  BY <1>2 DEF Files!TypeOK
<1>4. /\ getting' = [getting EXCEPT ![i] = "over"] /\ getting'[i] = "over" /\ todo' = todo
      /\ reply' = [reply EXCEPT ![i] = "installed"] /\ manifest' = source[i]
  BY <1>1, <1>3 DEF Files!WriteManifest, Files!Return
<1>5. Files!TypeOK'
  <2>1. getting' \in [Files!Actors -> Files!Positions]
        /\ reply' \in [Files!Actors -> Files!Results]
    BY <1>3, <1>4 DEF Files!Positions, Files!Results
  <2> QED BY <1>2, <1>3, <1>4, <2>1 DEF Files!TypeOK, Files!WriteManifest, Files!memory
<1>6. InstOK(i)'
  BY <1>2, <1>4 DEF InstOK, IsWhole, Files!InOrder, Files!WriteManifest
<1>7. UNCHANGED <<registered, cancelled, fileLock, todo, transfer, target, disk, lost>>
      /\ source' = source
  BY <1>4 DEF Files!WriteManifest, Files!memory
<1>8. IsWhole(manifest)'
  BY <1>2, <1>4 DEF InstOK, IsWhole, Files!InOrder
<1>9. \A b \in Files!Actors \ {i} : getting'[b] = getting[b] /\ reply'[b] = reply[b]
  BY <1>3, <1>4
<1> QED BY <1>5, <1>6, <1>7, <1>8, <1>9, InstallMoves

LEMMA SameFiles ==
  ASSUME FilesInv, Files!TypeOK',
         UNCHANGED <<Files!memory, getting, todo, reply, transfer, target, disk, manifest, source,
                     lost>>
  PROVE  FilesInv'
<1>1. DiskOK'
  BY DEF FilesInv, DiskOK, IsWhole, Files!InOrder, Files!PartIsABeginning, Files!Missing, RestOK,
    Settled, Verified, Files!Whole
<1>2. ASSUME NEW e \in Downloads PROVE DownOK(e)'
  <2>1. DownOK(e)
    BY DEF FilesInv
  <2>2. (Busy(e) <=> Busy(e)') /\ (Expects(e) <=> Expects(e)') /\ (TodoOK(e) <=> TodoOK(e)')
    BY DEF TodoOK, Busy, Expects, Removes, Files!memory
  <2>3. PartOK(e) => PartOK(e)'
    BY ZenonT(60) DEF PartOK
  <2>4. FinalOK(e) => FinalOK(e)'
    BY Zenon DEF FinalOK
  <2> QED BY <2>1, <2>2, <2>3, <2>4 DEF DownOK, Files!memory
<1>3. ASSUME NEW b \in Deletes PROVE DelOK(b)'
  BY DEF FilesInv, DelOK, Removes, QuietFor, Busy, Files!memory
<1>4. ASSUME NEW j \in Installs PROVE InstOK(j)'
  BY DEF FilesInv, InstOK, IsWhole, Files!InOrder
<1> QED BY <1>1, <1>2, <1>3, <1>4 DEF FilesInv

LEMMA PushKeeps ==
  ASSUME FilesInv, NEW rev \in Revisions, Files!Push(rev)
  PROVE  FilesInv'
<1>1. remote' \in [Revisions -> 0..MaxVersion]
  BY FileConstants DEF FilesInv, Files!TypeOK, Files!Push
<1>2. Files!TypeOK'
  BY <1>1 DEF FilesInv, Files!TypeOK, Files!Push, Files!memory
<1> QED BY <1>2, SameFiles DEF Files!Push

\* What was there when the process died is a beginning and whole all the same.
LEMMA CrashKeepsFiles == ASSUME FilesInv, Files!Crash PROVE FilesInv'
<1>1. Files!TypeOK /\ getting \in [Files!Actors -> Files!Positions]
      /\ reply \in [Files!Actors -> Files!Results]
      /\ lost \in [faults : 0..MaxFaults, crashes : 0..MaxCrashes]
  BY DEF FilesInv, Files!TypeOK
<1>2. /\ \A a \in Files!Actors : getting'[a] = (IF getting[a] = "new" THEN "new" ELSE "over")
           /\ todo'[a] = <<>>
      /\ registered' = None /\ cancelled' = {} /\ fileLock' = None
      /\ UNCHANGED <<remote, transfer, target, disk, manifest, source>>
  BY DEF Files!Crash
<1>3. lost' \in [faults : 0..MaxFaults, crashes : 0..MaxCrashes] /\ lost'.crashes # 0
  BY <1>1, FileConstants DEF Files!Crash
<1>4. Files!TypeOK'
  <2>1. getting' \in [Files!Actors -> Files!Positions]
        /\ reply' \in [Files!Actors -> Files!Results]
        /\ todo' \in [Files!Actors -> Seq({"part", "meta", "final", "source"})]
    BY <1>1, ListsTyped DEF Files!Crash, Files!Positions, Files!Results
  <2> QED BY <1>1, <1>2, <1>3, <2>1 DEF Files!TypeOK
<1>5. DiskOK'
  BY <1>2, <1>3 DEF FilesInv, DiskOK, IsWhole, Files!InOrder, Files!PartIsABeginning,
                    Files!Missing, RestOK, Settled
<1>6. ASSUME NEW d \in Downloads PROVE DownOK(d)'
  <2>1. d \in Files!Actors /\ d # None
    BY Downloader
  <2>2. getting'[d] \in {"new", "over"} /\ todo'[d] = <<>> /\ registered' # d
    BY <1>2, <2>1
  <2>3. Removes(d)' /\ TodoOK(d)'
    BY <2>2, ListsDiffer DEF TodoOK, Removes
  <2>4. PartOK(d)' /\ FinalOK(d)'
    BY <2>2 DEF PartOK, FinalOK
  <2> QED BY <2>2, <2>3, <2>4 DEF DownOK, Busy, Holding
<1>7. ASSUME NEW c \in Deletes PROVE DelOK(c)'
  <2>1. getting'[c] \in {"new", "over"} /\ todo'[c] = <<>>
    BY <1>2 DEF Files!Actors
  <2>2. target[c] # None => getting'[target[c]] = "over"
    <3>1. target[c] # None => target[c] \in Downloads
      BY <1>1 DEF Files!TypeOK
    <3> QED BY <3>1, <1>2 DEF FilesInv, DelOK, Files!Actors
  <2>3. Removes(c)'
    BY <2>1, ListsDiffer DEF Removes
  <2> QED BY <2>1, <2>2, <2>3, <1>2, ListsDiffer DEF DelOK, QuietFor, Busy
<1>8. ASSUME NEW i \in Installs PROVE InstOK(i)'
  <2>1. getting'[i] \in {"new", "over"} /\ todo'[i] = <<>>
    BY <1>2 DEF Files!Actors
  <2> QED BY <2>1, <1>2 DEF FilesInv, InstOK, IsWhole, Files!InOrder
<1> QED BY <1>4, <1>5, <1>6, <1>7, <1>8 DEF FilesInv

LEMMA DownloadStepKeeps ==
  ASSUME FilesInv, NEW d \in Downloads, Files!DownloadStep(d)
  PROVE  FilesInv'
BY RegisterKeeps, AskKeeps, LockFileKeeps, InspectKeeps, NoteKeeps, GetKeeps, RefusedKeeps,
   StoppedKeeps, ReceiveKeeps, PublishKeeps, DescribeKeeps, CheckKeeps, DownloadUnlinks,
   DownloadEnds DEF Files!DownloadStep

LEMMA FilesStart == Files!Init => FilesInv
<1> SUFFICES ASSUME Files!Init PROVE FilesInv
  OBVIOUS
<1>1. Files!TypeOK
  <2>1. <<>> \in Seq(Files!Chunks)
    OBVIOUS
  <2>2. <<>> \in Seq({"part", "meta", "final", "source"})
    OBVIOUS
  <2> QED BY <2>1, <2>2, FileConstants DEF Files!Init, Files!TypeOK, Files!Contents,
      Files!Positions, Files!Results
<1>2. DiskOK
  BY DEF Files!Init, DiskOK, IsWhole, Files!PartIsABeginning, Files!Missing, RestOK, Verified
<1>3. ASSUME NEW d \in Downloads PROVE DownOK(d)
  <2>1. d \in Files!Actors /\ d # None
    BY Downloader
  <2>2. getting[d] = "new" /\ todo[d] = <<>> /\ registered # d
    BY <2>1 DEF Files!Init
  <2>3. TodoOK(d)
    BY <2>2, ListsDiffer DEF TodoOK, Removes
  <2>4. PartOK(d) /\ FinalOK(d)
    BY <2>2 DEF PartOK, FinalOK
  <2> QED BY <2>2, <2>3, <2>4 DEF DownOK, Busy, Holding
<1>4. ASSUME NEW c \in Deletes PROVE DelOK(c)
  <2>1. getting[c] = "new" /\ todo[c] = <<>> /\ target[c] = None
    BY DEF Files!Init, Files!Actors
  <2> QED BY <2>1, ListsDiffer DEF DelOK, Removes, QuietFor
<1>5. ASSUME NEW i \in Installs PROVE InstOK(i)
  <2>1. getting[i] = "new" /\ todo[i] = <<>> /\ source[i] = None
    BY DEF Files!Init, Files!Actors
  <2> QED BY <2>1 DEF InstOK, IsWhole
<1> QED BY <1>1, <1>2, <1>3, <1>4, <1>5 DEF FilesInv

LEMMA FilesStep == ASSUME FilesInv, Files!Next PROVE FilesInv'
<1>1. ASSUME NEW d \in Downloads, Files!DownloadStep(d) \/ Files!Broken(d) PROVE FilesInv'
  BY <1>1, DownloadStepKeeps, BrokenKeeps
<1>2. ASSUME NEW c \in Deletes, Files!DeleteStep(c) PROVE FilesInv'
  BY <1>2, MarkKeeps, RemoveKeeps, DeleteUnlinks, DeleteEnds DEF Files!DeleteStep
<1>3. ASSUME NEW i \in Installs, Files!InstallStep(i) PROVE FilesInv'
  BY <1>3, LookKeeps, HashKeeps, WriteManifestKeeps DEF Files!InstallStep
<1>4. ASSUME NEW rev \in Revisions, Files!Push(rev) PROVE FilesInv'
  BY <1>4, PushKeeps
<1> QED BY <1>1, <1>2, <1>3, <1>4, CrashKeepsFiles DEF Files!Next

LEMMA FilesStutter == ASSUME FilesInv, UNCHANGED Files!vars PROVE FilesInv'
<1>1. Files!TypeOK'
  BY DEF FilesInv, Files!TypeOK, Files!vars, Files!memory
<1> QED BY <1>1, SameFiles DEF Files!vars

LEMMA FilesInvIsEnough ==
  ASSUME FilesInv
  PROVE  /\ Files!TypeOK /\ Files!PartIsABeginning /\ Files!DescribedIsWhole
         /\ Files!RestIsVerified
         /\ Files!CancelledIsQuiet
<1>1. Files!TypeOK /\ Files!PartIsABeginning
  BY DEF FilesInv, DiskOK
<1>2. Files!DescribedIsWhole
  BY DEF FilesInv, DiskOK, Files!DescribedIsWhole, IsWhole
<1>3. Files!RestIsVerified
  <2>1. ASSUME registered = None, NEW d \in Downloads
        PROVE  getting[d] \notin {"describing", "checking"}
               /\ todo[d] \notin WithFinal
    <3>1. getting[d] \in {"new", "over"}
      BY <2>1, Downloader DEF FilesInv, DownOK, Busy
    <3>2. todo[d] = <<>>
      BY <3>1 DEF FilesInv, DownOK, TodoOK
    <3> QED BY <3>1, <3>2, NothingWithFinal
  <2>2. ASSUME registered = None, lost.crashes = 0 PROVE Verified
    BY <2>1, <2>2 DEF FilesInv, DiskOK, RestOK, Settled
  <2> QED BY <2>2 DEF Files!RestIsVerified, Verified, Files!Missing
<1>4. Files!CancelledIsQuiet
  <2> SUFFICES ASSUME NEW c \in Deletes, getting[c] = "over", reply[c] = "cancelled",
                      target[c] # None, getting[target[c]] # "over"
               PROVE  disk.part \in {None, <<>>} /\ getting[target[c]] \notin Late
    BY DEF Files!CancelledIsQuiet, Late
  <2>1. DelOK(c)
    BY DEF FilesInv
  <2> QED BY <2>1 DEF DelOK, QuietFor, Busy
<1> QED BY <1>1, <1>2, <1>3, <1>4

\* Whatever fails, is cancelled or restarts: the partial file is a beginning of the
\* revision that its note names, what a source or a manifest describes is a whole file,
\* a file at rest is what its source says, and a cancelled download is quiet
\* (download_huggingface_model and the handlers that cancel and install).
THEOREM DownloadsAreWhole ==
  Files!Spec => [](/\ Files!TypeOK /\ Files!PartIsABeginning /\ Files!DescribedIsWhole
                   /\ Files!RestIsVerified /\ Files!CancelledIsQuiet)
<1>1. FilesInv /\ [Files!Next]_Files!vars => FilesInv'
  BY FilesStep, FilesStutter
<1> QED BY <1>1, FilesStart, FilesInvIsEnough, PTL DEF Files!Spec

-----------------------------------------------------------------------------
(* Jobs.  The invariant says of each starter at work that its task is the  *)
(* one of its job and which statuses the job may have (AtWork), and that   *)
(* no other starter of the job is at work (Alone); and, while nothing was  *)
(* cancelled and no write failed, that the last snapshot in the queue is   *)
(* what memory says (Filed).                                               *)

\* A starter at work on its job; and a job that no file and no snapshot knows.
Active(a) == job[a] \notin {"new", "restored", "over"}
NoneYet(j) ==
  /\ status[j] = "none" /\ store[j] = "none"
  /\ \A a \in Jobs!Actors : snapshot[a][j] = "none"
  /\ \A s \in stale : s[j] = "none"

\* A job begins with its request; before the jobs are loaded, nothing is under way; and
\* who starts jobs and who cancels them are at positions of their own.
FreshJobs == \A j \in Creates : Jobs!NotBegun(j) => NoneYet(j)
UnloadedJobs == ~loaded =>
  /\ \A a \in Jobs!Actors : job[a] \in {"new", "over"}
  /\ writes = <<>> /\ stale = {} /\ hit = {} /\ status = Jobs!NoJobs
JobRoles ==
  /\ \A c \in Cancels : job[c] \in {"new", "restored", "waiting", "marking", "over"}
  /\ \A a \in Jobs!Starters : job[a] \notin {"waiting", "marking"}

\* What holds of the job of a starter at work.
AtWork(a) == LET j == JobOf[a] IN
  /\ status[j] # "interrupted"
  /\ job[a] # "saving" => jobTask[j] = a
  /\ job[a] \in {"saving", "queued"} => status[j] \in Jobs!Unfinished
  /\ job[a] = "closing" => status[j] \in Jobs!Final
  /\ job[a] = "ending" => status[j] \in Jobs!Final \/ j \in cut
  /\ job[a] = "stopping" => ending[a] \in {"failed", "cancelled"}
Alone(a) == \A b \in Jobs!Starters : (b # a /\ JobOf[b] = JobOf[a]) => ~Active(b)

\* An unfinished job is one that was cut, or is worked on.
Worked(j) ==
  status[j] \in Jobs!Unfinished =>
    j \in cut \/ \E a \in Jobs!Starters : JobOf[a] = j /\ Active(a)
Works == Patient =>
  /\ \A a \in Jobs!Starters : Active(a) => AtWork(a) /\ Alone(a)
  /\ \A j \in Creates : Worked(j)

\* Where an actor waits for its write.
WaitingPlaces == {"restored", "saving", "opening", "noting", "checking", "closing", "ending"}

\* No read or write failed and no cancellation has begun.
Undisturbed == unsaved.faults = 0 /\ \A c \in Cancels : Jobs!NotBegun(c)

\* The queue has each writer once; the last of them, or the file, is what memory says.
Queued ==
  /\ \A m, n \in 1..Len(writes) : writes[m] = writes[n] => m = n
  /\ \A n \in 1..Len(writes) : saved[writes[n]] = "no" /\ job[writes[n]] \in WaitingPlaces
Latest == IF writes = <<>> THEN store = status ELSE snapshot[writes[Len(writes)]] = status
Filed == Undisturbed =>
  /\ hit = {} /\ stale = {} /\ Queued
  /\ \A a \in Jobs!Actors : saved[a] # "failed"
  /\ loaded => Latest

\* A starter at work has a job that began.
NamedJobs == \A a \in Jobs!Starters : Active(a) => ~Jobs!NotBegun(JobOf[a])
JobsBase == Jobs!TypeOK /\ FreshJobs /\ UnloadedJobs /\ JobRoles /\ NamedJobs

\* The invariant of the jobs.
JobsInv == JobsBase /\ Works /\ Jobs!OneJobPerKind /\ Filed

LEMMA JobConstants ==
  /\ None \notin Jobs!Actors /\ Creates \cap Retries = {} /\ Jobs!Starters \cap Cancels = {}
  /\ JobOf \in [Jobs!Actors -> Creates] /\ \A j \in Creates : JobOf[j] = j
  /\ Jobs!Starters \subseteq Jobs!Actors /\ Cancels \subseteq Jobs!Actors
  /\ Creates \subseteq Jobs!Starters
  /\ Retries \subseteq Jobs!Starters /\ Creates \subseteq Jobs!Actors
  /\ MaxFaults \in Nat /\ MaxCrashes \in Nat /\ Patient \in BOOLEAN
<1>1. Jobs!Starters \subseteq Jobs!Actors /\ Cancels \subseteq Jobs!Actors
      /\ Creates \subseteq Jobs!Starters
      /\ Retries \subseteq Jobs!Starters /\ Creates \subseteq Jobs!Actors
  BY DEF Jobs!Actors, Jobs!Starters
<1>2. None \notin Jobs!Actors /\ Creates \cap Retries = {} /\ Jobs!Starters \cap Cancels = {}
  BY JobParameters DEF Jobs!Parameters
<1>3. JobOf \in [Jobs!Actors -> Creates] /\ \A j \in Creates : JobOf[j] = j
  BY JobParameters DEF Jobs!Parameters
<1>4. MaxFaults \in Nat /\ MaxCrashes \in Nat /\ Patient \in BOOLEAN
  BY JobParameters DEF Jobs!Parameters
<1> QED BY <1>1, <1>2, <1>3, <1>4

\* The statuses a snapshot may hold.
Values == Jobs!Final \cup Jobs!Unfinished \cup {"none"}

LEMMA StartersHaveJobs ==
  ASSUME NEW a \in Jobs!Starters
  PROVE  a \in Jobs!Actors /\ JobOf[a] \in Creates /\ JobOf[a] \in Jobs!Actors /\ a # None
         /\ a \notin Cancels
BY JobConstants

\* Who leaves the queue leaves the others in their order.
LEMMA OthersTyped ==
  ASSUME NEW a \in Jobs!Actors, writes \in Seq(Jobs!Actors)
  PROVE  Jobs!Others(a) \in Seq(Jobs!Actors) /\ (Jobs!Waits(a) = {} => Jobs!Others(a) = writes)
<1>1. CASE Jobs!Waits(a) = {}
  BY <1>1 DEF Jobs!Others
<1>2. CASE Jobs!Waits(a) # {}
  <2> DEFINE n == CHOOSE n \in Jobs!Waits(a) : TRUE
  <2>1. n \in Jobs!Waits(a)
    BY <1>2
  <2>2. n \in 1..Len(writes)
    BY <2>1 DEF Jobs!Waits
  <2>3. Jobs!Others(a) = SubSeq(writes, 1, n - 1) \o SubSeq(writes, n + 1, Len(writes))
    BY <1>2 DEF Jobs!Others
  <2> HIDE DEF n
  <2>4. SubSeq(writes, 1, n - 1) \in Seq(Jobs!Actors)
        /\ SubSeq(writes, n + 1, Len(writes)) \in Seq(Jobs!Actors)
    BY <2>2
  <2> QED BY <2>3, <2>4, <1>2
<1> QED BY <1>1, <1>2

LEMMA LeftIs ==
  ASSUME NEW a \in Jobs!Actors, NEW gone \in Jobs!Left(a)
  PROVE  gone \subseteq {snapshot[a]}
           /\ ((Jobs!Waits(a) = {} /\ writes \in Seq(Jobs!Actors)) => gone = {})
<1>1. gone \subseteq {snapshot[a]}
  BY DEF Jobs!Left
<1>2. ASSUME Jobs!Waits(a) = {}, writes \in Seq(Jobs!Actors), writes # <<>>
      PROVE  Head(writes) # a
  <2>1. 1 \in 1..Len(writes) /\ Head(writes) = writes[1]
    BY <1>2
  <2> QED BY <2>1, <1>2 DEF Jobs!Waits
<1> QED BY <1>1, <1>2 DEF Jobs!Left

LEMMA Persists ==
  ASSUME Jobs!TypeOK, NEW a \in Jobs!Actors, NEW values \in Jobs!Snapshots,
         Jobs!Persist(a, values)
  PROVE  /\ snapshot' \in [Jobs!Actors -> Jobs!Snapshots]
         /\ saved' \in [Jobs!Actors -> {"no", "yes", "failed"}]
         /\ writes' \in Seq(Jobs!Actors) /\ stale' \subseteq Jobs!Snapshots /\ store' = store
         /\ snapshot' = [snapshot EXCEPT ![a] = values] /\ saved' = [saved EXCEPT ![a] = "no"]
         /\ stale' \subseteq stale \cup {snapshot[a]}
         /\ Jobs!Waits(a) = {} => writes' = Append(writes, a) /\ stale' = stale
<1>1. writes \in Seq(Jobs!Actors) /\ snapshot \in [Jobs!Actors -> Jobs!Snapshots]
      /\ stale \subseteq Jobs!Snapshots
      /\ saved \in [Jobs!Actors -> {"no", "yes", "failed"}]
  BY DEF Jobs!TypeOK
<1>2. snapshot' = [snapshot EXCEPT ![a] = values] /\ saved' = [saved EXCEPT ![a] = "no"]
      /\ store' = store /\ writes' = Append(Jobs!Others(a), a)
  BY DEF Jobs!Persist
<1>3. PICK gone \in Jobs!Left(a) : stale' = stale \cup gone
  BY DEF Jobs!Persist
<1>4. gone \subseteq {snapshot[a]} /\ (Jobs!Waits(a) = {} => gone = {})
  BY <1>1, LeftIs
<1>5. snapshot' \in [Jobs!Actors -> Jobs!Snapshots]
      /\ saved' \in [Jobs!Actors -> {"no", "yes", "failed"}]
  BY <1>1, <1>2
<1>6. writes' \in Seq(Jobs!Actors)
  BY <1>1, <1>2, OthersTyped
<1>7. stale' \subseteq Jobs!Snapshots /\ stale' \subseteq stale \cup {snapshot[a]}
  BY <1>1, <1>3, <1>4
<1>8. Jobs!Waits(a) = {} => writes' = Append(writes, a) /\ stale' = stale
  BY <1>1, <1>2, <1>3, <1>4, OthersTyped
<1> QED BY <1>2, <1>5, <1>6, <1>7, <1>8

LEMMA Abandons ==
  ASSUME Jobs!TypeOK, NEW a \in Jobs!Actors, Jobs!Abandon(a)
  PROVE  /\ writes' \in Seq(Jobs!Actors) /\ stale' \subseteq Jobs!Snapshots
         /\ snapshot' = snapshot /\ saved' = saved /\ store' = store
         /\ stale' \subseteq stale \cup {snapshot[a]}
         /\ Jobs!Waits(a) = {} => writes' = writes /\ stale' = stale
<1>1. writes \in Seq(Jobs!Actors) /\ snapshot \in [Jobs!Actors -> Jobs!Snapshots]
      /\ stale \subseteq Jobs!Snapshots
  BY DEF Jobs!TypeOK
<1>2. PICK gone \in Jobs!Left(a) : stale' = stale \cup gone
  BY DEF Jobs!Abandon
<1>3. gone \subseteq {snapshot[a]} /\ (Jobs!Waits(a) = {} => gone = {})
  BY <1>1, LeftIs
<1>4. writes' = Jobs!Others(a) /\ snapshot' = snapshot /\ saved' = saved /\ store' = store
  BY DEF Jobs!Abandon
<1> QED BY <1>1, <1>2, <1>3, <1>4, OthersTyped

\* What is written, or noted to be written, comes from memory.
Traces ==
  /\ \A b \in Jobs!Actors : snapshot'[b] = snapshot[b] \/ snapshot'[b] = status'
  /\ \A s \in stale' : s \in stale \/ \E b \in Jobs!Actors : s = snapshot[b]
  /\ store' = store \/ store' \in stale \/ \E b \in Jobs!Actors : store' = snapshot[b]

LEMMA PersistTraces ==
  ASSUME Jobs!TypeOK, NEW a \in Jobs!Actors, status' \in Jobs!Snapshots, Jobs!Persist(a, status')
  PROVE  Traces
<1>1. /\ snapshot' = [snapshot EXCEPT ![a] = status'] /\ store' = store
      /\ stale' \subseteq stale \cup {snapshot[a]}
  BY Persists
<1>2. snapshot \in [Jobs!Actors -> Jobs!Snapshots]
  BY DEF Jobs!TypeOK
<1>3. \A b \in Jobs!Actors : snapshot'[b] = snapshot[b] \/ snapshot'[b] = status'
  BY <1>1, <1>2
<1>4. \A s \in stale' : s \in stale \/ \E b \in Jobs!Actors : s = snapshot[b]
  BY <1>1
<1> QED BY <1>1, <1>3, <1>4 DEF Traces

LEMMA FreshKept ==
  ASSUME FreshJobs, Traces,
         \A j \in Creates : Jobs!NotBegun(j)' => Jobs!NotBegun(j) /\ status'[j] = "none"
  PROVE  FreshJobs'
<1> SUFFICES ASSUME NEW j \in Creates, Jobs!NotBegun(j)' PROVE NoneYet(j)'
  BY DEF FreshJobs
<1>1. NoneYet(j) /\ status'[j] = "none"
  BY DEF FreshJobs
<1>2. \A a \in Jobs!Actors : snapshot'[a][j] = "none"
  BY <1>1 DEF NoneYet, Traces
<1>3. \A s \in stale' : s[j] = "none"
  BY <1>1 DEF NoneYet, Traces
<1>4. store'[j] = "none"
  BY <1>1 DEF NoneYet, Traces
<1> QED BY <1>1, <1>2, <1>3, <1>4 DEF NoneYet

\* A starter at work goes on, or ends.
LEMMA WorkGoesOn ==
  ASSUME Jobs!TypeOK, Works, Jobs!OneJobPerKind, NEW a \in Jobs!Starters, Active(a),
         NEW p, job' = [job EXCEPT ![a] = p], p \notin {"new", "restored"},
         \A k \in Creates \ {JobOf[a]} : status'[k] = status[k] /\ jobTask'[k] = jobTask[k],
         \A b \in Jobs!Starters \ {a} : ending'[b] = ending[b],
         cut \subseteq cut',
         (Patient /\ p # "over") => AtWork(a)',
         (Patient /\ p = "over" /\ status'[JobOf[a]] \in Jobs!Unfinished) => JobOf[a] \in cut',
         (Patient /\ status'[JobOf[a]] \in Jobs!Unfinished) =>
              status[JobOf[a]] \in Jobs!Unfinished
  PROVE  Works' /\ Jobs!OneJobPerKind'
<1>1. a \in Jobs!Actors /\ JobOf[a] \in Creates
  BY StartersHaveJobs
<1>2. job'[a] = p /\ \A b \in Jobs!Starters \ {a} : job'[b] = job[b]
  BY <1>1, JobConstants DEF Jobs!TypeOK
<1>3. \A b \in Jobs!Starters : Active(b)' => Active(b)
  BY <1>2 DEF Active
<1>4. Works'
  <2> SUFFICES ASSUME Patient
               PROVE  /\ \A b \in Jobs!Starters : Active(b)' => AtWork(b)' /\ Alone(b)'
                      /\ \A j \in Creates : Worked(j)'
    BY DEF Works
  <2>1. ASSUME NEW b \in Jobs!Starters, Active(b)' PROVE AtWork(b)' /\ Alone(b)'
    <3>1. Active(b) /\ AtWork(b) /\ Alone(b)
      BY <1>3, <2>1 DEF Works
    <3>2. Alone(b)'
      BY <3>1, <1>3 DEF Alone
    <3>3. CASE b = a
      BY <3>2, <3>3, <2>1, <1>2 DEF Active
    <3>4. CASE b # a
      <4>1. JobOf[b] # JobOf[a] /\ JobOf[b] \in Creates
        BY <3>1, <3>4, StartersHaveJobs DEF Alone
      <4>2. status'[JobOf[b]] = status[JobOf[b]] /\ jobTask'[JobOf[b]] = jobTask[JobOf[b]]
            /\ ending'[b] = ending[b] /\ job'[b] = job[b]
        BY <4>1, <3>4, <1>2
      <4> QED BY <3>1, <3>2, <4>2 DEF AtWork
    <3> QED BY <3>3, <3>4
  <2>2. ASSUME NEW j \in Creates, status'[j] \in Jobs!Unfinished, j \notin cut'
        PROVE  \E b \in Jobs!Starters : JobOf[b] = j /\ Active(b)'
    <3>1. CASE j = JobOf[a]
      <4>1. Active(a)'
        BY <3>1, <2>2, <1>2 DEF Active
      <4> QED BY <3>1, <4>1
    <3>2. CASE j # JobOf[a]
      <4>1. status[j] \in Jobs!Unfinished /\ j \notin cut
        BY <3>2, <2>2
      <4>2. PICK b \in Jobs!Starters : JobOf[b] = j /\ Active(b)
        BY <4>1 DEF Works, Worked
      <4>3. Active(b)'
        BY <4>2, <3>2, <1>2 DEF Active
      <4> QED BY <4>2, <4>3
    <3> QED BY <3>1, <3>2
  <2>3. \A j \in Creates : Worked(j)'
    BY <2>2 DEF Worked
  <2> QED BY <2>1, <2>3
<1>5. Jobs!OneJobPerKind'
  <2>1. \A r \in Retries : Jobs!NotBegun(r)' => Jobs!NotBegun(r)
    BY <1>2, JobConstants DEF Jobs!NotBegun
  <2>2. Patient =>
          \A j \in Creates : status'[j] \in Jobs!Unfinished => status[j] \in Jobs!Unfinished
    OBVIOUS
  <2> QED BY <2>1, <2>2 DEF Jobs!OneJobPerKind
<1> QED BY <1>4, <1>5

\* What does not concern the starters at work.
LEMMA WorkStays ==
  ASSUME Jobs!TypeOK, Works, Jobs!OneJobPerKind,
         \A b \in Jobs!Starters : (Active(b) <=> Active(b)') /\ (Active(b) => job'[b] = job[b]),
         \A b \in Retries : Jobs!NotBegun(b)' => Jobs!NotBegun(b),
         \A k \in Creates : status'[k] = status[k] \/
           (status'[k] = "interrupted" /\
            (Patient => \A b \in Jobs!Starters : JobOf[b] = k => ~Active(b))),
         jobTask' = jobTask, ending' = ending, cut' = cut
  PROVE  Works' /\ Jobs!OneJobPerKind'
<1>1. Works'
  <2> SUFFICES ASSUME Patient
               PROVE  /\ \A b \in Jobs!Starters : Active(b)' => AtWork(b)' /\ Alone(b)'
                      /\ \A j \in Creates : Worked(j)'
    BY DEF Works
  <2>1. ASSUME NEW b \in Jobs!Starters, Active(b)' PROVE AtWork(b)' /\ Alone(b)'
    <3>1. Active(b) /\ AtWork(b) /\ Alone(b)
      BY <2>1 DEF Works
    <3>2. status'[JobOf[b]] = status[JobOf[b]] /\ job'[b] = job[b]
      BY <3>1, StartersHaveJobs
    <3>3. AtWork(b)'
      BY <3>1, <3>2 DEF AtWork
    <3>4. Alone(b)'
      BY <3>1 DEF Alone
    <3> QED BY <3>3, <3>4
  <2>2. ASSUME NEW j \in Creates, status'[j] \in Jobs!Unfinished, j \notin cut
        PROVE  \E b \in Jobs!Starters : JobOf[b] = j /\ Active(b)'
    <3>1. status[j] \in Jobs!Unfinished
      BY <2>2 DEF Jobs!Unfinished
    <3> QED BY <3>1, <2>2 DEF Works, Worked
  <2> QED BY <2>1, <2>2 DEF Worked
<1>2. Jobs!OneJobPerKind'
  <2>1. \A j \in Creates : status'[j] \in Jobs!Unfinished => status[j] \in Jobs!Unfinished
    BY DEF Jobs!Unfinished
  <2> QED BY <2>1 DEF Jobs!OneJobPerKind
<1> QED BY <1>1, <1>2

\* Where an actor of the jobs may be.
Places ==
  {"new", "restored", "saving", "queued", "opening", "pulling", "noting", "running", "checking",
   "probing", "inspecting", "stopping", "closing", "ending", "waiting", "marking", "over"}

LEMMA JobMoved ==
  ASSUME Jobs!TypeOK, NEW a \in Jobs!Actors, NEW p \in Places, job' = [job EXCEPT ![a] = p]
  PROVE  /\ job' \in [Jobs!Actors -> Places] /\ job'[a] = p
         /\ \A b \in Jobs!Actors \ {a} : job'[b] = job[b]
BY DEF Jobs!TypeOK, Places

LEMMA JobsTyped ==
  Jobs!TypeOK <=>
  /\ loaded \in BOOLEAN /\ status \in Jobs!Snapshots
  /\ jobTask \in [Creates -> Jobs!Starters \cup {None}] /\ job \in [Jobs!Actors -> Places]
  /\ ending \in [Jobs!Starters -> Jobs!Final \cup {"none"}]
  /\ hit \subseteq Jobs!Starters /\ cut \subseteq Creates
  /\ snapshot \in [Jobs!Actors -> Jobs!Snapshots]
  /\ saved \in [Jobs!Actors -> {"no", "yes", "failed"}]
  /\ writes \in Seq(Jobs!Actors) /\ stale \subseteq Jobs!Snapshots /\ store \in Jobs!Snapshots
  /\ unsaved \in [faults : 0..MaxFaults, crashes : 0..MaxCrashes]
BY DEF Jobs!TypeOK, Places

LEMMA NotQueued ==
  ASSUME Jobs!TypeOK, Filed, Undisturbed, NEW a \in Jobs!Actors,
         saved[a] # "no" \/ job[a] \notin WaitingPlaces
  PROVE  Jobs!Waits(a) = {}
BY DEF Filed, Queued, Jobs!Waits

LEMMA FiledPersist ==
  ASSUME Jobs!TypeOK, Filed, NEW a \in Jobs!Actors, NEW p \in WaitingPlaces,
         job' = [job EXCEPT ![a] = p],
         Undisturbed' => Undisturbed, hit' \subseteq hit,
         status' \in Jobs!Snapshots, Jobs!Persist(a, status'),
         Undisturbed => saved[a] # "no" \/ job[a] \notin WaitingPlaces
  PROVE  Filed'
<1> SUFFICES ASSUME Undisturbed'
             PROVE  /\ hit' = {} /\ stale' = {} /\ Queued'
                    /\ \A b \in Jobs!Actors : saved'[b] # "failed"
                    /\ Latest'
  BY DEF Filed
<1>1. Undisturbed /\ Jobs!Waits(a) = {}
  BY NotQueued
<1>2. hit = {} /\ stale = {} /\ Queued /\ \A b \in Jobs!Actors : saved[b] # "failed"
  BY <1>1 DEF Filed
<1>3. /\ snapshot' = [snapshot EXCEPT ![a] = status'] /\ saved' = [saved EXCEPT ![a] = "no"]
      /\ writes' = Append(writes, a) /\ stale' = {}
  BY <1>1, <1>2, Persists
<1>4. snapshot \in [Jobs!Actors -> Jobs!Snapshots]
      /\ saved \in [Jobs!Actors -> {"no", "yes", "failed"}]
      /\ writes \in Seq(Jobs!Actors) /\ job \in [Jobs!Actors -> Places]
  BY JobsTyped
<1>5. \A n \in 1..Len(writes) : writes[n] \in Jobs!Actors /\ writes[n] # a
  BY <1>1, <1>4 DEF Jobs!Waits
<1>6. Len(writes') = Len(writes) + 1 /\ writes'[Len(writes) + 1] = a
      /\ \A n \in 1..Len(writes) : writes'[n] = writes[n]
  BY <1>3, <1>4
<1>7. Queued'
  <2>1. ASSUME NEW m \in 1..Len(writes'), NEW n \in 1..Len(writes'), writes'[m] = writes'[n]
        PROVE  m = n
    <3>1. m = Len(writes) + 1 \/ m \in 1..Len(writes)
      BY <1>4, <1>6
    <3>2. n = Len(writes) + 1 \/ n \in 1..Len(writes)
      BY <1>4, <1>6
    <3> QED BY <2>1, <3>1, <3>2, <1>2, <1>5, <1>6 DEF Queued
  <2>2. ASSUME NEW n \in 1..Len(writes')
        PROVE  saved'[writes'[n]] = "no" /\ job'[writes'[n]] \in WaitingPlaces
    <3>1. CASE n = Len(writes) + 1
      BY <3>1, <1>3, <1>4, <1>6
    <3>2. CASE n # Len(writes) + 1
      <4>1. n \in 1..Len(writes)
        BY <3>2, <1>4, <1>6
      <4>2. writes'[n] = writes[n] /\ writes[n] \in Jobs!Actors /\ writes[n] # a
        BY <4>1, <1>5, <1>6
      <4>3. saved'[writes[n]] = saved[writes[n]] /\ job'[writes[n]] = job[writes[n]]
        BY <4>2, <1>3, <1>4
      <4> QED BY <4>1, <4>2, <4>3, <1>2 DEF Queued
    <3> QED BY <3>1, <3>2
  <2> QED BY <2>1, <2>2 DEF Queued
<1>8. Latest'
  <2>1. snapshot'[a] = status'
    BY <1>3, <1>4
  <2>2. writes' # <<>> /\ writes'[Len(writes')] = a
    BY <1>4, <1>6
  <2> QED BY <2>1, <2>2 DEF Latest
<1>9. \A b \in Jobs!Actors : saved'[b] # "failed"
  BY <1>2, <1>3, <1>4
<1> QED BY <1>2, <1>3, <1>7, <1>8, <1>9

LEMMA FiledStays ==
  ASSUME Jobs!TypeOK, Filed, NEW a \in Jobs!Actors, NEW p \in Places,
         job' = [job EXCEPT ![a] = p],
         Undisturbed' => Undisturbed, hit' \subseteq hit, loaded' = loaded,
         Undisturbed => /\ UNCHANGED <<status, snapshot, saved, writes, stale, store>>
                        /\ saved[a] # "no" \/ job[a] \notin WaitingPlaces
  PROVE  Filed'
<1> SUFFICES ASSUME Undisturbed'
             PROVE  /\ hit' = {} /\ stale' = {} /\ Queued'
                    /\ \A b \in Jobs!Actors : saved'[b] # "failed"
                    /\ loaded' => Latest'
  BY DEF Filed
<1>1. Undisturbed /\ Jobs!Waits(a) = {}
      /\ UNCHANGED <<status, snapshot, saved, writes, stale, store>>
  BY NotQueued
<1>2. hit = {} /\ stale = {} /\ Queued /\ (\A b \in Jobs!Actors : saved[b] # "failed")
      /\ (loaded => Latest)
  BY <1>1 DEF Filed
<1>3. writes \in Seq(Jobs!Actors) /\ job \in [Jobs!Actors -> Places]
  BY JobsTyped
<1>4. \A n \in 1..Len(writes) : writes[n] \in Jobs!Actors /\ writes[n] # a
  BY <1>1, <1>3 DEF Jobs!Waits
<1>5. \A n \in 1..Len(writes) : job'[writes[n]] = job[writes[n]]
  BY <1>3, <1>4
<1>6. Queued'
  BY <1>1, <1>2, <1>5 DEF Queued
<1>7. loaded' => Latest'
  BY <1>1, <1>2 DEF Latest
<1> QED BY <1>1, <1>2, <1>6, <1>7

LEMMA CalmBefore ==
  ASSUME Jobs!TypeOK, NEW a \in Jobs!Actors, NEW p \in Places, job' = [job EXCEPT ![a] = p],
         unsaved'.faults = unsaved.faults,
         a \in Cancels => (p \notin {"new", "restored"} \/ Jobs!NotBegun(a))
  PROVE  /\ Undisturbed' => Undisturbed
         /\ (a \in Cancels /\ p \notin {"new", "restored"}) => ~Undisturbed'
<1>1. job'[a] = p /\ \A b \in Jobs!Actors \ {a} : job'[b] = job[b]
  BY JobMoved
<1> QED BY <1>1, JobConstants DEF Undisturbed, Jobs!NotBegun

LEMMA StarterMoves ==
  ASSUME JobsBase, NEW a \in Jobs!Starters,
         NEW p \in Places \ {"new", "restored", "waiting", "marking"},
         job' = [job EXCEPT ![a] = p], loaded' = TRUE, Jobs!TypeOK',
         Active(a), \A k \in Creates \ {JobOf[a]} : status'[k] = status[k], Traces
  PROVE  JobsBase'
<1>1. Jobs!TypeOK /\ a \in Jobs!Actors /\ a \notin Cancels /\ JobOf[a] \in Creates
  BY StartersHaveJobs DEF JobsBase
<1>2. job'[a] = p /\ \A b \in Jobs!Actors \ {a} : job'[b] = job[b]
  BY <1>1, JobMoved
<1>3. \A b \in Jobs!Actors : Jobs!NotBegun(b)' => Jobs!NotBegun(b)
  BY <1>2 DEF Jobs!NotBegun
<1>4. ~Jobs!NotBegun(JobOf[a])
  BY DEF JobsBase, NamedJobs
<1>5. ASSUME NEW j \in Creates, Jobs!NotBegun(j)'
      PROVE  Jobs!NotBegun(j) /\ status'[j] = "none"
  <2>1. Jobs!NotBegun(j) /\ j # JobOf[a]
    BY <1>3, <1>4, <1>5, JobConstants
  <2> QED BY <2>1 DEF JobsBase, FreshJobs, NoneYet
<1>6. FreshJobs'
  BY <1>5, FreshKept DEF JobsBase
<1>7. UnloadedJobs'
  BY DEF UnloadedJobs
<1>8. JobRoles'
  BY <1>1, <1>2, JobConstants DEF JobsBase, JobRoles
<1>9. NamedJobs'
  <2>1. \A b \in Jobs!Starters : Active(b)' => Active(b)
    BY <1>2, JobConstants DEF Active
  <2> QED BY <2>1, <1>3, StartersHaveJobs DEF JobsBase, NamedJobs
<1> QED BY <1>6, <1>7, <1>8, <1>9 DEF JobsBase

\* A task saves what it did.
LEMMA TaskPersists ==
  ASSUME JobsInv, NEW a \in Jobs!Starters, Active(a),
         NEW p \in WaitingPlaces \ {"restored"}, job' = [job EXCEPT ![a] = p],
         status' \in Jobs!Snapshots, Jobs!Persist(a, status'),
         \A k \in Creates \ {JobOf[a]} : status'[k] = status[k],
         UNCHANGED <<loaded, jobTask, unsaved>>,
         ending' \in [Jobs!Starters -> Jobs!Final \cup {"none"}],
         \A b \in Jobs!Starters \ {a} : ending'[b] = ending[b],
         hit' \subseteq hit, cut \subseteq cut', cut' \subseteq Creates,
         Undisturbed => saved[a] # "no" \/ job[a] \notin WaitingPlaces,
         Patient => AtWork(a)',
         (Patient /\ status'[JobOf[a]] \in Jobs!Unfinished) =>
              status[JobOf[a]] \in Jobs!Unfinished
  PROVE  JobsInv'
<1>1. Jobs!TypeOK /\ a \in Jobs!Actors /\ a \notin Cancels /\ p \in Places
      /\ p \notin {"new", "restored", "over"}
  BY StartersHaveJobs DEF JobsInv, JobsBase, WaitingPlaces, Places
<1>2. job' \in [Jobs!Actors -> Places]
  BY <1>1, JobMoved
<1>3. Jobs!TypeOK'
  <2>1. /\ snapshot' \in [Jobs!Actors -> Jobs!Snapshots]
        /\ saved' \in [Jobs!Actors -> {"no", "yes", "failed"}]
        /\ writes' \in Seq(Jobs!Actors) /\ stale' \subseteq Jobs!Snapshots /\ store' = store
    BY <1>1, Persists
  <2>2. hit' \subseteq Jobs!Starters /\ unsaved' = unsaved /\ loaded' = loaded
        /\ jobTask' = jobTask
    BY <1>1, JobsTyped
  <2> HIDE DEF Jobs!Snapshots
  <2>3. /\ loaded' \in BOOLEAN /\ jobTask' \in [Creates -> Jobs!Starters \cup {None}]
        /\ store' \in Jobs!Snapshots
        /\ unsaved' \in [faults : 0..MaxFaults, crashes : 0..MaxCrashes]
    BY <1>1, <2>1, <2>2, JobsTyped
  <2> QED BY <1>2, <2>1, <2>2, <2>3 DEF Jobs!TypeOK, Places
<1>4. loaded' = TRUE
  BY <1>1 DEF JobsInv, JobsBase, UnloadedJobs, Active, Jobs!TypeOK
<1>5. Traces
  BY <1>1, PersistTraces
<1>6. JobsBase'
  <2>1. p \in Places \ {"new", "restored", "waiting", "marking"}
    BY <1>1 DEF WaitingPlaces
  <2> QED BY <1>3, <1>4, <1>5, <2>1, StarterMoves DEF JobsInv
<1>7. Works' /\ Jobs!OneJobPerKind'
  BY <1>1, WorkGoesOn DEF JobsInv
<1>8. Undisturbed' => Undisturbed
  BY <1>1, CalmBefore
<1>9. Filed'
  BY <1>1, <1>8, FiledPersist DEF JobsInv
<1> QED BY <1>6, <1>7, <1>9 DEF JobsInv

\* A task goes on, or ends, and saves nothing.
LEMMA TaskGoesOn ==
  ASSUME JobsInv, NEW a \in Jobs!Starters, Active(a),
         NEW p \in Places \ {"new", "restored", "waiting", "marking"},
         job' = [job EXCEPT ![a] = p],
         UNCHANGED <<snapshot, saved, writes, stale, store>> \/ Jobs!Abandon(a),
         UNCHANGED <<loaded, status, unsaved>>,
         jobTask' \in [Creates -> Jobs!Starters \cup {None}],
         \A k \in Creates \ {JobOf[a]} : jobTask'[k] = jobTask[k],
         ending' \in [Jobs!Starters -> Jobs!Final \cup {"none"}],
         \A b \in Jobs!Starters \ {a} : ending'[b] = ending[b],
         hit' \subseteq hit, cut \subseteq cut', cut' \subseteq Creates,
         Undisturbed => saved[a] # "no" \/ job[a] \notin WaitingPlaces,
         (Patient /\ p # "over") => AtWork(a)',
         (Patient /\ p = "over" /\ status[JobOf[a]] \in Jobs!Unfinished) => JobOf[a] \in cut'
  PROVE  JobsInv'
<1>1. Jobs!TypeOK /\ a \in Jobs!Actors /\ a \notin Cancels /\ p \in Places
  BY StartersHaveJobs DEF JobsInv, JobsBase
<1>2. job' \in [Jobs!Actors -> Places]
  BY <1>1, JobMoved
<1>3. /\ writes' \in Seq(Jobs!Actors) /\ stale' \subseteq Jobs!Snapshots
      /\ snapshot' = snapshot /\ saved' = saved /\ store' = store
      /\ stale' \subseteq stale \cup {snapshot[a]}
      /\ Jobs!Waits(a) = {} => writes' = writes /\ stale' = stale
  <2>1. CASE Jobs!Abandon(a)
    BY <2>1, <1>1, Abandons
  <2>2. CASE UNCHANGED <<snapshot, saved, writes, stale, store>>
    BY <2>2, <1>1, JobsTyped
  <2> QED BY <2>1, <2>2
<1>4. Jobs!TypeOK'
  <2>1. hit' \subseteq Jobs!Starters /\ unsaved' = unsaved /\ loaded' = loaded /\ status' = status
    BY <1>1, JobsTyped
  <2> HIDE DEF Jobs!Snapshots
  <2>2. /\ loaded' \in BOOLEAN /\ status' \in Jobs!Snapshots /\ store' \in Jobs!Snapshots
        /\ snapshot' \in [Jobs!Actors -> Jobs!Snapshots]
        /\ saved' \in [Jobs!Actors -> {"no", "yes", "failed"}]
        /\ unsaved' \in [faults : 0..MaxFaults, crashes : 0..MaxCrashes]
    BY <1>1, <1>3, <2>1, JobsTyped
  <2> QED BY <1>2, <1>3, <2>1, <2>2 DEF Jobs!TypeOK, Places
<1>5. loaded' = TRUE
  BY <1>1 DEF JobsInv, JobsBase, UnloadedJobs, Active, Jobs!TypeOK
<1>6. Traces
  BY <1>1, <1>3 DEF Traces
<1>7. JobsBase'
  BY <1>4, <1>5, <1>6, StarterMoves DEF JobsInv
<1>8. Works' /\ Jobs!OneJobPerKind'
  BY <1>1, WorkGoesOn DEF JobsInv
<1>9. Undisturbed' => Undisturbed
  BY <1>1, CalmBefore
<1>10. Filed'
  <2>1. Undisturbed => UNCHANGED <<status, snapshot, saved, writes, stale, store>>
    BY <1>1, <1>3, NotQueued DEF JobsInv
  <2> QED BY <2>1, <1>1, <1>9, FiledStays DEF JobsInv
<1> QED BY <1>7, <1>8, <1>10 DEF JobsInv

LEMMA AtWorkFacts ==
  ASSUME JobsInv, NEW a \in Jobs!Starters, Active(a), Patient
  PROVE  AtWork(a) /\ Alone(a)
BY DEF JobsInv, Works

LEMMA StatusTyped ==
  ASSUME Jobs!TypeOK, NEW a \in Jobs!Starters, NEW v \in Values,
         status' = [status EXCEPT ![JobOf[a]] = v]
  PROVE  /\ status' \in Jobs!Snapshots /\ status'[JobOf[a]] = v
         /\ \A k \in Creates \ {JobOf[a]} : status'[k] = status[k]
<1>1. status \in [Creates -> Values] /\ JobOf[a] \in Creates
  BY JobsTyped, StartersHaveJobs DEF Jobs!Snapshots, Values
<1> QED BY <1>1 DEF Jobs!Snapshots, Values

LEMMA ScheduleKeeps ==
  ASSUME JobsInv, NEW a \in Jobs!Starters, Jobs!Schedule(a)
  PROVE  JobsInv'
<1>1. Jobs!TypeOK /\ a \in Jobs!Actors /\ JobOf[a] \in Creates /\ Active(a) /\ job[a] = "saving"
      /\ saved[a] = "yes"
  BY StartersHaveJobs DEF JobsInv, JobsBase, Jobs!Schedule, Active
<1>2. job \in [Jobs!Actors -> Places] /\ jobTask \in [Creates -> Jobs!Starters \cup {None}]
      /\ ending \in [Jobs!Starters -> Jobs!Final \cup {"none"}] /\ cut \subseteq Creates
  BY <1>1, JobsTyped
<1>3. /\ job' = [job EXCEPT ![a] = "queued"] /\ jobTask' = [jobTask EXCEPT ![JobOf[a]] = a]
      /\ UNCHANGED <<snapshot, saved, writes, stale, store, loaded, status, unsaved, ending, hit,
                     cut>>
  BY DEF Jobs!Schedule, Jobs!Go, Jobs!store
<1>4. jobTask' \in [Creates -> Jobs!Starters \cup {None}] /\ jobTask'[JobOf[a]] = a
      /\ job'[a] = "queued" /\ \A k \in Creates \ {JobOf[a]} : jobTask'[k] = jobTask[k]
  BY <1>1, <1>2, <1>3
<1>5. ASSUME Patient PROVE AtWork(a)'
  <2>1. AtWork(a)
    BY <1>1, <1>5, AtWorkFacts
  <2> QED BY <2>1, <1>1, <1>3, <1>4 DEF AtWork
<1>6. "queued" \in Places \ {"new", "restored", "waiting", "marking"}
  BY DEF Places
<1> QED BY <1>1, <1>2, <1>3, <1>4, <1>5, <1>6, TaskGoesOn

LEMMA BeginKeepsJobs ==
  ASSUME JobsInv, NEW a \in Jobs!Starters, Jobs!Begin(a)
  PROVE  JobsInv'
<1>1. Jobs!TypeOK /\ a \in Jobs!Actors /\ JobOf[a] \in Creates /\ Active(a) /\ job[a] = "queued"
  BY StartersHaveJobs DEF JobsInv, JobsBase, Jobs!Begin, Jobs!Runs, Active
<1>2. job \in [Jobs!Actors -> Places] /\ ending \in [Jobs!Starters -> Jobs!Final \cup {"none"}]
      /\ cut \subseteq Creates
  BY <1>1, JobsTyped
<1>3. /\ job' = [job EXCEPT ![a] = "opening"] /\ status' = [status EXCEPT ![JobOf[a]] = "running"]
      /\ Jobs!Persist(a, status') /\ UNCHANGED <<loaded, jobTask, ending, hit, cut, unsaved>>
      /\ job'[a] = "opening"
  BY <1>1, <1>2 DEF Jobs!Begin, Jobs!Go, Jobs!Set
<1>4. status' \in Jobs!Snapshots /\ status'[JobOf[a]] = "running"
      /\ \A k \in Creates \ {JobOf[a]} : status'[k] = status[k]
  BY <1>1, <1>3, StatusTyped DEF Values, Jobs!Unfinished
<1>5. ASSUME Patient PROVE AtWork(a)' /\ status[JobOf[a]] \in Jobs!Unfinished
  <2>1. AtWork(a)
    BY <1>1, <1>5, AtWorkFacts
  <2> QED BY <2>1, <1>1, <1>3, <1>4 DEF AtWork
<1>6. "opening" \in WaitingPlaces \ {"restored"} /\ job[a] \notin WaitingPlaces
  BY <1>1 DEF WaitingPlaces
<1> QED BY <1>1, <1>2, <1>3, <1>4, <1>5, <1>6, TaskPersists

LEMMA SavedKeeps ==
  ASSUME JobsInv, NEW a \in Jobs!Starters, Jobs!Saved(a)
  PROVE  JobsInv'
<1>1. job[a] \in {"opening", "noting", "checking"}
  BY DEF Jobs!Saved, Jobs!After
<1>2. Jobs!TypeOK /\ a \in Jobs!Actors /\ Active(a) /\ saved[a] = "yes"
  BY <1>1, StartersHaveJobs DEF JobsInv, JobsBase, Jobs!Saved, Active
<1>3. job \in [Jobs!Actors -> Places] /\ ending \in [Jobs!Starters -> Jobs!Final \cup {"none"}]
      /\ cut \subseteq Creates /\ jobTask \in [Creates -> Jobs!Starters \cup {None}]
  BY <1>2, JobsTyped
<1>4. PICK p \in {"pulling", "running", "probing", "inspecting"} : job' = [job EXCEPT ![a] = p]
  <2>1. Jobs!After["opening"] = "pulling" /\ Jobs!After["noting"] = "running"
        /\ Jobs!After["checking"] = "probing"
    BY DEF Jobs!After
  <2>2. job' = [job EXCEPT ![a] = "inspecting"] \/ job' = [job EXCEPT ![a] = Jobs!After[job[a]]]
    BY DEF Jobs!Saved, Jobs!Go
  <2>3. ASSUME job' = [job EXCEPT ![a] = Jobs!After[job[a]]]
        PROVE  \E p \in {"pulling", "running", "probing", "inspecting"} :
                 job' = [job EXCEPT ![a] = p]
    <3>2. CASE job[a] = "opening"
      BY <2>3, <3>2, <2>1
    <3>3. CASE job[a] = "noting"
      BY <2>3, <3>3, <2>1
    <3>4. CASE job[a] = "checking"
      BY <2>3, <3>4, <2>1
    <3> QED BY <1>1, <3>2, <3>3, <3>4
  <2> QED BY <2>2, <2>3
<1>5. UNCHANGED <<loaded, status, jobTask, ending, hit, cut, snapshot, saved, writes, stale,
                  store, unsaved>>
  BY DEF Jobs!Saved, Jobs!memory, Jobs!store
<1>6. job'[a] = p
  BY <1>2, <1>3, <1>4
<1>7. ASSUME Patient PROVE AtWork(a)'
  <2>1. AtWork(a)
    BY <1>2, <1>7, AtWorkFacts
  <2> QED BY <2>1, <1>1, <1>5, <1>6 DEF AtWork
<1>8. p \in Places \ {"new", "restored", "waiting", "marking"} /\ p # "over"
  BY DEF Places
<1> QED BY <1>2, <1>3, <1>4, <1>5, <1>7, <1>8, TaskGoesOn

LEMMA CommandKeeps ==
  ASSUME JobsInv, NEW a \in Jobs!Starters, Jobs!Command(a)
  PROVE  JobsInv'
<1>1. Jobs!TypeOK /\ a \in Jobs!Actors /\ Active(a)
      /\ job[a] \in {"pulling", "running", "probing"}
      /\ job[a] \notin WaitingPlaces
  BY StartersHaveJobs DEF JobsInv, JobsBase, Jobs!Command, Active, WaitingPlaces
<1>2. job \in [Jobs!Actors -> Places] /\ ending \in [Jobs!Starters -> Jobs!Final \cup {"none"}]
      /\ cut \subseteq Creates /\ jobTask \in [Creates -> Jobs!Starters \cup {None}]
      /\ status \in Jobs!Snapshots
  BY <1>1, JobsTyped
<1>3. UNCHANGED <<loaded, status, jobTask, ending, hit, cut, unsaved>>
  BY DEF Jobs!Command, Jobs!memory
<1>4. ASSUME Patient, job'[a] \in {"noting", "checking", "inspecting"} PROVE AtWork(a)'
  <2>1. AtWork(a)
    BY <1>1, <1>4, AtWorkFacts
  <2> QED BY <2>1, <1>1, <1>3, <1>4 DEF AtWork
<1>5. CASE Jobs!Go(a, "inspecting") /\ UNCHANGED Jobs!store
  <2>1. job' = [job EXCEPT ![a] = "inspecting"]
        /\ UNCHANGED <<snapshot, saved, writes, stale, store>>
    BY <1>5 DEF Jobs!Go, Jobs!store
  <2>2. job'[a] = "inspecting"
    BY <2>1, <1>1, <1>2
  <2>3. "inspecting" \in Places \ {"new", "restored", "waiting", "marking"}
    BY DEF Places
  <2> QED BY <2>1, <2>2, <2>3, <1>1, <1>2, <1>3, <1>4, TaskGoesOn
<1>6. ASSUME NEW p \in {"noting", "checking"}, Jobs!Go(a, p), Jobs!Persist(a, status)
      PROVE  JobsInv'
  <2>1. job' = [job EXCEPT ![a] = p] /\ job'[a] = p
    BY <1>6, <1>1, <1>2 DEF Jobs!Go
  <2>2. status' \in Jobs!Snapshots /\ Jobs!Persist(a, status')
    BY <1>2, <1>3, <1>6
  <2>3. p \in WaitingPlaces \ {"restored"}
    BY DEF WaitingPlaces
  <2> HIDE DEF Jobs!Snapshots
  <2>4. \A k \in Creates \ {JobOf[a]} : status'[k] = status[k]
    BY <1>3
  <2>5. Patient => AtWork(a)'
    BY <2>1, <1>4
  <2>6. status'[JobOf[a]] \in Jobs!Unfinished => status[JobOf[a]] \in Jobs!Unfinished
    BY <1>3
  <2> QED BY <2>1, <2>2, <2>3, <2>4, <2>5, <2>6, <1>1, <1>2, <1>3, TaskPersists
<1> QED BY <1>1, <1>5, <1>6 DEF Jobs!Command

LEMMA CompleteKeeps ==
  ASSUME JobsInv, NEW a \in Jobs!Starters, Jobs!Complete(a)
  PROVE  JobsInv'
<1>1. Jobs!TypeOK /\ a \in Jobs!Actors /\ JobOf[a] \in Creates /\ Active(a)
      /\ job[a] = "inspecting"
  BY StartersHaveJobs DEF JobsInv, JobsBase, Jobs!Complete, Jobs!Runs, Active
<1>2. job \in [Jobs!Actors -> Places] /\ ending \in [Jobs!Starters -> Jobs!Final \cup {"none"}]
      /\ cut \subseteq Creates
  BY <1>1, JobsTyped
<1>3. /\ job' = [job EXCEPT ![a] = "closing"]
      /\ status' = [status EXCEPT ![JobOf[a]] = "completed"]
      /\ Jobs!Persist(a, status') /\ UNCHANGED <<loaded, jobTask, ending, hit, cut, unsaved>>
      /\ job'[a] = "closing"
  BY <1>1, <1>2 DEF Jobs!Complete, Jobs!Go, Jobs!Set
<1>4. status' \in Jobs!Snapshots /\ status'[JobOf[a]] = "completed"
      /\ \A k \in Creates \ {JobOf[a]} : status'[k] = status[k]
  BY <1>1, <1>3, StatusTyped DEF Values, Jobs!Final
<1>5. ASSUME Patient PROVE AtWork(a)'
  <2>1. AtWork(a)
    BY <1>1, <1>5, AtWorkFacts
  <2> QED BY <2>1, <1>1, <1>3, <1>4 DEF AtWork, Jobs!Final
<1>6. "closing" \in WaitingPlaces \ {"restored"} /\ job[a] \notin WaitingPlaces
      /\ "completed" \notin Jobs!Unfinished
  BY <1>1 DEF WaitingPlaces, Jobs!Unfinished
<1> QED BY <1>1, <1>2, <1>3, <1>4, <1>5, <1>6, TaskPersists

\* A failure or a cancellation is handled: the model is stopped, or the job has its end.
LEMMA HandleKeeps ==
  ASSUME JobsInv, NEW a \in Jobs!Starters, Jobs!InTry(a), NEW v \in {"failed", "cancelled"},
         Jobs!Handle(a, v), UNCHANGED <<loaded, jobTask, cut, unsaved>>, hit' \subseteq hit,
         Undisturbed => saved[a] # "no" \/ job[a] \notin WaitingPlaces
  PROVE  JobsInv'
<1>1. Jobs!TypeOK /\ a \in Jobs!Actors /\ JobOf[a] \in Creates /\ Active(a) /\ job[a] # "saving"
  BY StartersHaveJobs DEF JobsInv, JobsBase, Jobs!InTry, Active
<1>2. job \in [Jobs!Actors -> Places] /\ ending \in [Jobs!Starters -> Jobs!Final \cup {"none"}]
      /\ cut \subseteq Creates /\ jobTask \in [Creates -> Jobs!Starters \cup {None}]
  BY <1>1, JobsTyped
<1>3. ending' = [ending EXCEPT ![a] = v] /\ ending'[a] = v
      /\ ending' \in [Jobs!Starters -> Jobs!Final \cup {"none"}]
      /\ \A b \in Jobs!Starters \ {a} : ending'[b] = ending[b]
  BY <1>2 DEF Jobs!Handle, Jobs!Final
<1>4. CASE Jobs!Started(a)
  <2>1. job' = [job EXCEPT ![a] = "stopping"] /\ Jobs!Abandon(a) /\ status' = status
    BY <1>4 DEF Jobs!Handle, Jobs!Go
  <2>2. job'[a] = "stopping"
    BY <2>1, <1>1, <1>2
  <2>3. ASSUME Patient PROVE AtWork(a)'
    <3>1. AtWork(a)
      BY <1>1, <2>3, AtWorkFacts
    <3> QED BY <3>1, <2>1, <2>2, <1>1, <1>3 DEF AtWork
  <2>4. "stopping" \in Places \ {"new", "restored", "waiting", "marking"}
    BY DEF Places
  <2> QED BY <2>1, <2>3, <2>4, <1>1, <1>2, <1>3, TaskGoesOn
<1>5. CASE ~Jobs!Started(a)
  <2>1. job' = [job EXCEPT ![a] = "closing"] /\ status' = [status EXCEPT ![JobOf[a]] = v]
        /\ Jobs!Persist(a, status')
    BY <1>5 DEF Jobs!Handle, Jobs!Go, Jobs!Set
  <2>2. job'[a] = "closing"
    BY <2>1, <1>1, <1>2
  <2>3. v \in Values /\ v \in Jobs!Final /\ v # "interrupted" /\ v \notin Jobs!Unfinished
    BY DEF Values, Jobs!Final, Jobs!Unfinished
  <2>4. status' \in Jobs!Snapshots /\ status'[JobOf[a]] = v
        /\ \A k \in Creates \ {JobOf[a]} : status'[k] = status[k]
    BY <1>1, <2>1, <2>3, StatusTyped
  <2>5. ASSUME Patient PROVE AtWork(a)'
    <3>1. AtWork(a)
      BY <1>1, <2>5, AtWorkFacts
    <3> QED BY <3>1, <2>2, <2>3, <2>4, <1>1 DEF AtWork
  <2>6. "closing" \in WaitingPlaces \ {"restored"}
    BY DEF WaitingPlaces
  <2> QED BY <2>1, <2>3, <2>4, <2>5, <2>6, <1>1, <1>2, <1>3, TaskPersists
<1> QED BY <1>4, <1>5

LEMMA FailsKeepsJobs ==
  ASSUME JobsInv, NEW a \in Jobs!Starters, Jobs!Fails(a)
  PROVE  JobsInv'
<1>1. saved[a] # "no" \/ job[a] \notin WaitingPlaces
  BY DEF Jobs!Fails, WaitingPlaces
<1> QED BY <1>1, HandleKeeps DEF Jobs!Fails

LEMMA StopModelKeeps ==
  ASSUME JobsInv, NEW a \in Jobs!Starters, Jobs!StopModel(a)
  PROVE  JobsInv'
<1>1. Jobs!TypeOK /\ a \in Jobs!Actors /\ JobOf[a] \in Creates /\ Active(a) /\ job[a] = "stopping"
  BY StartersHaveJobs DEF JobsInv, JobsBase, Jobs!StopModel, Jobs!Runs, Active
<1>2. job \in [Jobs!Actors -> Places] /\ ending \in [Jobs!Starters -> Jobs!Final \cup {"none"}]
      /\ cut \subseteq Creates
  BY <1>1, JobsTyped
<1>3. /\ job' = [job EXCEPT ![a] = "closing"] /\ status' = [status EXCEPT ![JobOf[a]] = ending[a]]
      /\ Jobs!Persist(a, status') /\ UNCHANGED <<loaded, jobTask, ending, hit, cut, unsaved>>
      /\ job'[a] = "closing"
  BY <1>1, <1>2 DEF Jobs!StopModel, Jobs!Go, Jobs!Set
<1>4. status' \in Jobs!Snapshots /\ status'[JobOf[a]] = ending[a]
      /\ \A k \in Creates \ {JobOf[a]} : status'[k] = status[k]
  BY <1>1, <1>2, <1>3, StatusTyped DEF Values
<1>5. ASSUME Patient PROVE AtWork(a)'
  <2>1. AtWork(a)
    BY <1>1, <1>5, AtWorkFacts
  <2>2. ending[a] \in Jobs!Final /\ ending[a] # "interrupted"
    BY <2>1, <1>1 DEF AtWork, Jobs!Final
  <2> QED BY <2>1, <2>2, <1>1, <1>3, <1>4 DEF AtWork
<1>6. "closing" \in WaitingPlaces \ {"restored"} /\ job[a] \notin WaitingPlaces
  BY <1>1 DEF WaitingPlaces
<1>7. ending[a] \notin Jobs!Unfinished
  BY <1>2 DEF Jobs!Final, Jobs!Unfinished
<1> QED BY <1>1, <1>2, <1>3, <1>4, <1>5, <1>6, <1>7, TaskPersists

\* The finally saves once more.
LEMMA EndingKeeps ==
  ASSUME JobsInv, NEW a \in Jobs!Starters, Active(a), job[a] # "saving",
         job' = [job EXCEPT ![a] = "ending"], Jobs!Persist(a, status),
         UNCHANGED <<loaded, status, jobTask, ending, unsaved>>, hit' \subseteq hit,
         cut \subseteq cut', cut' \subseteq Creates,
         Undisturbed => saved[a] # "no" \/ job[a] \notin WaitingPlaces,
         job[a] # "closing" => JobOf[a] \in cut'
  PROVE  JobsInv'
<1>1. Jobs!TypeOK /\ a \in Jobs!Actors
  BY StartersHaveJobs DEF JobsInv, JobsBase
<1>2. job \in [Jobs!Actors -> Places] /\ ending \in [Jobs!Starters -> Jobs!Final \cup {"none"}]
      /\ status \in Jobs!Snapshots
  BY <1>1, JobsTyped
<1>3. job'[a] = "ending"
  BY <1>1, <1>2
<1>4. ASSUME Patient PROVE AtWork(a)'
  <2>1. AtWork(a)
    BY <1>1, <1>4, AtWorkFacts
  <2> QED BY <2>1, <1>3 DEF AtWork
<1>5. "ending" \in WaitingPlaces \ {"restored"}
  BY DEF WaitingPlaces
<1>6. Jobs!Persist(a, status') /\ status' \in Jobs!Snapshots
      /\ \A k \in Creates \ {JobOf[a]} : status'[k] = status[k]
  BY <1>2
<1>7. status'[JobOf[a]] \in Jobs!Unfinished => status[JobOf[a]] \in Jobs!Unfinished
  OBVIOUS
<1> HIDE DEF Jobs!Snapshots
<1> QED BY <1>1, <1>2, <1>4, <1>5, <1>6, <1>7, TaskPersists

LEMMA CloseKeepsJobs ==
  ASSUME JobsInv, NEW a \in Jobs!Starters, Jobs!Close(a)
  PROVE  JobsInv'
<1>1. Active(a) /\ job[a] = "closing" /\ saved[a] # "no"
  BY DEF Jobs!Close, Jobs!Runs, Active
<1>2. cut \subseteq Creates
  BY JobsTyped DEF JobsInv, JobsBase
<1> QED BY <1>1, <1>2, EndingKeeps DEF Jobs!Close, Jobs!Go, Jobs!memory

LEMMA EndKeepsJobs ==
  ASSUME JobsInv, NEW a \in Jobs!Starters, Jobs!End(a)
  PROVE  JobsInv'
<1>1. Jobs!TypeOK /\ a \in Jobs!Actors /\ JobOf[a] \in Creates /\ Active(a) /\ job[a] = "ending"
      /\ saved[a] # "no"
  BY StartersHaveJobs DEF JobsInv, JobsBase, Jobs!End, Jobs!Runs, Active
<1>2. job \in [Jobs!Actors -> Places] /\ ending \in [Jobs!Starters -> Jobs!Final \cup {"none"}]
      /\ cut \subseteq Creates /\ jobTask \in [Creates -> Jobs!Starters \cup {None}]
  BY <1>1, JobsTyped
<1>3. /\ job' = [job EXCEPT ![a] = "over"]
      /\ UNCHANGED <<loaded, status, ending, hit, cut, snapshot, saved, writes, stale, store,
                     unsaved>>
  BY DEF Jobs!End, Jobs!Go, Jobs!store
<1>4. jobTask' \in [Creates -> Jobs!Starters \cup {None}]
      /\ \A k \in Creates \ {JobOf[a]} : jobTask'[k] = jobTask[k]
  BY <1>1, <1>2 DEF Jobs!End
<1>5. ASSUME Patient, status[JobOf[a]] \in Jobs!Unfinished PROVE JobOf[a] \in cut'
  <2>1. AtWork(a)
    BY <1>1, <1>5, AtWorkFacts
  <2> QED BY <2>1, <1>1, <1>3, <1>5 DEF AtWork, Jobs!Final, Jobs!Unfinished
<1>6. "over" \in Places \ {"new", "restored", "waiting", "marking"}
  BY DEF Places
<1> QED BY <1>1, <1>2, <1>3, <1>4, <1>5, <1>6, TaskGoesOn

\* A task, or a request, that is cut short leaves its job as it is.
LEMMA CutKeeps ==
  ASSUME JobsInv, NEW a \in Jobs!Starters, Active(a), job' = [job EXCEPT ![a] = "over"],
         UNCHANGED <<snapshot, saved, writes, stale, store>> \/ Jobs!Abandon(a),
         UNCHANGED <<loaded, status, jobTask, ending, unsaved>>, hit' \subseteq hit,
         cut \subseteq cut', cut' \subseteq Creates,
         job[a] # "ending" => JobOf[a] \in cut',
         Undisturbed => saved[a] # "no" \/ job[a] \notin WaitingPlaces
  PROVE  JobsInv'
<1>1. Jobs!TypeOK /\ a \in Jobs!Actors
  BY StartersHaveJobs DEF JobsInv, JobsBase
<1>2. ending \in [Jobs!Starters -> Jobs!Final \cup {"none"}]
      /\ jobTask \in [Creates -> Jobs!Starters \cup {None}]
  BY <1>1, JobsTyped
<1>3. ASSUME Patient, status[JobOf[a]] \in Jobs!Unfinished PROVE JobOf[a] \in cut'
  <2>1. AtWork(a)
    BY <1>3, AtWorkFacts
  <2> QED BY <2>1, <1>3 DEF AtWork, Jobs!Final, Jobs!Unfinished
<1>4. "over" \in Places \ {"new", "restored", "waiting", "marking"}
  BY DEF Places
<1> QED BY <1>2, <1>3, <1>4, TaskGoesOn

LEMMA OpeningFailsKeeps ==
  ASSUME JobsInv, NEW a \in Jobs!Starters, Jobs!OpeningFails(a)
  PROVE  JobsInv'
<1>1. Active(a) /\ job[a] = "opening" /\ saved[a] = "failed" /\ JobOf[a] \in Creates
  BY StartersHaveJobs DEF Jobs!OpeningFails, Jobs!Runs, Active
<1>2. cut \subseteq Creates
  BY JobsTyped DEF JobsInv, JobsBase
<1>3. /\ job' = [job EXCEPT ![a] = "over"] /\ cut' = cut \cup {JobOf[a]}
      /\ UNCHANGED <<snapshot, saved, writes, stale, store, loaded, status, jobTask, ending,
                     unsaved, hit>>
  BY DEF Jobs!OpeningFails, Jobs!Go, Jobs!memory, Jobs!store
<1> QED BY <1>1, <1>2, <1>3, CutKeeps

LEMMA ReachKeeps ==
  ASSUME JobsInv, NEW a \in Jobs!Starters, Jobs!Reach(a)
  PROVE  JobsInv'
<1>1. ~Undisturbed
  BY DEF JobsInv, Filed, Jobs!Reach
<1>2. cut \subseteq Creates /\ JobOf[a] \in Creates
  BY JobsTyped, StartersHaveJobs DEF JobsInv, JobsBase
<1>3. hit' \subseteq hit /\ UNCHANGED <<loaded, jobTask, unsaved>>
  BY DEF Jobs!Reach
<1>4. CASE Jobs!CutShort(a)
  BY <1>1, <1>2, <1>3, <1>4, CutKeeps DEF Jobs!CutShort, Jobs!Go, Active
<1>5. CASE Jobs!CutAgain(a)
  BY <1>1, <1>2, <1>3, <1>5, EndingKeeps DEF Jobs!CutAgain, Jobs!Go, Active
<1>6. CASE Jobs!InTry(a) /\ Jobs!Handle(a, "cancelled") /\ UNCHANGED cut
  BY <1>1, <1>3, <1>6, HandleKeeps
<1> QED BY <1>4, <1>5, <1>6 DEF Jobs!Reach

\* What the threads do: nothing but the file, and who waits for it.
LEMMA ThreadsKeep ==
  ASSUME JobsInv, Jobs!TypeOK', UNCHANGED <<job, loaded, status, jobTask, ending, cut, hit>>,
         loaded = TRUE, Traces, Filed'
  PROVE  JobsInv'
<1>1. FreshJobs'
  <2>1. \A j \in Creates : Jobs!NotBegun(j)' => Jobs!NotBegun(j) /\ status'[j] = "none"
    BY DEF Jobs!NotBegun, JobsInv, JobsBase, FreshJobs, NoneYet
  <2> QED BY <2>1, FreshKept DEF JobsInv, JobsBase
<1>2. UnloadedJobs' /\ JobRoles' /\ NamedJobs'
  BY DEF JobsInv, JobsBase, UnloadedJobs, JobRoles, NamedJobs, Active, Jobs!NotBegun
<1>3. Works' /\ Jobs!OneJobPerKind'
  <2>1. \A b \in Jobs!Starters : (Active(b) <=> Active(b)') /\ (Active(b) => job'[b] = job[b])
    BY DEF Active
  <2>2. \A b \in Retries : Jobs!NotBegun(b)' => Jobs!NotBegun(b)
    BY DEF Jobs!NotBegun
  <2>3. Jobs!TypeOK /\ Works /\ Jobs!OneJobPerKind
    BY DEF JobsInv, JobsBase
  <2>4. \A k \in Creates : status'[k] = status[k]
    OBVIOUS
  <2> QED BY <2>1, <2>2, <2>3, <2>4, WorkStays
<1> QED BY <1>1, <1>2, <1>3 DEF JobsInv, JobsBase

LEMMA HeadIsFirst ==
  ASSUME Jobs!TypeOK, writes # <<>>
  PROVE  /\ Head(writes) \in Jobs!Actors /\ Head(writes) = writes[1] /\ 1 \in 1..Len(writes)
         /\ Tail(writes) \in Seq(Jobs!Actors) /\ Len(Tail(writes)) = Len(writes) - 1
         /\ \A n \in 1..Len(Tail(writes)) : n + 1 \in 1..Len(writes)
              /\ n + 1 # 1 /\ Tail(writes)[n] = writes[n + 1]
<1>1. writes \in Seq(Jobs!Actors)
  BY DEF Jobs!TypeOK
<1>2. Len(writes) \in Nat /\ Len(writes) # 0
  BY <1>1
<1>3. Tail(writes) \in Seq(Jobs!Actors) /\ Len(Tail(writes)) = Len(writes) - 1
      /\ \A n \in 1..Len(Tail(writes)) : Tail(writes)[n] = writes[n + 1]
  BY <1>1
<1>4. 1 \in 1..Len(writes) /\ \A n \in 1..(Len(writes) - 1) : n + 1 \in 1..Len(writes)
        /\ n + 1 # 1
  BY <1>2
<1>5. Head(writes) = writes[1] /\ Head(writes) \in Jobs!Actors
  BY <1>1
<1> QED BY <1>3, <1>4, <1>5

LEMMA SameMemory ==
  ASSUME Jobs!TypeOK, UNCHANGED <<job, loaded, status, jobTask, ending, cut, hit>>,
         snapshot' = snapshot, saved' \in [Jobs!Actors -> {"no", "yes", "failed"}],
         writes' \in Seq(Jobs!Actors), stale' \subseteq stale, store' \in Jobs!Snapshots,
         unsaved' \in [faults : 0..MaxFaults, crashes : 0..MaxCrashes]
  PROVE  Jobs!TypeOK'
<1> HIDE DEF Jobs!Snapshots
<1>1. /\ loaded' \in BOOLEAN /\ status' \in Jobs!Snapshots
      /\ jobTask' \in [Creates -> Jobs!Starters \cup {None}] /\ job' \in [Jobs!Actors -> Places]
      /\ ending' \in [Jobs!Starters -> Jobs!Final \cup {"none"}]
      /\ hit' \subseteq Jobs!Starters /\ cut' \subseteq Creates
      /\ snapshot' \in [Jobs!Actors -> Jobs!Snapshots] /\ stale' \subseteq Jobs!Snapshots
  BY JobsTyped
<1> QED BY <1>1 DEF Jobs!TypeOK, Places

LEMMA WriteKeeps ==
  ASSUME JobsInv, Jobs!Write
  PROVE  JobsInv'
<1>1. Jobs!TypeOK /\ writes # <<>>
  BY DEF JobsInv, JobsBase, Jobs!Write
<1>2. Head(writes) \in Jobs!Actors /\ writes \in Seq(Jobs!Actors) /\ Head(writes) = writes[1]
  BY <1>1, HeadIsFirst, JobsTyped
<1>3. /\ store' = snapshot[Head(writes)] /\ saved' = [saved EXCEPT ![Head(writes)] = "yes"]
      /\ writes' = Tail(writes)
      /\ UNCHANGED <<job, loaded, status, jobTask, ending, cut, hit, snapshot, stale, unsaved>>
  BY DEF Jobs!Write, Jobs!memory
<1>4. saved \in [Jobs!Actors -> {"no", "yes", "failed"}]
      /\ snapshot \in [Jobs!Actors -> Jobs!Snapshots]
      /\ unsaved \in [faults : 0..MaxFaults, crashes : 0..MaxCrashes]
  BY <1>1, JobsTyped
<1>5. loaded = TRUE
  BY <1>1 DEF JobsInv, JobsBase, UnloadedJobs, Jobs!TypeOK
<1>6. Jobs!TypeOK'
  <2>1. store' \in Jobs!Snapshots /\ saved' \in [Jobs!Actors -> {"no", "yes", "failed"}]
        /\ writes' \in Seq(Jobs!Actors)
    BY <1>1, <1>2, <1>3, <1>4, HeadIsFirst
  <2> QED BY <2>1, <1>1, <1>3, <1>4, SameMemory
<1>7. Traces
  BY <1>2, <1>3 DEF Traces
<1>8. Filed'
  <2> SUFFICES ASSUME Undisturbed'
               PROVE  /\ hit' = {} /\ stale' = {} /\ Queued'
                      /\ \A b \in Jobs!Actors : saved'[b] # "failed"
                      /\ Latest'
    BY DEF Filed
  <2>1. Undisturbed
    BY <1>3 DEF Undisturbed, Jobs!NotBegun
  <2>2. hit = {} /\ stale = {} /\ Queued /\ (\A b \in Jobs!Actors : saved[b] # "failed") /\ Latest
    BY <2>1, <1>5 DEF JobsInv, Filed
  <2>3. \A n \in 1..Len(writes') : n + 1 \in 1..Len(writes) /\ n + 1 # 1
          /\ writes'[n] = writes[n + 1] /\ writes[n + 1] \in Jobs!Actors
    BY <1>1, <1>2, <1>3, HeadIsFirst
  <2>4. Queued'
    <3>1. ASSUME NEW m \in 1..Len(writes'), NEW n \in 1..Len(writes'), writes'[m] = writes'[n]
          PROVE  m = n
      <4>1. m + 1 = n + 1
        <5>1. writes[m + 1] = writes[n + 1] /\ m + 1 \in 1..Len(writes)
              /\ n + 1 \in 1..Len(writes)
          BY <2>3, <3>1
        <5>2. \A k, l \in 1..Len(writes) : writes[k] = writes[l] => k = l
          BY <2>2 DEF Queued
        <5> QED BY <5>1, <5>2
      <4>2. \A k, l \in Int : k + 1 = l + 1 => k = l
        OBVIOUS
      <4> QED BY <4>1, <4>2
    <3>2. ASSUME NEW n \in 1..Len(writes')
          PROVE  saved'[writes'[n]] = "no" /\ job'[writes'[n]] \in WaitingPlaces
      <4>1. writes[n + 1] # writes[1] /\ 1 \in 1..Len(writes)
        BY <1>1, <2>2, <2>3, HeadIsFirst DEF Queued
      <4>2. saved'[writes[n + 1]] = saved[writes[n + 1]] /\ job' = job
        BY <4>1, <1>2, <1>3, <1>4, <2>3
      <4> QED BY <4>2, <2>2, <2>3 DEF Queued
    <3> QED BY <3>1, <3>2 DEF Queued
  <2>5. Latest'
    <3>1. Len(writes) \in Nat /\ Len(writes) # 0 /\ Len(writes') = Len(writes) - 1
          /\ writes' \in Seq(Jobs!Actors)
      BY <1>1, <1>2, <1>3, HeadIsFirst
    <3>2. snapshot[writes[Len(writes)]] = status
      BY <1>1, <2>2 DEF Latest
    <3>3. CASE writes' = <<>>
      <4>1. Len(writes') = 0
        BY <3>3
      <4>2. Len(writes) = 1
        BY <3>1, <4>1
      <4> QED BY <3>2, <3>3, <4>2, <1>2, <1>3 DEF Latest
    <3>4. CASE writes' # <<>>
      <4>1. Len(writes') \in 1..Len(writes')
        BY <3>1, <3>4
      <4>2. Len(writes') + 1 = Len(writes)
        BY <3>1
      <4>3. writes'[Len(writes')] = writes[Len(writes)]
        BY <4>1, <4>2, <2>3
      <4> QED BY <4>3, <3>2, <3>4, <1>3 DEF Latest
    <3> QED BY <3>3, <3>4
  <2>6. \A b \in Jobs!Actors : saved'[b] # "failed"
    BY <2>2, <1>2, <1>3, <1>4
  <2> QED BY <2>2, <2>4, <2>5, <2>6, <1>3
<1> QED BY <1>3, <1>5, <1>6, <1>7, <1>8, ThreadsKeep

LEMMA WriteFailsKeeps ==
  ASSUME JobsInv, Jobs!WriteFails
  PROVE  JobsInv'
<1>1. Jobs!TypeOK /\ writes # <<>>
  BY DEF JobsInv, JobsBase, Jobs!WriteFails
<1>2. Head(writes) \in Jobs!Actors /\ Tail(writes) \in Seq(Jobs!Actors)
  BY <1>1, HeadIsFirst
<1>3. /\ saved' = [saved EXCEPT ![Head(writes)] = "failed"] /\ writes' = Tail(writes)
      /\ unsaved' = [unsaved EXCEPT !.faults = @ + 1] /\ unsaved.faults < MaxFaults
      /\ UNCHANGED <<job, loaded, status, jobTask, ending, cut, hit, snapshot, stale, store>>
  BY DEF Jobs!WriteFails, Jobs!memory
<1>4. saved \in [Jobs!Actors -> {"no", "yes", "failed"}] /\ store \in Jobs!Snapshots
      /\ unsaved \in [faults : 0..MaxFaults, crashes : 0..MaxCrashes]
  BY <1>1, JobsTyped
<1>5. loaded = TRUE
  BY <1>1 DEF JobsInv, JobsBase, UnloadedJobs, Jobs!TypeOK
<1>6. unsaved' \in [faults : 0..MaxFaults, crashes : 0..MaxCrashes] /\ unsaved'.faults # 0
  <2>1. unsaved'.faults = unsaved.faults + 1 /\ unsaved'.crashes = unsaved.crashes
        /\ unsaved' = [faults |-> unsaved.faults + 1, crashes |-> unsaved.crashes]
    BY <1>3, <1>4
  <2>2. unsaved.faults \in 0..MaxFaults /\ unsaved.crashes \in 0..MaxCrashes
    BY <1>4
  <2>3. unsaved.faults + 1 \in 0..MaxFaults /\ unsaved.faults + 1 # 0
    BY <2>2, <1>3, JobConstants
  <2> QED BY <2>1, <2>2, <2>3
<1>7. Jobs!TypeOK'
  <2>1. store' \in Jobs!Snapshots /\ saved' \in [Jobs!Actors -> {"no", "yes", "failed"}]
        /\ writes' \in Seq(Jobs!Actors)
    BY <1>2, <1>3, <1>4
  <2> QED BY <2>1, <1>1, <1>3, <1>6, SameMemory
<1>8. Traces
  BY <1>3 DEF Traces
<1>9. Filed'
  BY <1>6 DEF Filed, Undisturbed
<1> QED BY <1>3, <1>5, <1>7, <1>8, <1>9, ThreadsKeep

LEMMA WriteStaleKeeps ==
  ASSUME JobsInv, NEW values \in stale, Jobs!WriteStale(values)
  PROVE  JobsInv'
<1>1. Jobs!TypeOK /\ values \in Jobs!Snapshots
  BY DEF JobsInv, JobsBase, Jobs!TypeOK
<1>2. /\ store' = values /\ stale' \subseteq stale
      /\ UNCHANGED <<job, loaded, status, jobTask, ending, cut, hit, snapshot, saved, writes,
                     unsaved>>
  BY DEF Jobs!WriteStale, Jobs!memory
<1>3. loaded = TRUE
  BY <1>1 DEF JobsInv, JobsBase, UnloadedJobs, Jobs!TypeOK
<1>4. Jobs!TypeOK'
  <2>1. saved' \in [Jobs!Actors -> {"no", "yes", "failed"}] /\ writes' \in Seq(Jobs!Actors)
        /\ unsaved' \in [faults : 0..MaxFaults, crashes : 0..MaxCrashes]
    BY <1>1, <1>2, JobsTyped
  <2> QED BY <2>1, <1>1, <1>2, SameMemory
<1>5. Traces
  BY <1>2 DEF Traces
<1>6. Filed'
  <2>1. ~Undisturbed
    BY DEF JobsInv, Filed
  <2> QED BY <2>1, <1>2 DEF Filed, Undisturbed, Jobs!NotBegun
<1> QED BY <1>2, <1>3, <1>4, <1>5, <1>6, ThreadsKeep

LEMMA IsLoaded ==
  ASSUME JobsInv, NEW a \in Jobs!Actors, job[a] \notin {"new", "over"} \/ Jobs!Ready(a)
  PROVE  loaded = TRUE
BY DEF JobsInv, JobsBase, UnloadedJobs, Jobs!Ready, Jobs!TypeOK

LEMMA RestoreKeeps ==
  ASSUME JobsInv, NEW a \in Jobs!Actors, Jobs!Restore(a)
  PROVE  JobsInv'
<1>1. Jobs!TypeOK /\ loaded = FALSE /\ job[a] = "new"
  BY DEF JobsInv, JobsBase, Jobs!Restore, Jobs!TypeOK
<1>2. /\ job \in [Jobs!Actors -> Places] /\ jobTask \in [Creates -> Jobs!Starters \cup {None}]
      /\ ending \in [Jobs!Starters -> Jobs!Final \cup {"none"}]
      /\ hit \subseteq Jobs!Starters /\ cut \subseteq Creates
      /\ unsaved \in [faults : 0..MaxFaults, crashes : 0..MaxCrashes]
      /\ snapshot \in [Jobs!Actors -> Jobs!Snapshots]
      /\ saved \in [Jobs!Actors -> {"no", "yes", "failed"}]
      /\ writes \in Seq(Jobs!Actors) /\ stale \subseteq Jobs!Snapshots /\ store \in Jobs!Snapshots
  BY <1>1, JobsTyped
<1>3. /\ \A b \in Jobs!Actors : job[b] \in {"new", "over"}
      /\ writes = <<>> /\ stale = {} /\ hit = {}
  BY <1>1 DEF JobsInv, JobsBase, UnloadedJobs
<1>4. /\ job' = [job EXCEPT ![a] = "restored"] /\ loaded' = TRUE /\ status' = Jobs!Restored
      /\ UNCHANGED <<jobTask, ending, hit, cut, unsaved>>
  BY DEF Jobs!Restore, Jobs!Go
<1>5. job' \in [Jobs!Actors -> Places] /\ job'[a] = "restored"
        /\ \A b \in Jobs!Actors \ {a} : job'[b] = job[b]
  BY <1>1, <1>2, <1>4, JobMoved DEF Places
<1>6. status' \in Jobs!Snapshots /\ \A j \in Creates : status'[j] \notin Jobs!Unfinished
                               /\ (store[j] = "none" => status'[j] = "none")
  BY <1>2, <1>4 DEF Jobs!Restored, Jobs!Snapshots, Jobs!Final, Jobs!Unfinished
<1>7. /\ snapshot' \in [Jobs!Actors -> Jobs!Snapshots]
      /\ saved' \in [Jobs!Actors -> {"no", "yes", "failed"}]
      /\ writes' \in Seq(Jobs!Actors) /\ stale' \subseteq Jobs!Snapshots
      /\ store' \in Jobs!Snapshots
      /\ Traces /\ Filed'
  <2>1. CASE Jobs!Restored # store
    <3>1. Jobs!Persist(a, status')
      BY <1>4, <2>1 DEF Jobs!Restore
    <3>2. /\ snapshot' \in [Jobs!Actors -> Jobs!Snapshots]
          /\ saved' \in [Jobs!Actors -> {"no", "yes", "failed"}]
          /\ writes' \in Seq(Jobs!Actors) /\ stale' \subseteq Jobs!Snapshots
          /\ store' \in Jobs!Snapshots
      BY <1>1, <1>2, <1>6, <3>1, Persists
    <3>3. Traces
      BY <1>1, <1>6, <3>1, PersistTraces
    <3>4. Undisturbed' => Undisturbed
      BY <1>1, <1>4, CalmBefore DEF Jobs!NotBegun, Places
    <3>5. Filed'
      <4>1. "restored" \in WaitingPlaces /\ job[a] \notin WaitingPlaces
        BY <1>1 DEF WaitingPlaces
      <4> QED BY <4>1, <1>1, <1>4, <1>6, <3>1, <3>4, FiledPersist DEF JobsInv
    <3> QED BY <3>2, <3>3, <3>5
  <2>2. CASE Jobs!Restored = store
    <3>1. saved' = [saved EXCEPT ![a] = "yes"] /\ UNCHANGED <<snapshot, writes, stale, store>>
      BY <2>2 DEF Jobs!Restore
    <3>2. saved' \in [Jobs!Actors -> {"no", "yes", "failed"}]
      BY <1>2, <3>1
    <3>3. Traces
      BY <3>1 DEF Traces
    <3>4. Filed'
      <4>1. Undisturbed' => Undisturbed
        BY <1>1, <1>4, CalmBefore DEF Jobs!NotBegun, Places
      <4>2. Undisturbed => \A b \in Jobs!Actors : saved[b] # "failed"
        BY DEF JobsInv, Filed
      <4>3. Undisturbed' => \A b \in Jobs!Actors : saved'[b] # "failed"
        BY <4>1, <4>2, <3>1, <1>2
      <4>4. hit' = {} /\ stale' = {} /\ writes' = <<>> /\ store' = status'
        BY <1>3, <1>4, <2>2, <3>1
      <4>5. Queued' /\ Latest'
        BY <4>4 DEF Queued, Latest
      <4> QED BY <4>3, <4>4, <4>5 DEF Filed
    <3> QED BY <3>1, <3>2, <3>3, <3>4, <1>2
  <2> QED BY <2>1, <2>2
<1>9. Jobs!TypeOK'
  <2> HIDE DEF Jobs!Snapshots
  <2>1. /\ snapshot' \in [Jobs!Actors -> Jobs!Snapshots]
        /\ saved' \in [Jobs!Actors -> {"no", "yes", "failed"}]
        /\ writes' \in Seq(Jobs!Actors) /\ stale' \subseteq Jobs!Snapshots
        /\ store' \in Jobs!Snapshots
    BY <1>7
  <2>2. /\ loaded' \in BOOLEAN /\ jobTask' \in [Creates -> Jobs!Starters \cup {None}]
        /\ ending' \in [Jobs!Starters -> Jobs!Final \cup {"none"}]
        /\ hit' \subseteq Jobs!Starters /\ cut' \subseteq Creates
        /\ unsaved' \in [faults : 0..MaxFaults, crashes : 0..MaxCrashes]
    BY <1>2, <1>4
  <2> QED BY <2>1, <2>2, <1>5, <1>6 DEF Jobs!TypeOK, Places
<1>10. FreshJobs'
  <2>1. ASSUME NEW j \in Creates, Jobs!NotBegun(j)'
        PROVE  Jobs!NotBegun(j) /\ status'[j] = "none"
    <3>1. Jobs!NotBegun(j)
      BY <2>1, <1>1, <1>5, JobConstants DEF Jobs!NotBegun
    <3> QED BY <3>1, <1>6 DEF JobsInv, JobsBase, FreshJobs, NoneYet
  <2> QED BY <2>1, <1>7, FreshKept DEF JobsInv, JobsBase
<1>11. \A b \in Jobs!Starters : ~Active(b)'
  BY <1>3, <1>5, JobConstants DEF Active
<1>12. UnloadedJobs' /\ JobRoles' /\ NamedJobs'
  <2>1. \A b \in Jobs!Actors : job'[b] \in {"new", "over", "restored"}
    BY <1>3, <1>5
  <2> QED BY <2>1, <1>4, <1>11, JobConstants DEF UnloadedJobs, JobRoles, NamedJobs
<1>13. Works' /\ Jobs!OneJobPerKind'
  BY <1>6, <1>11 DEF Works, Worked, Jobs!OneJobPerKind
<1>14. Filed'
  BY <1>7
<1> QED BY <1>9, <1>10, <1>12, <1>13, <1>14 DEF JobsInv, JobsBase

LEMMA UnreadableKeeps ==
  ASSUME JobsInv, NEW a \in Jobs!Actors, Jobs!Unreadable(a)
  PROVE  JobsInv'
<1>1. Jobs!TypeOK /\ loaded = FALSE /\ job[a] = "new"
  BY DEF JobsInv, JobsBase, Jobs!Unreadable, Jobs!TypeOK
<1>2. /\ job \in [Jobs!Actors -> Places] /\ saved \in [Jobs!Actors -> {"no", "yes", "failed"}]
      /\ unsaved \in [faults : 0..MaxFaults, crashes : 0..MaxCrashes]
  BY <1>1, JobsTyped
<1>3. /\ \A b \in Jobs!Actors : job[b] \in {"new", "over"}
      /\ writes = <<>> /\ stale = {} /\ hit = {} /\ status = Jobs!NoJobs
  BY <1>1 DEF JobsInv, JobsBase, UnloadedJobs
<1>4. /\ job' = [job EXCEPT ![a] = "restored"] /\ loaded' = TRUE /\ status' = status
      /\ saved' = [saved EXCEPT ![a] = "yes"]
      /\ unsaved' = [unsaved EXCEPT !.faults = @ + 1] /\ unsaved.faults < MaxFaults
      /\ UNCHANGED <<jobTask, ending, hit, cut, snapshot, writes, stale, store>>
  BY <1>3 DEF Jobs!Unreadable, Jobs!Go
<1>5. job' \in [Jobs!Actors -> Places] /\ job'[a] = "restored"
        /\ \A b \in Jobs!Actors \ {a} : job'[b] = job[b]
  BY <1>1, <1>2, <1>4, JobMoved DEF Places
<1>6. unsaved' \in [faults : 0..MaxFaults, crashes : 0..MaxCrashes] /\ unsaved'.faults # 0
  <2>1. unsaved'.faults = unsaved.faults + 1 /\ unsaved'.crashes = unsaved.crashes
        /\ unsaved' = [faults |-> unsaved.faults + 1, crashes |-> unsaved.crashes]
    BY <1>2, <1>4
  <2>2. unsaved.faults \in 0..MaxFaults /\ unsaved.crashes \in 0..MaxCrashes
    BY <1>2
  <2>3. unsaved.faults + 1 \in 0..MaxFaults /\ unsaved.faults + 1 # 0
    BY <2>2, <1>4, JobConstants
  <2> QED BY <2>1, <2>2, <2>3
<1>7. Jobs!TypeOK'
  <2> HIDE DEF Jobs!Snapshots
  <2>1. saved' \in [Jobs!Actors -> {"no", "yes", "failed"}]
    BY <1>2, <1>4
  <2> QED BY <2>1, <1>1, <1>4, <1>5, <1>6 DEF Jobs!TypeOK, Places
<1>8. FreshJobs'
  <2>1. ASSUME NEW j \in Creates, Jobs!NotBegun(j)' PROVE NoneYet(j)'
    <3>1. Jobs!NotBegun(j)
      BY <2>1, <1>1, <1>5, JobConstants DEF Jobs!NotBegun
    <3>2. NoneYet(j)
      BY <3>1 DEF JobsInv, JobsBase, FreshJobs
    <3> QED BY <3>2, <1>4 DEF NoneYet
  <2> QED BY <2>1 DEF FreshJobs
<1>9. \A b \in Jobs!Starters : ~Active(b)'
  BY <1>3, <1>5, JobConstants DEF Active
<1>10. UnloadedJobs' /\ JobRoles' /\ NamedJobs'
  <2>1. \A b \in Jobs!Actors : job'[b] \in {"new", "over", "restored"}
    BY <1>3, <1>5
  <2> QED BY <2>1, <1>4, <1>9, JobConstants DEF UnloadedJobs, JobRoles, NamedJobs
<1>11. \A j \in Creates : status'[j] \notin Jobs!Unfinished
  BY <1>3, <1>4 DEF Jobs!NoJobs, Jobs!Unfinished
<1>12. Works' /\ Jobs!OneJobPerKind'
  BY <1>9, <1>11 DEF Works, Worked, Jobs!OneJobPerKind
<1>13. Filed'
  BY <1>6 DEF Filed, Undisturbed
<1> QED BY <1>7, <1>8, <1>10, <1>12, <1>13 DEF JobsInv, JobsBase

\* A request that makes or retries a job nobody works on.
LEMMA StarterBegins ==
  ASSUME JobsInv, NEW a \in Jobs!Starters, Jobs!Ready(a), job' = [job EXCEPT ![a] = "saving"],
         Jobs!Set(a, "queued"), UNCHANGED <<loaded, jobTask, ending, hit, cut, unsaved>>,
         Patient => \A b \in Jobs!Starters : JobOf[b] = JobOf[a] => ~Active(b),
         JobOf[a] # a => ~Jobs!NotBegun(JobOf[a]),
         Jobs!OneJobPerKind'
  PROVE  JobsInv'
<1>1. Jobs!TypeOK /\ a \in Jobs!Actors /\ JobOf[a] \in Creates /\ JobOf[a] \in Jobs!Actors
      /\ loaded = TRUE
      /\ a \notin Cancels
  BY StartersHaveJobs, IsLoaded DEF JobsInv, JobsBase
<1>2. /\ job \in [Jobs!Actors -> Places] /\ jobTask \in [Creates -> Jobs!Starters \cup {None}]
      /\ ending \in [Jobs!Starters -> Jobs!Final \cup {"none"}]
      /\ hit \subseteq Jobs!Starters /\ cut \subseteq Creates
      /\ unsaved \in [faults : 0..MaxFaults, crashes : 0..MaxCrashes]
  BY <1>1, JobsTyped
<1>3. job' \in [Jobs!Actors -> Places] /\ job'[a] = "saving"
        /\ \A b \in Jobs!Actors \ {a} : job'[b] = job[b]
  BY <1>1, <1>2, JobMoved DEF Places
<1>4. status' = [status EXCEPT ![JobOf[a]] = "queued"] /\ Jobs!Persist(a, status')
  BY DEF Jobs!Set
<1>5. status' \in Jobs!Snapshots /\ status'[JobOf[a]] = "queued"
      /\ \A k \in Creates \ {JobOf[a]} : status'[k] = status[k]
  BY <1>1, <1>4, StatusTyped DEF Values, Jobs!Unfinished
<1>6. Jobs!TypeOK'
  <2>1. /\ snapshot' \in [Jobs!Actors -> Jobs!Snapshots]
        /\ saved' \in [Jobs!Actors -> {"no", "yes", "failed"}]
        /\ writes' \in Seq(Jobs!Actors) /\ stale' \subseteq Jobs!Snapshots /\ store' = store
    BY <1>1, <1>4, <1>5, Persists
  <2> HIDE DEF Jobs!Snapshots
  <2>2. /\ loaded' \in BOOLEAN /\ jobTask' \in [Creates -> Jobs!Starters \cup {None}]
        /\ ending' \in [Jobs!Starters -> Jobs!Final \cup {"none"}] /\ store' \in Jobs!Snapshots
        /\ hit' \subseteq Jobs!Starters /\ cut' \subseteq Creates
        /\ unsaved' \in [faults : 0..MaxFaults, crashes : 0..MaxCrashes]
    BY <1>1, <1>2, <2>1, JobsTyped
  <2> QED BY <2>1, <2>2, <1>3, <1>5 DEF Jobs!TypeOK, Places
<1>7. Traces
  BY <1>1, <1>4, <1>5, PersistTraces
<1>8. ~Jobs!NotBegun(JobOf[a])'
  BY <1>1, <1>3 DEF Jobs!NotBegun
<1>9. \A b \in Jobs!Actors : Jobs!NotBegun(b)' => Jobs!NotBegun(b)
  BY <1>3 DEF Jobs!NotBegun
<1>10. FreshJobs'
  <2>1. ASSUME NEW j \in Creates, Jobs!NotBegun(j)'
        PROVE  Jobs!NotBegun(j) /\ status'[j] = "none"
    <3>1. Jobs!NotBegun(j) /\ j # JobOf[a]
      BY <2>1, <1>8, <1>9, JobConstants
    <3> QED BY <3>1, <1>5 DEF JobsInv, JobsBase, FreshJobs, NoneYet
  <2> QED BY <2>1, <1>7, FreshKept DEF JobsInv, JobsBase
<1>11. UnloadedJobs'
  BY <1>1 DEF UnloadedJobs
<1>12. JobRoles'
  BY <1>1, <1>3, JobConstants DEF JobsInv, JobsBase, JobRoles
<1>13. \A b \in Jobs!Starters \ {a} : (Active(b)' <=> Active(b)) /\ job'[b] = job[b]
  BY <1>3, JobConstants DEF Active
<1>14. NamedJobs'
  BY <1>8, <1>9, <1>13, StartersHaveJobs DEF JobsInv, JobsBase, NamedJobs
<1>15. Works'
  <2> SUFFICES ASSUME Patient
               PROVE  /\ \A b \in Jobs!Starters : Active(b)' => AtWork(b)' /\ Alone(b)'
                      /\ \A j \in Creates : Worked(j)'
    BY DEF Works
  <2>1. AtWork(a)'
    BY <1>3, <1>5 DEF AtWork, Jobs!Unfinished
  <2>2. Alone(a)'
    BY <1>13 DEF Alone
  <2>3. ASSUME NEW b \in Jobs!Starters \ {a}, Active(b)' PROVE AtWork(b)' /\ Alone(b)'
    <3>1. Active(b) /\ AtWork(b) /\ Alone(b)
      BY <2>3, <1>13 DEF JobsInv, Works
    <3>2. JobOf[b] # JobOf[a] /\ JobOf[b] \in Creates
      BY <3>1, StartersHaveJobs
    <3>3. status'[JobOf[b]] = status[JobOf[b]] /\ job'[b] = job[b]
      BY <3>2, <1>5, <1>13
    <3>4. AtWork(b)'
      BY <3>1, <3>3 DEF AtWork
    <3> QED BY <3>1, <3>2, <3>4, <1>13 DEF Alone
  <2>4. ASSUME NEW j \in Creates PROVE Worked(j)'
    <3>1. CASE j = JobOf[a]
      BY <3>1, <1>3 DEF Worked, Active
    <3>2. CASE j # JobOf[a]
      BY <3>2, <1>5, <1>13 DEF JobsInv, Works, Worked
    <3> QED BY <3>1, <3>2
  <2> QED BY <2>1, <2>2, <2>3, <2>4
<1>16. Filed'
  <2>1. Undisturbed' => Undisturbed
    BY <1>1, CalmBefore DEF Places
  <2>2. "saving" \in WaitingPlaces /\ (saved[a] # "no" \/ job[a] \notin WaitingPlaces)
    BY DEF WaitingPlaces, Jobs!Ready
  <2> QED BY <2>1, <2>2, <1>1, <1>4, <1>5, FiledPersist DEF JobsInv
<1> QED BY <1>6, <1>10, <1>11, <1>12, <1>14, <1>15, <1>16 DEF JobsInv, JobsBase

\* A request ends, or waits, without touching a job.
LEMMA RequestMoves ==
  ASSUME JobsInv, NEW a \in Jobs!Actors, loaded = TRUE, NEW p \in {"waiting", "over"},
         job' = [job EXCEPT ![a] = p],
         a \in Jobs!Starters => Jobs!NotBegun(a) /\ p = "over"
           /\ (saved[a] # "no" \/ job[a] = "new"),
         UNCHANGED <<loaded, status, jobTask, ending, cut,
                     snapshot, saved, writes, stale, store, unsaved>>,
         hit' \subseteq Jobs!Starters, a \in Jobs!Starters => hit' = hit
  PROVE  JobsInv'
<1>1. Jobs!TypeOK /\ p \in Places /\ p \notin {"new", "restored"}
  BY DEF JobsInv, JobsBase, Places
<1>2. job' \in [Jobs!Actors -> Places] /\ job'[a] = p
        /\ \A b \in Jobs!Actors \ {a} : job'[b] = job[b]
  BY <1>1, JobMoved
<1>3. Jobs!TypeOK'
  <2> HIDE DEF Jobs!Snapshots
  <2>1. /\ loaded' \in BOOLEAN /\ status' \in Jobs!Snapshots
        /\ jobTask' \in [Creates -> Jobs!Starters \cup {None}]
        /\ ending' \in [Jobs!Starters -> Jobs!Final \cup {"none"}] /\ cut' \subseteq Creates
        /\ snapshot' \in [Jobs!Actors -> Jobs!Snapshots]
        /\ saved' \in [Jobs!Actors -> {"no", "yes", "failed"}]
        /\ writes' \in Seq(Jobs!Actors) /\ stale' \subseteq Jobs!Snapshots
        /\ store' \in Jobs!Snapshots
        /\ unsaved' \in [faults : 0..MaxFaults, crashes : 0..MaxCrashes]
    BY <1>1, JobsTyped
  <2> QED BY <2>1, <1>2 DEF Jobs!TypeOK, Places
<1>4. \A b \in Jobs!Actors : Jobs!NotBegun(b)' => Jobs!NotBegun(b)
  BY <1>1, <1>2 DEF Jobs!NotBegun
<1>5. \A b \in Jobs!Starters : (Active(b) <=> Active(b)') /\ (Active(b) => job'[b] = job[b])
  BY <1>2, JobConstants DEF Active, Jobs!NotBegun
<1>6. FreshJobs'
  <2>1. Traces
    BY DEF Traces
  <2>2. \A j \in Creates : Jobs!NotBegun(j)' => Jobs!NotBegun(j) /\ status'[j] = "none"
    BY <1>4, JobConstants DEF JobsInv, JobsBase, FreshJobs, NoneYet
  <2> QED BY <2>1, <2>2, FreshKept DEF JobsInv, JobsBase
<1>7. UnloadedJobs'
  BY DEF UnloadedJobs
<1>8. JobRoles'
  BY <1>2, JobConstants DEF JobsInv, JobsBase, JobRoles
<1>9. NamedJobs'
  BY <1>4, <1>5, StartersHaveJobs DEF JobsInv, JobsBase, NamedJobs
<1>10. Works' /\ Jobs!OneJobPerKind'
  <2>1. Jobs!TypeOK /\ Works /\ Jobs!OneJobPerKind
    BY DEF JobsInv, JobsBase
  <2>2. \A b \in Retries : Jobs!NotBegun(b)' => Jobs!NotBegun(b)
    BY <1>4, JobConstants
  <2>3. \A k \in Creates : status'[k] = status[k]
    OBVIOUS
  <2> QED BY <2>1, <2>2, <2>3, <1>5, WorkStays
<1>11. Filed'
  <2>1. CASE a \in Jobs!Starters
    <3>1. Undisturbed' => Undisturbed
      BY <1>1, <2>1, CalmBefore, StartersHaveJobs
    <3>2. job[a] = "new" => job[a] \notin WaitingPlaces
      BY DEF WaitingPlaces
    <3> QED BY <2>1, <3>1, <3>2, <1>1, FiledStays DEF JobsInv
  <2>2. CASE a \in Cancels
    BY <1>1, <2>2, CalmBefore DEF Filed
  <2> QED BY <2>1, <2>2 DEF Jobs!Actors
<1> QED BY <1>3, <1>6, <1>7, <1>8, <1>9, <1>10, <1>11 DEF JobsInv, JobsBase

LEMMA CreateKeeps ==
  ASSUME JobsInv, NEW a \in Creates, Jobs!Create(a)
  PROVE  JobsInv'
<1>1. Jobs!TypeOK /\ a \in Jobs!Starters /\ a \in Jobs!Actors /\ JobOf[a] = a /\ Jobs!Ready(a)
      /\ Jobs!NotBegun(a)
  BY JobConstants DEF JobsInv, JobsBase, Jobs!Create, Jobs!Ready, Jobs!NotBegun
<1>2. loaded = TRUE /\ job \in [Jobs!Actors -> Places] /\ hit \subseteq Jobs!Starters
  BY <1>1, IsLoaded, JobsTyped
<1>3. UNCHANGED <<loaded, jobTask, ending, hit, cut, unsaved>>
  BY DEF Jobs!Create
<1>4. CASE Jobs!Same(a)
  <2>1. job' = [job EXCEPT ![a] = "over"]
        /\ UNCHANGED <<status, snapshot, saved, writes, stale, store>>
    BY <1>4 DEF Jobs!Create, Jobs!Go, Jobs!store
  <2>2. saved[a] # "no" \/ job[a] = "new"
    BY <1>1 DEF Jobs!Ready
  <2> QED BY <2>1, <2>2, <1>1, <1>2, <1>3, RequestMoves
<1>5. CASE ~Jobs!Same(a)
  <2>1. job' = [job EXCEPT ![a] = "saving"] /\ Jobs!Set(a, "queued")
    BY <1>5 DEF Jobs!Create, Jobs!Go
  <2>2. \A b \in Jobs!Starters : JobOf[b] = JobOf[a] => ~Active(b)
    BY <1>1 DEF JobsInv, JobsBase, NamedJobs
  <2>3. Jobs!OneJobPerKind'
    <3>1. status' = [status EXCEPT ![a] = "queued"] /\ status \in Jobs!Snapshots
      BY <1>1, <2>1, JobsTyped DEF Jobs!Set
    <3>2. \A k \in Creates \ {a} : status'[k] = status[k]
      BY <3>1 DEF Jobs!Snapshots
    <3>3. \A k \in Creates : SpecOf[k] = SpecOf[a] => status[k] \notin Jobs!Unfinished
      BY <1>5 DEF Jobs!Same
    <3>4. \A r \in Retries : job'[r] = job[r]
      BY <2>1, <1>2, JobConstants
    <3>5. ASSUME Patient, \A r \in Retries : Jobs!NotBegun(r)', NEW j \in Creates,
    NEW k \in Creates,
                 j # k, SpecOf[j] = SpecOf[k], status'[j] \in Jobs!Unfinished,
                                                       status'[k] \in Jobs!Unfinished
          PROVE  FALSE
      <4>1. j # a
        BY <3>5, <3>2, <3>3
      <4>2. k # a
        BY <3>5, <3>2, <3>3
      <4>3. status[j] \in Jobs!Unfinished /\ status[k] \in Jobs!Unfinished
        BY <3>5, <3>2, <4>1, <4>2
      <4>4. \A r \in Retries : Jobs!NotBegun(r)
        BY <3>4, <3>5 DEF Jobs!NotBegun
      <4> QED BY <3>5, <4>3, <4>4 DEF JobsInv, Jobs!OneJobPerKind
    <3> QED BY <3>5 DEF Jobs!OneJobPerKind
  <2> QED BY <2>1, <2>2, <2>3, <1>1, <1>3, StarterBegins
<1> QED BY <1>4, <1>5

LEMMA RetryKeeps ==
  ASSUME JobsInv, NEW a \in Retries, Jobs!Retry(a)
  PROVE  JobsInv'
<1>1. Jobs!TypeOK /\ a \in Jobs!Starters /\ a \in Jobs!Actors /\ JobOf[a] \in Creates
      /\ Jobs!Ready(a) /\ Jobs!NotBegun(a)
  BY JobConstants DEF JobsInv, JobsBase, Jobs!Retry, Jobs!Ready, Jobs!NotBegun
<1>2. loaded = TRUE /\ job \in [Jobs!Actors -> Places] /\ hit \subseteq Jobs!Starters
  BY <1>1, IsLoaded, JobsTyped
<1>3. UNCHANGED <<loaded, jobTask, ending, hit, cut, unsaved>>
  BY DEF Jobs!Retry
<1>4. CASE status[JobOf[a]] # "interrupted"
  <2>1. job' = [job EXCEPT ![a] = "over"]
        /\ UNCHANGED <<status, snapshot, saved, writes, stale, store>>
    BY <1>4 DEF Jobs!Retry, Jobs!Go, Jobs!store
  <2>2. saved[a] # "no" \/ job[a] = "new"
    BY <1>1 DEF Jobs!Ready
  <2> QED BY <2>1, <2>2, <1>1, <1>2, <1>3, RequestMoves
<1>5. CASE status[JobOf[a]] = "interrupted"
  <2>1. job' = [job EXCEPT ![a] = "saving"] /\ Jobs!Set(a, "queued")
    BY <1>5 DEF Jobs!Retry, Jobs!Go
  <2>2. Patient => \A b \in Jobs!Starters : JobOf[b] = JobOf[a] => ~Active(b)
    BY <1>5, AtWorkFacts DEF AtWork
  <2>3. ~Jobs!NotBegun(JobOf[a])
    BY <1>1, <1>5 DEF JobsInv, JobsBase, FreshJobs, NoneYet
  <2>4. Jobs!OneJobPerKind'
    <3>1. ~Jobs!NotBegun(a)'
      BY <1>1, <1>2, <2>1 DEF Jobs!NotBegun
    <3> QED BY <3>1 DEF Jobs!OneJobPerKind
  <2> QED BY <2>1, <2>2, <2>3, <2>4, <1>1, <1>3, StarterBegins
<1> QED BY <1>4, <1>5

LEMMA LiveStarter ==
  ASSUME JobsInv, NEW a \in Jobs!Starters, Active(a), Patient, job[a] # "saving"
  PROVE  Jobs!Live(JobOf[a])
<1>1. jobTask[JobOf[a]] = a
  BY AtWorkFacts DEF AtWork
<1> QED BY <1>1, StartersHaveJobs DEF Jobs!Live, Jobs!Over, Active

LEMMA CancelKeeps ==
  ASSUME JobsInv, NEW c \in Cancels, Jobs!Cancel(c)
  PROVE  JobsInv'
<1> DEFINE j == JobOf[c]
<1>1. Jobs!TypeOK /\ c \in Jobs!Actors /\ c \notin Jobs!Starters /\ j \in Creates
      /\ Jobs!Ready(c) /\ Jobs!NotBegun(c)
  BY JobConstants DEF JobsInv, JobsBase, Jobs!Cancel, Jobs!Ready, Jobs!NotBegun
<1>2. loaded = TRUE
  BY <1>1, IsLoaded
<1>3. /\ jobTask \in [Creates -> Jobs!Starters \cup {None}] /\ job \in [Jobs!Actors -> Places]
      /\ ending \in [Jobs!Starters -> Jobs!Final \cup {"none"}] /\ status \in Jobs!Snapshots
      /\ hit \subseteq Jobs!Starters /\ cut \subseteq Creates
      /\ unsaved \in [faults : 0..MaxFaults, crashes : 0..MaxCrashes]
  BY <1>1, JobsTyped
<1>4. UNCHANGED <<loaded, jobTask, ending, cut, unsaved>>
  BY DEF Jobs!Cancel
<1>5. CASE Jobs!Live(j) /\ Jobs!Go(c, "waiting") /\ hit' = hit \cup {jobTask[j]}
           /\ UNCHANGED <<status, Jobs!store>>
  <2>1. hit' \subseteq Jobs!Starters
    BY <1>1, <1>3, <1>5 DEF Jobs!Live
  <2> QED BY <2>1, <1>1, <1>2, <1>4, <1>5, RequestMoves DEF Jobs!Go, Jobs!store
<1>6. CASE ~Jobs!Live(j) /\ status[j] \notin Jobs!Unfinished /\ Jobs!Go(c, "over")
           /\ UNCHANGED <<status, hit, Jobs!store>>
  BY <1>1, <1>2, <1>3, <1>4, <1>6, RequestMoves DEF Jobs!Go, Jobs!store
<1>7. CASE ~Jobs!Live(j) /\ status[j] \in Jobs!Unfinished /\ Jobs!Go(c, "marking")
           /\ Jobs!Set(c, "interrupted")
           /\ UNCHANGED hit
  <2>1. /\ job' = [job EXCEPT ![c] = "marking"] /\ status' = [status EXCEPT ![j] = "interrupted"]
        /\ Jobs!Persist(c, status')
    BY <1>7 DEF Jobs!Go, Jobs!Set
  <2>2. job' \in [Jobs!Actors -> Places] /\ job'[c] = "marking"
          /\ \A b \in Jobs!Actors \ {c} : job'[b] = job[b]
    BY <2>1, <1>1, JobMoved DEF Places
  <2>3. status' \in Jobs!Snapshots /\ status'[j] = "interrupted"
        /\ \A k \in Creates \ {j} : status'[k] = status[k]
    BY <2>1, <1>1, <1>3 DEF Jobs!Snapshots, Jobs!Final
  <2>4. Jobs!TypeOK'
    <3>1. /\ snapshot' \in [Jobs!Actors -> Jobs!Snapshots]
          /\ saved' \in [Jobs!Actors -> {"no", "yes", "failed"}]
          /\ writes' \in Seq(Jobs!Actors) /\ stale' \subseteq Jobs!Snapshots /\ store' = store
      BY <1>1, <2>1, <2>3, Persists
    <3> HIDE DEF Jobs!Snapshots
    <3>2. /\ loaded' \in BOOLEAN /\ jobTask' \in [Creates -> Jobs!Starters \cup {None}]
          /\ ending' \in [Jobs!Starters -> Jobs!Final \cup {"none"}] /\ store' \in Jobs!Snapshots
          /\ hit' \subseteq Jobs!Starters /\ cut' \subseteq Creates
          /\ unsaved' \in [faults : 0..MaxFaults, crashes : 0..MaxCrashes]
      BY <1>1, <1>2, <1>3, <1>4, <1>7, <3>1, JobsTyped
    <3> QED BY <3>1, <3>2, <2>2, <2>3 DEF Jobs!TypeOK, Places
  <2>5. \A b \in Jobs!Actors : Jobs!NotBegun(b)' => Jobs!NotBegun(b)
    BY <2>2 DEF Jobs!NotBegun
  <2>6. \A b \in Jobs!Starters : (Active(b) <=> Active(b)') /\ job'[b] = job[b]
    BY <2>2, <1>1, JobConstants DEF Active
  <2>7. FreshJobs'
    <3>1. Traces
      BY <1>1, <2>1, <2>3, PersistTraces
    <3>2. ~Jobs!NotBegun(j)
      BY <1>1, <1>7 DEF JobsInv, JobsBase, FreshJobs, NoneYet, Jobs!Unfinished
    <3>3. ASSUME NEW k \in Creates, Jobs!NotBegun(k)'
          PROVE  Jobs!NotBegun(k) /\ status'[k] = "none"
      <4>1. Jobs!NotBegun(k) /\ k # j
        BY <3>2, <3>3, <2>5, JobConstants
      <4> QED BY <4>1, <2>3 DEF JobsInv, JobsBase, FreshJobs, NoneYet
    <3> QED BY <3>1, <3>3, FreshKept DEF JobsInv, JobsBase
  <2>8. UnloadedJobs'
    BY <1>2, <1>4 DEF UnloadedJobs
  <2>9. JobRoles'
    BY <2>2, <2>6, JobConstants DEF JobsInv, JobsBase, JobRoles
  <2>10. NamedJobs'
    BY <2>5, <2>6, StartersHaveJobs DEF JobsInv, JobsBase, NamedJobs
  <2>11. Works' /\ Jobs!OneJobPerKind'
    <3>1. Jobs!TypeOK /\ Works /\ Jobs!OneJobPerKind
      BY DEF JobsInv, JobsBase
    <3>2. \A b \in Retries : Jobs!NotBegun(b)' => Jobs!NotBegun(b)
      BY <2>5, JobConstants
    <3>3. Patient => \A b \in Jobs!Starters : JobOf[b] = j => ~Active(b)
      <4>1. Patient => \A b \in Jobs!Starters : JobOf[b] = j => job[b] # "saving"
        BY DEF Jobs!Cancel
      <4> QED BY <4>1, <1>7, LiveStarter
    <3>4. \A k \in Creates : status'[k] = status[k] \/
            (status'[k] = "interrupted" /\
             (Patient => \A b \in Jobs!Starters : JobOf[b] = k => ~Active(b)))
      BY <2>3, <3>3
    <3> QED BY <3>1, <3>2, <3>4, <2>6, <1>4, WorkStays
  <2>12. Filed'
    BY <1>1, <1>4, <2>1, CalmBefore DEF Filed, Places
  <2> QED BY <2>4, <2>7, <2>8, <2>9, <2>10, <2>11, <2>12 DEF JobsInv, JobsBase
<1> QED BY <1>5, <1>6, <1>7 DEF Jobs!Cancel

LEMMA AnswerKeeps ==
  ASSUME JobsInv, NEW c \in Cancels, Jobs!Answer(c)
  PROVE  JobsInv'
<1>1. c \in Jobs!Actors /\ c \notin Jobs!Starters /\ job[c] \in {"waiting", "marking"}
  BY JobConstants DEF Jobs!Answer
<1>2. loaded = TRUE
  BY <1>1, IsLoaded
<1>3. hit \subseteq Jobs!Starters
  BY JobsTyped DEF JobsInv, JobsBase
<1> QED BY <1>1, <1>2, <1>3, RequestMoves DEF Jobs!Answer, Jobs!Go, Jobs!memory, Jobs!store

LEMMA RequestFailsKeeps ==
  ASSUME JobsInv, NEW a \in Jobs!Actors, Jobs!RequestFails(a)
  PROVE  JobsInv'
<1>1. job[a] \in {"restored", "saving"} /\ saved[a] = "failed" /\ loaded = TRUE
  BY IsLoaded DEF Jobs!RequestFails
<1>2. hit \subseteq Jobs!Starters /\ cut \subseteq Creates
  BY JobsTyped DEF JobsInv, JobsBase
<1>3. /\ job' = [job EXCEPT ![a] = "over"]
      /\ UNCHANGED <<loaded, status, jobTask, ending, hit, snapshot, saved, writes, stale, store,
                     unsaved>>
  BY DEF Jobs!RequestFails, Jobs!Go, Jobs!memory, Jobs!store
<1>4. CASE job[a] = "saving"
  <2>1. a \in Jobs!Starters /\ Active(a) /\ JobOf[a] \in Creates
    BY <1>4, StartersHaveJobs DEF JobsInv, JobsBase, JobRoles, Jobs!Actors, Active
  <2>2. cut' = cut \cup {JobOf[a]}
    BY <1>4 DEF Jobs!RequestFails
  <2> QED BY <1>1, <1>2, <1>3, <1>4, <2>1, <2>2, CutKeeps
<1>5. CASE job[a] = "restored"
  <2>1. cut' = cut
    BY <1>5 DEF Jobs!RequestFails
  <2> QED BY <1>1, <1>2, <1>3, <1>5, <2>1, RequestMoves DEF Jobs!NotBegun
<1> QED BY <1>1, <1>4, <1>5

LEMMA CrashKeepsJobs ==
  ASSUME JobsInv, Jobs!Crash
  PROVE  JobsInv'
<1>1. Jobs!TypeOK
  BY DEF JobsInv, JobsBase
<1>2. /\ job \in [Jobs!Actors -> Places] /\ ending \in [Jobs!Starters -> Jobs!Final \cup {"none"}]
      /\ unsaved \in [faults : 0..MaxFaults, crashes : 0..MaxCrashes]
      /\ snapshot \in [Jobs!Actors -> Jobs!Snapshots]
      /\ saved \in [Jobs!Actors -> {"no", "yes", "failed"}]
      /\ store \in Jobs!Snapshots
  BY <1>1, JobsTyped
<1>3. /\ unsaved' = [unsaved EXCEPT !.crashes = @ + 1] /\ unsaved.crashes < MaxCrashes
      /\ loaded' = FALSE /\ status' = Jobs!NoJobs /\ jobTask' = [j \in Creates |-> None]
      /\ job' = [a \in Jobs!Actors |-> IF job[a] = "new" THEN "new" ELSE "over"]
      /\ hit' = {} /\ cut' = {} /\ writes' = <<>> /\ stale' = {}
      /\ UNCHANGED <<ending, snapshot, saved, store>>
  BY DEF Jobs!Crash
<1>4. unsaved' \in [faults : 0..MaxFaults, crashes : 0..MaxCrashes]
      /\ unsaved'.faults = unsaved.faults
  <2>1. unsaved'.faults = unsaved.faults /\ unsaved'.crashes = unsaved.crashes + 1
        /\ unsaved' = [faults |-> unsaved.faults, crashes |-> unsaved.crashes + 1]
    BY <1>2, <1>3
  <2>2. unsaved.faults \in 0..MaxFaults /\ unsaved.crashes \in 0..MaxCrashes
    BY <1>2
  <2>3. unsaved.crashes + 1 \in 0..MaxCrashes
    BY <2>2, <1>3, JobConstants
  <2> QED BY <2>1, <2>2, <2>3
<1>5. \A a \in Jobs!Actors : job'[a] \in {"new", "over"} /\ (job'[a] = "new" => job[a] = "new")
  BY <1>3
<1>6. Jobs!NoJobs \in Jobs!Snapshots /\ \A j \in Creates : status'[j] = "none"
  BY <1>3 DEF Jobs!NoJobs, Jobs!Snapshots
<1>7. Jobs!TypeOK'
  <2>1. job' \in [Jobs!Actors -> Places] /\ jobTask' \in [Creates -> Jobs!Starters \cup {None}]
        /\ writes' \in Seq(Jobs!Actors)
    BY <1>2, <1>3 DEF Places
  <2> HIDE DEF Jobs!Snapshots
  <2>2. /\ snapshot' \in [Jobs!Actors -> Jobs!Snapshots]
        /\ saved' \in [Jobs!Actors -> {"no", "yes", "failed"}]
        /\ store' \in Jobs!Snapshots /\ ending' \in [Jobs!Starters -> Jobs!Final \cup {"none"}]
        /\ status' \in Jobs!Snapshots
    BY <1>2, <1>3, <1>6
  <2> QED BY <2>1, <2>2, <1>3, <1>4 DEF Jobs!TypeOK, Places
<1>8. FreshJobs'
  <2>1. Traces
    BY <1>3 DEF Traces
  <2>2. \A j \in Creates : Jobs!NotBegun(j)' => Jobs!NotBegun(j) /\ status'[j] = "none"
    BY <1>5, <1>6, JobConstants DEF Jobs!NotBegun
  <2> QED BY <2>1, <2>2, FreshKept DEF JobsInv, JobsBase
<1>9. \A a \in Jobs!Starters : ~Active(a)'
  BY <1>5, JobConstants DEF Active
<1>10. UnloadedJobs' /\ JobRoles' /\ NamedJobs'
  BY <1>3, <1>5, <1>9, JobConstants DEF UnloadedJobs, JobRoles, NamedJobs
<1>11. Works' /\ Jobs!OneJobPerKind'
  BY <1>6, <1>9 DEF Works, Worked, Jobs!OneJobPerKind, Jobs!Unfinished
<1>12. Filed'
  <2>1. Undisturbed' => Undisturbed
    BY <1>4, <1>5, JobConstants DEF Undisturbed, Jobs!NotBegun
  <2>2. Undisturbed => \A b \in Jobs!Actors : saved[b] # "failed"
    BY DEF JobsInv, Filed
  <2>3. Queued'
    BY <1>3 DEF Queued
  <2>4. hit' = {} /\ stale' = {} /\ ~loaded' /\ saved' = saved
    BY <1>3
  <2> QED BY <2>1, <2>2, <2>3, <2>4 DEF Filed
<1> QED BY <1>7, <1>8, <1>10, <1>11, <1>12 DEF JobsInv, JobsBase

LEMMA JobsStart ==
  ASSUME Jobs!Init
  PROVE  JobsInv
<1>1. /\ loaded = FALSE /\ status = Jobs!NoJobs /\ jobTask = [j \in Creates |-> None]
      /\ job = [a \in Jobs!Actors |-> "new"] /\ ending = [a \in Jobs!Starters |-> "none"]
      /\ hit = {} /\ cut = {}
      /\ snapshot = [a \in Jobs!Actors |-> Jobs!NoJobs] /\ saved = [a \in Jobs!Actors |-> "no"]
      /\ writes = <<>> /\ stale = {} /\ store = Jobs!NoJobs
      /\ unsaved = [faults |-> 0, crashes |-> 0]
  BY DEF Jobs!Init
<1>2. Jobs!NoJobs \in Jobs!Snapshots /\ \A j \in Creates : Jobs!NoJobs[j] = "none"
  BY DEF Jobs!NoJobs, Jobs!Snapshots
<1>3. Jobs!TypeOK
  <2>1. 0 \in 0..MaxFaults /\ 0 \in 0..MaxCrashes
    BY JobConstants
  <2> HIDE DEF Jobs!Snapshots, Jobs!NoJobs
  <2>2. jobTask \in [Creates -> Jobs!Starters \cup {None}] /\ job \in [Jobs!Actors -> Places]
        /\ ending \in [Jobs!Starters -> Jobs!Final \cup {"none"}]
    BY <1>1 DEF Places
  <2>3. snapshot \in [Jobs!Actors -> Jobs!Snapshots]
        /\ saved \in [Jobs!Actors -> {"no", "yes", "failed"}]
        /\ writes \in Seq(Jobs!Actors)
        /\ unsaved \in [faults : 0..MaxFaults, crashes : 0..MaxCrashes]
    BY <1>1, <1>2, <2>1
  <2> QED BY <1>1, <1>2, <2>2, <2>3, JobsTyped
<1>4. \A a \in Jobs!Actors : job[a] = "new" /\ saved[a] = "no" /\ snapshot[a] = Jobs!NoJobs
  BY <1>1
<1>5. \A a \in Jobs!Starters : ~Active(a)
  BY <1>4, JobConstants DEF Active
<1>6. FreshJobs
  BY <1>1, <1>2, <1>4 DEF FreshJobs, NoneYet
<1>7. UnloadedJobs /\ JobRoles /\ NamedJobs
  BY <1>1, <1>4, <1>5, JobConstants DEF UnloadedJobs, JobRoles, NamedJobs
<1>8. Works /\ Jobs!OneJobPerKind
  BY <1>1, <1>2, <1>5 DEF Works, Worked, Jobs!OneJobPerKind, Jobs!Unfinished
<1>9. Filed
  <2>1. Queued
    BY <1>1 DEF Queued
  <2>2. hit = {} /\ stale = {} /\ ~loaded /\ \A a \in Jobs!Actors : saved[a] # "failed"
    BY <1>1, <1>4
  <2> QED BY <2>1, <2>2 DEF Filed
<1> QED BY <1>3, <1>6, <1>7, <1>8, <1>9 DEF JobsInv, JobsBase

LEMMA JobsStepKeeps ==
  ASSUME JobsInv, Jobs!Next
  PROVE  JobsInv'
<1>1. ASSUME NEW a \in Jobs!Actors, Jobs!RequestStep(a)
      PROVE  JobsInv'
  BY <1>1, CreateKeeps, RetryKeeps, CancelKeeps, AnswerKeeps,
     RequestFailsKeeps DEF Jobs!RequestStep
<1>2. ASSUME NEW a \in Jobs!Starters, Jobs!TaskStep(a)
      PROVE  JobsInv'
  BY <1>2, ScheduleKeeps, BeginKeepsJobs, SavedKeeps, CommandKeeps, CompleteKeeps, StopModelKeeps,
     CloseKeepsJobs, EndKeepsJobs, OpeningFailsKeeps, ReachKeeps, FailsKeepsJobs DEF Jobs!TaskStep
<1> QED BY <1>1, <1>2, RestoreKeeps, UnreadableKeeps, WriteKeeps, WriteFailsKeeps,
    WriteStaleKeeps, CrashKeepsJobs
    DEF Jobs!Next

LEMMA JobsStutter ==
  ASSUME JobsInv, UNCHANGED Jobs!vars
  PROVE  JobsInv'
<1>1. /\ UNCHANGED <<job, loaded, status, jobTask, ending, cut, hit>>
      /\ UNCHANGED <<snapshot, saved, writes, stale, store, unsaved>>
  BY DEF Jobs!vars, Jobs!memory, Jobs!store
<1>2. Jobs!TypeOK /\ Jobs!TypeOK'
  BY <1>1 DEF JobsInv, JobsBase, Jobs!TypeOK
<1>3. FreshJobs'
  BY <1>1 DEF JobsInv, JobsBase, FreshJobs, NoneYet, Jobs!NotBegun
<1>4. UnloadedJobs' /\ JobRoles' /\ NamedJobs'
  BY <1>1 DEF JobsInv, JobsBase, UnloadedJobs, JobRoles, NamedJobs, Active, Jobs!NotBegun
<1>5. Works' /\ Jobs!OneJobPerKind'
  <2>1. \A b \in Jobs!Starters : (Active(b) <=> Active(b)') /\ (Active(b) => job'[b] = job[b])
    BY <1>1 DEF Active
  <2>2. \A b \in Retries : Jobs!NotBegun(b)' => Jobs!NotBegun(b)
    BY <1>1 DEF Jobs!NotBegun
  <2>3. \A k \in Creates : status'[k] = status[k]
    BY <1>1
  <2> QED BY <1>1, <1>2, <2>1, <2>2, <2>3, WorkStays DEF JobsInv
<1>6. Filed'
  BY <1>1 DEF JobsInv, Filed, Undisturbed, Jobs!NotBegun, Queued, Latest
<1> QED BY <1>2, <1>3, <1>4, <1>5, <1>6 DEF JobsInv, JobsBase

LEMMA JobsInvIsEnough ==
  ASSUME JobsInv
  PROVE  Jobs!TypeOK /\ Jobs!FileAgrees /\ Jobs!OneTaskPerJob /\ Jobs!UnfinishedIsWorkedOn
         /\ Jobs!OneJobPerKind
<1>1. Jobs!TypeOK /\ Jobs!OneJobPerKind
  BY DEF JobsInv, JobsBase
<1>2. Jobs!FileAgrees
  BY DEF JobsInv, Filed, Jobs!FileAgrees, Undisturbed, Latest
<1>3. Jobs!OneTaskPerJob
  <2>1. ASSUME Patient, NEW a \in Jobs!Starters, NEW b \in Jobs!Starters, a # b,
                    JobOf[a] = JobOf[b]
        PROVE  ~Active(a) \/ ~Active(b)
    BY <2>1, AtWorkFacts DEF Alone
  <2> QED BY <2>1 DEF Jobs!OneTaskPerJob, Active
<1>4. Jobs!UnfinishedIsWorkedOn
  BY DEF JobsInv, Works, Worked, Jobs!UnfinishedIsWorkedOn, Active
<1> QED BY <1>1, <1>2, <1>3, <1>4

\* The file of the jobs is what memory says of them when nothing failed and nobody
\* writes; a job has one task at a time, no two unfinished jobs are of one kind, and a
\* job that reads unfinished is worked on (docker_model_runner.py).
THEOREM JobsAreWorkedOn ==
  Jobs!Spec => [](/\ Jobs!TypeOK /\ Jobs!FileAgrees /\ Jobs!OneTaskPerJob
                  /\ Jobs!UnfinishedIsWorkedOn /\ Jobs!OneJobPerKind)
<1>1. JobsInv /\ [Jobs!Next]_Jobs!vars => JobsInv'
  BY JobsStepKeeps, JobsStutter
<1> QED BY <1>1, JobsStart, JobsInvIsEnough, PTL DEF Jobs!Spec

-----------------------------------------------------------------------------
(* Restores.  The invariant counts the operations inside the barrier, says *)
(* that a restore at work owns it, and says for each position what the     *)
(* files hold of the backup and of the snapshot (Holds).                   *)

\* The requests that the barrier counts.
Inside == {q \in Requests : place[q] \notin {"idle", "over"}}

\* The barrier counts those.
Counted == operations = Cardinality(Inside)

\* What a restore owns.
Owns(r) == place[r] \notin {"idle", "over"} => barrier /\ owner = r

\* Who takes part in what.
PlacesOK ==
  /\ \A u \in Restoring!Users : place[u] \in Restoring!UserAt
  /\ \A r \in Restores : place[r] \in Restoring!RestoreAt
  /\ \A q \in Requests : place[q] \notin {"detached", "stray"}

\* What the files hold before the backup is promoted, after, and when it is rolled back.
Same(r) ==
  /\ Restoring!Content(database, log) = before[r].threads \ Outside
  /\ captured[r].threads \subseteq database \cup log
  /\ artifacts = before[r].artifacts

Replaced(r) ==
  /\ Restoring!Content(database, log) =
       IF "threads" \in Restoring!Promoted(r) THEN {Archived} ELSE before[r].threads \ Outside
  /\ "threads" \notin Restoring!Promoted(r) => captured[r].threads \subseteq database \cup log
  /\ artifacts = IF "artifacts" \in Restoring!Promoted(r) THEN "archived" ELSE before[r].artifacts

Undone(r) ==
  /\ captured[r].threads \subseteq database \cup log
  /\ Restoring!Content(database, log) \subseteq before[r].threads
  /\ artifacts = before[r].artifacts \/ (Selected[r] = None /\ artifacts = "none")

\* What the files hold of the backup and of the snapshot, at each position of a restore.
Holds(r) ==
  /\ Restoring!InWindow(r) => /\ captured[r].threads \subseteq before[r].threads
                              /\ captured[r].artifacts = before[r].artifacts
  /\ ~mixed =>
       /\ place[r] \in {"closing", "promoting"} => Same(r)
       /\ place[r] = "reopening" => Replaced(r)
       /\ place[r] \in {"undoing", "rolling"} => Same(r) \/ Replaced(r)
       /\ place[r] = "recovering" => Undone(r)
       /\ place[r] = "leaving" => \/ restored[r] = "ok" /\ Replaced(r)
                                  \/ restored[r] = "failed" /\ Undone(r)

\* The invariant of the restores.
RestoreInv ==
  /\ Restoring!TypeOK /\ Counted /\ PlacesOK /\ Restoring!WindowIsExclusive
  /\ \A r \in Restores : Owns(r) /\ Holds(r)

-----------------------------------------------------------------------------

LEMMA Apart ==
  /\ Restoring!Users \cap Restores = {} /\ Requests \cap Outside = {}
  /\ Archived \notin Restoring!Users
  /\ None \notin Restores /\ IsFiniteSet(Requests) /\ MaxFaults \in Nat /\ MaxCrashes \in Nat
  /\ Requests \subseteq Restoring!Users /\ Outside \subseteq Restoring!Users
  /\ Archived \in Restoring!Messages
  /\ Restoring!Users = Requests \cup Outside /\ Restoring!Users \subseteq Restoring!Messages
<1>1. IsFiniteSet(Requests)
  BY RestoreParameters DEF Restoring!Parameters, Restoring!IsFiniteSet, IsFiniteSet
<1> QED BY <1>1, RestoreParameters
        DEF Restoring!Parameters, Restoring!Users, Restoring!Messages

LEMMA SameCardinality == Restoring!Cardinality(Requests) = Cardinality(Requests)
BY DEF Restoring!Cardinality, Cardinality

LEMMA SelectedIs ==
  ASSUME NEW r \in Restores
  PROVE  /\ Restoring!Captured(r) \subseteq Restoring!Categories
         /\ Restoring!Promoted(r) \subseteq Restoring!Categories
         /\ "threads" \in Restoring!Promoted(r) => "threads" \in Restoring!Captured(r)
         /\ "artifacts" \in Restoring!Promoted(r)
              /\ "artifacts" \notin Restoring!Captured(r) => Selected[r] = None
         /\ Restoring!Cleaned(r) /\ "artifacts" \notin Restoring!Captured(r) => Selected[r] = None
         /\ "artifacts" \in Restoring!Captured(r) => Restoring!Cleaned(r)
<1>1. Selected[r] \in SUBSET Restoring!Categories \/ Selected[r] = None
  BY RestoreParameters DEF Restoring!Parameters
<1>2. \A named \in SUBSET Restoring!Categories : named # None
  BY RestoreParameters DEF Restoring!Parameters
<1>3. CASE Selected[r] = None
  BY <1>3 DEF Restoring!Captured, Restoring!Promoted, Restoring!Cleaned, Restoring!Categories
<1>4. CASE Selected[r] \in SUBSET Restoring!Categories /\ Selected[r] # None
  <2>1. CASE Selected[r] = {}
    BY <2>1, <1>4 DEF Restoring!Captured, Restoring!Promoted, Restoring!Cleaned,
                      Restoring!Categories
  <2>2. CASE Selected[r] # {}
    BY <2>2, <1>4 DEF Restoring!Captured, Restoring!Promoted, Restoring!Cleaned,
                      Restoring!Categories
  <2> QED BY <2>1, <2>2
<1> QED BY <1>1, <1>3, <1>4

LEMMA InsideIsFinite == ASSUME RestoreInv PROVE IsFiniteSet(Inside)
<1>1. Inside \subseteq Requests
  BY DEF Inside
<1> QED BY <1>1, FS_Subset, Apart

\* Who is counted by a restore that is in its window.
LEMMA NobodyInside ==
  ASSUME RestoreInv, NEW r \in Restores, Restoring!InWindow(r), NEW u \in Requests
  PROVE  place[u] \in {"idle", "over"}
BY DEF RestoreInv, Restoring!WindowIsExclusive

LEMMA OneRestore ==
  ASSUME RestoreInv, NEW r \in Restores, place[r] \notin {"idle", "over"},
         NEW n \in Restores, n # r
  PROVE  place[n] \in {"idle", "over"}
BY DEF RestoreInv, Owns

\* Restores do not see a step that leaves to them what they are about.
LEMMA HoldsStays ==
  ASSUME RestoreInv, NEW r \in Restores, place'[r] = place[r],
         UNCHANGED <<captured, before, restored>>,
         Restoring!InWindow(r) =>
           /\ Restoring!Content(database, log)' = Restoring!Content(database, log)
           /\ database \cup log \subseteq database' \cup log'
           /\ artifacts' = artifacts /\ (mixed => mixed')
  PROVE  Holds(r)'
<1>1. Holds(r)
  BY DEF RestoreInv
<1>2. CASE Restoring!InWindow(r)
  BY <1>1, <1>2 DEF Holds, Same, Replaced, Undone, Restoring!Promoted
<1>3. CASE ~Restoring!InWindow(r)
  BY <1>1, <1>3 DEF Holds, Restoring!InWindow
<1> QED BY <1>2, <1>3

\* A step of a user that no window forbids.
LEMMA UserMoves ==
  ASSUME RestoreInv, NEW u \in Restoring!Users, NEW x \in Restoring!UserAt,
         place' = [place EXCEPT ![u] = x],
         u \in Requests => x \notin {"detached", "stray"},
         u \in Requests => x \in {"idle", "over"} \/ ~barrier
                             \/ place[u] \notin {"idle", "over"},
         Restoring!TypeOK', Counted', UNCHANGED <<barrier, owner, Restoring!told>>,
         \A r \in Restores : Restoring!InWindow(r) =>
           /\ Restoring!Content(database, log)' = Restoring!Content(database, log)
           /\ database \cup log \subseteq database' \cup log'
           /\ artifacts' = artifacts /\ (mixed => mixed')
  PROVE  RestoreInv'
<1>1. \A r \in Restores : place'[r] = place[r]
  BY Apart DEF RestoreInv, Restoring!TypeOK
<1>2. PlacesOK'
  BY <1>1 DEF RestoreInv, PlacesOK, Restoring!TypeOK
<1>3. Restoring!WindowIsExclusive'
  <2> SUFFICES ASSUME NEW r \in Restores, Restoring!InWindow(r)
               PROVE  /\ barrier /\ owner = r
                      /\ \A q \in Requests : place'[q] \in {"idle", "over"}
    BY <1>1 DEF Restoring!WindowIsExclusive, Restoring!InWindow
  <2>1. barrier /\ owner = r /\ \A q \in Requests : place[q] \in {"idle", "over"}
    BY DEF RestoreInv, Restoring!WindowIsExclusive
  <2> QED BY <2>1 DEF RestoreInv, Restoring!TypeOK
<1>4. ASSUME NEW r \in Restores PROVE Owns(r)' /\ Holds(r)'
  <2>1. Holds(r)'
    BY <1>1, HoldsStays DEF Restoring!told
  <2>2. Owns(r)'
    BY <1>1 DEF RestoreInv, Owns
  <2> QED BY <2>1, <2>2
<1> QED BY <1>2, <1>3, <1>4 DEF RestoreInv

\* A user who was and is inside, or is not counted, leaves the count as it is.
LEMMA CountStays ==
  ASSUME RestoreInv, NEW u \in Restoring!Users, NEW x, place' = [place EXCEPT ![u] = x],
         u \in Requests => (place[u] \in {"idle", "over"} <=> x \in {"idle", "over"}),
         operations' = operations
  PROVE  Counted'
<1>1. Inside' = Inside
  BY DEF Inside, RestoreInv, Restoring!TypeOK
<1> QED BY <1>1 DEF RestoreInv, Counted

LEMMA BeginKeepsRestores ==
  ASSUME RestoreInv, NEW u \in Requests, Restoring!Begin(u)
  PROVE  RestoreInv'
<1>1. /\ place[u] = "idle" /\ ~barrier /\ place' = [place EXCEPT ![u] = "inside"]
      /\ u \in Restoring!Users
      /\ operations' = operations + 1
      /\ UNCHANGED <<barrier, owner, Restoring!handles, Restoring!files, Restoring!told,
                     Restoring!faults>>
  BY Apart DEF Restoring!Begin, Restoring!Go
<1>2. Inside' = Inside \cup {u} /\ u \notin Inside
  BY <1>1 DEF Inside, RestoreInv, Restoring!TypeOK
<1>3. Cardinality(Inside') = Cardinality(Inside) + 1
  BY <1>2, InsideIsFinite, FS_AddElement
<1>4. Counted'
  BY <1>1, <1>3 DEF RestoreInv, Counted
<1>5. Inside' \subseteq Requests
  BY DEF Inside
<1>6. Cardinality(Inside') <= Cardinality(Requests) /\ Cardinality(Inside') \in Nat
      /\ Cardinality(Requests) \in Nat
  BY <1>5, Apart, FS_Subset, FS_CardinalityType
<1>7. operations' \in 0..Cardinality(Requests)
  BY <1>4, <1>6 DEF Counted
<1>8. Restoring!TypeOK'
  BY <1>1, <1>7, SameCardinality
     DEF RestoreInv, Restoring!TypeOK, Restoring!UserAt, Restoring!handles, Restoring!files,
         Restoring!told, Restoring!faults
<1>9. \A r \in Restores : ~Restoring!InWindow(r)
  BY <1>1 DEF RestoreInv, Restoring!WindowIsExclusive
<1> QED BY <1>1, <1>4, <1>8, <1>9, UserMoves DEF Restoring!UserAt

LEMMA EndKeepsRestores ==
  ASSUME RestoreInv, NEW u \in Requests, Restoring!End(u)
  PROVE  RestoreInv'
<1>1. /\ place[u] \in {"inside", "using", "answered"} /\ place' = [place EXCEPT ![u] = "over"]
      /\ operations' = operations - 1 /\ u \in Restoring!Users
      /\ UNCHANGED <<barrier, owner, Restoring!handles, Restoring!files, Restoring!told,
                     Restoring!faults>>
  BY Apart DEF Restoring!End
<1>2. Inside' = Inside \ {u} /\ u \in Inside
  BY <1>1 DEF Inside, RestoreInv, Restoring!TypeOK
<1>3. Cardinality(Inside') = Cardinality(Inside) - 1
  BY <1>2, InsideIsFinite, FS_RemoveElement
<1>4. Counted'
  BY <1>1, <1>3 DEF RestoreInv, Counted
<1>5. Inside' \subseteq Requests
  BY DEF Inside
<1>6. Cardinality(Inside') <= Cardinality(Requests) /\ Cardinality(Inside') \in Nat
      /\ Cardinality(Requests) \in Nat
  BY <1>5, Apart, FS_Subset, FS_CardinalityType
<1>7. operations' \in 0..Cardinality(Requests)
  BY <1>4, <1>6 DEF Counted
<1>8. Restoring!TypeOK'
  BY <1>1, <1>7, SameCardinality
     DEF RestoreInv, Restoring!TypeOK, Restoring!UserAt, Restoring!handles, Restoring!files,
         Restoring!told, Restoring!faults
<1>9. \A r \in Restores : ~Restoring!InWindow(r)
  BY <1>1, NobodyInside
<1> QED BY <1>1, <1>4, <1>8, <1>9, UserMoves DEF Restoring!UserAt

\* A step of a user who is not counted anew, and writes nothing.
LEMMA QuietMove ==
  ASSUME RestoreInv, NEW u \in Restoring!Users, NEW x \in Restoring!UserAt \ {"idle", "over"},
         Restoring!Go(u, place[u], x),
         u \in Requests => x \notin {"detached", "stray"} /\ place[u] \notin {"idle", "over"},
         handle' \in BOOLEAN, strays' \subseteq Outside, UNCHANGED <<Restoring!gate,
              Restoring!files, Restoring!told, Restoring!faults>>
  PROVE  RestoreInv'
<1>1. place' = [place EXCEPT ![u] = x] /\ x \notin {"idle", "over"} /\ x \in Restoring!UserAt
  BY DEF Restoring!Go
<1>2. Counted'
  BY <1>1, CountStays DEF Restoring!gate
<1>3. Restoring!TypeOK'
  BY <1>1 DEF RestoreInv, Restoring!TypeOK, Restoring!gate, Restoring!files, Restoring!told,
              Restoring!faults
<1> QED BY <1>1, <1>2, <1>3, UserMoves DEF Restoring!gate, Restoring!files, Restoring!Content

LEMMA QuietUserKeeps ==
  ASSUME RestoreInv, NEW u \in Restoring!Users,
         Restoring!Ask(u) \/ Restoring!Pass(u) \/ Restoring!Open(u) \/ Restoring!Acquire(u)
  PROVE  RestoreInv'
<1>0. handle \in BOOLEAN /\ strays \subseteq Outside
  BY DEF RestoreInv, Restoring!TypeOK
<1>1. CASE Restoring!Ask(u)
  <2>1. Restoring!Go(u, place[u], "waiting")
        /\ UNCHANGED <<Restoring!gate, Restoring!handles, Restoring!files, Restoring!told,
                       Restoring!faults>>
    BY <1>1 DEF Restoring!Ask, Restoring!Go
  <2>2. u \in Requests => place[u] \notin {"idle", "over"}
    BY <1>1 DEF Restoring!Ask, Restoring!Go
  <2> QED BY <1>0, <2>1, <2>2, QuietMove DEF Restoring!handles, Restoring!UserAt
<1>2. CASE Restoring!Pass(u)
  <2>1. Restoring!Go(u, place[u], "opening")
        /\ UNCHANGED <<Restoring!gate, Restoring!handles, Restoring!files, Restoring!told,
                       Restoring!faults>>
    BY <1>2 DEF Restoring!Pass, Restoring!Go
  <2>2. u \in Requests => place[u] \notin {"idle", "over"}
    BY <1>2 DEF Restoring!Pass, Restoring!Go
  <2> QED BY <1>0, <2>1, <2>2, QuietMove DEF Restoring!handles, Restoring!UserAt
<1>3. CASE Restoring!Open(u)
  <2>1. Restoring!Go(u, place[u], "using")
        /\ UNCHANGED <<Restoring!gate, strays, Restoring!files, Restoring!told,
                       Restoring!faults>> /\ handle' = TRUE
    BY <1>3 DEF Restoring!Open, Restoring!Go
  <2>2. u \in Requests => place[u] \notin {"idle", "over"}
    BY <1>3 DEF Restoring!Open, Restoring!Go
  <2> QED BY <1>0, <2>1, <2>2, QuietMove DEF Restoring!UserAt
<1>4. CASE Restoring!Acquire(u)
  <2>1. CASE Restoring!Go(u, "using", "holding") /\ UNCHANGED strays
    <3>1. Restoring!Go(u, place[u], "holding")
          /\ UNCHANGED <<Restoring!gate, handle, Restoring!files, Restoring!told,
                         Restoring!faults>>
      BY <1>4, <2>1 DEF Restoring!Acquire, Restoring!Go
    <3>2. u \in Requests => place[u] \notin {"idle", "over"}
      BY <2>1 DEF Restoring!Go
    <3> QED BY <1>0, <2>1, <3>1, <3>2, QuietMove DEF Restoring!UserAt
  <2>2. CASE Restoring!Go(u, "detached", "stray") /\ strays' = strays \cup {u}
    <3>1. Restoring!Go(u, place[u], "stray")
          /\ UNCHANGED <<Restoring!gate, handle, Restoring!files, Restoring!told,
                         Restoring!faults>>
      BY <1>4, <2>2 DEF Restoring!Acquire, Restoring!Go
    <3>2. u \notin Requests
      BY <2>2 DEF Restoring!Go, RestoreInv, PlacesOK
    <3>3. strays' \subseteq Outside
      BY <1>0, <2>2, <3>2, Apart
    <3> QED BY <1>0, <3>1, <3>2, <3>3, QuietMove DEF Restoring!UserAt
  <2> QED BY <1>4, <2>1, <2>2 DEF Restoring!Acquire
<1> QED BY <1>1, <1>2, <1>3, <1>4

LEMMA CommitKeeps ==
  ASSUME RestoreInv, NEW u \in Restoring!Users, Restoring!Commit(u)
  PROVE  RestoreInv'
<1> DEFINE x == IF u \in Requests THEN "answered" ELSE "over"
<1>1. /\ place[u] \in {"holding", "stray"} /\ place' = [place EXCEPT ![u] = x]
      /\ log' = log \cup {u}
      /\ UNCHANGED <<Restoring!gate, Restoring!handles, database, artifacts, mixed,
                     Restoring!told, Restoring!faults>>
  BY DEF Restoring!Commit
<1>2. x \in Restoring!UserAt
  BY DEF Restoring!UserAt
<1>3. Restoring!TypeOK'
  BY <1>1, <1>2, Apart DEF RestoreInv, Restoring!TypeOK, Restoring!gate, Restoring!handles,
                           Restoring!told, Restoring!faults
<1>4. Counted'
  BY <1>1, CountStays DEF Restoring!gate
<1>5. ASSUME NEW r \in Restores, Restoring!InWindow(r)
      PROVE  Restoring!Content(database, log)' = Restoring!Content(database, log)
             /\ database \cup log \subseteq database' \cup log'
  <2>1. u \in Outside
    BY <1>1, <1>5, NobodyInside, Apart
  <2> QED BY <2>1, <1>1 DEF Restoring!Content
<1>6. u \in Requests => x \notin {"detached", "stray"} /\ place[u] \notin {"idle", "over"}
  BY <1>1
<1> HIDE DEF x
<1> QED BY <1>1, <1>2, <1>3, <1>4, <1>5, <1>6, UserMoves DEF Restoring!gate

LEMMA CheckpointKeeps == ASSUME RestoreInv, Restoring!Checkpoint PROVE RestoreInv'
<1>1. /\ database' = database \cup log /\ log' = {}
      /\ UNCHANGED <<Restoring!gate, place, Restoring!handles, artifacts, mixed, Restoring!told,
                     Restoring!faults>>
  BY DEF Restoring!Checkpoint
<1>2. Restoring!TypeOK'
  BY <1>1 DEF RestoreInv, Restoring!TypeOK, Restoring!gate, Restoring!handles, Restoring!told,
              Restoring!faults
<1>3. Counted' /\ PlacesOK' /\ Restoring!WindowIsExclusive' /\ \A r \in Restores : Owns(r)'
  BY <1>1 DEF RestoreInv, Counted, Inside, PlacesOK, Restoring!WindowIsExclusive,
              Restoring!InWindow, Owns, Restoring!gate
<1>4. Restoring!Content(database, log)' = Restoring!Content(database, log)
      /\ database' \cup log' = database \cup log
  BY <1>1 DEF Restoring!Content
<1>5. ASSUME NEW r \in Restores PROVE Holds(r)'
  BY <1>1, <1>4, HoldsStays DEF Restoring!told
<1> QED BY <1>2, <1>3, <1>5 DEF RestoreInv

-----------------------------------------------------------------------------
(* The steps of a restore.                                                 *)

\* A restore moves, and with it perhaps who is not counted: what it keeps of others, once
\* its own facts hold.
LEMMA WindowMoves ==
  ASSUME RestoreInv, NEW r \in Restores, Restoring!TypeOK', place'[r] \in Restoring!RestoreAt,
         operations' = operations, Owns(r)', Holds(r)',
         \A u \in Restoring!Users : place'[u] \in Restoring!UserAt,
         \A q \in Requests : place'[q] = place[q],
         \A n \in Restores \ {r} :
           /\ place'[n] = place[n] /\ place[n] \in {"idle", "over"}
           /\ captured'[n] = captured[n] /\ before'[n] = before[n],
         Restoring!InWindow(r)' => \A q \in Requests : place[q] \in {"idle", "over"}
  PROVE  RestoreInv'
<1>1. Counted'
  <2>1. Inside' = Inside
    BY DEF Inside
  <2> QED BY <2>1 DEF RestoreInv, Counted
<1>2. PlacesOK'
  BY Apart DEF RestoreInv, PlacesOK
<1>3. ASSUME NEW n \in Restores PROVE Owns(n)' /\ Holds(n)'
  <2>1. CASE n = r
    BY <2>1
  <2>2. CASE n # r
    <3>1. place'[n] \in {"idle", "over"}
      BY <2>2
    <3> QED BY <3>1 DEF Owns, Holds, Restoring!InWindow
  <2> QED BY <2>1, <2>2
<1>4. Restoring!WindowIsExclusive'
  <2> SUFFICES ASSUME NEW n \in Restores, Restoring!InWindow(n)'
               PROVE  /\ barrier' /\ owner' = n
                      /\ \A q \in Requests : place'[q] \in {"idle", "over"}
    BY DEF Restoring!WindowIsExclusive
  <2>1. n = r
    BY DEF Restoring!InWindow
  <2> QED BY <2>1, Apart DEF Owns, Restoring!InWindow
<1> QED BY <1>1, <1>2, <1>3, <1>4 DEF RestoreInv

\* A restore moves, and nobody else.
LEMMA RestoreMoves ==
  ASSUME RestoreInv, NEW r \in Restores, NEW x \in Restoring!RestoreAt,
         place' = [place EXCEPT ![r] = x],
         Restoring!TypeOK', operations' = operations, Owns(r)', Holds(r)',
         \A n \in Restores \ {r} :
           /\ place[n] \in {"idle", "over"}
           /\ captured'[n] = captured[n] /\ before'[n] = before[n],
         x \notin {"idle", "entering", "over"} =>
              \A q \in Requests : place[q] \in {"idle", "over"}
  PROVE  RestoreInv'
<1>1. /\ \A n \in Restores \ {r} : place'[n] = place[n]
      /\ place'[r] = x /\ \A u \in Restoring!Users : place'[u] = place[u]
  BY Apart DEF RestoreInv, Restoring!TypeOK
<1>2. \A q \in Requests : place'[q] = place[q]
  BY <1>1, Apart
<1>3. \A u \in Restoring!Users : place'[u] \in Restoring!UserAt
  BY <1>1 DEF RestoreInv, PlacesOK
<1>4. Restoring!InWindow(r)' => \A q \in Requests : place[q] \in {"idle", "over"}
  BY <1>1 DEF Restoring!InWindow
<1> QED BY <1>1, <1>2, <1>3, <1>4, WindowMoves

LEMMA AnnounceKeeps ==
  ASSUME RestoreInv, NEW r \in Restores, Restoring!Announce(r)
  PROVE  RestoreInv'
<1>1. /\ place[r] = "idle" /\ owner = Restoring!Nobody
      /\ place' = [place EXCEPT ![r] = "entering"]
      /\ owner' = r /\ barrier' = TRUE
      /\ UNCHANGED <<operations, Restoring!handles, Restoring!files, Restoring!told,
                     Restoring!faults>>
  BY DEF Restoring!Announce, Restoring!Go
<1>2. Restoring!TypeOK'
  BY <1>1 DEF RestoreInv, Restoring!TypeOK, Restoring!RestoreAt, Restoring!handles,
              Restoring!files, Restoring!told, Restoring!faults
<1>3. place'[r] = "entering"
  BY <1>1 DEF RestoreInv, Restoring!TypeOK
<1>4. Owns(r)' /\ Holds(r)'
  BY <1>1, <1>3 DEF Owns, Holds, Restoring!InWindow
<1>5. \A n \in Restores \ {r} : place[n] \in {"idle", "over"}
  BY <1>1, Apart DEF RestoreInv, Owns, Restoring!Nobody
<1> QED BY <1>1, <1>2, <1>4, <1>5, RestoreMoves DEF Restoring!RestoreAt, Restoring!told

LEMMA EnterKeeps == ASSUME RestoreInv, NEW r \in Restores, Restoring!Enter(r) PROVE RestoreInv'
<1> DEFINE kept == [threads |-> database, artifacts |-> artifacts]
           meant == [threads |-> database \cup log, artifacts |-> artifacts]
<1>1. /\ place[r] = "entering" /\ operations = 0 /\ place' = [place EXCEPT ![r] = "closing"]
      /\ captured' = [captured EXCEPT ![r] = kept]
      /\ before' = [before EXCEPT ![r] = meant]
      /\ UNCHANGED <<Restoring!gate, Restoring!handles, Restoring!files, restored,
                     Restoring!faults>>
  BY DEF Restoring!Enter, Restoring!Go
<1>2. kept \in Restoring!Files /\ meant \in Restoring!Files
  BY DEF RestoreInv, Restoring!TypeOK, Restoring!Files
<1>3. /\ kept.threads = database /\ kept.artifacts = artifacts
      /\ meant.threads = database \cup log /\ meant.artifacts = artifacts
  OBVIOUS
<1> HIDE DEF kept, meant
<1>4. Restoring!TypeOK'
  BY <1>1, <1>2 DEF RestoreInv, Restoring!TypeOK, Restoring!RestoreAt, Restoring!gate,
                    Restoring!handles, Restoring!files, Restoring!faults
<1>5. place'[r] = "closing" /\ captured'[r] = kept /\ before'[r] = meant
  BY <1>1 DEF RestoreInv, Restoring!TypeOK
<1>6. Owns(r)'
  BY <1>1 DEF RestoreInv, Owns, Restoring!gate
<1>7. Holds(r)'
  BY <1>1, <1>3, <1>5 DEF Holds, Same, Restoring!Content, Restoring!files, Restoring!InWindow
<1>8. \A q \in Requests : place[q] \in {"idle", "over"}
  <2>1. Inside = {}
    BY <1>1, InsideIsFinite, FS_EmptySet DEF RestoreInv, Counted
  <2> QED BY <2>1 DEF Inside
<1>9. \A n \in Restores \ {r} :
        place[n] \in {"idle", "over"} /\ captured'[n] = captured[n] /\ before'[n] = before[n]
  BY <1>1, OneRestore DEF RestoreInv, Restoring!TypeOK
<1>10. operations' = operations
  BY <1>1 DEF Restoring!gate
<1> QED BY <1>1, <1>4, <1>6, <1>7, <1>8, <1>9, <1>10, RestoreMoves DEF Restoring!RestoreAt

\* A restore that is in its window: nobody is inside, no other restore is under way.
LEMMA Within ==
  ASSUME RestoreInv, NEW r \in Restores, Restoring!InWindow(r)
  PROVE  /\ \A q \in Requests : place[q] \in {"idle", "over"}
         /\ \A n \in Restores \ {r} : place[n] \in {"idle", "over"}
         /\ barrier /\ owner = r /\ Holds(r)
<1>1. place[r] \notin {"idle", "over"}
  BY DEF Restoring!InWindow
<1> QED BY <1>1, OneRestore DEF RestoreInv, Restoring!WindowIsExclusive

\* A step within the window.
LEMMA WithinMoves ==
  ASSUME RestoreInv, NEW r \in Restores, Restoring!InWindow(r),
         NEW x \in Restoring!RestoreAt \ {"idle", "entering", "over"},
         place' = [place EXCEPT ![r] = x],
         UNCHANGED <<Restoring!gate, captured, before>>, Restoring!TypeOK', Holds(r)'
  PROVE  RestoreInv'
<1>1. operations' = operations /\ barrier' = barrier /\ owner' = owner
  BY DEF Restoring!gate
<1>2. Owns(r)'
  BY <1>1, Within DEF Owns
<1> QED BY <1>1, <1>2, Within, RestoreMoves

LEMMA CloseKeepsRestores ==
  ASSUME RestoreInv, NEW r \in Restores, Restoring!Close(r)
  PROVE  RestoreInv'
<1> DEFINE x == IF place[r] = "closing" THEN "promoting" ELSE "rolling"
           all == [a \in DOMAIN place |->
              CASE a = r -> x
                [] place[a] = "using" -> "detached"
                [] place[a] = "holding" -> "stray"
                [] OTHER -> place[a]]
<1>1. /\ place[r] \in {"closing", "undoing"} /\ place' = all /\ handle' = FALSE
      /\ strays' = strays \cup {u \in Restoring!Users : place[u] = "holding"}
      /\ IF handle /\ strays' = {} THEN database' = database \cup log /\ log' = {}
           ELSE UNCHANGED <<database, log>>
      /\ UNCHANGED <<Restoring!gate, artifacts, mixed, Restoring!told, Restoring!faults>>
  BY DEF Restoring!Close
<1>2. Restoring!InWindow(r)
  BY <1>1 DEF Restoring!InWindow
<1>3. DOMAIN place = Restoring!Users \cup Restores
  BY DEF RestoreInv, Restoring!TypeOK
<1>4. /\ place'[r] = x
      /\ \A a \in (Restoring!Users \cup Restores) \ {r} :
           place'[a] = (CASE place[a] = "using" -> "detached"
                       [] place[a] = "holding" -> "stray"
                       [] OTHER -> place[a])
      /\ place' = [a \in Restoring!Users \cup Restores |-> place'[a]]
  <2>1. place'[r] = x
    BY <1>1, <1>3
  <2>2. ASSUME NEW a \in (Restoring!Users \cup Restores) \ {r}
        PROVE  place'[a] = (CASE place[a] = "using" -> "detached"
                           [] place[a] = "holding" -> "stray"
                           [] OTHER -> place[a])
    BY <1>1, <1>3
  <2>3. place' = [a \in Restoring!Users \cup Restores |-> place'[a]]
    BY <1>1, <1>3
  <2> QED BY <2>1, <2>2, <2>3
<1> HIDE DEF all
<1>5. \A q \in Requests : place'[q] = place[q]
  <2> SUFFICES ASSUME NEW q \in Requests PROVE place'[q] = place[q]
    OBVIOUS
  <2>1. place[q] \in {"idle", "over"} /\ q \in (Restoring!Users \cup Restores) \ {r}
    BY <1>2, Within, Apart
  <2> QED BY <2>1, <1>4
<1>6. \A n \in Restores \ {r} : place'[n] = place[n] /\ place[n] \in {"idle", "over"}
  <2> SUFFICES ASSUME NEW n \in Restores \ {r} PROVE place'[n] = place[n]
  /\ place[n] \in {"idle", "over"}
    OBVIOUS
  <2>1. place[n] \in {"idle", "over"}
    BY <1>2, Within
  <2> QED BY <2>1, <1>4
<1>7. \A u \in Restoring!Users : place'[u] \in Restoring!UserAt
  <2> SUFFICES ASSUME NEW u \in Restoring!Users PROVE place'[u] \in Restoring!UserAt
    OBVIOUS
  <2>1. place[u] \in Restoring!UserAt /\ u \in (Restoring!Users \cup Restores) \ {r}
    BY Apart DEF RestoreInv, PlacesOK
  <2> QED BY <2>1, <1>4 DEF Restoring!UserAt
<1>8. x \in {"promoting", "rolling"} /\ x \in Restoring!RestoreAt
  BY DEF Restoring!RestoreAt
<1>9. strays' \subseteq Outside
  <2>1. \A u \in Restoring!Users : place[u] = "holding" => u \in Outside
    BY <1>2, Within, Apart
  <2> QED BY <2>1, <1>1 DEF RestoreInv, Restoring!TypeOK
<1>10. /\ database' \cup log' = database \cup log
       /\ Restoring!Content(database, log)' = Restoring!Content(database, log)
       /\ database' \subseteq Restoring!Messages /\ log' \subseteq Restoring!Messages
  BY <1>1 DEF Restoring!Content, RestoreInv, Restoring!TypeOK
<1>11. Restoring!TypeOK'
  <2>1. \A a \in Restoring!Users \cup Restores :
             place'[a] \in Restoring!UserAt \cup Restoring!RestoreAt
    BY <1>4, <1>6, <1>7, <1>8 DEF RestoreInv, PlacesOK
  <2>2. place' \in [Restoring!Users \cup Restores -> Restoring!UserAt \cup Restoring!RestoreAt]
    BY <2>1, <1>4
  <2> HIDE DEF x
  <2> QED BY <2>2, <1>1, <1>9, <1>10 DEF RestoreInv, Restoring!TypeOK, Restoring!gate,
      Restoring!told, Restoring!faults
<1>12. Holds(r)'
  <2>1. /\ (Same(r) => Same(r)') /\ (Replaced(r) => Replaced(r)')
    BY <1>1, <1>10 DEF Same, Replaced, Restoring!Promoted, Restoring!told
  <2>2. Holds(r)
    BY <1>2, Within
  <2>3. captured' = captured /\ before' = before /\ restored' = restored /\ mixed' = mixed
    BY <1>1 DEF Restoring!told
  <2>4. CASE place[r] = "closing"
    <3>1. place'[r] = "promoting"
      BY <2>4, <1>4
    <3> QED BY <2>1, <2>2, <2>3, <2>4, <3>1, <1>2 DEF Holds, Restoring!InWindow
  <2>5. CASE place[r] = "undoing"
    <3>1. place'[r] = "rolling"
      BY <2>5, <1>4
    <3> QED BY <2>1, <2>2, <2>3, <2>5, <3>1, <1>2 DEF Holds, Restoring!InWindow
  <2> QED BY <2>4, <2>5, <1>1
<1>13. Owns(r)' /\ operations' = operations
  BY <1>1, <1>2, Within DEF Owns, Restoring!gate
<1> HIDE DEF x
<1> QED BY <1>1, <1>2, <1>4, <1>5, <1>6, <1>7, <1>8, <1>11, <1>12, <1>13, Within,
           WindowMoves DEF Restoring!told

LEMMA PromoteKeeps ==
  ASSUME RestoreInv, NEW r \in Restores, Restoring!Promote(r)
  PROVE  RestoreInv'
<1>1. /\ place[r] = "promoting" /\ place' = [place EXCEPT ![r] = "reopening"]
      /\ database' = (IF "threads" \in Restoring!Promoted(r) THEN {Archived} ELSE database)
      /\ artifacts' = (IF "artifacts" \in Restoring!Promoted(r) THEN "archived" ELSE artifacts)
      /\ mixed' = (mixed \/ ("threads" \in Restoring!Promoted(r) /\ Restoring!Mixes))
      /\ UNCHANGED <<Restoring!gate, Restoring!handles, log, Restoring!told, Restoring!faults>>
  BY DEF Restoring!Promote, Restoring!Go
<1>2. Restoring!InWindow(r) /\ Holds(r)
  BY <1>1 DEF Restoring!InWindow, RestoreInv
<1>3. Restoring!TypeOK'
  <2>1. mixed' \in BOOLEAN
    BY <1>1 DEF RestoreInv, Restoring!TypeOK, Restoring!Mixes
  <2>2. database' \subseteq Restoring!Messages /\ artifacts' \in {"before", "archived", "none"}
    BY <1>1, Apart DEF RestoreInv, Restoring!TypeOK
  <2>3. place' \in [Restoring!Users \cup Restores -> Restoring!UserAt \cup Restoring!RestoreAt]
    BY <1>1 DEF RestoreInv, Restoring!TypeOK, Restoring!RestoreAt
  <2> QED BY <2>1, <2>2, <2>3, <1>1 DEF RestoreInv, Restoring!TypeOK, Restoring!gate,
                                        Restoring!handles, Restoring!told, Restoring!faults
<1>4. place'[r] = "reopening"
  BY <1>1 DEF RestoreInv, Restoring!TypeOK
<1>5. captured' = captured /\ before' = before /\ log' = log
  BY <1>1 DEF Restoring!told
<1>6. ASSUME ~mixed' PROVE Replaced(r)'
  <2>1. ~mixed /\ ("threads" \in Restoring!Promoted(r) => log = {})
    BY <1>1, <1>6 DEF Restoring!Mixes
  <2>2. Same(r)
    BY <2>1, <1>1, <1>2 DEF Holds
  <2>3. Archived \notin Outside
    BY Apart
  <2> QED BY <2>1, <2>2, <2>3, <1>1, <1>5 DEF Same, Replaced, Restoring!Content,
      Restoring!Promoted
<1>7. Holds(r)'
  BY <1>2, <1>4, <1>5, <1>6 DEF Holds
<1> QED BY <1>1, <1>2, <1>3, <1>5, <1>7, WithinMoves DEF Restoring!RestoreAt

LEMMA ReopenKeeps == ASSUME RestoreInv, NEW r \in Restores, Restoring!Reopen(r) PROVE RestoreInv'
<1>1. /\ place[r] = "reopening" /\ place' = [place EXCEPT ![r] = "leaving"] /\ handle' = TRUE
      /\ restored' = [restored EXCEPT ![r] = "ok"]
      /\ UNCHANGED <<Restoring!gate, strays, Restoring!files, captured, before, Restoring!faults>>
  BY DEF Restoring!Reopen, Restoring!Go
<1>2. Restoring!InWindow(r) /\ Holds(r)
  BY <1>1 DEF Restoring!InWindow, RestoreInv
<1>3. Restoring!TypeOK'
  BY <1>1 DEF RestoreInv, Restoring!TypeOK, Restoring!RestoreAt, Restoring!gate,
              Restoring!files, Restoring!faults
<1>4. place'[r] = "leaving" /\ restored'[r] = "ok"
  BY <1>1 DEF RestoreInv, Restoring!TypeOK
<1>5. Replaced(r) => Replaced(r)'
  BY <1>1 DEF Replaced, Restoring!Promoted, Restoring!files
<1>6. Holds(r)'
  BY <1>1, <1>2, <1>4, <1>5 DEF Holds, Restoring!files
<1> QED BY <1>1, <1>2, <1>3, <1>6, WithinMoves DEF Restoring!RestoreAt

LEMMA FailsKeepsRestores ==
  ASSUME RestoreInv, NEW r \in Restores, Restoring!Fails(r)
  PROVE  RestoreInv'
<1>1. /\ broken < MaxFaults /\ broken' = broken + 1
      /\ place[r] \in {"closing", "promoting", "reopening"}
      /\ place' = [place EXCEPT ![r] = "undoing"]
      /\ handle' \in {handle, handle \/ place[r] = "reopening"}
      /\ UNCHANGED <<Restoring!gate, strays, Restoring!files, Restoring!told, crashed>>
  BY DEF Restoring!Fails
<1>2. Restoring!InWindow(r) /\ Holds(r)
  BY <1>1 DEF Restoring!InWindow, RestoreInv
<1>3. Restoring!TypeOK'
  <2>1. broken' \in 0..MaxFaults
    BY <1>1, Apart DEF RestoreInv, Restoring!TypeOK
  <2>2. handle' \in BOOLEAN
    BY <1>1 DEF RestoreInv, Restoring!TypeOK
  <2> QED BY <1>1, <2>1, <2>2 DEF RestoreInv, Restoring!TypeOK, Restoring!RestoreAt,
                                  Restoring!gate, Restoring!files, Restoring!told
<1>4. place'[r] = "undoing"
  BY <1>1 DEF RestoreInv, Restoring!TypeOK
<1>5. (Replaced(r) => Replaced(r)') /\ (Same(r) => Same(r)')
  BY <1>1 DEF Replaced, Same, Restoring!Promoted, Restoring!files, Restoring!told
<1>6. Holds(r)'
  BY <1>1, <1>2, <1>4, <1>5 DEF Holds, Restoring!files, Restoring!told
<1> QED BY <1>1, <1>2, <1>3, <1>6, WithinMoves DEF Restoring!RestoreAt, Restoring!told

LEMMA UndoKeeps == ASSUME RestoreInv, NEW r \in Restores, Restoring!Undo(r) PROVE RestoreInv'
<1>1. /\ place[r] = "rolling" /\ place' = [place EXCEPT ![r] = "recovering"]
      /\ database' = (IF "threads" \in Restoring!Captured(r) THEN captured[r].threads ELSE database)
      /\ artifacts' = (CASE "artifacts" \in Restoring!Captured(r) -> captured[r].artifacts
                         [] Restoring!Cleaned(r)
                         /\ "artifacts" \notin Restoring!Captured(r) -> "none"
                         [] OTHER -> artifacts)
      /\ mixed' = (mixed \/ ("threads" \in Restoring!Captured(r) /\ Restoring!Mixes))
      /\ UNCHANGED <<Restoring!gate, Restoring!handles, log, Restoring!told, Restoring!faults>>
  BY DEF Restoring!Undo, Restoring!Go
<1>2. Restoring!InWindow(r) /\ Holds(r)
  BY <1>1 DEF Restoring!InWindow, RestoreInv
<1>3. Restoring!TypeOK'
  <2>1. mixed' \in BOOLEAN
    BY <1>1 DEF RestoreInv, Restoring!TypeOK, Restoring!Mixes
  <2>2. captured[r] \in Restoring!Files
    BY DEF RestoreInv, Restoring!TypeOK
  <2>3. database' \subseteq Restoring!Messages /\ artifacts' \in {"before", "archived", "none"}
    BY <1>1, <2>2 DEF RestoreInv, Restoring!TypeOK, Restoring!Files
  <2>4. place' \in [Restoring!Users \cup Restores -> Restoring!UserAt \cup Restoring!RestoreAt]
    BY <1>1 DEF RestoreInv, Restoring!TypeOK, Restoring!RestoreAt
  <2> QED BY <2>1, <2>3, <2>4, <1>1 DEF RestoreInv, Restoring!TypeOK, Restoring!gate,
                                        Restoring!handles, Restoring!told, Restoring!faults
<1>4. place'[r] = "recovering"
  BY <1>1 DEF RestoreInv, Restoring!TypeOK
<1>5. captured' = captured /\ before' = before /\ log' = log
  BY <1>1 DEF Restoring!told
<1>6. ASSUME ~mixed' PROVE Undone(r)'
  <2>1. ~mixed /\ ("threads" \in Restoring!Captured(r) => log = {})
    BY <1>1, <1>6 DEF Restoring!Mixes
  <2>2. Same(r) \/ Replaced(r)
    BY <2>1, <1>1, <1>2 DEF Holds
  <2>3. /\ captured[r].threads \subseteq before[r].threads
        /\ captured[r].artifacts = before[r].artifacts
    BY <1>2 DEF Holds
  <2>4. captured[r].threads \subseteq database' \cup log'
        /\ Restoring!Content(database, log)' \subseteq before[r].threads
    <3>1. CASE "threads" \in Restoring!Captured(r)
      BY <3>1, <2>1, <2>3, <1>1, <1>5 DEF Restoring!Content
    <3>2. CASE "threads" \notin Restoring!Captured(r)
      <4>1. "threads" \notin Restoring!Promoted(r)
        BY <3>2, SelectedIs
      <4> QED BY <4>1, <3>2, <2>2, <1>1, <1>5 DEF Restoring!Content, Same, Replaced
    <3> QED BY <3>1, <3>2
  <2>5. artifacts' = before[r].artifacts \/ (Selected[r] = None /\ artifacts' = "none")
    <3>1. CASE "artifacts" \in Restoring!Captured(r)
      BY <3>1, <2>3, <1>1
    <3>2. CASE "artifacts" \notin Restoring!Captured(r) /\ Restoring!Cleaned(r)
      <4>1. artifacts' = "none"
        BY <3>2, <1>1
      <4> QED BY <4>1, <3>2, SelectedIs
    <3>3. CASE "artifacts" \notin Restoring!Captured(r) /\ ~Restoring!Cleaned(r)
      <4>1. artifacts' = artifacts
        BY <3>3, <1>1
      <4>2. "artifacts" \notin Restoring!Promoted(r)
        BY <3>3, SelectedIs DEF Restoring!Cleaned
      <4> QED BY <4>1, <4>2, <2>2 DEF Same, Replaced
    <3> QED BY <3>1, <3>2, <3>3
  <2> QED BY <2>4, <2>5, <1>5 DEF Undone
<1>7. Holds(r)'
  BY <1>2, <1>4, <1>5, <1>6 DEF Holds
<1> QED BY <1>1, <1>2, <1>3, <1>5, <1>7, WithinMoves DEF Restoring!RestoreAt

LEMMA RecoverKeeps ==
  ASSUME RestoreInv, NEW r \in Restores, Restoring!Recover(r)
  PROVE  RestoreInv'
<1>1. /\ place[r] = "recovering" /\ place' = [place EXCEPT ![r] = "leaving"]
      /\ handle' \in {handle, TRUE}
      /\ restored' = [restored EXCEPT ![r] = "failed"]
      /\ UNCHANGED <<Restoring!gate, strays, Restoring!files, captured, before, Restoring!faults>>
  BY DEF Restoring!Recover, Restoring!Go
<1>2. Restoring!InWindow(r) /\ Holds(r)
  BY <1>1 DEF Restoring!InWindow, RestoreInv
<1>3. Restoring!TypeOK'
  BY <1>1 DEF RestoreInv, Restoring!TypeOK, Restoring!RestoreAt, Restoring!gate,
              Restoring!files, Restoring!faults
<1>4. place'[r] = "leaving" /\ restored'[r] = "failed"
  BY <1>1 DEF RestoreInv, Restoring!TypeOK
<1>5. Undone(r) => Undone(r)'
  BY <1>1 DEF Undone, Restoring!files
<1>6. Holds(r)'
  BY <1>1, <1>2, <1>4, <1>5 DEF Holds, Restoring!files
<1> QED BY <1>1, <1>2, <1>3, <1>6, WithinMoves DEF Restoring!RestoreAt

LEMMA LeaveKeepsRestores ==
  ASSUME RestoreInv, NEW r \in Restores, Restoring!Leave(r)
  PROVE  RestoreInv'
<1>1. /\ place[r] = "leaving" /\ place' = [place EXCEPT ![r] = "over"]
      /\ barrier' = FALSE /\ owner' = Restoring!Nobody
      /\ UNCHANGED <<operations, Restoring!handles, Restoring!files, Restoring!told,
                     Restoring!faults>>
  BY DEF Restoring!Leave, Restoring!Go
<1>2. Restoring!TypeOK'
  BY <1>1 DEF RestoreInv, Restoring!TypeOK, Restoring!RestoreAt, Restoring!handles,
              Restoring!files, Restoring!told, Restoring!faults
<1>3. place'[r] = "over"
  BY <1>1 DEF RestoreInv, Restoring!TypeOK
<1>4. Owns(r)' /\ Holds(r)'
  BY <1>3 DEF Owns, Holds, Restoring!InWindow
<1>5. \A n \in Restores \ {r} : place[n] \in {"idle", "over"}
  BY <1>1, OneRestore
<1> QED BY <1>1, <1>2, <1>4, <1>5, RestoreMoves DEF Restoring!RestoreAt, Restoring!told

LEMMA CrashKeepsRestores == ASSUME RestoreInv, Restoring!Crash PROVE RestoreInv'
<1>1. /\ crashed < MaxCrashes /\ crashed' = crashed + 1
      /\ place' = [a \in DOMAIN place |-> IF place[a] = "idle" THEN "idle" ELSE "over"]
      /\ barrier' = FALSE /\ operations' = 0 /\ owner' = Restoring!Nobody
      /\ handle' = FALSE /\ strays' = {} /\ UNCHANGED <<Restoring!told, broken>>
  BY DEF Restoring!Crash
<1>2. DOMAIN place = Restoring!Users \cup Restores
  BY DEF RestoreInv, Restoring!TypeOK
<1>3. \A a \in Restoring!Users \cup Restores : place'[a] \in {"idle", "over"}
  BY <1>1, <1>2
<1>4. /\ database' \subseteq Restoring!Messages /\ log' \subseteq Restoring!Messages
      /\ mixed' \in BOOLEAN
      /\ artifacts' \in {"before", "archived", "none"}
  <2>1. CASE UNCHANGED Restoring!files
    BY <2>1 DEF RestoreInv, Restoring!TypeOK, Restoring!files
  <2>2. CASE ~UNCHANGED Restoring!files
    <3>1. \E done \in SUBSET Restoring!Categories :
            /\ database' = IF "threads" \in done THEN {Archived} ELSE database
            /\ artifacts' = IF "artifacts" \in done THEN "archived" ELSE artifacts
            /\ mixed' = (mixed \/ ("threads" \in done /\ Restoring!Mixes))
            /\ UNCHANGED log
      BY <2>2, SelectedIs DEF Restoring!Crash
    <3>2. mixed' \in BOOLEAN
      BY <3>1 DEF RestoreInv, Restoring!TypeOK, Restoring!Mixes
    <3> QED BY <3>1, <3>2, Apart DEF RestoreInv, Restoring!TypeOK
  <2> QED BY <2>1, <2>2
<1>5. place' \in [Restoring!Users \cup Restores -> Restoring!UserAt \cup Restoring!RestoreAt]
  BY <1>1, <1>2 DEF Restoring!UserAt
<1>6. operations' \in 0..Cardinality(Requests)
  BY <1>1, Apart, FS_CardinalityType
<1>7. crashed' \in 0..MaxCrashes
  BY <1>1, Apart DEF RestoreInv, Restoring!TypeOK
<1>8. Restoring!TypeOK'
  BY <1>1, <1>4, <1>5, <1>6, <1>7, SameCardinality
     DEF RestoreInv, Restoring!TypeOK, Restoring!told
<1>9. Counted'
  <2>1. Inside' = {}
    BY <1>3, Apart DEF Inside
  <2> QED BY <2>1, <1>1, FS_EmptySet DEF Counted
<1>10. PlacesOK'
  BY <1>3, Apart DEF PlacesOK, Restoring!UserAt, Restoring!RestoreAt
<1>11. Restoring!WindowIsExclusive' /\ \A r \in Restores : Owns(r)' /\ Holds(r)'
  BY <1>3 DEF Restoring!WindowIsExclusive, Restoring!InWindow, Owns, Holds
<1> QED BY <1>8, <1>9, <1>10, <1>11 DEF RestoreInv

LEMMA RestoreStarts == ASSUME Restoring!Init PROVE RestoreInv
<1>1. \A a \in Restoring!Users \cup Restores : place[a] = "idle"
  BY DEF Restoring!Init
<1>2. Restoring!NoFiles \in Restoring!Files
  BY DEF Restoring!NoFiles, Restoring!Files
<1>3. Stored \in Restoring!Messages /\ "idle" \in Restoring!UserAt \cup Restoring!RestoreAt
  BY DEF Restoring!Messages, Restoring!UserAt
<1>4. 0 \in 0..Cardinality(Requests) /\ 0 \in 0..MaxFaults /\ 0 \in 0..MaxCrashes
  BY Apart, FS_CardinalityType
<1>5. Restoring!TypeOK
  BY <1>2, <1>3, <1>4, SameCardinality DEF Restoring!Init, Restoring!TypeOK
<1>6. Counted
  <2>1. Inside = {}
    BY <1>1, Apart DEF Inside
  <2> QED BY <2>1, FS_EmptySet DEF Counted, Restoring!Init
<1>7. PlacesOK
  BY <1>1, Apart DEF PlacesOK, Restoring!UserAt, Restoring!RestoreAt
<1>8. Restoring!WindowIsExclusive /\ \A r \in Restores : Owns(r) /\ Holds(r)
  BY <1>1 DEF Restoring!WindowIsExclusive, Restoring!InWindow, Owns, Holds
<1> QED BY <1>5, <1>6, <1>7, <1>8 DEF RestoreInv

LEMMA RestoreStepKeeps == ASSUME RestoreInv, Restoring!Next PROVE RestoreInv'
<1>1. CASE \E q \in Requests : Restoring!Begin(q)
  BY <1>1, BeginKeepsRestores
<1>2. CASE \E u \in Restoring!Users : Restoring!Ask(u) \/ Restoring!UserStep(u)
  BY <1>2, QuietUserKeeps, CommitKeeps, EndKeepsRestores DEF Restoring!UserStep
<1>3. CASE Restoring!Checkpoint
  BY <1>3, CheckpointKeeps
<1>4. CASE \E r \in Restores : Restoring!Announce(r) \/ Restoring!RestoreStep(r)
                \/ Restoring!Fails(r)
  BY <1>4, AnnounceKeeps, EnterKeeps, CloseKeepsRestores, PromoteKeeps, ReopenKeeps, UndoKeeps,
     RecoverKeeps, LeaveKeepsRestores, FailsKeepsRestores DEF Restoring!RestoreStep
<1>5. CASE Restoring!Crash
  BY <1>5, CrashKeepsRestores
<1> QED BY <1>1, <1>2, <1>3, <1>4, <1>5 DEF Restoring!Next

LEMMA RestoreStutters == ASSUME RestoreInv, UNCHANGED Restoring!vars PROVE RestoreInv'
<1>1. Restoring!TypeOK' /\ Counted' /\ PlacesOK' /\ Restoring!WindowIsExclusive'
  BY DEF RestoreInv, Restoring!TypeOK, Counted, Inside, PlacesOK, Restoring!WindowIsExclusive,
         Restoring!InWindow,
         Restoring!vars, Restoring!gate, Restoring!handles, Restoring!files, Restoring!told,
              Restoring!faults
<1>2. ASSUME NEW r \in Restores PROVE Owns(r)' /\ Holds(r)'
  BY DEF RestoreInv, Owns, Holds, Same, Replaced, Undone, Restoring!Promoted,
         Restoring!Content, Restoring!InWindow,
         Restoring!vars, Restoring!gate, Restoring!files, Restoring!told
<1> QED BY <1>1, <1>2 DEF RestoreInv

LEMMA RestoreInvIsEnough ==
  ASSUME RestoreInv
  PROVE  Restoring!TypeOK /\ Restoring!WindowIsExclusive /\ Restoring!RestoredIsArchive
         /\ Restoring!FailureLosesLittle
BY DEF RestoreInv, Holds, Replaced, Undone, Restoring!RestoredIsArchive,
       Restoring!FailureLosesLittle

\* A restore has the files to itself; one that answers ok has left the backup in what it
\* was asked for, and one that fails takes away no more than the log and, when no
\* category was named, the artifacts (restore_local_backup, maintenance_window).
THEOREM RestoresLoseLittle ==
  Restoring!Spec => [](/\ Restoring!TypeOK /\ Restoring!WindowIsExclusive
                       /\ Restoring!RestoredIsArchive /\ Restoring!FailureLosesLittle)
<1>1. RestoreInv /\ [Restoring!Next]_Restoring!vars => RestoreInv'
  BY RestoreStepKeeps, RestoreStutters
<1> QED BY <1>1, RestoreStarts, RestoreInvIsEnough, PTL DEF Restoring!Spec

-----------------------------------------------------------------------------
(* The three together.                                                     *)

\* What is on disk of the local models is whole, jobs are worked on by one task, and a
\* restore has the files to itself and loses little, whatever the others do.
THEOREM FilesStayKept == KeptSpec => []FilesAreKept
<1> DEFINE Inv3 == FilesInv /\ JobsInv /\ RestoreInv
<1>1. KeptInit => Inv3
  BY FilesStart, JobsStart, RestoreStarts DEF KeptInit
<1>2. Inv3 /\ [KeptNext]_keptVars => Inv3'
  <2> SUFFICES ASSUME Inv3, [KeptNext]_keptVars
               PROVE  Inv3'
    OBVIOUS
  <2>0. /\ Files!Next \/ UNCHANGED fileVars
        /\ Jobs!Next \/ UNCHANGED jobVars
        /\ Restoring!Next \/ UNCHANGED restoreVars
    BY DEF KeptNext, keptVars
  <2>1. FilesInv'
    <3>1. UNCHANGED fileVars => UNCHANGED Files!vars
      BY DEF fileVars, Files!vars, Files!memory
    <3> QED BY <3>1, <2>0, FilesStep, FilesStutter
  <2>2. JobsInv'
    <3>1. UNCHANGED jobVars => UNCHANGED Jobs!vars
      BY DEF jobVars, Jobs!vars, Jobs!memory, Jobs!store
    <3> QED BY <3>1, <2>0, JobsStepKeeps, JobsStutter
  <2>3. RestoreInv'
    <3>1. UNCHANGED restoreVars => UNCHANGED Restoring!vars
      BY DEF restoreVars, Restoring!vars, Restoring!gate, Restoring!handles, Restoring!files,
             Restoring!told, Restoring!faults
    <3> QED BY <3>1, <2>0, RestoreStepKeeps, RestoreStutters
  <2> QED BY <2>1, <2>2, <2>3
<1>3. Inv3 => FilesAreKept
  BY FilesInvIsEnough, JobsInvIsEnough, RestoreInvIsEnough DEF FilesAreKept
<1> QED BY <1>1, <1>2, <1>3, PTL DEF KeptSpec

=============================================================================
