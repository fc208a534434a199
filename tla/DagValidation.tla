----------------------------- MODULE DagValidation -----------------------------
(***************************************************************************)
(* validate_stages (backend/scheduling/dag.py): the checks of the names,   *)
(* then the depth-first search, its recursion kept as a stack of frames.   *)
(* A frame is a call of visit() in its loop over graph[node]: the node and *)
(* the dependencies it has still to look at, which Python takes from a set *)
(* in no particular order.  Stage ids are distinct here: a plan with empty *)
(* or repeated ids never reaches the search.                               *)
(***************************************************************************)
EXTENDS DagGraph, Sequences

CONSTANT Unknown   \* an id that no stage of the plan has

ASSUME UnknownAssumption == Unknown \notin Stages

VARIABLES
  graph,      \* depends_on of every stage
  rest,       \* what the loop over the graph has still to visit
  stack,      \* the calls of visit()
  visiting,
  visited,
  verdict     \* running, valid, unknown or cycle

vars == <<graph, rest, stack, visiting, visited, verdict>>

Frame == [node : Stages, left : SUBSET Stages]

\* A call of visit() recurses on a node that no other call has open.
TypeOK ==
  /\ graph \in [Stages -> SUBSET (Stages \cup {Unknown})]
  /\ rest \subseteq Stages
  /\ stack \in Seq(Frame)
  /\ \A i, j \in 1..Len(stack) : stack[i].node = stack[j].node => i = j
  /\ visiting \subseteq Stages
  /\ visited \subseteq Stages
  /\ verdict \in {"running", "valid", "unknown", "cycle"}

Init ==
  /\ graph \in [Stages -> SUBSET (Stages \cup {Unknown})]
  /\ rest = Stages
  /\ stack = <<>>
  /\ visiting = {}
  /\ visited = {}
  /\ verdict = IF graph \in GraphType THEN "running" ELSE "unknown"

\* A call of visit(node) up to its loop, from the frames `below'.
Visit(node, below) ==
  IF node \in visiting
    THEN verdict' = "cycle" /\ stack' = below /\ UNCHANGED visiting
    ELSE /\ IF node \in visited THEN stack' = below /\ UNCHANGED visiting
            ELSE /\ stack' = Append(below, [node |-> node, left |-> graph[node]])
                 /\ visiting' = visiting \cup {node}
         /\ UNCHANGED verdict

VisitStage(node) ==
  /\ verdict = "running"
  /\ stack = <<>>
  /\ node \in rest
  /\ \A other \in rest : node <= other
  /\ rest' = rest \ {node}
  /\ Visit(node, stack)
  /\ UNCHANGED <<graph, visited>>

VisitDependency(dep) ==
  /\ verdict = "running"
  /\ stack # <<>>
  /\ LET top == stack[Len(stack)] IN
       /\ dep \in top.left
       /\ Visit(dep, [stack EXCEPT ![Len(stack)].left = top.left \ {dep}])
  /\ UNCHANGED <<graph, rest, visited>>

\* Mutant: the node stays in `visiting'.
ReturnVisiting ==
  /\ verdict = "running"
  /\ stack # <<>>
  /\ LET top == stack[Len(stack)] IN
       /\ top.left = {}
       /\ visited' = visited \cup {top.node}
  /\ stack' = SubSeq(stack, 1, Len(stack) - 1)
  /\ UNCHANGED <<graph, rest, visiting, verdict>>

\* visit() returns.
Return ==
  /\ verdict = "running"
  /\ stack # <<>>
  /\ LET top == stack[Len(stack)] IN
       /\ top.left = {}
       /\ visiting' = visiting \ {top.node}
       /\ visited' = visited \cup {top.node}
  /\ stack' = SubSeq(stack, 1, Len(stack) - 1)
  /\ UNCHANGED <<graph, rest, verdict>>

Accept ==
  /\ verdict = "running"
  /\ stack = <<>>
  /\ rest = {}
  /\ verdict' = "valid"
  /\ UNCHANGED <<graph, rest, stack, visiting, visited>>

Next ==
  \/ \E s \in Stages : VisitStage(s) \/ VisitDependency(s)
  \/ Return
  \/ Accept

Spec == Init /\ [][Next]_vars

-----------------------------------------------------------------------------
(* Properties.                                                             *)

\* Among the graphs over known stages validate_stages refuses exactly those
\* that have a cycle, in whatever order the sets are iterated: a dependency
\* that is shared is not taken for one, and none hides behind a visited stage.
VerdictIsRight ==
  /\ verdict = "valid" => Acyclic(graph)
  /\ verdict = "cycle" => ~Acyclic(graph)

=============================================================================
