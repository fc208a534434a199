------------------------------ MODULE MCDagStore ------------------------------
(***************************************************************************)
(* Instances of DagStore for TLC: three stages, the graphs a plan   *)
(* may be proposed with, and what the environment may do.                  *)
(***************************************************************************)
EXTENDS DagStore, TLC

\* Stage 3 joins 1 and 2; a line; a cycle.
Join == 1 :> {} @@ 2 :> {} @@ 3 :> {1, 2}
Line == 1 :> {} @@ 2 :> {1} @@ 3 :> {2}
Cycle == 1 :> {} @@ 2 :> {3} @@ 3 :> {2}

StageGraphs == {Join, Line, Cycle}

ActorSymmetry == Permutations(Workers) \union Permutations(Clients)

=============================================================================
