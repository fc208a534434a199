-------------------------------- MODULE DagGraph --------------------------------
(***************************************************************************)
(* The dependencies of the stages of a plan, as validate_stages            *)
(* (backend/scheduling/dag.py) accepts them.  The traversal by which it    *)
(* decides is in DagValidation.                                            *)
(***************************************************************************)
EXTENDS Naturals

CONSTANT Stages   \* the stages of a plan, numbered in the order of their rows

\* A plan without stages is refused.
ASSUME StagesAssumption == Stages \subseteq Nat \ {0} /\ Stages # {}

GraphType == [Stages -> SUBSET Stages]

\* Every non-empty set of stages has one that depends on none of the others.
Acyclic(g) == \A S \in (SUBSET Stages) \ {{}} : \E s \in S : g[s] \cap S = {}

=============================================================================
