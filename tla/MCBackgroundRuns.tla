-------------------------- MODULE MCBackgroundRuns --------------------------
(***************************************************************************)
(* Instances of BackgroundRuns for TLC.  A configuration picks the tasks   *)
(* with their triggers and what the environment may do.                    *)
(***************************************************************************)
EXTENDS BackgroundRunsLease, TLC

CONSTANT A

\* Every task of an instance has the same trigger.
IntervalTask == [t \in Tasks |-> "interval"]
ManualTask == [t \in Tasks |-> "manual"]

\* One task that the clock starts, beside manual ones.
OneOnce == [t \in Tasks |-> IF t = A THEN "once" ELSE "manual"]

\* The same beside recurrent ones.
OnceAndInterval == [t \in Tasks |-> IF t = A THEN "once" ELSE "interval"]

RunSymmetry == Permutations(Runs)

=============================================================================
