------------------------ MODULE BackgroundRunsLease ------------------------
(***************************************************************************)
(* BackgroundRuns implements RunLease: claim_lock is the holder, and the   *)
(* status column of the run's row is its outcome.                          *)
(***************************************************************************)
EXTENDS BackgroundRuns

holderBar == [t \in Tasks |-> card[t].claim]

outcomeBar ==
  [r \in Runs |-> IF run[r].row \in {"done", "error", "cancelled"}
                  THEN run[r].row ELSE "open"]

Lease == INSTANCE RunLease WITH holder <- holderBar, outcome <- outcomeBar

\* Every behaviour of the background runs is a behaviour of the lease: no run
\* takes over the claim of another, none acquires one after it ended, and a
\* row becomes done only together with the release of its own claim.
ImplementsLease == Lease!Spec

=============================================================================
