SPECIFICATION Spec
CONSTANTS
  Requests = {q1, q2}
  Outside = {}
  Restores = {r1}
  Unnamed = Unnamed
  Archived = Archived
  Stored = Stored
  Selected <- MCSelected
  MaxFaults = 1
  MaxCrashes = 0
INVARIANTS
  FailureKeepsAll
CHECK_DEADLOCK FALSE
