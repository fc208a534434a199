SPECIFICATION Spec
CONSTANTS
  A = A
  Tasks = {A}
  Runs = {r1, r2}
  NoRun = NoRun
  NoTask = NoTask
  Trigger <- ManualTask
  NeedsReview = {}
  BlockRecurrenceLimit = 3
  MaxBlocks = 3
  Events = {"create", "run", "self_move", "unblock"}
INVARIANTS
  NoConcurrentExecution
