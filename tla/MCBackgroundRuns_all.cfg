SPECIFICATION Spec
CONSTANTS
  A = A
  Tasks = {A}
  Runs = {r1, r2}
  NoRun = NoRun
  NoTask = NoTask
  Trigger <- ManualTask
  NeedsReview = {}
  BlockRecurrenceLimit = 2
  MaxBlocks = 2
  Events = {"create", "unblock", "chat_block", "run", "cancel", "delete", "toggle", "self_move", "budget", "claim_error", "late_heartbeat", "crash"}
SYMMETRY RunSymmetry
INVARIANTS
  BoardIsSound
PROPERTIES
  ImplementsLease
