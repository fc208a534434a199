SPECIFICATION FairSpec
CONSTANTS
  A = A
  Tasks = {A, B}
  Runs = {r1}
  NoRun = NoRun
  NoTask = NoTask
  Trigger <- OnceAndInterval
  NeedsReview = {A}
  BlockRecurrenceLimit = 3
  MaxBlocks = 3
  Events = {"create", "run", "link", "resume", "report_error", "crash", "review", "delete", "claim_error"}
PROPERTIES
  BoardMovesOn
