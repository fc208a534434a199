SPECIFICATION BoardSpec
CONSTANTS
  A = A
  B = B
  Tasks = {A, B, C}
  Runs = {r1, r2}
  NoRun = NoRun
  NoTask = NoTask
  Trigger <- OneOnce
  NeedsReview = {A}
  BlockRecurrenceLimit = 3
  MaxBlocks = 3
  Events = {"create", "link", "review", "issue", "resume"}
SYMMETRY RunSymmetry
INVARIANTS
  TypeOK
  NoConcurrentExecution
  LinksAcyclic
  OnceStartsOnce
PROPERTIES
  ClaimEndsByOwner
  FinalRowsStay
