SPECIFICATION Spec
CONSTANTS
  Stages = {1, 2, 3}
  Plans = {p1}
  Keys = {k1}
  Clients = {c1, c2}
  Workers = {w1, w2}
  Graphs <- StageGraphs
  None = None
  MaxAttempts = 2
  Events = {"tamper", "cancel", "crash", "claim_crash", "late"}
SYMMETRY ActorSymmetry
INVARIANTS
  TypeOK
  StartsAfterDependencies
  ExecutionsGoOn
  ExecutedAsApproved
  EndsAreSound
PROPERTIES
  ResultComesFromOwner
  ResultsAreFinal
