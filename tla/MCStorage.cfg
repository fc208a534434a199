SPECIFICATION StorageSpec
CONSTANTS
  Tasks = {x, y, z}
  Guarded = {x, y}
  None = None
  MinSize = 1
  MaxSize = 2
  MaxErrors = 1
  MaxCancels = 2
  MaxCloses = 1
  Threads = {th, tu}
  Coroutines = {d, e}
  Kinds = {"create", "turn", "title", "rename", "pin", "remember", "delete"}
  Workspaces = {ws}
  Pins = {pin}
  Sweeper = Sweeper
  MaxRequests = 2
  MaxFailures = 1
  Docs = {q1, q2, q3}
  MaxRetries = 2
  MaxParallel = 1
  BatchSize = 2
  Events = {"error", "rate_limit", "db", "retry", "crash"}
  th = th
SYMMETRY Symmetry
CONSTRAINT Bounds
INVARIANTS
  ConnectionsAreExclusive
  OperationsAreWhole
  RecordsAreEmbedded
PROPERTIES
  SweepsAreSafe
CHECK_DEADLOCK FALSE
