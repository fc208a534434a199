SPECIFICATION Spec
CONSTANTS
  None = None
  chat1 = chat1
  chat2 = chat2
  yes1 = yes1
  yes2 = yes2
  turn1 = turn1
  turn2 = turn2
  p1 = p1
  p2 = p2
  q1 = q1
  p = p
  q = q
  nobody = nobody
  stream = stream
  plain = plain
  Runs = {chat1, chat2, yes1, yes2}
  Turns = {turn1, turn2}
  TurnOf <- MCTurnOf
  Batches <- MCBatches
  Habits = {"select", "edit"}
  MaxMessages = 7
  MaxBatch = 2
  MaxFaults = 1
  HastyHabits = {"overlap", "interject", "rewind"}
  HastyFaults = 0
  NoModel = none
  Models = {p1, p2, q1, none}
  Providers = {p, q, nobody}
  ProviderOf <- MCProviderOf
  ModelCalls = {stream, plain}
  KindOf <- MCKindOf
  Primaries = {p1, none}
  Orders <- MCOrders
  ImageModels = {q1, none}
  CallIds <- MCCallIds
  Histories <- MCHistories
  Budgets = {0, 5, 9, 16}
  ToolLimit = 8
  MarkerBase = 4
  EntrySize = 3
  ShortEntry = 1
  CutFloor = 2
  Gates = {g, h}
  MaxGoalTurns = 4
  GateLimit = 3
  JudgeLimit = 3
  MaxResumes = 1
SYMMETRY Symmetry
CONSTRAINT Bounds
INVARIANTS
  CallsRunOnce
  HistoryIsCausal
  PlansAreWhole
  FallbackIsOrderly
  GoalStops
CHECK_DEADLOCK FALSE
