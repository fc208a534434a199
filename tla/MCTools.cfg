SPECIFICATION ToolsSpec
CONSTANTS
  None = None
  a1 = a1
  a2 = a2
  a3 = a3
  k1 = k1
  k2 = k2
  ann = ann
  ask1 = ask1
  ask2 = ask2
  ask3 = ask3
  put1 = put1
  put2 = put2
  topic1 = topic1
  topic2 = topic2
  c1 = c1
  c2 = c2
  c3 = c3
  c4 = c4
  c5 = c5
  c6 = c6
  t1 = t1
  t2 = t2
  t3 = t3
  ana = ana
  intent = intent
  Attempts = {a1, a2, a3}
  Keys = {k1, k2}
  Users = {ann}
  Operations <- MCOperations
  KeyOf <- MCKeyOf
  UserOf <- MCUserOf
  OperationOf <- MCOperationOf
  UnitCosts <- MCUnitCosts
  Limit <- MCLimit
  MaxPeriod = 2
  Events = {"crash", "cancel", "error", "outage", "switch", "overlap"}
  Topics = {topic1, topic2}
  Options = {"yes"}
  Asks = {ask1, ask2, ask3}
  Requests = {put1, put2}
  TopicOf <- MCTopicOf
  ReplyOf <- MCReplyOf
  MaxStops = 1
  MaxErrors = 1
  MaxCrashes = 1
  Calls = {c1, c2, c3, c4, c5, c6}
  Turns = {t1, t2, t3}
  Identities = {ana}
  Correlations = {intent}
  TurnOf <- MCTurnOf
  PlaceOf <- MCPlaceOf
  Sequential = {t2}
  IdentityOf <- MCIdentityOf
  CorrelationOf <- MCCorrelationOf
  Watched = {c4, c5, c6}
  Budgeted = TRUE
  Cap = 1
  MaxFaults = 2
SYMMETRY Symmetry
CONSTRAINT Bounds
INVARIANTS
  AccountsAgree
  DeliveriesAreCharged
  QuestionsAreKept
  IntentsRunOnce
PROPERTIES
  VerdictsSettle
CHECK_DEADLOCK FALSE
