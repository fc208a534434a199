SPECIFICATION Spec
CONSTANTS
  Runs = {lone, r1, r2, r3}
  Threads = {t1}
  Workspaces = {w1}
  InThread <- OneThread
  InWorkspace <- OneWorkspace
  MaxChunks = 3
  MaxCancels = 2
  MaxFaults = 2
  MaxCrashes = 1
  Sweeps = TRUE
  Requests = {q1, q2, q3, q4}
  Forwarders = {k1, k2}
  MaxFrames = 1
  MaxBreaks = 2
  MaxStops = 2
  Messages = {m1, m2, m3, m4, m5, m6, m7}
  Deliveries = {d1, d2, d3}
  Reviewers = {k1, k2}
  DeliveryOf <- DeliveryOfEach
  Malformed = {m4}
  MaxQueued = 2
  SeenLimit = 2
  Attempts = 3
  None = None
  StopWorker = StopWorker
  lone = lone
  r1 = r1
  r2 = r2
  r3 = r3
  t1 = t1
  w1 = w1
  m1 = m1
  m2 = m2
  m3 = m3
  m4 = m4
  m5 = m5
  m6 = m6
  m7 = m7
  d1 = d1
  d2 = d2
  d3 = d3
  k2 = k2
SYMMETRY Symmetry
CONSTRAINT Bounds
INVARIANTS
  RunsSerialized
  OutcomeIsTold
  TunnelKeepsWork
  ReviewsAreToldOnce
PROPERTIES
  VerdictIsFinal
CHECK_DEADLOCK FALSE
