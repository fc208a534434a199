SPECIFICATION LiveSpec
CONSTANTS
  None = None
  StopWorker = StopWorker
  p1 = p1
  k1 = k1
  c1 = c1
  c2 = c2
  w1 = w1
  e1 = e1
  e2 = e2
  e3 = e3
  r1 = r1
  r2 = r2
  t1 = t1
  ws = ws
  q1 = q1
  q2 = q2
  q3 = q3
  g1 = g1
  g2 = g2
  m1 = m1
  m2 = m2
  m3 = m3
  d1 = d1
  x1 = x1
  x2 = x2
  x3 = x3
  a1 = a1
  b1 = b1
  u1 = u1
  i1 = i1
  ask1 = ask1
  ask2 = ask2
  put1 = put1
  one = one
  o1 = o1
  o2 = o2
  o3 = o3
  h1 = h1
  s1 = s1
  Sweeper = Sweeper
  gate1 = gate1
  f1 = f1
  f2 = f2
  y1 = y1
  i2 = i2
  main = main
  tag = tag
  j1 = j1
  j2 = j2
  j3 = j3
  j4 = j4
  z1 = z1
  z2 = z2
  l1 = l1
  n1 = n1
  n2 = n2
  n3 = n3
  f3 = f3
  f4 = f4
  f5 = f5
  bare = bare
  Downloads = {f1, f2, f3, f4, f5}
  Deletes = {y1}
  Installs = {i2}
  Revisions = {main, tag, bare}
  RevisionOf <- EachRevision
  Resumes = {f1, f2, f3, f4, f5}
  Hashed = {main, tag}
  Size = 2
  MaxVersion = 1
  Creates = {j1, j2}
  Retries = {j3}
  Cancels = {j4}
  JobOf <- EachJob
  SpecOf <- OneKind
  Starts = {j1}
  Patient = TRUE
  Requests = {z1, z2}
  Outside = {l1}
  Restores = {n1, n2, n3}
  Selected <- EachSelection
  Archived = archive
  Stored = extant
  MaxFaults = 1
  MaxCrashes = 1
  Unknown = Unknown
  Stages = {1, 2, 3}
INVARIANTS
  VerdictIsRight
  FilesAreKept
PROPERTIES
  WorkEnds
  AcceptedIsServed
  ConversationsAreSeen
CHECK_DEADLOCK FALSE
