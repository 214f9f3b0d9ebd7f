SPECIFICATION MCSpec
CONSTANTS
  j1 = j1  j2 = j2
  w1 = w1  w2 = w2  w3 = w3
  c1 = c1  c2 = c2
  q1 = q1  q2 = q2
  NoJob = NoJob
  NoCompression = NoCompression
  Jobs = {j1, j2}
  Kind <- MCKind
  Conflicts = {}
  Workers = {w1, w2, w3}
  JobOf <- MCJobOf
  MaxKey = 4
  Relevant = {2, 3, 4}
  MaxCopies = 3
  CompressionIds = {c1, c2}
  Requests = {q1, q2}
  ChannelCapacity = 1
  FaultKinds = {"crash", "db", "aws"}
  MaxFaults = 2
SYMMETRY Symmetry
CHECK_DEADLOCK FALSE
INVARIANTS HeldOnce ScannedExactlyOnce SqsIngestsOnce  InstancesMatchStatus
