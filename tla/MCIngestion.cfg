SPECIFICATION MCSpec
CONSTANTS
  j1 = j1  w1 = w1
  s1 = s1  s2 = s2
  h1 = h1  h2 = h2
  NoJob = NoJob
  NoCompression = NoCompression
  NoSpider = NoSpider
  Jobs = {j1}
  Kind <- MCKind
  Conflicts = {}
  Workers = {w1}
  JobOf <- MCJobOf
  MaxKey = 1
  Relevant = {1}
  MaxCopies = 2
  CompressionIds = {1, 2}
  Requests = {}
  ChannelCapacity = 1
  FaultKinds = {"crash", "aws"}
  MaxFaults = 1
  SpiderIds = {s1, s2}
  HandleIds = {h1, h2}
  MaxConcurrentJobs = 1
  CoordFaultKinds = {"crash", "spider"}
  MaxCoordFaults = 1
  PoolSize = 2  BufSize = 2
  FileLen = 5  Offsets = {0, 1}
  MaxChunk = 3  MaxRead = 3
INVARIANTS  CompressedIsPublished RingIsKept
PROPERTIES ImplementsIngestor PipelineSettles IsByteStream NetworkReaderServes
CHECK_DEADLOCK FALSE
