SPECIFICATION Spec
CONSTANTS
  s1 = s1
  s2 = s2
  s3 = s3
  h1 = h1
  h2 = h2
  h3 = h3
  Jobs = {1, 2}
  SpiderIds <- MCSpiderIds
  HandleIds <- MCHandleIds
  NoJob = NoJob
  NoSpider = NoSpider
  MaxConcurrentJobs = 2
  FaultKinds = {"crash", "db", "spider"}
  MaxFaults = 2
SYMMETRY Symmetry
CHECK_DEADLOCK FALSE
INVARIANTS SingleDriver PublishedAtMostOnce RowsFollowSpider
PROPERTIES FailedIsFinal
