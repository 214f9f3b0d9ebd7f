SPECIFICATION FairSpec
CONSTANTS
  s1 = s1
  s2 = s2
  s3 = s3
  h1 = h1
  h2 = h2
  h3 = h3
  Jobs = {1, 2}
  SpiderIds <- MCSpiderIds
  HandleIds <- MCHandleIds2
  NoJob = NoJob
  NoSpider = NoSpider
  MaxConcurrentJobs = 1
  FaultKinds = {"crash", "spider"}
  MaxFaults = 1
PROPERTY JobTerminates
CHECK_DEADLOCK FALSE
