CONSTANTS
  j1 = j1
  j2 = j2
  d1 = d1
  NoJob = NoJob
  Jobs = {j1, j2}
  Kind <- FsAndS3
  Dataset <- OneDataset
  CoordinatorConfigured = FALSE
  MaxConcurrentTasksPerJob = 1
  MaxParts <- TwoAndOne
  MaxArchives = 0
  MaxFaults = 2
SPECIFICATION FairSpec
PROPERTIES SchedulerEnds
