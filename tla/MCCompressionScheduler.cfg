CONSTANTS
  j1 = j1
  j2 = j2
  d1 = d1
  NoJob = NoJob
  Jobs = {j1, j2}
  Kind <- FsAndMeta
  Dataset <- OneDataset
  CoordinatorConfigured = TRUE
  MaxConcurrentTasksPerJob = 2
  MaxParts <- ThreeAndOne
  MaxArchives = 1
  MaxFaults = 2
SPECIFICATION Spec
INVARIANTS JobsAreDriven SucceededIsWhole TasksAreBounded ArchivesAreListed
 
