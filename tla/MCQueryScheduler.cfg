CONSTANTS
  j1 = j1
  j2 = j2
  Jobs <- MCJobs
  NoJob = NoJob
  Scenarios <- MCScenarios
  Streams <- MCStreams
  MaxArchives = 2
  SubJobSize = 1
  MaxConns = 2
  NumReducers = 1
SPECIFICATION Spec
CHECK_DEADLOCK FALSE
INVARIANTS SucceededIsWhole DispatchedOnce 
PROPERTIES RefinesTable
