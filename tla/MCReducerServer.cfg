SPECIFICATION FairSpec
CONSTANTS
  Senders <- MCSenders
  JobSenders <- MCJobSenders
  Groups <- MCGroups
  Tags <- MCTags
  Timeline = {1}
  BufSize = 3
  Faults = {"cancel", "mongo", "kill"}
CHECK_DEADLOCK FALSE
 
PROPERTIES ReducerReturns
