\* The order of RunDaemon: the backend is set after StartAll.
SPECIFICATION FairSpec
CONSTANTS
  NumConns = 2
  NumWorkers = 2
  NumBatches = 2
  NumRows = 2
  MaxFaults = 0
  MaxCrashes = 0
  EarlyBackend = FALSE
  None = None
PROPERTIES OldRowsPruned
\* A stopped daemon does nothing more.
CHECK_DEADLOCK FALSE
