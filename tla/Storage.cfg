\* Two sinks on one file, with one failing call and one crash; the backend is set
\* before StartAll looks for it, so that Prune runs.
SPECIFICATION FairSpec
CONSTANTS
  NumConns = 2
  NumWorkers = 2
  NumBatches = 2
  NumRows = 2
  MaxFaults = 1
  MaxCrashes = 1
  EarlyBackend = TRUE
  None = None
INVARIANTS RowsSound OkIsStored
PROPERTIES RowsStay CallsEnd
\* A stopped daemon does nothing more.
CHECK_DEADLOCK FALSE
