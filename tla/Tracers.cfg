\* Each kind of source with two keys and room for one event.
SPECIFICATION FairSpec
CONSTANTS
  Kinds = {"tracer", "detailed", "aggregate", "offcpu", "bio"}
  NumKeys = 2
  SectorOf <- MCSectorOf
  NumElems = 2
  RingSize <- MCRingSize
  MinDuration = 2
  MaxHistory = 1
  MaxRecent = 2
  Targets = {2}
  NumCollectors = 2
  MaxTime <- MCMaxTime
  MaxCollects = 2
  MaxFaults <- MCMaxFaults
  None = None
INVARIANTS MapsSound LatencyTrue ReportedOnce
PROPERTIES PollerProgress
\* A stopped source, and the bound on kernel events, end a behaviour.
CHECK_DEADLOCK FALSE
