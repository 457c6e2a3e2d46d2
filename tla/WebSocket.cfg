\* Two peers that come, subscribe, leave and may not read; one sends up to two frames at
\* a time, two Close frames among them, and reads may end inside a frame header.
SPECIFICATION FairSpec
CONSTANTS
  NumClients = 2
  NumFds = 2
  NumKeys = 1
  MaxKeep = 1
  MaxPush = 2
  Talkers = {1}
  MaxMsgs = 2
  Splits = {3}
  None = None
INVARIANTS  FramesInStep
PROPERTIES StopReturns DeliversLatest
\* After Stop, or once the broadcast thread waits for its own mutex, nothing happens.
CHECK_DEADLOCK FALSE
