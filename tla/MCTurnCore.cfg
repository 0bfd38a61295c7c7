SPECIFICATION FairCoreSpec
CONSTANTS
  None = None
  t1 = t1
  t2 = t2
  d1 = d1
  d2 = d2
  Turns = {t1, t2}
  Digests = {d1, d2}
  Requests <- Starts
  First <- Begin
  QueueDepth = 2
  Controls <- Cancellations
  MaxMoves = 4
  MaxEvents = 2
  MaxFaults = 1
INVARIANTS
  ProviderRunsOnce
  EffectIsJournaled
  LogLoads
  ShownEndIsDurable
  EndIsOwn
CHECK_DEADLOCK FALSE
PROPERTIES
  TurnEnds
