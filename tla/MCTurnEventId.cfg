SPECIFICATION CoreSpec
CONSTANTS
  None = None
  t1 = t1
  t2 = t2
  d1 = d1
  d2 = d2
  Turns = {t1}
  Digests = {d1}
  Requests <- OneStart
  First <- Begin
  QueueDepth = 2
  Controls <- Refusals
  MaxMoves = 5
  MaxEvents = 2
  MaxFaults = 0
INVARIANTS
  JournalStaysUsable
CHECK_DEADLOCK FALSE
