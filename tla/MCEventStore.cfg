SPECIFICATION StoreSpec
CONSTANTS
  k1 = k1
  k2 = k2
  NoEvent = NoEvent
  v1 = v1
  v2 = v2
  v3 = v3
  t1 = t1
  t2 = t2
  Opener = Opener
  NoCaller = NoCaller
  Caller = {t1, t2}
  Events <- MCEvents
  MaxRecords = 2
  SegmentRecords = 2
  GroupRecords = 2
  MaxSegments = 2
  MaxLegacy = 1
  MaxCrashes = 2
SYMMETRY MCSymmetry
INVARIANTS
  AckedIsHard
  CrashIsRecoverable
  MemoryMatchesFiles
PROPERTIES
  ImportIsComplete
  ImplementsEventLog
