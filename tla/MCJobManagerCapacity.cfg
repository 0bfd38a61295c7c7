SPECIFICATION FairManagerSpec
CONSTANTS
  None = None
  a1 = a1
  j1 = j1
  j2 = j2
  r1 = r1
  r2 = r2
  opStart = opStart
  opControl = opControl
  dStart = dStart
  dWrite = dWrite
  dOther = dOther
  Key = {j1, j2}
  Request = {r1, r2}
  Operation = {opStart, opControl}
  Content = {dStart, dWrite, dOther}
  Attachment = {}
  MaxEntries = 2
  MaxAttachments = 1
  GenerationMax = 3
  Journals = {"open"}
  Allow = FALSE
  SignalsFail = FALSE
  MaxJobs = 1
  MaxRestarts = 0
  Starter <- StartsOfTwoJobs
  Controller <- OneResize
  KeyOf <- MCKeyOf
  RequestOf <- MCRequestOf
  OperationOf <- MCOperationOf
  ContentOf <- MCContentOf
  KindOf <- MCKindOf
INVARIANTS
  NoLiveOrphan
PROPERTIES
  EveryCallReturns
  ExitedJobIsReleased
CHECK_DEADLOCK FALSE
