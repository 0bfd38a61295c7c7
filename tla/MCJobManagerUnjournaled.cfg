SPECIFICATION ManagerSpec
CONSTANTS
  None = None
  a1 = a1
  j1 = j1
  j2 = j2
  r1 = r1
  r2 = r2
  opStart = opStart
  opControl = opControl
  dStart = dStart
  dWrite = dWrite
  dOther = dOther
  Key = {j1}
  Request = {r1, r2}
  Operation = {opStart, opControl}
  Content = {dStart, dWrite, dOther}
  Attachment = {a1}
  MaxEntries = 1
  MaxAttachments = 1
  GenerationMax = 2
  Journals = {"open", "none"}
  Allow = TRUE
  SignalsFail = TRUE
  MaxJobs = 1
  MaxRestarts = 1
  Starter <- ClashingStarts
  Controller <- CloseAndConflict
  KeyOf <- MCKeyOf
  RequestOf <- MCRequestOf
  OperationOf <- MCOperationOf
  ContentOf <- MCContentOf
  KindOf <- MCKindOf
INVARIANTS
  SpawnedOnce
  NothingLeftClaimable
PROPERTIES
  NoEffectAfterTerminal
CHECK_DEADLOCK FALSE
