SPECIFICATION ManagerSpec
CONSTANTS
  None = None
  a1 = a1
  j1 = j1
  j2 = j2
  r1 = r1
  r2 = r2
  opStart = opStart
  opControl = opControl
  dStart = dStart
  dWrite = dWrite
  dOther = dOther
  Key = {j1}
  Request = {r1}
  Operation = {opStart, opControl}
  Content = {dStart, dWrite, dOther}
  Attachment = {}
  MaxEntries = 1
  MaxAttachments = 1
  GenerationMax = 2
  Journals = {"open"}
  Allow = FALSE
  SignalsFail = TRUE
  MaxJobs = 1
  MaxRestarts = 1
  Starter <- TwoStarts
  Controller <- TwoWrites
  KeyOf <- MCKeyOf
  RequestOf <- MCRequestOf
  OperationOf <- MCOperationOf
  ContentOf <- MCContentOf
  KindOf <- MCKindOf
INVARIANTS
  RecoveryIsFaithful
  AnswersAreDurable
  NoFalseNoStart
PROPERTIES
  ImplementsJobEffect
CHECK_DEADLOCK FALSE
