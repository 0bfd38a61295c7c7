SPECIFICATION DeliverySpec
CONSTANTS
  turn = turn
  job1 = job1
  job2 = job2
  record = record
  InitialCredit = 0
  MaxCredit = 2
  MaxChunk = 2
  MaxHistory = 1
  SeqMax = 3
  GrantedMax = 100
  MaxBuffer = 3
  MaxFrame = 3
  MaxFrames = 3
  Sources = {turn, job1, job2, record}
  Domains = {"transport_event", "job_runtime_event", "job_journal_record"}
  DomainOf <- MCDomainOf
  None = None
SYMMETRY JobSymmetry
INVARIANTS
  EveryFrameAccounted
  QueueWaitsForCredit
  CreditConserved
  ResumeCoversGap
