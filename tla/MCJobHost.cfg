SPECIFICATION FairSpec
CONSTANTS
  Scripts <- MCScripts
  OuterDepth = 1
  CoreDepth = 1
  DispatchLimit = 1
  RefuseLimit = 1
  ErrorLimit = 1
  MaxWaits = 1
  MaxJobs = 1
  MaxEvents = 2
  Page = 1
  Retained = 1
  MaxFaults = 1
INVARIANTS
  NoLeapfrog
  AnsweredOnce
  ReturnIsComplete
PROPERTIES
  HostReturns
