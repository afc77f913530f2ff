SPECIFICATION ServicesSpec
CONSTANTS
  caller = caller
  ws1 = ws1
  ws2 = ws2
  sse1 = sse1
  j1 = j1
  j2 = j2
  j3 = j3
  p1 = p1
  t1 = t1
  t2 = t2
  t3 = t3
  Loop = Loop
  None = None
  NoJob = NoJob
  Scanner = Scanner
  Caller <- OneCaller
  Capacity = 2
  MaxItems = 5
  Keeps <- OneOrThree
  Buffer = 1
  Jobless <- Third
  WebSocket <- TwoSockets
  Sse <- OneStream
  EventJob <- ThreeJobs
  PerJobLimit = 2
  MaxJobs = 2
  GlobalLimit = 3
  MaxRecorded = 6
  Path <- OnePath
  Thread <- ThreeThreads
  Width = 6
  Bases <- RetryBases
  MaxDelays <- RetryLimits
  MaxRetries = 6
  MaxByHand = 1
  MaxParallel = 2
INVARIANTS TableIsExact SubscriptionsAreOwned HistoryIsTail BackoffHolds VerdictIsTrue
PROPERTIES CloseReturns StopReleasesAll EveryFileIsLoaded HandlerReturns
CHECK_DEADLOCK FALSE
