SPECIFICATION FairSpec
CONSTANTS
  once = once
  cron = cron
  w1 = w1
  w2 = w2
  c1 = c1
  None = None
  Job <- OneJob
  CronJob <- OneCron
  GuardedJob <- NoJob
  Worker <- TwoWorkers
  Client <- OneClient
  Operations = {"submit", "stop"}
  MaxRetries = 1
  QueueCap = 1
  KeepHistory = TRUE
PROPERTY StopReturns
