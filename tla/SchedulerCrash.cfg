SPECIFICATION Spec
CONSTANTS
  once = once
  cron = cron
  w1 = w1
  w2 = w2
  c1 = c1
  None = None
  Job <- TwoJobs
  CronJob <- OneCron
  GuardedJob <- OneCron
  Worker <- OneWorker
  Client <- OneClient
  Operations = {"submit", "pause", "resume", "suspend", "stop", "restart", "crash", "unregister"}
  MaxRetries = 1
  QueueCap = 1
  KeepHistory = TRUE
INVARIANTS TypeOK NoJobForgotten
PROPERTY TerminalIsFinal
