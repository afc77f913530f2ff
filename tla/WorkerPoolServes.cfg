SPECIFICATION FairSpec
CONSTANTS
  d1 = d1
  e1 = e1
  e2 = e2
  e3 = e3
  w1 = w1
  w2 = w2
  w3 = w3
  x1 = x1
  u1 = u1
  u2 = u2
  None = None
  DefaultJob <- OneDefault
  ExecJob <- ThreeExec
  Worker <- OneWorker
  ExecWorker <- OneExecWorker
  Switcher = {}
  Concurrency = 1
  Sizes = {1}
  QueueCap = 1
  ExecQueueCap = 1
  DueTimes <- ExecAtOnce
  MaxTime = 1
  Operations = {}
INVARIANTS ExecQueueHasRoom SignalsHeard
PROPERTIES DefaultServed
