SPECIFICATION Spec
CONSTANTS
  d1 = d1
  e1 = e1
  e2 = e2
  e3 = e3
  w1 = w1
  w2 = w2
  w3 = w3
  x1 = x1
  u1 = u1
  u2 = u2
  None = None
  DefaultJob <- OneDefault
  ExecJob = {}
  Worker <- ThreeWorkers
  ExecWorker <- OneExecWorker
  Switcher <- TwoSwitchers
  Concurrency = 1
  Sizes = {1, 2, 3}
  QueueCap = 1
  ExecQueueCap = 1
  DueTimes <- ExecAtOnce
  MaxTime = 0
  Operations = {"resize", "stop", "suspend"}
SYMMETRY Interchangeable
INVARIANTS CreditsBalance StoppedMeansGone SwitchHeard
