SPECIFICATION ConsoleSpec
CONSTANTS
  j1 = j1
  j2 = j2
  None = None
  Job <- TwoJobs
  MaxAttempts <- RetryOfOne
  Permits = 1
  MaxFaults = 2
  MaxCrashes = 1
  Visitor = {v1, v2}
  n1 = n1
  n2 = n2
  n3 = n3
  Name <- ThreeNames
  Account = {n1}
  Trimmed <- TwoOfOne
  Address = Address
  PairLimit = 1
  IpLimit = 2
  Window = 3
  AccessTTL = 2
  RefreshTTL = 3
  TicketTTL = 1
  SweepEvery = 2
  MaxRevoked = 2
  MaxClock = 4
  MaxSessions = 3
  MaxTickets = 1
  MaxLogins = 5
INVARIANTS IndexIsTrue SpentStaysSpent ThrottleHolds
CHECK_DEADLOCK FALSE
