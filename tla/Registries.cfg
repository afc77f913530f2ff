SPECIFICATION RegistriesSpec
CONSTANTS
  Name <- SmallName
  Lower <- SmallLower
  Builtin <- SmallBuiltin
  Lists <- SmallLists
  BadLists <- SmallBadLists
  Unbuildable <- SmallUnbuildable
  FileAtStart <- SmallFiles
  Server = {c1, c2}
  Reloader = Reloader
  Nobody = Nobody
  Job = {j1}
  JobName <- SmallJobName
  MaxRequests = 2
  MaxReloads = 2
  MaxFaults = 1
  Label <- SmallLabel
  LabelKey <- SmallLabelKey
  NoGroup = NoGroup
  GroupAtStart = "a"
  JobTag <- OtherSpelling
  Clerk = {k1, k2}
  GroupJob = {g1}
  MaxGroupRequests = 2
  MaxGroupFaults = 1
SYMMETRY RequestSymmetry
CHECK_DEADLOCK FALSE
INVARIANTS
  RestartChangesNothing
  DeletedIsPinned
  NoGroupVanishes
  RetagReachesAll
