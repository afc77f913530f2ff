SPECIFICATION FairSpec
CONSTANTS
  j1 = j1
  j2 = j2
  None = None
  Id <- TwoJobs
  Policies <- ThreePolicies
  MaxTime = 2
  MaxFailures = 2
INVARIANTS CleanIsDurable
PROPERTIES OldestGoFirst EventuallyDurable
