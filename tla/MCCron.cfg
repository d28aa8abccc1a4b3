SPECIFICATION FairSpec
CONSTANTS
  j1 = j1
  j2 = j2
  Ids = {j1, j2}
  Requests <- MCRequests
  Never = Never
  NoJob = NoJob
  DefaultSleep = 3
  MaxTime = 2
  MaxCrashes = 1
  MaxCalls = 4
INVARIANTS TypeOK SleepCoversNextRun JobsFileLag
PROPERTIES KeepsPromise OneShotServed DueServed
CHECK_DEADLOCK FALSE
