\* No disk failure: no waiting job is lost, and every job terminates.
CONSTANTS
  MaxJobs <- MCLiveJobs
  MaxHalts <- MCLiveHalts
  DiskCanFail = FALSE
SPECIFICATION FairSpec
INVARIANT WaitingIsScheduled
PROPERTY EveryJobTerminates
