CONSTANTS
  MaxJobs <- MCLiveJobs
  MaxHalts <- MCLiveHalts
  DiskCanFail = FALSE
SPECIFICATION Spec
INVARIANT OutputIffCompleted
