\* A full disk at _ensure_free_space drops the job from the schedule.
CONSTANTS
  MaxJobs <- MCLiveJobs
  MaxHalts <- MCLiveHalts
  DiskCanFail = TRUE
SPECIFICATION Spec
INVARIANT WaitingIsScheduled
