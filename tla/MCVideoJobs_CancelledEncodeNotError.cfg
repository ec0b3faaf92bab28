\* cancel_job terminates the encoder itself; with no stop or crash the worker then reports error.
CONSTANTS
  MaxJobs <- MCLiveJobs
  MaxHalts <- MCNoHalts
  DiskCanFail = FALSE
SPECIFICATION Spec
INVARIANT CancelledEncodeNotError
