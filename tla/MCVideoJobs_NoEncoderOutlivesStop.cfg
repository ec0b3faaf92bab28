\* stop() terminates only the processes registered when it is called.
CONSTANTS
  MaxJobs <- MCLiveJobs
  MaxHalts <- MCLiveHalts
  DiskCanFail = FALSE
SPECIFICATION Spec
PROPERTY NoEncoderOutlivesStop
