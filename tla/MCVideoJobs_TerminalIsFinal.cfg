CONSTANTS
  MaxJobs <- MCLiveJobs
  MaxHalts <- MCLiveHalts
  DiskCanFail = FALSE
SPECIFICATION Spec
PROPERTY TerminalIsFinal
