\* Type and supervision invariants, disk failures allowed.
CONSTANTS
  MaxJobs <- MCMaxJobs
  MaxHalts <- MCMaxHalts
  DiskCanFail = TRUE
SPECIFICATION Spec
INVARIANTS
  TypeOK
  RunningIsSupervised
  AssetFromSuccessfulEncode
