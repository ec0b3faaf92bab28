\* The worker's consent re-validation, with consent required or not across
\* a restart, while profiles are updated and deleted.
CONSTANTS
  p1 = p1
  p2 = p2
  i1 = i1
  blank = blank
  none = none
  noprofile = noprofile
  MaxJobs <- MCJobs
  MaxHalts <- MCHalts
  DiskCanFail = FALSE
  Profiles <- MCProfiles
  Images <- MCImages
  Blank <- blank
  MaxNames <- MCMaxNames
  Configs = {FALSE, TRUE}
  Unset <- none
  NoProfile <- noprofile
SYMMETRY MCSymmetry
VIEW MCView
SPECIFICATION SysSpec
INVARIANT EncodeOnlyConsented
