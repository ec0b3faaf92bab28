\* Consent and reference properties with consent required
\* throughout.  The service never stops on its own: CHECK_DEADLOCK stays on.
CONSTANTS
  p1 = p1
  p2 = p2
  i1 = i1
  i2 = i2
  blank = blank
  none = none
  Unset <- none
  Profiles <- MCProfiles
  Images <- MCImages
  Blank <- blank
  MaxNames <- MCMaxNames
  Configs = {TRUE}
SYMMETRY MCSymmetry
SPECIFICATION ProfileSpec
INVARIANTS
  ProfileTypeOK
  ConsentHeld
  ReferencesResolve
