\* Durations above 24 s get 24 keyframes at 1 fps.
CONSTANTS
  MaxDuration <- MCMaxDuration
  MaxRefs <- MCMaxRefs
SPECIFICATION Spec
INVARIANT InputCoversDuration
CHECK_DEADLOCK FALSE
