\* Every duration of the request schema, up to three references, any subset missing.
CONSTANTS
  MaxDuration <- MCMaxDuration
  MaxRefs <- MCMaxRefs
SPECIFICATION Spec
INVARIANTS TypeOK KeyframesFollowReferences
PROPERTY ImplementsPreparation
\* _prepare_keyframes returns or raises: its end states have no successor.
CHECK_DEADLOCK FALSE
