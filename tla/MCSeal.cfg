SPECIFICATION Spec
CONSTANTS
  Feed = 4
  StablePolls = 2
  MaxPolls = 6
  MaxStall = 2
INVARIANTS
  NothingDiscarded
  OutcomeComplete
CHECK_DEADLOCK FALSE
