SPECIFICATION Spec
CONSTANTS
  Window = 1
  Unit = 3
  Target = 2
  BackoffBase = 1
  BackoffMax = 2
  None = None
  MaxTime = 6
  MaxEvents = 8
INVARIANTS TypeOK RateHonest SamplerBound
CHECK_DEADLOCK FALSE
