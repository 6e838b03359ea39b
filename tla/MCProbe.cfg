SPECIFICATION Spec
CONSTANTS
  Block = 2
  Wrap = 2
  PerSecond = 2
  Lateness = 1
  Timeout = 3
  SentinelEvery = 2
  MaxRounds = 2
INVARIANTS TypeOK
PROPERTIES OwnMatch TimedOutMeansStarved ProbeFinishes
