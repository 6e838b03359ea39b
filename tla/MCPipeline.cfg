SPECIFICATION FairSpec
CONSTANTS
  Rebuilds = {r1, r2}
  Asked = {l1}
  OwnLateness = l5
  None = None
  Loops <- OneAtATime
  RepeatEvery = 2
  MaxEvents = 2
INVARIANTS TypeOK StripTellsOutcome
PROPERTIES RebuildFailsOnlyDisturbed PresentWasTrue ReaderRecovers HeaderFollows
