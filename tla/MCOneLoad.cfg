SPECIFICATION Spec
CONSTANTS
  c1 = c1
  c2 = c2
  r1 = r1
  r2 = r2
  NoRun = NoRun
  Free = Free
  Clients <- MCClients
  Runs <- MCTwoRuns
  Disconnects <- MCNobody
INVARIANTS
  OneLoadAtATime
