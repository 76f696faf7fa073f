SPECIFICATION FairSpec
CONSTANTS
  r1 = r1
  Runs = {r1}
  NSteps = 4
  Kind <- MCKind
  Targets <- MCTargets
  MaxIter = 4
  MaxChunks = 1
  MaxSignals = 3
  MaxStarts = 2
CHECK_DEADLOCK FALSE
INVARIANT KillStops
PROPERTIES   KillEnds ResumeWakes
