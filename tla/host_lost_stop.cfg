SPECIFICATION Spec
CONSTANTS
  s1 = s1
  s2 = s2
  l1 = l1
  r1 = r1
  MaxRuns = 2
  Saves <- MCOneSave
  LiveEdits <- MCLive
  Readers <- MCReaders
  MaxRemoves = 1
CHECK_DEADLOCK FALSE
INVARIANT CancelReachesTheParse
