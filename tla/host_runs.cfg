SPECIFICATION FairSpec
CONSTANTS
  s1 = s1
  s2 = s2
  l1 = l1
  r1 = r1
  MaxRuns = 3
  Saves <- MCOneSave
  LiveEdits <- MCLive
  Readers <- MCReaders
  MaxRemoves = 1
CHECK_DEADLOCK FALSE
INVARIANTS HostTypeOK GateExact ShownIsTrue NavigationAbstains NoInheritedStop SupersededIsTold
PROPERTIES RunsLatestOnly LatestRuns
