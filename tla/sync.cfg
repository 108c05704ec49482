SPECIFICATION Spec
CONSTANTS
  Paths <- MCOne
  Patterns = {"gen", "p/gen"}
  FormsIn <- MCFormsIn
  Matches <- MCMatches
  Hidden = {}
  FindMatches <- MCFindMatches
  Settings <- MCSettings
  Texts = {t1, t2}
  LossyWatcher = TRUE
  NoFile = NoFile
  NoText = NoText
  MaxRuns = 2
  MaxClock = 3
  MaxJobs = 2
SYMMETRY MCSymmetry
VIEW MCView
CHECK_DEADLOCK FALSE
INVARIANTS TypeOK HealedByScan
