SPECIFICATION Spec
CONSTANTS
  Paths <- MCOne
  Patterns = {"gen", "p/gen"}
  FormsIn <- MCFormsIn
  Matches <- MCMatches
  Hidden = {}
  FindMatches <- MCFindMatches
  Settings <- MCSettings
  Texts = {t1, t2}
  LossyWatcher = FALSE
  NoFile = NoFile
  NoText = NoText
  MaxRuns = 2
  MaxClock = 3
  MaxJobs = 2
CHECK_DEADLOCK FALSE
INVARIANTS  SkippedIsUntouched
