SPECIFICATION FairSpec
CONSTANTS
  f1 = f1
  f2 = f2
  f3 = f3
  Files <- MCFiles3
  Plans <- MCPlans3
  LangOf <- MCLangOf
  NoLang = NoLang
  NoOp = NoOp
  Size = 2
  BulkOps = {b1, b2}
  ReindexOps = {}
  LiveOps = {}
  RemoveOps = {}
  MaxFails = 0
  MaxEdits = 0
  MaxCancels = 1
  Window = 1
  BatchMax = 2
CHECK_DEADLOCK FALSE
INVARIANTS IndexesBehindReads RunsNeverOverlap BackpressureBound BulkComplete
PROPERTY BulkSettles
