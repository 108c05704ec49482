SPECIFICATION FairSpec
CONSTANTS
  f1 = f1
  f2 = f2
  f3 = f3
  Files <- MCFiles2
  Plans <- MCPlans2
  LangOf <- MCNoGrammar
  NoLang = NoLang
  NoOp = NoOp
  Size = 1
  BulkOps = {b1}
  ReindexOps = {r1}
  LiveOps = {}
  RemoveOps = {}
  MaxFails = 0
  MaxEdits = 1
  MaxCancels = 0
  Window = 1
  BatchMax = 2
CHECK_DEADLOCK FALSE
PROPERTY BulkSettles
