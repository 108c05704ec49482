SPECIFICATION Spec
CONSTANTS
  f1 = f1
  f2 = f2
  f3 = f3
  Files <- MCFiles1
  Plans <- MCPlans1
  LangOf <- MCNoGrammar
  NoLang = NoLang
  NoOp = NoOp
  Size = 1
  BulkOps = {b1}
  ReindexOps = {r1}
  LiveOps = {l1}
  RemoveOps = {d1}
  MaxFails = 1
  MaxEdits = 2
  MaxCancels = 0
  Window = 2
  BatchMax = 2
CHECK_DEADLOCK FALSE
INVARIANTS TypeOK DriftBounded NoMissedWakeup NoStrandedEntry UpToDate
