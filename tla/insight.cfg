SPECIFICATION Spec
CONSTANTS
  Symbols <- MCSymbols
  Callers <- MCRecursion
  Keywords = {if}
  Paused = Paused
  NotReady = NotReady
  Nothing = Nothing
INVARIANTS TypeOK FollowsCursor FreshAtRest
