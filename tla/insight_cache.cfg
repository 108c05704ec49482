SPECIFICATION Spec
CONSTANTS
  Symbols <- MCSymbols
  Callers <- MCCallers
  Keywords = {if}
  Paused = Paused
  NotReady = NotReady
  Nothing = Nothing
INVARIANT OwnCallers
