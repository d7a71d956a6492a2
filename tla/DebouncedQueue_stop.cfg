SPECIFICATION Spec
CONSTANTS
  Key = {k1}
  NoKey = NoKey
  MaxAdds = 1
  MaxErrors = 0
  Waits = FALSE
INVARIANT StopWaitsForUpdates
CHECK_DEADLOCK FALSE
