SPECIFICATION Spec
CONSTANTS
  Key = {k1}
  NoKey = NoKey
  MaxAdds = 1
  MaxErrors = 0
  Waits = TRUE
INVARIANT CompletionMeansProcessed
CHECK_DEADLOCK FALSE
