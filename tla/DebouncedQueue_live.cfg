SPECIFICATION Spec
CONSTANTS
  Key = {k1}
  NoKey = NoKey
  MaxAdds = 2
  MaxErrors = 1
  Waits = TRUE
PROPERTY PendingIsProcessed
PROPERTY Drains
PROPERTY StopReturns
PROPERTY CompletionReturns
CHECK_DEADLOCK FALSE
