SPECIFICATION Spec
CONSTANTS
  Key = {k1}
  NoKey = NoKey
  MaxAdds = 1
  MaxErrors = 0
  Waits = FALSE
INVARIANT MetricZeroAfterShutDown
CHECK_DEADLOCK FALSE
