SPECIFICATION Spec
CONSTANTS
  Key = {k1, k2}
  NoKey = NoKey
  MaxAdds = 2
  MaxErrors = 1
  Waits = FALSE
INVARIANT QTypeOK
INVARIANT MetricSettles
PROPERTY KeepsPromise
CHECK_DEADLOCK FALSE
