SPECIFICATION Spec
CONSTANTS
  Key = {k1}
  NoKey = NoKey
  MaxAdds = 2
  MaxErrors = 0
  Waits = FALSE
INVARIANT WaitGroupCoversPending
CHECK_DEADLOCK FALSE
