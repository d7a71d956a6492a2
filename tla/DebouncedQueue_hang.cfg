SPECIFICATION Spec
CONSTANTS
  Key = {k1}
  NoKey = NoKey
  MaxAdds = 1
  MaxErrors = 0
  Waits = TRUE
PROPERTY ShutDownEndsWait
CHECK_DEADLOCK FALSE
