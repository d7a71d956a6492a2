SPECIFICATION Spec
CONSTANTS
  Continuous = {FALSE, TRUE}
  Native = {FALSE, TRUE}
  MaxChanges = 2
  MaxErrors = 1
  MaxCrashes = 2
INVARIANT WorkloadAfterValidation
CHECK_DEADLOCK FALSE
