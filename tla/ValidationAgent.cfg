SPECIFICATION Spec
CONSTANTS
  Continuous = {FALSE, TRUE}
  Native = {FALSE, TRUE}
  MaxChanges = 2
  MaxErrors = 1
  MaxCrashes = 2
INVARIANT AgentTypeOK
INVARIANT ReadyAfterValidation
INVARIANT OneShotBlocks
PROPERTY BecomesReady
PROPERTY AgentsEnd
CHECK_DEADLOCK FALSE
