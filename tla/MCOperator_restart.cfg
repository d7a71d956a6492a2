SPECIFICATION Spec
CONSTANTS
  Key = {"mv1"}
  NoKey = "none"
  Namespace = {"ns"}
  NamespaceOf <- OneNamespace
  PodName = {"p"}
  UID = {"u1"}
  NameOf <- SharedName
  Config <- OneConfig
  Note <- OneNote
  Unannotated <- None
  Generation = {1}
  Pods <- MCPods
  Statuses <- MCStatuses
  Seeder = {s1}
  MaxCount = 2
  Edits = {"relabel", "deletePod", "createMV"}
  MaxEdits = 2
  MaxRestarts = 1
  Bypass = {FALSE}
  Faults = TRUE
  FirstMVs = {"mv1"}
  FirstPods = {"u1"}
INVARIANT StatusPublished
PROPERTY ImplementsTracker
CHECK_DEADLOCK FALSE
