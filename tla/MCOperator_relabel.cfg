SPECIFICATION Spec
CONSTANTS
  Key = {"mv1", "mv2"}
  NoKey = "none"
  Namespace = {"ns"}
  NamespaceOf <- OneNamespace
  PodName = {"p"}
  UID = {"u1"}
  NameOf <- SharedName
  Config <- OneConfig
  Note <- OneNote
  Unannotated <- None
  Generation = {1}
  Pods <- MCPods
  Statuses <- MCStatuses
  Seeder = {s1}
  MaxCount = 2
  Edits = {"relabel"}
  MaxEdits = 1
  MaxRestarts = 0
  Bypass = {TRUE}
  Faults = FALSE
  FirstMVs = {"mv1", "mv2"}
  FirstPods = {"u1"}
INVARIANT ListsNoOtherGhosts
CHECK_DEADLOCK FALSE
