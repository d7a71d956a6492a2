SPECIFICATION Spec
CONSTANTS
  Key = {"mv1"}
  NoKey = "none"
  Namespace = {"ns"}
  NamespaceOf <- OneNamespace
  PodName = {"p"}
  UID = {"u1", "u2"}
  NameOf <- SharedName
  Config <- OneConfig
  Note <- OneNote
  Unannotated <- None
  Generation = {1}
  Pods <- MCPods
  Statuses <- MCStatuses
  Seeder = {s1}
  MaxCount = 2
  Edits = {"createPod", "deletePod"}
  MaxEdits = 3
  MaxRestarts = 0
  Bypass = {TRUE}
  Faults = FALSE
  FirstMVs = {"mv1"}
  FirstPods = {}
INVARIANT ListsNoOtherGhosts
CHECK_DEADLOCK FALSE
