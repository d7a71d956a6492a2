SPECIFICATION Spec
CONSTANTS
  Key = {"mv1"}
  NoKey = "none"
  Namespace = {"ns"}
  NamespaceOf <- OneNamespace
  PodName = {"p"}
  UID = {"u1"}
  NameOf <- SharedName
  Config <- OneConfig
  Note <- OneNote
  Unannotated <- None
  Generation = {1}
  Pods <- MCPods
  Statuses <- MCStatuses
  Seeder = {s1}
  MaxCount = 2
  Edits = {"deleteMV"}
  MaxEdits = 1
  MaxRestarts = 0
  Bypass = {FALSE}
  Faults = FALSE
  FirstMVs = {"mv1"}
  FirstPods = {}
INVARIANT CountsExactly
CHECK_DEADLOCK FALSE
