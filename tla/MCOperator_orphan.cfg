SPECIFICATION Spec
CONSTANTS
  Key = {"mv1"}
  NoKey = "none"
  Namespace = {"ns"}
  NamespaceOf <- OneNamespace
  PodName = {"p"}
  UID = {"u1"}
  NameOf <- SharedName
  Config <- TwoConfigs
  Note <- TwoNotes
  Unannotated <- None
  Generation = {1, 2, 3}
  Pods <- MCPods
  Statuses <- MCStatuses
  Seeder = {s1}
  MaxCount = 2
  Edits = {"createPod", "editMV"}
  MaxEdits = 3
  MaxRestarts = 0
  Bypass = {FALSE}
  Faults = FALSE
  FirstMVs = {"mv1"}
  FirstPods = {}
INVARIANT OrphansDrifted
CHECK_DEADLOCK FALSE
