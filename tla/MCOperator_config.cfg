SPECIFICATION Spec
CONSTANTS
  Key = {"mv1"}
  NoKey = "none"
  Namespace = {"ns"}
  NamespaceOf <- OneNamespace
  PodName = {"p"}
  UID = {"u1"}
  NameOf <- SharedName
  Config <- TwoConfigs
  Note <- TwoNotes
  Unannotated <- None
  Generation = {1, 2}
  Pods <- MCPods
  Statuses <- MCStatuses
  Seeder = {s1}
  MaxCount = 2
  Edits = {"createPod", "editMV", "relabel", "deleteMV"}
  MaxEdits = 3
  MaxRestarts = 0
  Bypass = {FALSE, TRUE}
  Faults = FALSE
  FirstMVs = {"mv1"}
  FirstPods = {}
INVARIANT TracksExisting
INVARIANT PodsCategorised
INVARIANT OneCategory
INVARIANT InjectedMatch
CHECK_DEADLOCK FALSE
