SPECIFICATION Spec
CONSTANTS
  Key = {"mv1"}
  NoKey = "none"
  Namespace = {"ns"}
  NamespaceOf <- OneNamespace
  PodName = {"p", "q"}
  UID = {"u1", "u2"}
  NameOf <- OwnNames
  Config <- OneConfig
  Note <- OneNote
  Unannotated <- None
  Generation = {1}
  Pods <- MCPods
  Statuses <- MCStatuses
  Seeder = {s1}
  MaxCount = 2
  Edits = {"createPod", "deletePod"}
  MaxEdits = 2
  MaxRestarts = 0
  Bypass = {FALSE}
  Faults = FALSE
  FirstMVs = {"mv1"}
  FirstPods = {"u1"}
INVARIANT ClusterTypeOK
INVARIANT FinalizerHolds
INVARIANT ListsNoOtherGhosts
INVARIANT TrackedPodsMapped
CHECK_DEADLOCK FALSE
