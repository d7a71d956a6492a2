SPECIFICATION TrackerSpec
CONSTANTS
  Key = {"mv1", "mv2"}
  NoKey = "none"
  Namespace = {"ns"}
  NamespaceOf <- OneNamespace
  PodName = {"p"}
  UID = {"u1", "u2"}
  Config <- OneConfig
  Note <- MCNote
  Generation = {1}
  Pods <- MCPods
  Statuses <- MCStatuses
  Seeder = {s1}
  MaxCount = 2
INVARIANT TypeOK
INVARIANT CountsTracked
INVARIANT NamesLeadBack
PROPERTY ChangesArePublished
