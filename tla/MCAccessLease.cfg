SPECIFICATION FairSpec
CONSTANTS
  Accesses = {"data"}
  Services = {"db", "web"}
  Targets = {"db", "web"}
  HalfRange = 100
  Namespaces = {"data", "front"}
  NsOf <- MCNsOf
  AccessNs <- MCAccessNs
  AccessName <- MCAccessName
  Labels = {"access", "none"}
  Pods = {"pg1", "pg2", "w1", "w2"}
  ServicePorts <- MCPorts
  NetpolNames <- MCNames
  NameOf <- MCNameOf
  Versions <- FixedVersions
  Specs <- LeaseSpecs
  MCSuffixes = {"ing"}
  Absent = Absent
  NoTime = NoTime
  NoDuration = NoDuration
  NoAnnotation = NoAnnotation
  NoPods = NoPods
  BadSelector = BadSelector
  Moves = {"EditAccess", "Resync"}
  MaxEdits = 2
  MaxFaults = 1
  MaxRestarts = 0
  MaxTime = 2
PROPERTIES StoredDeadlineEnforced NotBeforeItsTime
CHECK_DEADLOCK FALSE
