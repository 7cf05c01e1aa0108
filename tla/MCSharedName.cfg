SPECIFICATION OverlapSpec
CONSTANTS
  Accesses = {"external", "cluster"}
  Services = {"db"}
  Addresses = {"10-1-2-0"}
  Targets <- WrittenTargets
  HalfRange = 100
  Namespaces = {"data"}
  NsOf <- MCNsOf
  Kinds = {"external", "cluster"}
  KindOf <- MCKindOf
  AccessNs <- MCAccessNs
  AccessName <- Alike
  Everywhere = Everywhere
  AnnotatedKinds = {"external"}
  Labels = {"out", "none"}
  Pods = {"pg1", "pg2"}
  ServicePorts <- MCPorts
  NetpolNames <- MCNames
  NameOf <- MCNameOf
  Versions <- TurnVersions
  Specs <- CoreSpecs
  MCForms = {"cidr"}
  MCSuffixes = {"egr", "ing"}
  Absent = Absent
  NoTime = NoTime
  NoDuration = NoDuration
  NoAnnotation = NoAnnotation
  NoPods = NoPods
  BadSelector = BadSelector
  Moves = {"PutService", "DeleteService"}
  MaxEdits = 1
  MaxFaults = 0
  MaxRestarts = 0
  MaxTime = 0
INVARIANT NothingUnrequested
CHECK_DEADLOCK FALSE
PROPERTY KeepsLedger
