SPECIFICATION FairSpec
CONSTANTS
  Accesses = {"external"}
  Services = {"db"}
  Addresses = {"10-1-2-0"}
  Targets <- WrittenTargets
  HalfRange = 100
  Namespaces = {"data"}
  NsOf <- MCNsOf
  Kinds = {"external"}
  KindOf <- MCKindOf
  AccessNs <- MCAccessNs
  AccessName <- Apart
  Everywhere = Everywhere
  AnnotatedKinds = {"external"}
  Labels = {"out", "none"}
  Pods = {"pg1", "pg2"}
  ServicePorts <- MCPorts
  NetpolNames <- MCNames
  NameOf <- MCNameOf
  Versions <- CoreVersions
  Specs <- LeaseSpecs
  MCForms = {"cidr", "address"}
  MCSuffixes = {"egr"}
  Absent = Absent
  NoTime = NoTime
  NoDuration = NoDuration
  NoAnnotation = NoAnnotation
  NoPods = NoPods
  BadSelector = BadSelector
  Moves = {"PutService", "DeleteService", "EditAccess", "ForegroundDelete", "Resync"}
  MaxEdits = 1
  MaxFaults = 1
  MaxRestarts = 1
  MaxTime = 1
CONSTRAINT OneMishap
INVARIANTS TypeOK CoveredWhenQuiet NoOrphanWhenQuiet NothingUnrequested ListedExist
CHECK_DEADLOCK FALSE
PROPERTIES KeepsLedger NotBeforeItsTime Converges
