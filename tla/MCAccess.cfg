SPECIFICATION Spec
CONSTANTS
  Accesses = {"data", "front"}
  Services = {"db", "web"}
  Targets = {"db", "web"}
  HalfRange = 100
  Namespaces = {"data", "front"}
  NsOf <- MCNsOf
  AccessNs <- MCAccessNs
  AccessName <- MCAccessName
  Labels = {"access", "none"}
  Pods = {"pg1", "pg2", "w1", "w2"}
  ServicePorts <- MCPorts
  NetpolNames <- MCNames
  NameOf <- MCNameOf
  Versions <- CoreVersions
  Specs <- CoreSpecs
  MCSuffixes = {"ing", "egr"}
  Absent = Absent
  NoTime = NoTime
  NoDuration = NoDuration
  NoAnnotation = NoAnnotation
  NoPods = NoPods
  BadSelector = BadSelector
  Moves = {"PutService", "DeleteService", "CreateAccess", "ForegroundDelete"}
  MaxEdits = 1
  MaxFaults = 0
  MaxRestarts = 1
  MaxTime = 0
INVARIANTS TypeOK CoveredWhenQuiet StatusTruthful NoOrphanWhenQuiet RulesRequested
CHECK_DEADLOCK FALSE
PROPERTY KeepsLedger
