SPECIFICATION Spec
CONSTANTS
  Accesses = {"ca"}
  Services = {"db", "web"}
  Targets = {"db", "web"}
  HalfRange = 100
  Namespaces = {"data", "front"}
  NsOf <- MCNsOf
  Labels = {"access", "none"}
  Pods = {"pg1", "pg2", "w1", "w2"}
  ServicePorts <- MCPorts
  NetpolNames <- MCNetpolNames
  NameOf <- MCNameOf
  Versions <- CoreVersions
  Specs <- CoreSpecs
  MCDirections = {"ingress", "egress"}
  Absent = Absent
  NoTime = NoTime
  NoDuration = NoDuration
  NoAnnotation = NoAnnotation
  NoPods = NoPods
  BadSelector = BadSelector
  Moves = {"PutService", "DeleteService", "ForegroundDelete"}
  MaxEdits = 1
  MaxFaults = 1
  MaxRestarts = 0
  MaxTime = 0
INVARIANTS TypeOK CoveredWhenQuiet NoOrphanWhenQuiet NothingUnrequested
PROPERTY KeepsLedger
CHECK_DEADLOCK FALSE
