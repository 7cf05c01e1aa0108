SPECIFICATION FairSpec
CONSTANTS
  Accesses = {"ca"}
  Services = {"db", "web"}
  Targets = {"db", "web"}
  HalfRange = 100
  Namespaces = {"data", "front"}
  NsOf <- MCNsOf
  Labels = {"access", "none"}
  Pods = {"pg1", "pg2", "w1", "w2"}
  ServicePorts <- MCPorts
  NetpolNames <- MCNetpolNames
  NameOf <- MCNameOf
  Versions <- FixedVersions
  Specs <- LeaseSpecs
  MCDirections = {"ingress"}
  Absent = Absent
  NoTime = NoTime
  NoDuration = NoDuration
  NoAnnotation = NoAnnotation
  NoPods = NoPods
  BadSelector = BadSelector
  Moves = {"CreateAccess", "EditAccess", "ForegroundDelete", "Resync"}
  MaxEdits = 2
  MaxFaults = 0
  MaxRestarts = 0
  MaxTime = 2
PROPERTIES ExpiryEnforced DeadlineFixed
CHECK_DEADLOCK FALSE
