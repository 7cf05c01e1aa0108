SPECIFICATION FairSpec
CONSTANTS
  Accesses = {"ca"}
  Services = {"db", "web"}
  Targets = {"db", "web"}
  HalfRange = 100
  Namespaces = {"data", "front"}
  NsOf <- MCNsOf
  Labels = {"access", "none"}
  Pods = {"pg1", "pg2", "w1", "w2"}
  ServicePorts <- MCPorts
  NetpolNames <- MCNetpolNames
  NameOf <- MCNameOf
  Versions <- FixedVersions
  Specs <- BrokenSpecs
  MCDirections = {"ingress"}
  Absent = Absent
  NoTime = NoTime
  NoDuration = NoDuration
  NoAnnotation = NoAnnotation
  NoPods = NoPods
  BadSelector = BadSelector
  Moves = {"CreateAccess", "DeleteAccess", "ForegroundDelete", "DeleteNetpol"}
  MaxEdits = 2
  MaxFaults = 0
  MaxRestarts = 1
  MaxTime = 0
PROPERTY Converges
CHECK_DEADLOCK FALSE
