CONSTANTS
  Relayed = TRUE
  FaultKinds = {"drop", "agent", "runtime", "wake", "relay", "timeout", "images"}
  MaxFaults = 1
  MaxVersion = 2
  MaxConn = 2
  MaxQueue = 2
  Requests = {"r1", "r2", "r3"}
  Users = {"u1", "u2"}
  UserOf <- RetryUsers
  KeyOf <- RetryKeys
  ScopeOf <- OneScope
  Hosts = {"h1"}
  NoHost = NoHost
  Cpu <- OneCpu
  Capacity <- LastCpu
  Attempts = 2
  Events = {"revoke", "crash"}
SPECIFICATION SuiteSpec
INVARIANTS
  EvidenceIsCurrent
  BridgeSound
  AdmissionSound
PROPERTIES
  RecordedVersionForward
  
\* The budgets of the instances run out: a behaviour may stop.
CHECK_DEADLOCK FALSE
