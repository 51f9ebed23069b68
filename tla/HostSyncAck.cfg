CONSTANTS
  Relayed = FALSE
  FaultKinds = {"agent"}
  MaxFaults = 1
  MaxVersion = 2
  MaxConn = 2
  MaxQueue = 2
SPECIFICATION Spec
INVARIANT
  AcknowledgedIsApplied
