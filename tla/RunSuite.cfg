CONSTANTS
  v1 = v1
  v2 = v2
  g1 = g1
  g2 = g2
  boot = boot
  goal = goal
  d1 = d1
  d2 = d2
  VMs = {v1, v2}
  Probes = {boot, goal}
  BootProbes <- BootOf
  ScenarioProbes <- ScenarioOf
  Generations = {g1, g2}
  NoGen = NoGen
  ExpectedCpu = 2
  Messages <- ProjectionMessages
  Destroyers = {}
  NoCleanup = NoCleanup
  Enabled = {"proj", "lease"}
  MaxRev = 5
  MaxSession = 2
SPECIFICATION SuiteSpec
INVARIANTS
  TypeOK
  ReadyTargetIsCurrent
  RetiredIsNotCurrent
  RunRowSound
PROPERTIES
  RunRowForward
  RacingWritersKept
\* An archived run whose VMs are absent accepts no further write: it may stop.
CHECK_DEADLOCK FALSE
