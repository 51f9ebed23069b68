CONSTANTS
  None = None
  Raw = {"log", "raw"}
  Cast = {"cast"}
  Parts <- PartCounts
  Replay = TRUE
  Late = TRUE
  Acks = {TRUE, FALSE}
  Purges = TRUE
  MaxFaults = 1
  MaxRenderFails = 1
  NoBuild = "none"
  Slots = 1
  MaxBundles = 2
  MaxOutages = 0
  MaxDamaged = 0
  MaxSilent = 1
  MaxRetries = 1
  MaxRetired = 0
  MaxDied = 0
  MaxLost = 0
  NoHost = NoHost
  Builds = {"a", "b"}
  Family <- OneFamily
  Hosts = {"h1"}
  Passes = {"p1"}
  NoRev = NoRev
  Revs = {"r1", "r2"}
  BadRevs = {}
  Modes = {"pull"}
  MaxTries = 1
  MaxCompiles = 1
  MaxMoves = 1
  MaxUploads = 0
  MaxChanges = 1
  MaxSourceFaults = 1
  Changes = {"rerun", "pause", "resume", "disconnect", "connect"}
SPECIFICATION SuiteSpec
INVARIANTS
  BuildsKept
  BuildersKept
  SourceSound
  ArchiveWhole
PROPERTIES
  SourceFenced
  MilestonesKept
\* The budgets of the instances run out: a behaviour may stop.
CHECK_DEADLOCK FALSE
