CONSTANTS
  t1 = t1
  t2 = t2
  None = NoValue
  Gens = {"g1", "g2"}
  Metas = {"m1"}
  Targets = {"t1", "t2"}
  Sockets = {"s1"}
  Conns = {"c1"}
  MaxIssues = 2
  MaxAdmin = 3
  Ops = {"o1", "o2"}
  Requests = {"r1", "r2"}
  Guests = {t1, t2}
  MaxVersions = 3
  RelayTargets = {"v1"}
  Lease = 2
  Skew = 1
  MaxSessions = 2
  MaxAuths = 2
  MaxTime = 3
  MaxFaults = 1
  Probes = {"p1"}
  Detached = {}
  Checks = {"c1", "c2"}
  Permits = 2
  MaxFlips = 2
  MaxVer = 2
  MaxBoots = 2
  MaxDrops = 1
  MaxChan = 1
  Lag = 1
  Procs = {"p1"}
  Aliases = {"a"}
  MaxHints = 2
  MaxGen = 2
  Slots = {1, 2}
  Losses = TRUE
  LateErrors = FALSE
  Solutions = FALSE
SPECIFICATION SuiteSpec
INVARIANTS
  TerminalsAuthorized
  RelayGranted
  AppRequestsCurrent
  HintsKept
  ProbesFresh
  PushKept
PROPERTIES
  RunNotBack
\* The budgets of the instances run out: a behaviour may stop.
CHECK_DEADLOCK FALSE
