CONSTANTS
  VMs = {"v1", "v2", "v3"}
  Runs = {"run"}
  RunOf <- OneRun
  Quota <- Sizes
  Cap = 2
  Uids = {1, 2}
  MaxGen = 2
  MaxFail = 2
  MaxCrash = 1
  ManagedVms = {"v1", "v2"}
  ManagedRuns = {"run"}
  RunOfVm <- BothInRun
  MaxErrors = 0
  MaxRestarts = 1
  MaxCreate = 1
SPECIFICATION SuiteSpec
INVARIANTS
  UnitsApart
  RuntimesKept
PROPERTIES
  LedgerKept
  
\* The budgets of the instances run out: a behaviour may stop.
CHECK_DEADLOCK FALSE
