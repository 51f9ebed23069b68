------------------------------ MODULE AgentSuite ------------------------------
(***************************************************************************)
(* Instances of the components of a host for TLC: the VM manager, the      *)
(* jailer with its CPU ledger, and the image cache. A behaviour is one     *)
(* instance, chosen at the start: `on` names it, the other components stay *)
(* in their initial states.                                                *)
(***************************************************************************)
EXTENDS Jailerd, AgentVm, TLC

VARIABLES
  on,    \* the instance that runs
  ruleUp, ruleReady, ruleRecords, rulePending, ruleInflight, ruleUnresolved,
  ruleAllocated, ruleNets, ruleAttached, rulePc, ruleCheck, ruleOf, ruleUid,
  ruleGens, ruleDir, ruleReserved, ruleUnit, ruleDrifted, ruleNetns,
  ruleIngress, ruleReleased, ruleFails, ruleCrashes,
  faultyMem, faultyRow, faultyJail, faultyNet, faultySpool, faultyTask,
  faultyResumed, faultyClean, faultyMode, faultyInline, faultyLock,
  faultyDelReq, faultyRecon, faultyJob, faultySaved, faultyDesired,
  faultyServed, faultyOwed, faultyCreates, faultyErrors, faultyRestarts,
  content, unused, verified, toolsRec, wanted, rows, launch, wake, pass,
  templates, aged, faults, changes, hours

ruleVars == <<ruleUp, ruleReady, ruleRecords, rulePending, ruleInflight,
    ruleUnresolved, ruleAllocated, ruleNets, ruleAttached, rulePc, ruleCheck,
    ruleOf, ruleUid, ruleGens, ruleDir, ruleReserved, ruleUnit, ruleDrifted,
    ruleNetns, ruleIngress, ruleReleased, ruleFails, ruleCrashes>>
faultyVars == <<faultyMem, faultyRow, faultyJail, faultyNet, faultySpool,
    faultyTask, faultyResumed, faultyClean, faultyMode, faultyInline,
    faultyLock, faultyDelReq, faultyRecon, faultyJob, faultySaved,
    faultyDesired, faultyServed, faultyOwed, faultyCreates, faultyErrors,
    faultyRestarts>>
cacheVars == <<content, unused, verified, toolsRec, wanted, rows, launch,
    wake, pass, templates, aged, faults, changes, hours>>

Each(S, x) == [e \in S |-> x]
OneRun == Each(VMs, "run")
BothInRun == Each(ManagedVms, "run")
Sizes == [v \in VMs |-> IF v = "v3" THEN 2 ELSE 1]    \* v3 fills the host

-----------------------------------------------------------------------------
ASSUME JailerdConstants

IngressJail == INSTANCE Jailerd WITH
  VMs <- {"v1"}, Runs <- {"run"}, RunOf <- "v1" :> "run", Quota <- "v1" :> 1,
  Cap <- 1, Uids <- {1, 2}, MaxGen <- 1, MaxFail <- 2, MaxCrash <- 0,
  up <- ruleUp, ready <- ruleReady, records <- ruleRecords,
  pending <- rulePending, inflight <- ruleInflight,
  unresolved <- ruleUnresolved, allocated <- ruleAllocated, nets <- ruleNets,
  attached <- ruleAttached, pc <- rulePc, check <- ruleCheck, of <- ruleOf,
  uid <- ruleUid, gens <- ruleGens, dir <- ruleDir, reserved <- ruleReserved,
  unit <- ruleUnit, drifted <- ruleDrifted, netns <- ruleNetns,
  ingress <- ruleIngress, released <- ruleReleased, fails <- ruleFails,
  crashes <- ruleCrashes

ASSUME IngressJail!JailerdConstants

ASSUME AgentVmConstants

FaultyManager == INSTANCE AgentVm WITH
  ManagedVms <- {"v1"}, ManagedRuns <- {"run"}, RunOfVm <- "v1" :> "run",
  MaxErrors <- 1, MaxRestarts <- 1, MaxCreate <- 2, mem <- faultyMem,
  row <- faultyRow, jail <- faultyJail, net <- faultyNet,
  spool <- faultySpool, task <- faultyTask, resumed <- faultyResumed,
  clean <- faultyClean, mode <- faultyMode, inline <- faultyInline,
  lock <- faultyLock, delReq <- faultyDelReq, recon <- faultyRecon,
  job <- faultyJob, saved <- faultySaved, desired <- faultyDesired,
  served <- faultyServed, owed <- faultyOwed, creates <- faultyCreates,
  errors <- faultyErrors, restarts <- faultyRestarts

ASSUME FaultyManager!AgentVmConstants

Evicting == INSTANCE ImageCache WITH
  Images <- {"i1", "i2"}, Chunks <- {"c1"}, Vms <- {},
  ChunksOf <- Each({"i1", "i2"}, {"c1"}), ImageOf <- <<>>, MaxFiles <- 3,
  MaxTemplates <- 1, Rounds <- 2, BatchLimit <- 2, MaxFaults <- 0,
  MaxChanges <- 2, MaxHours <- 1

ASSUME Evicting!ImageCacheConstants

Serving == INSTANCE ImageCache WITH
  Images <- {"i1"}, Chunks <- {"c1"}, Vms <- {"v1"},
  ChunksOf <- "i1" :> {"c1"}, ImageOf <- "v1" :> "i1", MaxFiles <- 9,
  MaxTemplates <- 9, Rounds <- 2, BatchLimit <- 2, MaxFaults <- 1,
  MaxChanges <- 2, MaxHours <- 0

ASSUME Serving!ImageCacheConstants

SuiteInit ==
  /\ on \in {"jail", "ingress", "vms", "faults", "evict", "tools"}
  /\ Init
  /\ IngressJail!Init
  /\ ManagerInit
  /\ FaultyManager!ManagerInit
  /\ IF on = "tools" THEN Serving!CacheInit
     ELSE Evicting!CacheInit

SuiteNext ==
  \/ on = "jail" /\ Next
     /\ UNCHANGED <<on, ruleVars, managerVars, faultyVars, cacheVars>>
  \/ on = "ingress" /\ IngressJail!Next
     /\ UNCHANGED <<on, vars, managerVars, faultyVars, cacheVars>>
  \/ on = "vms" /\ ManagerNext
     /\ UNCHANGED <<on, vars, ruleVars, faultyVars, cacheVars>>
  \/ on = "faults" /\ FaultyManager!ManagerNext
     /\ UNCHANGED <<on, vars, ruleVars, managerVars, cacheVars>>
  \/ on = "evict" /\ Evicting!CacheNext
     /\ UNCHANGED <<on, vars, ruleVars, managerVars, faultyVars>>
  \/ on = "tools" /\ Serving!CacheNext
     /\ UNCHANGED <<on, vars, ruleVars, managerVars, faultyVars>>

suiteVars == <<on, vars, ruleVars, managerVars, faultyVars, cacheVars>>

SuiteSpec == SuiteInit /\ [][SuiteNext]_suiteVars

-----------------------------------------------------------------------------
=============================================================================
