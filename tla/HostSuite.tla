------------------------------ MODULE HostSuite -------------------------------
(***************************************************************************)
(* Instances of HostSync and RunAdmission for TLC. A behaviour is one      *)
(* instance, chosen at the start: `on` names it, and the other component   *)
(* stays in its initial state.                                             *)
(***************************************************************************)
EXTENDS HostSync, RunAdmission, TLC

VARIABLES
  on,    \* the instance that runs
  gateReq, gateRun, gateQuota, gateReserve, gateDesiredState, gateActualState,
  gateHostAgent, gateRec, gateDrained, gateAccess, gateOnline, gateSource,
  gateSweeping

gateVars == <<gateReq, gateRun, gateQuota, gateReserve, gateDesiredState,
    gateActualState, gateHostAgent, gateRec, gateDrained, gateAccess,
    gateOnline, gateSource, gateSweeping>>

(* r1 and r2 are a start and its retry; r3 is another user's. *)
RetryUsers == ("r1" :> "u1") @@ ("r2" :> "u1") @@ ("r3" :> "u2")
RetryKeys == ("r1" :> "k1") @@ ("r2" :> "k1") @@ ("r3" :> "k2")

(* Two users with a key each. *)
PairUsers == ("r1" :> "u1") @@ ("r2" :> "u2")
PairKeys == ("r1" :> "k1") @@ ("r2" :> "k2")

Each(S, x) == [e \in S |-> x]
OneScope == Each(Requests, "scenario")
OneCpu == Each(Requests, 1)
LastCpu == Each(Hosts, 1)

-----------------------------------------------------------------------------
ASSUME AdmissionConstants

Whole == INSTANCE RunAdmission WITH
  Requests <- {"r1", "r2"}, Users <- {"u1", "u2"}, UserOf <- PairUsers,
  KeyOf <- PairKeys, ScopeOf <- Each({"r1", "r2"}, "scenario"),
  Hosts <- {"h1"}, Cpu <- Each({"r1", "r2"}, 1), Capacity <- "h1" :> 2,
  Attempts <- 2, Events <- {"report", "end", "revoke"}, req <- gateReq,
  run <- gateRun, quota <- gateQuota, reserve <- gateReserve,
  desiredState <- gateDesiredState, actualState <- gateActualState,
  hostAgent <- gateHostAgent, rec <- gateRec, drained <- gateDrained,
  access <- gateAccess, online <- gateOnline, source <- gateSource,
  sweeping <- gateSweeping

ASSUME Whole!AdmissionConstants

Gates == INSTANCE RunAdmission WITH
  Requests <- {"r1"}, Users <- {"u1"}, UserOf <- "r1" :> "u1",
  KeyOf <- "r1" :> "k1", ScopeOf <- "r1" :> "scenario", Hosts <- {"h1"},
  Cpu <- "r1" :> 1, Capacity <- "h1" :> 1, Attempts <- 2,
  Events <- {"drain", "publish", "sweep", "offline", "report", "expire", "end", "reconcile"},
  req <- gateReq, run <- gateRun, quota <- gateQuota, reserve <- gateReserve,
  desiredState <- gateDesiredState, actualState <- gateActualState,
  hostAgent <- gateHostAgent, rec <- gateRec, drained <- gateDrained,
  access <- gateAccess, online <- gateOnline, source <- gateSource,
  sweeping <- gateSweeping

ASSUME Gates!AdmissionConstants

SuiteInit ==
  /\ on \in {"bridge", "admission", "whole", "gates"}
  /\ Init
  /\ StartInit
  /\ IF on = "gates" THEN Gates!StartInit
     ELSE Whole!StartInit

SuiteNext ==
  \/ on = "bridge" /\ Next /\ UNCHANGED <<on, startVars, gateVars>>
  \/ on = "admission" /\ StartNext /\ UNCHANGED <<on, vars, gateVars>>
  \/ on = "whole" /\ Whole!StartNext /\ UNCHANGED <<on, vars, startVars>>
  \/ on = "gates" /\ Gates!StartNext /\ UNCHANGED <<on, vars, startVars>>

suiteVars == <<on, vars, startVars, gateVars>>

SuiteSpec == SuiteInit /\ [][SuiteNext]_suiteVars

-----------------------------------------------------------------------------
=============================================================================
