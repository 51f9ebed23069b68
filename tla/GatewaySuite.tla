----------------------------- MODULE GatewaySuite -----------------------------
(***************************************************************************)
(* Instances of the components between a browser or a guest and a run, for *)
(* TLC: the gateway's routes and sessions, the host relay, workspace apps, *)
(* the commands of the guest CLI, the probes of a guest and their way to   *)
(* the control plane. A behaviour is one instance, chosen at the start:    *)
(* `on` names it, the other components stay in their initial states.       *)
(***************************************************************************)
EXTENDS Stargate, WorkspaceApp, HostRelay, GuestProbes, ProbePush, RunCli, Sequences, SequencesExt, TLC

CONSTANTS t1, t2

VARIABLE on    \* the instance that runs

-----------------------------------------------------------------------------
ASSUME StargateConstants

ASSUME RelayConstants

ASSUME WorkspaceConstants

ASSUME RunCliConstants

Ladder == INSTANCE RunCli WITH
  MaxGen <- 1

ASSUME Ladder!RunCliConstants

Fences == INSTANCE RunCli WITH
  MaxHints <- 1, MaxGen <- 2

ASSUME Fences!RunCliConstants

Solution == INSTANCE RunCli WITH
  MaxHints <- 1, MaxGen <- 1, Solutions <- TRUE

ASSUME Solution!RunCliConstants

ASSUME GuestProbesConstants

ASSUME ProbePushConstants

SuiteInit ==
  /\ on \in {"route", "relay", "app", "hints", "fences", "solution", "probes",
             "push"}
  /\ Init
  /\ RelayInit
  /\ AppInit
  /\ IF on = "fences" THEN Fences!CliInit
     ELSE IF on = "solution" THEN Solution!CliInit
     ELSE Ladder!CliInit
  /\ ProbeInit
  /\ PushInit

SuiteNext ==
  \/ on = "route" /\ Next
     /\ UNCHANGED <<on, relayVars, appVars, cliVars, probeVars, pushVars>>
  \/ on = "relay" /\ RelayNext
     /\ UNCHANGED <<on, vars, appVars, cliVars, probeVars, pushVars>>
  \/ on = "app" /\ AppNext
     /\ UNCHANGED <<on, vars, relayVars, cliVars, probeVars, pushVars>>
  \/ on = "hints" /\ Ladder!CliNext
     /\ UNCHANGED <<on, vars, relayVars, appVars, probeVars, pushVars>>
  \/ on = "fences" /\ Fences!CliNext
     /\ UNCHANGED <<on, vars, relayVars, appVars, probeVars, pushVars>>
  \/ on = "solution" /\ Solution!CliNext
     /\ UNCHANGED <<on, vars, relayVars, appVars, probeVars, pushVars>>
  \/ on = "probes" /\ ProbeNext
     /\ UNCHANGED <<on, vars, relayVars, appVars, cliVars, pushVars>>
  \/ on = "push" /\ PushNext
     /\ UNCHANGED <<on, vars, relayVars, appVars, cliVars, probeVars>>

suiteVars == <<on, vars, relayVars, appVars, cliVars, probeVars, pushVars>>

SuiteSpec == SuiteInit /\ [][SuiteNext]_suiteVars
=============================================================================
