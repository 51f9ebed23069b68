------------------------------- MODULE LiveHost -------------------------------
(***************************************************************************)
(* Small instances of the bridge that delivers a host's desired state and  *)
(* of the admission of a run, with the fairness their code justifies, for  *)
(* liveness. A behaviour is one instance, chosen at the start: `on` names  *)
(* it, the other component stays in its initial state.                     *)
(***************************************************************************)
EXTENDS Naturals, FiniteSets, TLC

CONSTANTS NoHost

VARIABLES
  on,    \* the instance that runs
  desired, active, actual, sock, hello, disp, wake, alarm, agent, faults,
  req, run, quota, reserve, desiredState, actualState, hostAgent, rec,
  drained, access, online, source, sweeping

bridgeVars == <<desired, active, actual, sock, hello, disp, wake, alarm,
    agent, faults>>
admissionVars == <<req, run, quota, reserve, desiredState, actualState,
    hostAgent, rec, drained, access, online, source, sweeping>>

-----------------------------------------------------------------------------
Bridge == INSTANCE HostSync WITH
  Relayed <- FALSE, FaultKinds <- {"runtime", "wake"}, MaxFaults <- 1,
  MaxVersion <- 2, MaxConn <- 2, MaxQueue <- 2

Release == INSTANCE RunAdmission WITH
  Requests <- {"r1"}, Users <- {"u1"}, UserOf <- "r1" :> "u1",
  KeyOf <- "r1" :> "k1", ScopeOf <- "r1" :> "scenario", Hosts <- {"h1"},
  Cpu <- "r1" :> 1, Capacity <- "h1" :> 1, Attempts <- 2,
  Events <- {"offline", "report", "expire", "end", "reconcile"}

ASSUME Release!AdmissionConstants

SuiteInit ==
  /\ on \in {"bridge", "release"}
  /\ Bridge!Init
  /\ Release!StartInit

SuiteNext ==
  \/ on = "bridge" /\ Bridge!Next /\ UNCHANGED <<on, admissionVars>>
  \/ on = "release" /\ Release!StartNext /\ UNCHANGED <<on, bridgeVars>>

suiteVars == <<on, bridgeVars, admissionVars>>

(* Bridge!Fairness, while that instance runs. *)
BridgeFair ==
  /\ WF_(Bridge!vars)(on = "bridge" /\ Bridge!HelloSteps)
  /\ WF_(Bridge!vars)(on = "bridge" /\ Bridge!DispatchCheck)
  /\ WF_(Bridge!vars)(on = "bridge" /\ Bridge!DispatchSend)
  /\ WF_(Bridge!vars)(on = "bridge" /\ Bridge!Sweep)
  /\ WF_(Bridge!vars)(on = "bridge" /\ Bridge!HandleWake)
  /\ WF_(Bridge!vars)(on = "bridge" /\ Bridge!Alarm)
  /\ WF_(Bridge!vars)(on = "bridge" /\ Bridge!Connect)
  /\ WF_(Bridge!vars)(on = "bridge" /\ Bridge!AgentHello)
  /\ WF_(Bridge!vars)(on = "bridge" /\ Bridge!AgentReceive)
  /\ WF_(Bridge!vars)(on = "bridge" /\ Bridge!AgentApply)
  /\ WF_(Bridge!vars)(on = "bridge" /\ Bridge!AgentReport)
  /\ WF_(Bridge!vars)(on = "bridge" /\ Bridge!AgentSeesClose)
  /\ \A c \in Bridge!Conns :
       /\ SF_(Bridge!vars)(on = "bridge" /\ Bridge!HelloBegin(c))
       /\ SF_(Bridge!vars)(on = "bridge" /\ Bridge!DispatchBegin(c))
       /\ WF_(Bridge!vars)(on = "bridge" /\ Bridge!HandleMessage(c, 1))
       /\ WF_(Bridge!vars)(on = "bridge" /\ Bridge!NoticeClosed(c))
       /\ WF_(Bridge!vars)(on = "bridge" /\ Bridge!HandleSocketClosed(c))
       /\ WF_(Bridge!vars)(on = "bridge" /\ Bridge!HelloTimeout(c))

(* Release!StartFairness, while that instance runs. *)
ReleaseFair ==
  /\ \A h \in {"h1"} : /\ WF_(Release!startVars)(on = "release" /\ Release!ReconcileSteps(h))
                       /\ WF_(Release!startVars)(on = "release" /\ Release!AgentSteps(h))
  /\ \A r \in {"r1"} : /\ WF_(Release!startVars)(on = "release" /\ Release!RunEnds(r))
                       /\ WF_(Release!startVars)(on = "release" /\ Release!StartSteps(r))

SuiteSpec ==
  /\ SuiteInit /\ [][SuiteNext]_suiteVars
  /\ BridgeFair
  /\ ReleaseFair

-----------------------------------------------------------------------------
(* "all converge": once commits and faults stop, the agent applies the last*)
(* committed version and the control plane records that it did.            *)
Converges == on = "bridge" => Bridge!Converges

=============================================================================
