------------------------------ MODULE RunState ------------------------------
(***************************************************************************)
(* The run document: what the control plane believes about a scenario run  *)
(* and its VMs, and the pure functions that fold a host report into it     *)
(* (apps/web/src/lib/run-state.ts and apps/web/src/lib/run-lifecycle.ts).  *)
(*                                                                         *)
(* Times are naturals and 0 stands for null.  Titles, details, progress    *)
(* percentages and telemetry are left out: no decision reads them.         *)
(***************************************************************************)
EXTENDS Naturals

CONSTANTS
  VMs,             \* the VMs of the run
  Probes,          \* the probe ids of the run
  BootProbes,      \* [VMs -> SUBSET Probes]: the boot probes of each VM
  ScenarioProbes,  \* [VMs -> SUBSET Probes]: its scenario probes
  Generations,     \* the jail generations a host may report
  NoGen,           \* no generation known
  ExpectedCpu      \* provisioning.resources.cpuMillis of the run's VMs

(* A run has at least one VM, and the steady CPU limit is positive.        *)
ASSUME RunAssumption ==
  /\ VMs # {}
  /\ BootProbes \in [VMs -> SUBSET Probes]
  /\ ScenarioProbes \in [VMs -> SUBSET Probes]
  /\ NoGen \notin Generations
  /\ ExpectedCpu \in Nat \ {0}

-----------------------------------------------------------------------------
(* Phases and their order. *)

RunPhaseOrder ==
  [queued |-> 0, provisioning |-> 1, active_partial |-> 2, active_full |-> 3,
   solved |-> 4, teardown_requested |-> 5, tearing_down |-> 6,
   archiving |-> 7, completed |-> 8, failed |-> 8]

VmPhaseOrder ==
  [queued |-> 0, launching |-> 1, booting |-> 2, ready |-> 3, solved |-> 4,
   destroying |-> 5, archived |-> 6, completed |-> 7, failed |-> 7]

RunPhases == DOMAIN RunPhaseOrder
VmPhases == DOMAIN VmPhaseOrder
TerminalRunPhases == {"completed", "failed"}

CanAdvanceRunPhase(current, next) == RunPhaseOrder[next] >= RunPhaseOrder[current]
CanAdvanceVmPhase(current, next) == VmPhaseOrder[next] >= VmPhaseOrder[current]

(* The phase a host reports, as the control plane's VM phase. *)
BridgeVmPhaseToRunVmPhase ==
  [pending |-> "queued", pulling_image |-> "launching",
   creating_disks |-> "launching", booting |-> "booting", running |-> "booting",
   ready |-> "ready", solved |-> "solved", stopping |-> "destroying",
   stopped |-> "archived", absent |-> "completed", failed |-> "failed"]

BridgeVmPhases == DOMAIN BridgeVmPhaseToRunVmPhase

TerminalPhases == {"pending", "ready", "failed"}

-----------------------------------------------------------------------------
(* The document and the reports. *)

(* gen, cpu and quota are runtimeConstraints (gen = NoGen when null);      *)
(* checked is terminalTarget.checkedAt, 0 when there is no endpoint.       *)
(* boot and scenario hold the probes whose status is passed.  media is     *)
(* hasRecording/replayArtifacts.  targetGen is not stored by the program:  *)
(* it remembers which generation's report supplied the terminal target.    *)
VmDocs ==
  [phase : VmPhases, terminal : TerminalPhases, observed : Nat,
   gen : Generations \cup {NoGen}, cpu : Nat, quota : Nat,
   retired : SUBSET Generations, checked : Nat,
   targetGen : Generations \cup {NoGen},
   boot : SUBSET Probes, scenario : SUBSET Probes, media : BOOLEAN]

RunDocs == [phase : RunPhases, vms : [VMs -> VmDocs]]

(* One VM entry of a vm_report or of a host state_report.  gen = NoGen     *)
(* when runtime_constraints is absent; terminal is its state, "none" when  *)
(* absent; checked is target.checked_at, 0 unless the target is complete;  *)
(* hostKey says an SSH host key came with it; probes are the reported      *)
(* probes, passed the ones among them that pass; error: collection failed. *)
VmReports ==
  [phase : BridgeVmPhases, gen : Generations \cup {NoGen}, cpu : Nat,
   quota : Nat, terminal : TerminalPhases \cup {"none"}, terminalAt : Nat,
   checked : Nat, hostKey : BOOLEAN, probes : SUBSET Probes,
   passed : SUBSET Probes, error : BOOLEAN, at : Nat]

-----------------------------------------------------------------------------
(* run-state.ts *)

(* A terminal endpoint survives only while the terminal is ready. *)
DecorateVmState(vm) ==
  IF vm.terminal = "ready" THEN vm
  ELSE [vm EXCEPT !.checked = 0, !.targetGen = NoGen]

SomeVm(vms, phases) == \E v \in VMs : vms[v].phase \in phases
EveryVm(vms, phases) == \A v \in VMs : vms[v].phase \in phases

(* Mutant: an ended run is derived from its VMs again. *)
DeriveRunPhaseAgain(vms, current) ==
  IF SomeVm(vms, {"failed"}) THEN "failed"
  ELSE IF EveryVm(vms, {"completed", "failed"}) THEN "completed"
  ELSE current

DeriveRunPhase(vms, current) ==
  CASE current \in TerminalRunPhases -> current
    [] current \notin TerminalRunPhases /\ SomeVm(vms, {"failed"}) -> "failed"
    [] OTHER ->
       IF EveryVm(vms, {"completed", "failed"}) THEN "completed"
       ELSE IF RunPhaseOrder[current] >= RunPhaseOrder["teardown_requested"]
       THEN IF SomeVm(vms, {"destroying"}) THEN "tearing_down"
            ELSE IF SomeVm(vms, {"archived", "completed"}) THEN "archiving"
            ELSE "teardown_requested"
       ELSE IF EveryVm(vms, {"solved"}) THEN "solved"
       ELSE IF EveryVm(vms, {"ready", "solved"}) THEN "active_full"
       ELSE IF SomeVm(vms, {"ready", "solved"}) THEN "active_partial"
       ELSE IF \/ current = "provisioning" /\ SomeVm(vms, {"queued"})
               \/ SomeVm(vms, {"launching", "booting"})
            THEN "provisioning"
       ELSE "queued"

RecomputeRunState(doc) ==
  LET vms == [v \in VMs |-> DecorateVmState(doc.vms[v])]
  IN  [phase |-> DeriveRunPhase(vms, doc.phase), vms |-> vms]

InitialVmState ==
  [phase |-> "queued", terminal |-> "pending", observed |-> 0,
   gen |-> NoGen, cpu |-> 0, quota |-> 0, retired |-> {}, checked |-> 0,
   targetGen |-> NoGen, boot |-> {}, scenario |-> {}, media |-> FALSE]

BuildInitialRunState ==
  RecomputeRunState([phase |-> "queued", vms |-> [v \in VMs |-> InitialVmState]])

(* A boot probe that passed stays passed; a scenario probe follows the     *)
(* latest report that mentions it.                                         *)
ApplyProbeSnapshotToVm(v, vm, r) ==
  DecorateVmState(
    [vm EXCEPT !.boot = vm.boot \cup (BootProbes[v] \cap r.passed),
               !.scenario = (vm.scenario \ r.probes)
                               \cup (ScenarioProbes[v] \cap r.passed)])

-----------------------------------------------------------------------------
(* run-lifecycle.ts *)

BootProbesPassing(v, vm) == BootProbes[v] \subseteq vm.boot
ScenarioProbesPassing(v, vm) ==
  ScenarioProbes[v] # {} /\ ScenarioProbes[v] \subseteq vm.scenario

(* Mutant: the terminal endpoint survives a new generation. *)
ResetKeepsTerminal(vm) ==
  [vm EXCEPT !.retired = vm.retired \cup ({vm.gen} \ {NoGen}), !.phase = "booting",
             !.gen = NoGen, !.cpu = 0, !.quota = 0, !.boot = {}, !.scenario = {}]

(* A new generation starts from scratch; the one it replaces is retired.   *)
ResetVmForRuntimeGeneration(vm) ==
  [vm EXCEPT !.retired = vm.retired \cup ({vm.gen} \ {NoGen}),
             !.phase = "booting", !.terminal = "pending",
             !.checked = 0, !.targetGen = NoGen,
             !.gen = NoGen, !.cpu = 0, !.quota = 0,
             !.boot = {}, !.scenario = {}]

(* The constraints after a report: nothing reported keeps the current      *)
(* ones, and a seal is not undone by an unsealed report of the same limit. *)
MergeRuntimeConstraints(vm, r) ==
  IF \/ r.gen = NoGen
     \/ /\ vm.gen \in {NoGen, r.gen}
        /\ vm.quota # 0 /\ vm.cpu = r.cpu /\ r.quota = 0
  THEN [gen |-> vm.gen, cpu |-> vm.cpu, quota |-> vm.quota]
  ELSE [gen |-> r.gen, cpu |-> r.cpu, quota |-> r.quota]

(* The evidence a terminal needs before a learner may be sent to it. *)
ExplicitReady(c, r) ==
  /\ r.terminal = "ready" /\ r.checked > 0 /\ r.hostKey
  /\ c.gen # NoGen /\ c.cpu = ExpectedCpu
  /\ c.quota > 0 /\ c.quota <= r.terminalAt /\ r.checked >= c.quota

(* vm with its terminal fields as the report leaves them, given the        *)
(* merged constraints c.                                                   *)
ProjectTerminalReadiness(vm, c, r) ==
  LET cleared(phase) ==
        [vm EXCEPT !.terminal = phase, !.checked = 0, !.targetGen = NoGen]
  IN  IF r.terminal = "none" THEN DecorateVmState(vm)
      ELSE IF r.terminal = "failed" \/ r.phase = "failed" THEN cleared("failed")
      ELSE IF ExplicitReady(c, r)
      THEN [vm EXCEPT !.terminal = "ready", !.checked = r.checked,
                      !.targetGen = r.gen]
      ELSE IF vm.terminal = "ready" THEN vm
      ELSE cleared("pending")

(* Mutant: the reported phase is taken even when it goes back. *)
DeriveVmPhaseUnguarded(v, vm, r) ==
  LET reported == BridgeVmPhaseToRunVmPhase[r.phase]
  IN  IF BootProbesPassing(v, vm) /\ CanAdvanceVmPhase(reported, "ready")
      THEN "ready" ELSE reported

DeriveVmPhase(v, vm, r) ==
  LET reported == BridgeVmPhaseToRunVmPhase[r.phase]
      p1 == IF CanAdvanceVmPhase(vm.phase, reported) THEN reported ELSE vm.phase
      p2 == IF r.error /\ CanAdvanceVmPhase(p1, "booting") THEN "booting" ELSE p1
  IN  IF ScenarioProbesPassing(v, vm) /\ CanAdvanceVmPhase(p2, "solved")
      THEN "solved"
      ELSE IF BootProbesPassing(v, vm) /\ CanAdvanceVmPhase(p2, "ready")
      THEN "ready"
      ELSE IF p2 \in {"queued", "launching"} THEN "booting" ELSE p2

(* Mutant: a retired generation may report again. *)
ReportIgnoredByAge(vm, r) == r.at < vm.observed \/ (r.gen = NoGen /\ vm.gen # NoGen)

(* A report is dropped when it is older than what was projected, or of a   *)
(* retired generation, or names none while one is known.                   *)
ReportIgnored(vm, r) ==
  \/ r.at < vm.observed
  \/ r.gen \in vm.retired
  \/ r.gen = NoGen /\ vm.gen # NoGen

GenerationChanged(vm, r) ==
  /\ r.gen # NoGen
  /\ \/ vm.gen # NoGen /\ vm.gen # r.gen
     \/ vm.gen = NoGen /\ vm.terminal = "ready" /\ r.quota = 0

ApplyReportedVmState(v, vm, r) ==
  IF ReportIgnored(vm, r) THEN vm
  ELSE LET base == IF GenerationChanged(vm, r)
                   THEN ResetVmForRuntimeGeneration(vm) ELSE vm
           withProbes == ApplyProbeSnapshotToVm(v, base, r)
           c == MergeRuntimeConstraints(withProbes, r)
           withEvidence ==
             [ProjectTerminalReadiness(withProbes, c, r) EXCEPT
                !.gen = c.gen, !.cpu = c.cpu, !.quota = c.quota]
       IN  DecorateVmState(
             [withEvidence EXCEPT !.phase = DeriveVmPhase(v, withEvidence, r),
                                  !.observed = r.at])

(* A vm_report carries one VM, a state_report every VM the host tracks:    *)
(* reports is a function from the VMs named to their entries.              *)
ApplyReportsToRunState(doc, reports) ==
  RecomputeRunState(
    [doc EXCEPT !.vms =
       [v \in VMs |-> IF v \in DOMAIN reports
                      THEN ApplyReportedVmState(v, doc.vms[v], reports[v])
                      ELSE doc.vms[v]]])

-----------------------------------------------------------------------------
(* What a terminal offered to a learner rests on: the current generation,  *)
(* not a retired one, sealed its CPU quota at the expected limit and       *)
(* itself reported the endpoint.                                           *)
ReadyVmHasEvidence(vm) ==
  vm.terminal = "ready" =>
    /\ vm.gen # NoGen /\ vm.targetGen = vm.gen
    /\ vm.quota > 0 /\ vm.cpu = ExpectedCpu
=============================================================================
