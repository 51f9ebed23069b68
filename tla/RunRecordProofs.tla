--------------------------- MODULE RunRecordProofs --------------------------
(***************************************************************************)
(* RunRecord for every number of VMs, generations, messages, concurrent    *)
(* requests and every mix of handlers.                                     *)
(*                                                                         *)
(* The safety of its documents comes first.  ReadyTargetIsCurrent is not   *)
(* inductive: a writer commits a document computed from a row it read      *)
(* earlier, so the invariant must say of every row a handler holds what it *)
(* says of the stored one.                                                 *)
(*                                                                         *)
(* The second half is what the writers of the run row owe each other.      *)
(* RunRowSound holds with every handler racing and crashing; that no write *)
(* takes back another's rests on every writer comparing updated_at, and is *)
(* proved without the artifact endpoints, which do not.                    *)
(***************************************************************************)
EXTENDS RunRecord, TLAPS

-----------------------------------------------------------------------------
(* What the functions of RunState preserve.  A document is good when no VM *)
(* offers a terminal without current evidence, no VM is described by a     *)
(* retired generation, and the CPU limit stored with a generation is that  *)
(* generation's.                                                           *)

(* cpuOf gives the CPU limit each generation was launched with. *)
GoodVm(vm, cpuOf) ==
  /\ vm \in VmDocs
  /\ ReadyVmHasEvidence(vm)
  /\ vm.gen \notin vm.retired
  /\ vm.gen # NoGen => vm.cpu = cpuOf[vm.gen]

GoodDoc(doc, cpuOf) ==
  /\ doc \in RunDocs
  /\ \A v \in VMs : GoodVm(doc.vms[v], cpuOf)

GoodReport(r, cpuOf) == r \in VmReports /\ (r.gen # NoGen => r.cpu = cpuOf[r.gen])

(* The phases of a run and of a VM, and the image of the bridge's phases. *)
LEMMA Phases ==
  /\ RunPhases = {"queued", "provisioning", "active_partial", "active_full", "solved",
                  "teardown_requested", "tearing_down", "archiving", "completed", "failed"}
  /\ VmPhases = {"queued", "launching", "booting", "ready", "solved", "destroying",
                 "archived", "completed", "failed"}
  /\ \A p \in BridgeVmPhases : BridgeVmPhaseToRunVmPhase[p] \in VmPhases
BY DEF RunPhases, VmPhases, RunPhaseOrder, VmPhaseOrder, BridgeVmPhases,
       BridgeVmPhaseToRunVmPhase

(* decorateVmState only ever clears an endpoint. *)
LEMMA DecorateGood ==
  ASSUME NEW cpuOf, NEW vm, GoodVm(vm, cpuOf)
  PROVE  GoodVm(DecorateVmState(vm), cpuOf)
BY DEF DecorateVmState, GoodVm, VmDocs, ReadyVmHasEvidence

(* deriveRunPhase yields a phase. *)
LEMMA DeriveRunPhaseType ==
  ASSUME NEW vms, NEW current \in RunPhases
  PROVE  DeriveRunPhase(vms, current) \in RunPhases
BY Phases DEF DeriveRunPhase, TerminalRunPhases

(* recomputeRunState keeps a document good. *)
LEMMA RecomputeGood ==
  ASSUME NEW cpuOf, NEW doc, GoodDoc(doc, cpuOf)
  PROVE  GoodDoc(RecomputeRunState(doc), cpuOf)
<1> DEFINE vms == [v \in VMs |-> DecorateVmState(doc.vms[v])]
<1>1. \A v \in VMs : GoodVm(vms[v], cpuOf)
  BY DecorateGood DEF GoodDoc
<1>2. vms \in [VMs -> VmDocs]
  BY <1>1 DEF GoodVm
<1>3. DeriveRunPhase(vms, doc.phase) \in RunPhases
  BY DeriveRunPhaseType DEF GoodDoc, RunDocs
<1> HIDE DEF vms
<1>4. [phase |-> DeriveRunPhase(vms, doc.phase), vms |-> vms] \in RunDocs
  BY <1>2, <1>3 DEF RunDocs
<1>5. QED
  BY <1>1, <1>4 DEF GoodDoc, RecomputeRunState, vms

(* A document with another run phase is as good. *)
LEMMA PhaseGood ==
  ASSUME NEW cpuOf, NEW doc, GoodDoc(doc, cpuOf), NEW phase \in RunPhases
  PROVE  GoodDoc([doc EXCEPT !.phase = phase], cpuOf)
BY DEF GoodDoc, RunDocs

(* The initial document is good. *)
LEMMA InitialGood ==
  ASSUME NEW cpuOf
  PROVE  GoodDoc(BuildInitialRunState, cpuOf)
<1>1. GoodVm(InitialVmState, cpuOf)
  BY Phases, RunAssumption
  DEF GoodVm, InitialVmState, VmDocs, ReadyVmHasEvidence, TerminalPhases
<1>2. GoodDoc([phase |-> "queued", vms |-> [v \in VMs |-> InitialVmState]], cpuOf)
  BY <1>1, Phases DEF GoodDoc, RunDocs, GoodVm
<1>3. QED
  BY <1>2, RecomputeGood DEF BuildInitialRunState

(* applyProbeSnapshotToVm touches probes only, then decorates. *)
LEMMA ProbesGood ==
  ASSUME NEW cpuOf, NEW v \in VMs, NEW vm, GoodVm(vm, cpuOf), NEW r \in VmReports
  PROVE  GoodVm(ApplyProbeSnapshotToVm(v, vm, r), cpuOf)
<1> DEFINE next == [vm EXCEPT !.boot = vm.boot \cup (BootProbes[v] \cap r.passed),
                              !.scenario = (vm.scenario \ r.probes)
                                             \cup (ScenarioProbes[v] \cap r.passed)]
<1>1. GoodVm(next, cpuOf)
  BY RunAssumption DEF GoodVm, VmDocs, VmReports, ReadyVmHasEvidence
<1>2. QED
  BY <1>1, DecorateGood DEF ApplyProbeSnapshotToVm

(* A reset VM has no terminal and no generation. *)
LEMMA ResetGood ==
  ASSUME NEW cpuOf, NEW vm, GoodVm(vm, cpuOf)
  PROVE  LET next == ResetVmForRuntimeGeneration(vm)
         IN  /\ GoodVm(next, cpuOf)
             /\ next.gen = NoGen /\ next.terminal = "pending"
             /\ next.retired = vm.retired \cup ({vm.gen} \ {NoGen})
BY Phases, RunAssumption
DEF ResetVmForRuntimeGeneration, GoodVm, VmDocs, ReadyVmHasEvidence, TerminalPhases

(* deriveVmPhase yields a phase. *)
LEMMA DeriveVmPhaseType ==
  ASSUME NEW v \in VMs, NEW vm \in VmDocs, NEW r \in VmReports
  PROVE  DeriveVmPhase(v, vm, r) \in VmPhases
<1>1. vm.phase \in VmPhases /\ BridgeVmPhaseToRunVmPhase[r.phase] \in VmPhases
  BY Phases DEF VmDocs, VmReports
<1>2. {"booting", "ready", "solved"} \subseteq VmPhases
  BY Phases
<1>3. QED
  BY <1>1, <1>2 DEF DeriveVmPhase

(* The constraints after a report: of the reported generation if it names  *)
(* one, and a terminal that was ready keeps its seal and its CPU limit.    *)
LEMMA MergeFacts ==
  ASSUME NEW cpuOf, NEW vm, GoodVm(vm, cpuOf), NEW r, GoodReport(r, cpuOf),
         r.gen = NoGen => vm.gen = NoGen,
         vm.gen # NoGen => r.gen = vm.gen
  PROVE  LET c == MergeRuntimeConstraints(vm, r)
         IN  /\ c \in [gen : Generations \cup {NoGen}, cpu : Nat, quota : Nat]
             /\ c.gen # NoGen => c.gen = r.gen /\ c.cpu = cpuOf[c.gen]
             /\ vm.terminal = "ready" =>
                  c.gen = vm.gen /\ c.quota > 0 /\ c.cpu = ExpectedCpu
<1>1. vm.gen \in Generations \cup {NoGen} /\ vm.cpu \in Nat /\ vm.quota \in Nat
  BY DEF GoodVm, VmDocs
<1>2. r.gen \in Generations \cup {NoGen} /\ r.cpu \in Nat /\ r.quota \in Nat
  BY DEF GoodReport, VmReports
<1>3. vm.terminal = "ready" =>
        vm.gen # NoGen /\ r.gen = vm.gen /\ r.cpu = vm.cpu
          /\ vm.quota > 0 /\ vm.cpu = ExpectedCpu
  BY DEF GoodVm, GoodReport, ReadyVmHasEvidence
<1>4. QED
  BY <1>1, <1>2, <1>3 DEF MergeRuntimeConstraints, GoodVm, GoodReport

(* One report folded into one VM keeps it good. *)
LEMMA ReportGood ==
  ASSUME NEW cpuOf, NEW v \in VMs, NEW vm, GoodVm(vm, cpuOf),
         NEW r, GoodReport(r, cpuOf)
  PROVE  GoodVm(ApplyReportedVmState(v, vm, r), cpuOf)
<1>1. CASE ReportIgnored(vm, r)
  BY <1>1 DEF ApplyReportedVmState
<1>2. CASE ~ReportIgnored(vm, r)
  <2> DEFINE base == IF GenerationChanged(vm, r)
                     THEN ResetVmForRuntimeGeneration(vm) ELSE vm
             withProbes == ApplyProbeSnapshotToVm(v, base, r)
             c == MergeRuntimeConstraints(withProbes, r)
             ready == ProjectTerminalReadiness(withProbes, c, r)
             withEvidence == [ready EXCEPT !.gen = c.gen, !.cpu = c.cpu,
                                           !.quota = c.quota]
             last == [withEvidence EXCEPT !.phase = DeriveVmPhase(v, withEvidence, r),
                                          !.observed = r.at]
  <2>1. r \in VmReports /\ r.gen \in Generations \cup {NoGen}
    BY DEF GoodReport, VmReports
  <2>2. /\ GoodVm(base, cpuOf)
        /\ r.gen = NoGen => base.gen = NoGen
        /\ base.gen # NoGen => r.gen = base.gen
        /\ r.gen \notin base.retired
    <3>1. CASE GenerationChanged(vm, r)
      BY <1>2, <3>1, ResetGood DEF ReportIgnored, GenerationChanged
    <3>2. CASE ~GenerationChanged(vm, r)
      BY <1>2, <3>2 DEF ReportIgnored, GenerationChanged
    <3>3. QED
      BY <3>1, <3>2
  <2>3. /\ GoodVm(withProbes, cpuOf)
        /\ withProbes.gen = base.gen /\ withProbes.retired = base.retired
    <3>1. GoodVm(withProbes, cpuOf)
      BY <2>1, <2>2, ProbesGood
    <3>2. withProbes.gen = base.gen /\ withProbes.retired = base.retired
      BY <2>2 DEF ApplyProbeSnapshotToVm, DecorateVmState, GoodVm, VmDocs
    <3>3. QED
      BY <3>1, <3>2
  <2> HIDE DEF base, withProbes
  <2>4. /\ c \in [gen : Generations \cup {NoGen}, cpu : Nat, quota : Nat]
        /\ c.gen # NoGen => c.gen = r.gen /\ c.cpu = cpuOf[c.gen]
        /\ withProbes.terminal = "ready" =>
             c.gen = withProbes.gen /\ c.quota > 0 /\ c.cpu = ExpectedCpu
    BY <2>2, <2>3, MergeFacts
  <2> HIDE DEF c
  <2>5. /\ ready \in VmDocs /\ ready.retired = withProbes.retired
        /\ ready.terminal = "ready" =>
             /\ c.gen # NoGen /\ c.quota > 0 /\ c.cpu = ExpectedCpu
             /\ ready.targetGen = c.gen
    <3>1. CASE r.terminal = "none"
      BY <3>1, <2>3, <2>4
      DEF ProjectTerminalReadiness, DecorateVmState, GoodVm, VmDocs, ReadyVmHasEvidence
    <3>2. CASE r.terminal # "none" /\ (r.terminal = "failed" \/ r.phase = "failed")
      BY <3>2, <2>3 DEF ProjectTerminalReadiness, GoodVm, VmDocs, TerminalPhases
    <3>3. CASE /\ r.terminal # "none" /\ ~(r.terminal = "failed" \/ r.phase = "failed")
               /\ ExplicitReady(c, r)
      BY <3>3, <2>1, <2>3, <2>4
      DEF ProjectTerminalReadiness, ExplicitReady, GoodVm, VmDocs, VmReports, TerminalPhases
    <3>4. CASE /\ r.terminal # "none" /\ ~(r.terminal = "failed" \/ r.phase = "failed")
               /\ ~ExplicitReady(c, r)
      BY <3>4, <2>3, <2>4
      DEF ProjectTerminalReadiness, GoodVm, VmDocs, ReadyVmHasEvidence, TerminalPhases
    <3>5. QED
      BY <3>1, <3>2, <3>3, <3>4
  <2> HIDE DEF ready
  <2>6. GoodVm(withEvidence, cpuOf)
    <3>1. c.gen \notin withProbes.retired
      BY <2>2, <2>3, <2>4, RunAssumption DEF GoodVm, VmDocs
    <3>2. QED
      BY <3>1, <2>4, <2>5 DEF GoodVm, VmDocs, ReadyVmHasEvidence
  <2>7. DeriveVmPhase(v, withEvidence, r) \in VmPhases
    BY <2>1, <2>6, DeriveVmPhaseType DEF GoodVm
  <2> HIDE DEF withEvidence
  <2>8. GoodVm(last, cpuOf)
    BY <2>1, <2>6, <2>7 DEF GoodVm, VmDocs, VmReports, ReadyVmHasEvidence
  <2> HIDE DEF last
  <2>9. GoodVm(DecorateVmState(last), cpuOf)
    BY <2>8, DecorateGood
  <2>10. QED
    BY <1>2, <2>9
    DEF ApplyReportedVmState, last, withEvidence, ready, c, withProbes, base
<1>3. QED
  BY <1>1, <1>2

(* A message folded into a document keeps it good. *)
LEMMA ReportsGood ==
  ASSUME NEW cpuOf, NEW doc, GoodDoc(doc, cpuOf), NEW reports,
         DOMAIN reports \subseteq VMs,
         \A v \in DOMAIN reports : GoodReport(reports[v], cpuOf)
  PROVE  GoodDoc(ApplyReportsToRunState(doc, reports), cpuOf)
<1> DEFINE vms == [v \in VMs |-> IF v \in DOMAIN reports
                                 THEN ApplyReportedVmState(v, doc.vms[v], reports[v])
                                 ELSE doc.vms[v]]
<1>1. \A v \in VMs : GoodVm(vms[v], cpuOf)
  BY ReportGood DEF GoodDoc
<1>2. vms \in [VMs -> VmDocs]
  BY <1>1 DEF GoodVm
<1> HIDE DEF vms
<1>3. GoodDoc([doc EXCEPT !.vms = vms], cpuOf)
  BY <1>1, <1>2 DEF GoodDoc, RunDocs
<1>4. QED
  BY <1>3, RecomputeGood DEF ApplyReportsToRunState, vms

-----------------------------------------------------------------------------
(* The invariant. *)

(* The CPU limit of a generation, as the messages report it. *)
CpuOf ==
  [g \in Generations |->
     CHOOSE n : \E m \in Messages : \E v \in DOMAIN m.vms :
                  m.vms[v].gen = g /\ m.vms[v].cpu = n]

GoodRow(r) == r \in Rows /\ GoodDoc(r.doc, CpuOf)

RowInv == GoodRow(row) /\ exec \in ExecStates /\ slot \in BOOLEAN

PlaceInv ==
  /\ desired \in [VMs -> {"running", "absent"}] /\ routes \in BOOLEAN
  /\ ledger \in [VMs -> {"none", "pending", "uploaded"}]
  /\ sealed \in [VMs -> BOOLEAN]
  /\ clock \in Nat /\ session \in Nat /\ leaseOver \in BOOLEAN /\ retired \in BOOLEAN

ProjInv == proj \in ProjStates /\ GoodRow(proj.snap)
DestroyInv == /\ destroy \in [Destroyers -> DestroyStates]
              /\ \A d \in Destroyers : GoodRow(destroy[d].snap)
LeaseInv == lease \in LeaseStates /\ GoodRow(lease.snap)
ExpiryInv == expiry \in ExpiryStates /\ GoodRow(expiry.snap)
ArchiveInv == /\ archive \in [VMs -> ArchiveStates]
              /\ \A v \in VMs : GoodRow(archive[v].snap)

(* The inductive invariant. *)
RecordInv == RowInv /\ PlaceInv /\ ProjInv /\ DestroyInv /\ LeaseInv /\ ExpiryInv
               /\ ArchiveInv

-----------------------------------------------------------------------------
(* Every report of a message is good. *)
LEMMA MessagesGood ==
  ASSUME NEW m \in Messages \cup {NoMessage}
  PROVE  /\ DOMAIN m.vms \subseteq VMs
         /\ \A v \in DOMAIN m.vms : GoodReport(m.vms[v], CpuOf)
<1>1. CASE m \in Messages
  <2>1. DOMAIN m.vms \subseteq VMs /\ m.vms \in [DOMAIN m.vms -> VmReports]
    BY <1>1, RecordAssumption DEF IsMessage
  <2>2. SUFFICES ASSUME NEW v \in DOMAIN m.vms, m.vms[v].gen # NoGen
                 PROVE  m.vms[v].cpu = CpuOf[m.vms[v].gen]
    BY <2>1 DEF GoodReport
  <2>3. m.vms[v].gen \in Generations
    BY <2>1, <2>2 DEF VmReports
  <2> DEFINE P(n) == \E k \in Messages : \E w \in DOMAIN k.vms :
                       k.vms[w].gen = m.vms[v].gen /\ k.vms[w].cpu = n
  <2>4. P(m.vms[v].cpu)
    BY <1>1, <2>2
  <2>5. \A n : P(n) => n = m.vms[v].cpu
    BY <1>1, <2>2, CpuPerGeneration
  <2>6. CpuOf[m.vms[v].gen] = CHOOSE n : P(n)
    BY <2>3 DEF CpuOf
  <2>7. P(CHOOSE n : P(n))
    BY <2>4
  <2>8. QED
    BY <2>5, <2>6, <2>7
<1>2. CASE m = NoMessage
  BY <1>2 DEF NoMessage
<1>3. QED
  BY <1>1, <1>2

(* The first row is good. *)
LEMMA InitialRowGood == GoodRow(InitialRow)
<1>1. GoodDoc(BuildInitialRunState, CpuOf)
  BY InitialGood
<1>2. QED
  BY <1>1 DEF GoodRow, InitialRow, Rows, GoodDoc

(* A document with one VM replaced by a good one is good. *)
LEMMA VmReplacedGood ==
  ASSUME NEW doc, GoodDoc(doc, CpuOf), NEW v \in VMs, NEW vm, GoodVm(vm, CpuOf)
  PROVE  GoodDoc([doc EXCEPT !.vms = [doc.vms EXCEPT ![v] = vm]], CpuOf)
<1> DEFINE vms == [doc.vms EXCEPT ![v] = vm]
<1>1. doc.vms \in [VMs -> VmDocs] /\ doc.phase \in RunPhases
  BY DEF GoodDoc, RunDocs
<1>2. \A w \in VMs : vms[w] = IF w = v THEN vm ELSE doc.vms[w]
  BY <1>1
<1>3. \A w \in VMs : GoodVm(vms[w], CpuOf)
  BY <1>2 DEF GoodDoc
<1>4. vms \in [VMs -> VmDocs]
  BY <1>1 DEF GoodVm
<1> HIDE DEF vms
<1>5. [doc EXCEPT !.vms = vms] \in RunDocs /\ [doc EXCEPT !.vms = vms].vms = vms
  BY <1>4 DEF GoodDoc, RunDocs
<1>6. QED
  BY <1>3, <1>5 DEF GoodDoc, vms

(* A VM given another phase, or media, stays good. *)
LEMMA VmPhaseGood ==
  ASSUME NEW doc, GoodDoc(doc, CpuOf), NEW v \in VMs, NEW phase \in VmPhases
  PROVE  GoodDoc([doc EXCEPT !.vms[v].phase = phase], CpuOf)
<1> DEFINE vm == [doc.vms[v] EXCEPT !.phase = phase]
<1>1. GoodVm(vm, CpuOf)
  <2>1. GoodVm(doc.vms[v], CpuOf)
    BY DEF GoodDoc
  <2>2. QED
    BY <2>1 DEF GoodVm, VmDocs, ReadyVmHasEvidence
<1> HIDE DEF vm
<1>2. GoodDoc([doc EXCEPT !.vms = [doc.vms EXCEPT ![v] = vm]], CpuOf)
  BY <1>1, VmReplacedGood
<1>3. QED
  BY <1>2 DEF vm

LEMMA VmMediaGood ==
  ASSUME NEW doc, GoodDoc(doc, CpuOf), NEW v \in VMs
  PROVE  GoodDoc([doc EXCEPT !.vms[v].media = TRUE], CpuOf)
<1> DEFINE vm == [doc.vms[v] EXCEPT !.media = TRUE]
<1>1. GoodVm(vm, CpuOf)
  <2>1. GoodVm(doc.vms[v], CpuOf)
    BY DEF GoodDoc
  <2>2. QED
    BY <2>1 DEF GoodVm, VmDocs, ReadyVmHasEvidence
<1> HIDE DEF vm
<1>2. GoodDoc([doc EXCEPT !.vms = [doc.vms EXCEPT ![v] = vm]], CpuOf)
  BY <1>1, VmReplacedGood
<1>3. QED
  BY <1>2 DEF vm

(* The documents the writers compute are good. *)
LEMMA MergedGood ==
  ASSUME NEW doc, GoodDoc(doc, CpuOf), NEW m \in Messages \cup {NoMessage}
  PROVE  GoodDoc(MergedDoc(doc, m), CpuOf)
<1>1. GoodDoc(ApplyReportsToRunState(doc, m.vms), CpuOf)
  BY MessagesGood, ReportsGood
<1>2. doc.phase \in RunPhases
  BY DEF GoodDoc, RunDocs
<1>3. QED
  BY <1>1, <1>2, PhaseGood DEF MergedDoc

LEMMA WriterDocsGood ==
  ASSUME NEW snap, GoodRow(snap)
  PROVE  /\ GoodDoc(TeardownDoc(snap), CpuOf)
         /\ GoodDoc(RecomputeRunState(RecomputeRunState(snap.doc)), CpuOf)
         /\ GoodDoc(FinalizedDoc(snap), CpuOf)
         /\ \A expired \in SUBSET VMs : GoodDoc(ExpiredDoc(snap, expired), CpuOf)
<1> DEFINE current == RecomputeRunState(snap.doc)
<1>1. GoodDoc(current, CpuOf)
  BY RecomputeGood DEF GoodRow
<1>2. {"teardown_requested", "failed"} \subseteq RunPhases /\ "failed" \in VmPhases
  BY Phases
<1> HIDE DEF current
<1>3. GoodDoc(RecomputeRunState([current EXCEPT !.phase = "teardown_requested"]), CpuOf)
  BY <1>1, <1>2, PhaseGood, RecomputeGood
<1>4. GoodDoc(RecomputeRunState(IF Ended(current) THEN current
                                ELSE [current EXCEPT !.phase = "failed"]), CpuOf)
  BY <1>1, <1>2, PhaseGood, RecomputeGood
<1>5. ASSUME NEW expired \in SUBSET VMs
      PROVE  GoodDoc(ExpiredDoc(snap, expired), CpuOf)
  <2> DEFINE vms == [v \in VMs |-> IF v \in expired
                                   THEN [current.vms[v] EXCEPT !.phase = "failed",
                                                               !.terminal = "failed"]
                                   ELSE current.vms[v]]
  <2>1. ASSUME NEW v \in VMs
        PROVE  GoodVm(vms[v], CpuOf)
    <3> DEFINE vm == current.vms[v]
    <3>1. GoodVm(vm, CpuOf)
      BY <1>1 DEF GoodDoc
    <3> HIDE DEF vm
    <3>2. GoodVm([vm EXCEPT !.phase = "failed", !.terminal = "failed"], CpuOf)
      BY <3>1, <1>2 DEF GoodVm, VmDocs, ReadyVmHasEvidence, TerminalPhases
    <3>3. QED
      BY <3>1, <3>2 DEF vm
  <2>2. vms \in [VMs -> VmDocs]
    BY <2>1 DEF GoodVm
  <2> HIDE DEF vms
  <2>3. GoodDoc([phase |-> "failed", vms |-> vms], CpuOf)
    BY <2>1, <2>2, <1>2 DEF GoodDoc, RunDocs
  <2>4. QED
    BY <2>3, RecomputeGood DEF ExpiredDoc, vms, current
<1>6. QED
  BY <1>1, <1>3, <1>4, <1>5, RecomputeGood DEF TeardownDoc, FinalizedDoc, current

LEMMA ArchiveDocsGood ==
  ASSUME NEW doc, GoodDoc(doc, CpuOf), NEW v \in VMs
  PROVE  /\ GoodDoc(ArchivingDoc(doc, v), CpuOf)
         /\ GoodDoc(CompletedDoc(doc, v), CpuOf)
         /\ GoodDoc(RecomputeRunState([doc EXCEPT !.vms[v].media = TRUE]), CpuOf)
<1>1. {"archived", "completed"} \subseteq VmPhases
  BY Phases
<1>2. \A vms : DeriveArchiveRunPhase(vms) \in RunPhases
  BY Phases DEF DeriveArchiveRunPhase
<1>3. {"failed", "completed"} \subseteq RunPhases
  BY Phases
<1>4. GoodDoc(ArchivingDoc(doc, v), CpuOf)
  <2> DEFINE next == IF doc.vms[v].phase # "failed"
                          /\ CanAdvanceVmPhase(doc.vms[v].phase, "archived")
                     THEN RecomputeRunState([doc EXCEPT !.vms[v].phase = "archived"])
                     ELSE RecomputeRunState(doc)
  <2>1. GoodDoc(next, CpuOf)
    BY <1>1, VmPhaseGood, RecomputeGood
  <2> HIDE DEF next
  <2>2. GoodDoc(RecomputeRunState(
                  [next EXCEPT !.phase = DeriveArchiveRunPhase(next.vms)]), CpuOf)
    BY <2>1, <1>2, PhaseGood, RecomputeGood
  <2>3. QED
    BY <2>2 DEF ArchivingDoc, next
<1>5. GoodDoc(CompletedDoc(doc, v), CpuOf)
  <2> DEFINE next == RecomputeRunState([doc EXCEPT !.vms[v].phase = "completed"])
             phase == IF next.phase = "failed" THEN "failed"
                      ELSE IF EveryVm(next.vms, {"completed", "failed"}) THEN "completed"
                      ELSE DeriveArchiveRunPhase(next.vms)
  <2>1. GoodDoc(next, CpuOf)
    BY <1>1, VmPhaseGood, RecomputeGood
  <2>2. phase \in RunPhases
    BY <1>2, <1>3
  <2> HIDE DEF next, phase
  <2>3. GoodDoc(RecomputeRunState([next EXCEPT !.phase = phase]), CpuOf)
    BY <2>1, <2>2, PhaseGood, RecomputeGood
  <2>4. QED
    BY <2>3 DEF CompletedDoc, next, phase
<1>6. QED
  BY <1>4, <1>5, VmMediaGood, RecomputeGood

-----------------------------------------------------------------------------
(* The rows the writers store. *)

(* Date.now() or one more than the stored revision is a revision. *)
LEMMA NextRevType ==
  ASSUME PlaceInv, NEW rev \in Nat
  PROVE  NextRev(rev) \in Nat
BY DEF PlaceInv, NextRev, Later

(* updateRunState stores a good row. *)
LEMMA UpdatedRowGood ==
  ASSUME RowInv, PlaceInv, NEW snap, GoodRow(snap), NEW doc, GoodDoc(doc, CpuOf),
         NEW del \in BOOLEAN, NEW release \in BOOLEAN
  PROVE  GoodRow(UpdatedRow(snap, doc, del, release))
<1> DEFINE key == snap.activeKey /\ ~release /\ (del \/ ~Ended(doc))
           solved == NextSolvedAt(snap.solved, RecomputeRunState(snap.doc).phase, doc.phase)
<1>1. snap.rev \in Nat /\ row.cleanup \in Destroyers \cup {NoCleanup} /\ doc \in RunDocs
  BY DEF RowInv, GoodRow, Rows, GoodDoc
<1>2. NextRev(snap.rev) \in Nat
  BY <1>1, NextRevType
<1>3. key \in BOOLEAN
  OBVIOUS
<1>4. solved \in BOOLEAN
  BY DEF NextSolvedAt
<1> HIDE DEF key, solved
<1>5. [doc |-> doc, deleteRequested |-> del, activeKey |-> key, solved |-> solved,
       cleanup |-> row.cleanup, rev |-> NextRev(snap.rev)] \in Rows
  BY <1>1, <1>2, <1>3, <1>4 DEF Rows
<1>6. QED
  BY <1>5 DEF GoodRow, UpdatedRow, key, solved

(* persistRunState stores a good row. *)
LEMMA ProjectedRowGood ==
  ASSUME RowInv, PlaceInv, NEW snap, GoodRow(snap), NEW m \in Messages \cup {NoMessage}
  PROVE  GoodRow(ProjectedRow(snap, m))
<1> DEFINE current == RecomputeRunState(snap.doc)
           merged == MergedDoc(current, m)
           key == snap.activeKey /\ (snap.deleteRequested \/ ~Ended(merged))
           solved == NextSolvedAt(snap.solved, current.phase, merged.phase)
<1>1. snap.rev \in Nat /\ row.cleanup \in Destroyers \cup {NoCleanup}
        /\ snap.deleteRequested \in BOOLEAN
  BY DEF RowInv, GoodRow, Rows
<1>2. NextRev(snap.rev) \in Nat
  BY <1>1, NextRevType
<1>3. key \in BOOLEAN
  OBVIOUS
<1>4. solved \in BOOLEAN
  BY DEF NextSolvedAt
<1>5. GoodDoc(merged, CpuOf)
  <2>1. GoodDoc(current, CpuOf)
    BY RecomputeGood DEF GoodRow
  <2>2. QED
    BY <2>1, MergedGood
<1> HIDE DEF key, solved, merged
<1>6. [doc |-> merged, deleteRequested |-> snap.deleteRequested, activeKey |-> key,
       solved |-> solved, cleanup |-> row.cleanup, rev |-> NextRev(snap.rev)] \in Rows
  BY <1>1, <1>2, <1>3, <1>4, <1>5 DEF Rows, GoodDoc
<1>7. QED
  BY <1>5, <1>6 DEF GoodRow, ProjectedRow, key, solved, merged

(* persistStoredRunLifecycle stores a good row. *)
LEMMA StoredRowGood ==
  ASSUME RowInv, NEW snap, NEW doc, GoodDoc(doc, CpuOf), NEW now \in Nat
  PROVE  GoodRow(StoredRow(snap, doc, now))
<1> DEFINE key == row.activeKey /\ (row.deleteRequested \/ ~Ended(doc))
           solved == NextSolvedAt(snap.solved, snap.doc.phase, doc.phase)
<1>1. key \in BOOLEAN
  OBVIOUS
<1>2. solved \in BOOLEAN
  BY DEF NextSolvedAt
<1> HIDE DEF key, solved
<1> DEFINE next == [row EXCEPT !.doc = doc, !.activeKey = key, !.solved = solved,
                               !.rev = now]
<1>3. next \in Rows /\ next.doc = doc
  BY <1>1, <1>2 DEF RowInv, GoodRow, GoodDoc, Rows
<1>4. GoodRow(next)
  BY <1>3 DEF GoodRow
<1>5. QED
  BY <1>4 DEF StoredRow, key, solved

(* The runtime projection keeps the execution and the slot in their types. *)
LEMMA RuntimeTyped ==
  ASSUME NEW r, NEW e \in ExecStates, RowInv, ProjectRuntime(r, e)
  PROVE  exec' \in ExecStates /\ slot' \in BOOLEAN
<1>1. \A phase : ExecStateOf(phase) \in ExecStates
  BY DEF ExecStateOf, ExecStates
<1>2. exec' \in ExecStates
  BY <1>1 DEF ProjectRuntime
<1>3. slot' \in BOOLEAN
  BY DEF ProjectRuntime, RowInv
<1>4. QED
  BY <1>2, <1>3

(* A write of a good row, and a write that lost its race. *)
LEMMA WriteGood ==
  ASSUME RowInv
  PROVE  /\ \A r : GoodRow(r) /\ WriteRow(r) => RowInv'
         /\ LostRace => RowInv'
<1>1. ASSUME NEW r, GoodRow(r), WriteRow(r)
      PROVE  RowInv'
  BY <1>1, RuntimeTyped DEF WriteRow, RowInv
<1>2. ASSUME LostRace
      PROVE  RowInv'
  BY <1>2, RuntimeTyped DEF LostRace, RowInv
<1>3. QED
  BY <1>1, <1>2

-----------------------------------------------------------------------------
(* The steps.  What an action leaves alone stays as it was. *)
LEMMA Untouched ==
  ASSUME RecordInv
  PROVE  /\ UNCHANGED rowVars => RowInv'
         /\ UNCHANGED <<desired, routes, artifactVars, hostVars>> => PlaceInv'
         /\ UNCHANGED proj => ProjInv'
         /\ UNCHANGED destroy => DestroyInv'
         /\ UNCHANGED lease => LeaseInv'
         /\ UNCHANGED expiry => ExpiryInv'
         /\ UNCHANGED archive => ArchiveInv'
BY DEF RecordInv, RowInv, PlaceInv, ProjInv, DestroyInv, LeaseInv, ExpiryInv, ArchiveInv,
       rowVars, artifactVars, hostVars

(* Idle handlers hold the initial row. *)
LEMMA IdleGood ==
  /\ IdleProj \in ProjStates /\ GoodRow(IdleProj.snap)
  /\ IdleDestroy \in DestroyStates /\ GoodRow(IdleDestroy.snap)
  /\ IdleLease \in LeaseStates /\ GoodRow(IdleLease.snap)
  /\ IdleExpiry \in ExpiryStates /\ GoodRow(IdleExpiry.snap)
  /\ IdleArchive \in ArchiveStates /\ GoodRow(IdleArchive.snap)
<1>1. GoodRow(InitialRow) /\ InitialRow \in Rows
  BY InitialRowGood DEF GoodRow
<1>2. QED
  BY <1>1 DEF IdleProj, IdleDestroy, IdleLease, IdleExpiry, IdleArchive,
              ProjStates, DestroyStates, LeaseStates, ExpiryStates, ArchiveStates

(* One request, or one VM's upload, moved to a good state. *)
LEMMA DestroyMoved ==
  ASSUME DestroyInv, NEW d \in Destroyers, NEW s \in DestroyStates, GoodRow(s.snap),
         destroy' = [destroy EXCEPT ![d] = s]
  PROVE  DestroyInv'
<1>1. \A e \in Destroyers : destroy'[e] = IF e = d THEN s ELSE destroy[e]
  BY DEF DestroyInv
<1>2. destroy' \in [Destroyers -> DestroyStates]
  BY DEF DestroyInv
<1>3. QED
  BY <1>1, <1>2 DEF DestroyInv

LEMMA ArchiveMoved ==
  ASSUME ArchiveInv, NEW v \in VMs, NEW s \in ArchiveStates, GoodRow(s.snap),
         archive' = [archive EXCEPT ![v] = s]
  PROVE  ArchiveInv'
<1>1. \A w \in VMs : archive'[w] = IF w = v THEN s ELSE archive[w]
  BY DEF ArchiveInv
<1>2. archive' \in [VMs -> ArchiveStates]
  BY DEF ArchiveInv
<1>3. QED
  BY <1>1, <1>2 DEF ArchiveInv

(* Projection: receiving a report, loading the row, committing. *)
LEMMA ProjectionStep ==
  ASSUME RecordInv, \/ \E m \in Messages : ReceiveReport(m)
                    \/ ProjectLoad \/ ProjectCommit \/ Reconnect
  PROVE  RecordInv'
<1> USE DEF RecordInv
<1>1. ASSUME NEW m \in Messages, ReceiveReport(m)
      PROVE  RecordInv'
  <2>1. ProjInv'
    BY <1>1 DEF ReceiveReport, ProjInv, ProjStates, PlaceInv
  <2>2. QED
    BY <1>1, <2>1, Untouched DEF ReceiveReport
<1>2. CASE ProjectLoad
  <2>1. ProjInv'
    BY <1>2 DEF ProjectLoad, ProjInv, ProjStates, RowInv, GoodRow
  <2>2. QED
    BY <1>2, <2>1, Untouched DEF ProjectLoad
<1>3. CASE ProjectCommit
  <2> DEFINE next == ProjectedRow(proj.snap, proj.msg)
  <2>1. GoodRow(next)
    BY ProjectedRowGood DEF ProjInv, ProjStates
  <2> HIDE DEF next
  <2>2. ProjInv'
    <3>1. proj' = IdleProj \/ proj' = [proj EXCEPT !.pc = "load"]
      BY <1>3 DEF ProjectCommit
    <3>2. QED
      BY <3>1, IdleGood DEF ProjInv, ProjStates
  <2>3. RowInv'
    <3>1. UNCHANGED rowVars \/ WriteRow(next) \/ LostRace
      BY <1>3 DEF ProjectCommit, next
    <3>2. QED
      BY <3>1, <2>1, Untouched, WriteGood
  <2>4. QED
    BY <1>3, <2>2, <2>3, Untouched DEF ProjectCommit
<1>4. CASE Reconnect
  <2>1. PlaceInv'
    BY <1>4 DEF Reconnect, PlaceInv, artifactVars
  <2>2. QED
    BY <1>4, <2>1, Untouched DEF Reconnect
<1>5. QED
  BY <1>1, <1>2, <1>3, <1>4

(* Ending a run: each round trip of a request. *)
LEMMA DestroyStepGood ==
  ASSUME RecordInv, NEW d \in Destroyers, Destroy(d)
  PROVE  RecordInv'
<1> USE DEF RecordInv
<1> DEFINE s == destroy[d]
           Moved(pc) == destroy' = [destroy EXCEPT ![d] = [s EXCEPT !.pc = pc]]
           PCs == {"absent", "revoke", "release_load", "finish", "teardown_load"}
<1>1. s \in DestroyStates /\ GoodRow(s.snap)
  BY DEF DestroyInv
<1>2. ASSUME NEW pc \in PCs, Moved(pc)
      PROVE  DestroyInv'
  <2> DEFINE n == [s EXCEPT !.pc = pc]
  <2>1. n \in DestroyStates /\ GoodRow(n.snap)
    BY <1>1 DEF DestroyStates
  <2>2. destroy' = [destroy EXCEPT ![d] = n]
    BY <1>2
  <2> HIDE DEF n
  <2>3. QED
    BY <2>1, <2>2, DestroyMoved
<1>3. row \in Rows /\ row.rev \in Nat /\ GoodDoc(row.doc, CpuOf) /\ NextRev(row.rev) \in Nat
  BY NextRevType DEF RowInv, GoodRow, Rows
<1>4. ASSUME NEW id \in Destroyers \cup {NoCleanup}, NEW rev \in Nat, NEW del \in BOOLEAN,
             row' = [row EXCEPT !.cleanup = id, !.deleteRequested = del, !.rev = rev],
             UNCHANGED <<exec, slot>>
      PROVE  RowInv'
  <2>1. row' \in Rows /\ row'.doc = row.doc
    BY <1>3, <1>4 DEF Rows
  <2>2. QED
    BY <2>1, <1>3, <1>4 DEF RowInv, GoodRow
<1>5. CASE DestroyLoad(d)
  <2> DEFINE n == [pc |-> "request", snap |-> row, cleanup |-> NoCleanup,
                   vms |-> {v \in VMs : row.doc.vms[v].phase # "completed"}]
  <2>1. n \in DestroyStates /\ GoodRow(n.snap)
    BY <1>3 DEF DestroyStates, RowInv
  <2>2. destroy' = [destroy EXCEPT ![d] = n]
    BY <1>5 DEF DestroyLoad
  <2> HIDE DEF n
  <2>3. DestroyInv'
    BY <2>1, <2>2, DestroyMoved
  <2>4. QED
    BY <1>5, <2>3, Untouched DEF DestroyLoad, DestroyFrame
<1>6. CASE DestroyRequest(d)
  <2> DEFINE id == IF row.cleanup = NoCleanup THEN d ELSE row.cleanup
             n == [s EXCEPT !.cleanup = id,
                            !.pc = IF Ended(s.snap.doc) THEN "record" ELSE "teardown_load"]
  <2>1. id \in Destroyers \cup {NoCleanup}
    BY <1>3 DEF Rows
  <2>2. n \in DestroyStates /\ GoodRow(n.snap)
    BY <1>1, <2>1 DEF DestroyStates
  <2>3. destroy' = [destroy EXCEPT ![d] = n]
    BY <1>6 DEF DestroyRequest
  <2>4. RowInv'
    BY <1>3, <1>4, <1>6, <2>1 DEF DestroyRequest
  <2> HIDE DEF n
  <2>5. DestroyInv'
    BY <2>2, <2>3, DestroyMoved
  <2>6. QED
    BY <1>6, <2>4, <2>5, Untouched DEF DestroyRequest, DestroyFrame
<1>7. CASE DestroyRecord(d)
  <2>1. row' = [row EXCEPT !.cleanup = row.cleanup, !.deleteRequested = TRUE,
                           !.rev = NextRev(row.rev)]
    BY <1>3, <1>7 DEF DestroyRecord, Rows
  <2>2. RowInv'
    BY <1>3, <1>4, <1>7, <2>1 DEF DestroyRecord, Rows
  <2>3. DestroyInv'
    BY <1>2, <1>7 DEF DestroyRecord, DestroyStep
  <2>4. QED
    BY <1>7, <2>2, <2>3, Untouched DEF DestroyRecord, DestroyFrame
<1>8. CASE DestroyUpdateLoad(d)
  <2> DEFINE n == [s EXCEPT !.snap = row,
                            !.pc = IF s.pc = "teardown_load"
                                   THEN "teardown_commit" ELSE "release_commit"]
  <2>1. n \in DestroyStates /\ GoodRow(n.snap)
    BY <1>1, <1>3 DEF DestroyStates, RowInv
  <2>2. destroy' = [destroy EXCEPT ![d] = n]
    BY <1>8 DEF DestroyUpdateLoad
  <2> HIDE DEF n
  <2>3. DestroyInv'
    BY <2>1, <2>2, DestroyMoved
  <2>4. QED
    BY <1>8, <2>3, Untouched DEF DestroyUpdateLoad, DestroyFrame
<1>9. CASE DestroyTeardownCommit(d)
  <2> DEFINE next == UpdatedRow(s.snap, TeardownDoc(s.snap), TRUE, FALSE)
  <2>1. GoodRow(next)
    BY <1>1, UpdatedRowGood, WriterDocsGood
  <2> HIDE DEF next
  <2>2. \/ WriteRow(next) /\ Moved("absent")
        \/ LostRace /\ Moved("teardown_load")
    BY <1>9 DEF DestroyTeardownCommit, DestroyStep, next
  <2>3. RowInv' /\ DestroyInv'
    BY <2>1, <2>2, <1>2, WriteGood
  <2>4. QED
    BY <1>9, <2>3, Untouched DEF DestroyTeardownCommit, DestroyFrame
<1>10. CASE DestroyMarkAbsent(d)
  <2>1. DestroyInv'
    BY <1>2, <1>10 DEF DestroyMarkAbsent, DestroyStep
  <2>2. PlaceInv'
    BY <1>10 DEF DestroyMarkAbsent, DestroyFrame, PlaceInv, artifactVars, hostVars
  <2>3. QED
    BY <1>10, <2>1, <2>2, Untouched DEF DestroyMarkAbsent, DestroyFrame
<1>11. CASE DestroyRevoke(d)
  <2>1. DestroyInv'
    BY <1>2, <1>11 DEF DestroyRevoke, DestroyStep
  <2>2. PlaceInv'
    BY <1>11 DEF DestroyRevoke, DestroyFrame, PlaceInv, artifactVars, hostVars
  <2>3. QED
    BY <1>11, <2>1, <2>2, Untouched DEF DestroyRevoke, DestroyFrame
<1>12. CASE DestroyReleaseCommit(d)
  <2> DEFINE next == UpdatedRow(s.snap, RecomputeRunState(RecomputeRunState(s.snap.doc)),
                                TRUE, TRUE)
  <2>1. GoodRow(next)
    BY <1>1, UpdatedRowGood, WriterDocsGood
  <2> HIDE DEF next
  <2>2. \/ WriteRow(next) /\ Moved("finish")
        \/ LostRace /\ Moved("release_load")
    BY <1>12 DEF DestroyReleaseCommit, DestroyStep, next
  <2>3. RowInv' /\ DestroyInv'
    BY <2>1, <2>2, <1>2, WriteGood
  <2>4. QED
    BY <1>12, <2>3, Untouched DEF DestroyReleaseCommit, DestroyFrame
<1>13. CASE DestroyFinish(d)
  <2> DEFINE id == IF row.cleanup = s.cleanup THEN NoCleanup ELSE row.cleanup
  <2>1. id \in Destroyers \cup {NoCleanup}
    BY <1>3 DEF Rows
  <2>2. row' = [row EXCEPT !.cleanup = id, !.deleteRequested = row.deleteRequested,
                           !.rev = row.rev]
    BY <1>3, <1>13 DEF DestroyFinish, Rows
  <2> HIDE DEF id
  <2>3. RowInv'
    <3>1. row.deleteRequested \in BOOLEAN
      BY <1>3 DEF Rows
    <3>2. UNCHANGED <<exec, slot>>
      BY <1>13 DEF DestroyFinish
    <3>3. QED
      BY <1>3, <1>4, <2>1, <2>2, <3>1, <3>2
  <2>4. DestroyInv'
    BY <1>13, IdleGood, DestroyMoved DEF DestroyFinish
  <2>5. QED
    BY <1>13, <2>3, <2>4, Untouched DEF DestroyFinish, DestroyFrame
<1>14. QED
  BY <1>5, <1>6, <1>7, <1>8, <1>9, <1>10, <1>11, <1>12, <1>13 DEF Destroy

(* The lease pass. *)
LEMMA LeaseStepGood ==
  ASSUME RecordInv, Lease
  PROVE  RecordInv'
<1> USE DEF RecordInv
<1>1. row \in Rows /\ row.deleteRequested \in BOOLEAN
  BY DEF RowInv, GoodRow, Rows
<1>2. CASE LeaseSelect
  <2>1. LeaseInv'
    BY <1>2 DEF LeaseSelect, LeaseInv, LeaseStates
  <2>2. QED
    BY <1>2, <2>1, Untouched DEF LeaseSelect, LeaseFrame
<1>3. CASE LeaseLoad
  <2>1. LeaseInv'
    BY <1>1, <1>3 DEF LeaseLoad, LeaseInv, LeaseStates
  <2>2. QED
    BY <1>3, <2>1, Untouched DEF LeaseLoad, LeaseFrame
<1>4. CASE LeaseUpdateLoad
  <2>1. LeaseInv'
    BY <1>1, <1>4 DEF LeaseUpdateLoad, LeaseInv, LeaseStates, RowInv
  <2>2. QED
    BY <1>4, <2>1, Untouched DEF LeaseUpdateLoad, LeaseFrame
<1>5. CASE LeaseUpdateCommit
  <2> DEFINE next == UpdatedRow(lease.snap, ExpiredDoc(lease.snap, lease.vms),
                                lease.deleteRequested, FALSE)
  <2>1. lease.deleteRequested \in BOOLEAN /\ lease.vms \in SUBSET VMs
    BY DEF LeaseInv, LeaseStates
  <2>2. GoodRow(next)
    BY <2>1, UpdatedRowGood, WriterDocsGood DEF LeaseInv
  <2> HIDE DEF next
  <2>3. RowInv'
    BY <1>5, <2>2, WriteGood DEF LeaseUpdateCommit, next
  <2>4. LeaseInv'
    <3>1. \E pc \in {"absent", "update_load"} : lease' = [lease EXCEPT !.pc = pc]
      BY <1>5 DEF LeaseUpdateCommit
    <3>2. QED
      BY <3>1 DEF LeaseInv, LeaseStates
  <2>5. QED
    BY <1>5, <2>3, <2>4, Untouched DEF LeaseUpdateCommit, LeaseFrame
<1>6. CASE LeaseMarkAbsent
  <2>1. LeaseInv'
    BY <1>6, IdleGood DEF LeaseMarkAbsent, LeaseInv
  <2>2. PlaceInv'
    BY <1>6 DEF LeaseMarkAbsent, LeaseFrame, PlaceInv, artifactVars, hostVars
  <2>3. QED
    BY <1>6, <2>1, <2>2, Untouched DEF LeaseMarkAbsent, LeaseFrame
<1>7. QED
  BY <1>2, <1>3, <1>4, <1>5, <1>6 DEF Lease

(* The expiry pass. *)
LEMMA ExpiryStepGood ==
  ASSUME RecordInv, Expiry
  PROVE  RecordInv'
<1> USE DEF RecordInv
<1>1. row \in Rows /\ row.rev \in Nat /\ NextRev(row.rev) \in Nat
  BY NextRevType DEF RowInv, GoodRow, Rows
<1>2. CASE ExpirySelect
  <2>1. ExpiryInv'
    BY <1>2 DEF ExpirySelect, ExpiryInv, ExpiryStates
  <2>2. QED
    BY <1>2, <2>1, Untouched DEF ExpirySelect, ExpiryFrame
<1>3. CASE ExpiryLoad
  <2>1. ExpiryInv'
    BY <1>1, <1>3 DEF ExpiryLoad, ExpiryInv, ExpiryStates, RowInv
  <2>2. QED
    BY <1>3, <2>1, Untouched DEF ExpiryLoad, ExpiryFrame
<1>4. CASE ExpiryRevoke
  <2>1. ExpiryInv'
    BY <1>4 DEF ExpiryRevoke, ExpiryInv, ExpiryStates
  <2>2. PlaceInv'
    BY <1>4 DEF ExpiryRevoke, ExpiryFrame, PlaceInv, artifactVars, hostVars
  <2>3. QED
    BY <1>4, <2>1, <2>2, Untouched DEF ExpiryRevoke, ExpiryFrame
<1>5. CASE ExpiryUpdateLoad
  <2>1. ExpiryInv'
    BY <1>1, <1>5 DEF ExpiryUpdateLoad, ExpiryInv, ExpiryStates, RowInv
  <2>2. QED
    BY <1>5, <2>1, Untouched DEF ExpiryUpdateLoad, ExpiryFrame
<1>6. CASE ExpiryUpdateCommit
  <2> DEFINE next == UpdatedRow(expiry.snap, FinalizedDoc(expiry.snap),
                                expiry.snap.deleteRequested, TRUE)
  <2>1. expiry.snap.deleteRequested \in BOOLEAN
    BY DEF ExpiryInv, GoodRow, Rows
  <2>2. GoodRow(next)
    BY <2>1, UpdatedRowGood, WriterDocsGood DEF ExpiryInv
  <2> HIDE DEF next
  <2>3. RowInv'
    BY <1>6, <2>2, WriteGood DEF ExpiryUpdateCommit, next
  <2>4. ExpiryInv'
    <3>1. \E pc \in {"archive", "update_load"} : expiry' = [expiry EXCEPT !.pc = pc]
      BY <1>6 DEF ExpiryUpdateCommit
    <3>2. QED
      BY <3>1 DEF ExpiryInv, ExpiryStates
  <2>5. QED
    BY <1>6, <2>3, <2>4, Untouched DEF ExpiryUpdateCommit, ExpiryFrame
<1>7. CASE ExpiryArchive
  <2>1. row' \in Rows /\ row'.doc = row.doc
    BY <1>1, <1>7 DEF ExpiryArchive, Rows
  <2>2. RowInv'
    BY <1>7, <2>1 DEF ExpiryArchive, RowInv, GoodRow, ExecStates
  <2>3. ExpiryInv'
    BY <1>7, IdleGood DEF ExpiryArchive, ExpiryInv
  <2>4. QED
    BY <1>7, <2>2, <2>3, Untouched DEF ExpiryArchive, ExpiryFrame
<1>8. QED
  BY <1>2, <1>3, <1>4, <1>5, <1>6, <1>7 DEF Expiry

(* The artifact endpoints. *)
LEMMA ArchiveStepGood ==
  ASSUME RecordInv, NEW v \in VMs, Archive(v)
  PROVE  RecordInv'
<1> USE DEF RecordInv
<1> DEFINE s == archive[v]
           PCs == {"begin_exec", "begin_load", "upload_load", "complete_load"}
<1>1. s \in ArchiveStates /\ GoodRow(s.snap) /\ s.now \in Nat
  BY DEF ArchiveInv, ArchiveStates
<1>2. clock \in Nat /\ exec \in ExecStates /\ row \in Rows
  BY DEF PlaceInv, RowInv, GoodRow
<1>3. ASSUME NEW pc \in PCs, ArchiveGoto(v, pc)
      PROVE  ArchiveInv'
  <2> DEFINE n == [s EXCEPT !.pc = pc]
  <2>1. n \in ArchiveStates /\ GoodRow(n.snap)
    BY <1>1 DEF ArchiveStates
  <2>2. archive' = [archive EXCEPT ![v] = n]
    BY <1>3 DEF ArchiveGoto
  <2> HIDE DEF n
  <2>3. QED
    BY <2>1, <2>2, ArchiveMoved
<1>4. ArchiveDone(v) => ArchiveInv'
  BY IdleGood, ArchiveMoved DEF ArchiveDone
<1>5. ASSUME NEW pc \in PCs,
             archive' = [archive EXCEPT ![v].pc = pc, ![v].now = clock]
      PROVE  ArchiveInv'
  <2> DEFINE n == [s EXCEPT !.pc = pc, !.now = clock]
  <2>1. n \in ArchiveStates /\ GoodRow(n.snap)
    BY <1>1, <1>2 DEF ArchiveStates
  <2>2. archive' = [archive EXCEPT ![v] = n]
    BY <1>5
  <2> HIDE DEF n
  <2>3. QED
    BY <2>1, <2>2, ArchiveMoved
<1>6. CASE ArchiveBegin(v)
  <2>1. ArchiveInv'
    BY <1>5, <1>6 DEF ArchiveBegin
  <2>2. PlaceInv'
    BY <1>6 DEF ArchiveBegin, ArchiveFrame, PlaceInv, hostVars
  <2>3. QED
    BY <1>6, <2>1, <2>2, Untouched DEF ArchiveBegin, ArchiveFrame
<1>7. CASE ArchiveUpload(v)
  <2>1. ArchiveInv'
    BY <1>5, <1>7 DEF ArchiveUpload
  <2>2. QED
    BY <1>7, <2>1, Untouched DEF ArchiveUpload, ArchiveFrame
<1>8. CASE ArchiveComplete(v)
  <2>1. ArchiveInv'
    BY <1>5, <1>8 DEF ArchiveComplete
  <2>2. QED
    BY <1>8, <2>1, Untouched DEF ArchiveComplete, ArchiveFrame
<1>9. CASE BeginExec(v)
  <2>1. ArchiveInv'
    BY <1>3, <1>4, <1>9 DEF BeginExec
  <2>2. RowInv'
    BY <1>2, <1>9 DEF BeginExec, RowInv, ExecStates
  <2>3. QED
    BY <1>9, <2>1, <2>2, Untouched DEF BeginExec, ArchiveFrame
<1>10. CASE ArchiveLoad(v)
  <2> DEFINE n == [s EXCEPT !.snap = row,
                            !.pc = CASE s.pc = "begin_load" -> "begin_commit"
                                     [] s.pc = "upload_load" -> "upload_commit"
                                     [] OTHER -> "complete_commit"]
  <2>1. n \in ArchiveStates /\ GoodRow(n.snap)
    BY <1>1, <1>2 DEF ArchiveStates, RowInv
  <2>2. archive' = [archive EXCEPT ![v] = n]
    BY <1>10 DEF ArchiveLoad
  <2> HIDE DEF n
  <2>3. ArchiveInv'
    BY <2>1, <2>2, ArchiveMoved
  <2>4. QED
    BY <1>10, <2>3, Untouched DEF ArchiveLoad, ArchiveFrame
<1>11. CASE BeginCommit(v)
  <2> DEFINE next == StoredRow(s.snap, ArchivingDoc(s.snap.doc, v), s.now)
  <2>1. GoodRow(next)
    BY <1>1, ArchiveDocsGood, StoredRowGood DEF GoodRow
  <2> HIDE DEF next
  <2>2. \/ UNCHANGED rowVars /\ (ArchiveDone(v) \/ ArchiveGoto(v, "begin_exec"))
        \/ WriteRow(next) /\ ArchiveDone(v)
    BY <1>11 DEF BeginCommit, next
  <2>3. RowInv' /\ ArchiveInv'
    BY <1>3, <1>4, <2>1, <2>2, Untouched, WriteGood
  <2>4. QED
    BY <1>11, <2>3, Untouched DEF BeginCommit, ArchiveFrame
<1>12. CASE UploadCommit(v)
  <2> DEFINE doc == RecomputeRunState([s.snap.doc EXCEPT !.vms[v].media = TRUE])
             next == [row EXCEPT !.doc = doc, !.rev = s.now]
  <2>1. GoodDoc(doc, CpuOf)
    BY <1>1, ArchiveDocsGood DEF GoodRow
  <2>2. \/ /\ UNCHANGED <<row, ledger>>
           /\ ArchiveDone(v) \/ ArchiveGoto(v, "upload_load")
        \/ row' = next /\ ledger' = [ledger EXCEPT ![v] = "uploaded"] /\ ArchiveDone(v)
    BY <1>12 DEF UploadCommit
  <2>3. UNCHANGED <<exec, slot, sealed>> /\ ArchiveFrame
    BY <1>12 DEF UploadCommit
  <2> HIDE DEF doc
  <2>4. GoodRow(next)
    <3>1. next \in Rows /\ next.doc = doc
      BY <1>1, <1>2, <2>1 DEF Rows, GoodDoc
    <3>2. QED
      BY <2>1, <3>1 DEF GoodRow
  <2> HIDE DEF next
  <2>5. RowInv'
    BY <2>2, <2>3, <2>4 DEF RowInv
  <2>6. ArchiveInv'
    BY <1>3, <1>4, <2>2
  <2>7. PlaceInv'
    BY <2>2, <2>3 DEF ArchiveFrame, PlaceInv, hostVars
  <2>8. QED
    BY <2>3, <2>5, <2>6, <2>7, Untouched DEF ArchiveFrame
<1>13. CASE CompleteCommit(v)
  <2> DEFINE next == StoredRow(s.snap, CompletedDoc(s.snap.doc, v), s.now)
             e == IF \A w \in VMs : sealed'[w] THEN "archived" ELSE exec
  <2>1. GoodRow(next)
    BY <1>1, ArchiveDocsGood, StoredRowGood DEF GoodRow
  <2>2. e \in ExecStates
    BY <1>2 DEF ExecStates
  <2>3. \/ ArchiveGoto(v, "complete_load") /\ UNCHANGED <<rowVars, sealed>>
        \/ /\ row' = next /\ sealed' = [sealed EXCEPT ![v] = TRUE]
           /\ ProjectRuntime(next, e) /\ ArchiveDone(v)
    BY <1>13 DEF CompleteCommit
  <2> HIDE DEF next, e
  <2>4. RowInv'
    <3>1. CASE UNCHANGED rowVars
      BY <3>1, Untouched
    <3>2. CASE row' = next /\ ProjectRuntime(next, e)
      BY <3>2, <2>1, <2>2, RuntimeTyped DEF RowInv
    <3>3. QED
      BY <2>3, <3>1, <3>2
  <2>5. ArchiveInv'
    BY <1>3, <1>4, <2>3
  <2>6. PlaceInv'
    BY <1>13, <2>3 DEF CompleteCommit, ArchiveFrame, PlaceInv, hostVars
  <2>7. QED
    BY <1>13, <2>4, <2>5, <2>6, Untouched DEF CompleteCommit, ArchiveFrame
<1>14. QED
  BY <1>6, <1>7, <1>8, <1>9, <1>10, <1>11, <1>12, <1>13 DEF Archive

(* Time, retirement and crashes. *)
LEMMA EnvironmentStepGood ==
  ASSUME RecordInv, Tick \/ LeaseElapses \/ RetireHost \/ Crash
  PROVE  RecordInv'
<1> USE DEF RecordInv
<1>1. CASE Tick \/ LeaseElapses \/ RetireHost
  <2>1. PlaceInv'
    <3>1. CASE Tick
      BY <3>1 DEF Tick, PlaceInv, artifactVars
    <3>2. CASE LeaseElapses
      BY <3>2 DEF LeaseElapses, PlaceInv, artifactVars
    <3>3. CASE RetireHost
      BY <3>3 DEF RetireHost, PlaceInv, artifactVars
    <3>4. QED
      BY <1>1, <3>1, <3>2, <3>3
  <2>2. QED
    BY <1>1, <2>1, Untouched DEF Tick, LeaseElapses, RetireHost
<1>2. CASE Crash
  <2>1. UNCHANGED proj \/ proj' = IdleProj
    BY <1>2 DEF Crash
  <2>2. UNCHANGED destroy \/ \E d \in Destroyers :
          destroy' = [destroy EXCEPT ![d] = IdleDestroy]
    BY <1>2 DEF Crash
  <2>3. UNCHANGED lease \/ lease' = IdleLease
    BY <1>2 DEF Crash
  <2>4. UNCHANGED expiry \/ expiry' = IdleExpiry
    BY <1>2 DEF Crash
  <2>5. UNCHANGED archive \/ \E v \in VMs : archive' = [archive EXCEPT ![v] = IdleArchive]
    BY <1>2 DEF Crash, ArchiveDone
  <2>6. ProjInv' /\ LeaseInv' /\ ExpiryInv'
    BY <2>1, <2>3, <2>4, IdleGood, Untouched DEF ProjInv, LeaseInv, ExpiryInv
  <2>7. DestroyInv'
    BY <2>2, IdleGood, Untouched, DestroyMoved
  <2>8. ArchiveInv'
    BY <2>5, IdleGood, Untouched, ArchiveMoved
  <2>9. QED
    BY <1>2, <2>6, <2>7, <2>8, Untouched DEF Crash
<1>3. QED
  BY <1>1, <1>2

-----------------------------------------------------------------------------
(* The initial state satisfies the invariant. *)
LEMMA InitGood == Init => RecordInv
<1> SUFFICES ASSUME Init
             PROVE  RecordInv
  OBVIOUS
<1>1. RowInv
  BY InitialRowGood DEF Init, RowInv, ExecStates
<1>2. PlaceInv
  BY DEF Init, PlaceInv
<1>3. ProjInv /\ LeaseInv /\ ExpiryInv
  BY IdleGood DEF Init, ProjInv, LeaseInv, ExpiryInv
<1>4. DestroyInv /\ ArchiveInv
  BY IdleGood DEF Init, DestroyInv, ArchiveInv
<1>5. QED
  BY <1>1, <1>2, <1>3, <1>4 DEF RecordInv

(* Every step keeps the invariant, whoever takes it. *)
LEMMA NextGood == RecordInv /\ [Next]_vars => RecordInv'
<1> SUFFICES ASSUME RecordInv, [Next]_vars
             PROVE  RecordInv'
  OBVIOUS
<1>1. CASE Next
  BY <1>1, ProjectionStep, DestroyStepGood, LeaseStepGood, ExpiryStepGood,
     ArchiveStepGood, EnvironmentStepGood DEF Next
<1>2. CASE UNCHANGED vars
  BY <1>2, Untouched DEF vars, RecordInv, rowVars, artifactVars, hostVars
<1>3. QED
  BY <1>1, <1>2

(* The invariant holds in every reachable state. *)
LEMMA InvariantHolds == Spec => []RecordInv
BY InitGood, NextGood, PTL DEF Spec

(* The type invariant implied by the inductive one: every writer of the    *)
(* run row, from whatever snapshot, stores a well-formed row.              *)
THEOREM TypeCorrect == Spec => []TypeOK
<1>1. RecordInv => TypeOK
  BY DEF RecordInv, RowInv, GoodRow, PlaceInv, ProjInv, DestroyInv, LeaseInv, ExpiryInv,
         ArchiveInv, TypeOK
<1>2. QED
  BY <1>1, InvariantHolds, PTL

(* No VM of the stored run offers a terminal target that is not backed by  *)
(* the sealed evidence of its current generation (projectTerminalReadiness *)
(* with every writer of the row, every interleaving and every report).     *)
THEOREM ReadyCorrect == Spec => []ReadyTargetIsCurrent
<1>1. RecordInv => ReadyTargetIsCurrent
  BY DEF RecordInv, RowInv, GoodRow, GoodDoc, GoodVm, ReadyTargetIsCurrent
<1>2. QED
  BY <1>1, InvariantHolds, PTL

(* No VM is ever described by a generation it has retired                  *)
(* (resetVmForRuntimeGeneration, whichever snapshot a writer commits).     *)
THEOREM RetiredCorrect == Spec => []RetiredIsNotCurrent
<1>1. RecordInv => RetiredIsNotCurrent
  BY DEF RecordInv, RowInv, GoodRow, GoodDoc, GoodVm, RetiredIsNotCurrent
<1>2. QED
  BY <1>1, InvariantHolds, PTL

-----------------------------------------------------------------------------
(* Documents.  A VM moves forward when it forgets no retired generation    *)
(* and goes back in phase only by retiring the generation it had.          *)
VmForward(old, new) ==
  /\ old.retired \subseteq new.retired
  /\ CanAdvanceVmPhase(old.phase, new.phase) \/ old.gen \in new.retired

DocForward(old, new) == \A v \in VMs : VmForward(old.vms[v], new.vms[v])

(* An open run has no failed VM and not only completed ones: recomputing   *)
(* its phase does not end it.                                              *)
Settled(doc) ==
  ~Ended(doc) => /\ ~SomeVm(doc.vms, {"failed"})
                 /\ ~EveryVm(doc.vms, {"completed", "failed"})

SameVm(old, new) ==
  new.phase = old.phase /\ new.retired = old.retired /\ new.gen = old.gen

SameVms(old, new) == \A v \in VMs : SameVm(old.vms[v], new.vms[v])

(* The order of the VM phases is total and "completed" and "failed" end it. *)
LEMMA VmOrder ==
  /\ \A p \in VmPhases : VmPhaseOrder[p] \in 0..7
  /\ \A p \in VmPhases : CanAdvanceVmPhase(p, p) /\ CanAdvanceVmPhase(p, "failed")
  /\ \A p, q, r \in VmPhases :
       CanAdvanceVmPhase(p, q) /\ CanAdvanceVmPhase(q, r) => CanAdvanceVmPhase(p, r)
<1>1. \A p \in VmPhases : VmPhaseOrder[p] \in 0..7
  BY DEF VmPhases, VmPhaseOrder
<1>2. VmPhaseOrder["failed"] = 7
  BY DEF VmPhaseOrder
<1>3. QED
  BY <1>1, <1>2 DEF CanAdvanceVmPhase

LEMMA RunOrder ==
  /\ \A p \in RunPhases : RunPhaseOrder[p] \in 0..8
  /\ \A p \in TerminalRunPhases : p \in RunPhases /\ RunPhaseOrder[p] = 8
BY DEF RunPhases, RunPhaseOrder, TerminalRunPhases

(* recomputeRunState touches endpoints and the run phase only; an ended    *)
(* run keeps its phase.                                                    *)
LEMMA RecomputeSame ==
  ASSUME NEW doc, GoodDoc(doc, CpuOf)
  PROVE  /\ SameVms(doc, RecomputeRunState(doc))
         /\ Ended(doc) => RecomputeRunState(doc).phase = doc.phase
         /\ Settled(RecomputeRunState(doc))
         /\ Settled(doc) /\ ~Ended(doc) => ~Ended(RecomputeRunState(doc))
<1> DEFINE vms == [v \in VMs |-> DecorateVmState(doc.vms[v])]
           next == RecomputeRunState(doc)
<1>1. next.vms = vms /\ next.phase = DeriveRunPhase(vms, doc.phase)
  BY DEF RecomputeRunState
<1>2. \A v \in VMs : SameVm(doc.vms[v], vms[v])
  BY DEF GoodDoc, GoodVm, VmDocs, DecorateVmState, SameVm
<1>3. SameVms(doc, next)
  BY <1>1, <1>2 DEF SameVms
<1> HIDE DEF vms, next
<1>4. Ended(doc) => next.phase = doc.phase
  BY <1>1 DEF Ended, DeriveRunPhase
<1>5. Settled(next)
  BY <1>1 DEF Settled, Ended, DeriveRunPhase, TerminalRunPhases
<1>6. Settled(doc) /\ ~Ended(doc) => ~Ended(next)
  <2>1. SomeVm(vms, {"failed"}) => SomeVm(doc.vms, {"failed"})
    BY <1>2 DEF SomeVm, SameVm
  <2>2. EveryVm(vms, {"completed", "failed"}) => EveryVm(doc.vms, {"completed", "failed"})
    BY <1>2 DEF EveryVm, SameVm
  <2>3. QED
    BY <1>1, <2>1, <2>2 DEF Settled, Ended, DeriveRunPhase, TerminalRunPhases
<1>7. QED
  BY <1>3, <1>4, <1>5, <1>6 DEF next

(* A VM left as it was, or given the failed phase, moves forward. *)
LEMMA SameForward ==
  ASSUME NEW a \in VmDocs, NEW b, SameVm(a, b)
  PROVE  VmForward(a, b)
BY VmOrder DEF SameVm, VmForward, VmDocs

(* deriveVmPhase only advances. *)
LEMMA DeriveVmPhaseForward ==
  ASSUME NEW v \in VMs, NEW vm \in VmDocs, NEW r \in VmReports
  PROVE  CanAdvanceVmPhase(vm.phase, DeriveVmPhase(v, vm, r))
<1> DEFINE reported == BridgeVmPhaseToRunVmPhase[r.phase]
           p1 == IF CanAdvanceVmPhase(vm.phase, reported) THEN reported ELSE vm.phase
           p2 == IF r.error /\ CanAdvanceVmPhase(p1, "booting") THEN "booting" ELSE p1
<1>1. vm.phase \in VmPhases /\ reported \in VmPhases
  BY Phases DEF VmDocs, VmReports
<1>2. {"booting", "ready", "solved"} \subseteq VmPhases
  BY Phases
<1>3. p1 \in VmPhases /\ CanAdvanceVmPhase(vm.phase, p1)
  BY <1>1, VmOrder
<1> HIDE DEF p1
<1>4. p2 \in VmPhases /\ CanAdvanceVmPhase(vm.phase, p2)
  BY <1>1, <1>2, <1>3, VmOrder
<1> HIDE DEF p2
<1>5. p2 \in {"queued", "launching"} => CanAdvanceVmPhase(p2, "booting")
  BY DEF CanAdvanceVmPhase, VmPhaseOrder
<1> DEFINE last == IF ScenarioProbesPassing(v, vm) /\ CanAdvanceVmPhase(p2, "solved")
                   THEN "solved"
                   ELSE IF BootProbesPassing(v, vm) /\ CanAdvanceVmPhase(p2, "ready")
                   THEN "ready"
                   ELSE IF p2 \in {"queued", "launching"} THEN "booting" ELSE p2
<1>6. CanAdvanceVmPhase(vm.phase, last)
  BY <1>1, <1>2, <1>4, <1>5, VmOrder
<1>7. QED
  BY <1>6 DEF DeriveVmPhase, p1, p2

(* One report moves its VM forward: a reset always retires a generation,   *)
(* because a VM without one offers no terminal.                            *)
LEMMA ReportForward ==
  ASSUME NEW v \in VMs, NEW vm, GoodVm(vm, CpuOf), NEW r, GoodReport(r, CpuOf)
  PROVE  VmForward(vm, ApplyReportedVmState(v, vm, r))
<1>0. vm \in VmDocs /\ r \in VmReports
  BY DEF GoodVm, GoodReport
<1>1. CASE ReportIgnored(vm, r)
  <2>1. SameVm(vm, vm)
    BY DEF SameVm
  <2>2. QED
    BY <1>0, <1>1, <2>1, SameForward DEF ApplyReportedVmState
<1>2. CASE ~ReportIgnored(vm, r)
  <2> DEFINE base == IF GenerationChanged(vm, r)
                     THEN ResetVmForRuntimeGeneration(vm) ELSE vm
             withProbes == ApplyProbeSnapshotToVm(v, base, r)
             c == MergeRuntimeConstraints(withProbes, r)
             ready == ProjectTerminalReadiness(withProbes, c, r)
             withEvidence == [ready EXCEPT !.gen = c.gen, !.cpu = c.cpu,
                                           !.quota = c.quota]
             last == [withEvidence EXCEPT !.phase = DeriveVmPhase(v, withEvidence, r),
                                          !.observed = r.at]
  <2>1. GoodVm(base, CpuOf)
    BY ResetGood
  <2>2. /\ vm.retired \subseteq base.retired
        /\ base.phase = vm.phase \/ (vm.gen \in base.retired)
    <3>1. CASE GenerationChanged(vm, r)
      <4>1. vm.gen # NoGen
        BY <3>1 DEF GenerationChanged, GoodVm, ReadyVmHasEvidence
      <4>2. QED
        BY <3>1, <4>1, ResetGood
    <3>2. CASE ~GenerationChanged(vm, r)
      BY <3>2
    <3>3. QED
      BY <3>1, <3>2
  <2> HIDE DEF base
  <2>3. /\ withProbes \in VmDocs
        /\ withProbes.phase = base.phase /\ withProbes.retired = base.retired
    <3>1. GoodVm(withProbes, CpuOf)
      BY <1>0, <2>1, ProbesGood
    <3>2. withProbes.phase = base.phase /\ withProbes.retired = base.retired
      BY <2>1 DEF ApplyProbeSnapshotToVm, DecorateVmState, GoodVm, VmDocs
    <3>3. QED
      BY <3>1, <3>2 DEF GoodVm
  <2> HIDE DEF withProbes
  <2>4. c \in [gen : Generations \cup {NoGen}, cpu : Nat, quota : Nat]
    BY <1>0, <2>3 DEF MergeRuntimeConstraints, VmDocs, VmReports
  <2> HIDE DEF c
  <2>5. /\ ready \in VmDocs
        /\ ready.phase = withProbes.phase /\ ready.retired = withProbes.retired
    BY <1>0, <2>3
    DEF ProjectTerminalReadiness, DecorateVmState, VmDocs, VmReports, TerminalPhases
  <2> HIDE DEF ready
  <2>6. /\ withEvidence \in VmDocs
        /\ withEvidence.phase = ready.phase /\ withEvidence.retired = ready.retired
    BY <2>4, <2>5 DEF VmDocs
  <2> HIDE DEF withEvidence
  <2>7. /\ DeriveVmPhase(v, withEvidence, r) \in VmPhases
        /\ CanAdvanceVmPhase(withEvidence.phase, DeriveVmPhase(v, withEvidence, r))
    BY <1>0, <2>6, DeriveVmPhaseType, DeriveVmPhaseForward
  <2>8. /\ last \in VmDocs /\ last.retired = withEvidence.retired
        /\ CanAdvanceVmPhase(withEvidence.phase, last.phase)
    BY <1>0, <2>6, <2>7 DEF VmDocs, VmReports
  <2> HIDE DEF last
  <2>9. /\ DecorateVmState(last).phase = last.phase
        /\ DecorateVmState(last).retired = last.retired
    BY <2>8 DEF DecorateVmState, VmDocs
  <2>10. VmForward(vm, DecorateVmState(last))
    BY <2>2, <2>3, <2>5, <2>6, <2>8, <2>9 DEF VmForward
  <2>11. QED
    BY <1>2, <2>10
    DEF ApplyReportedVmState, last, withEvidence, ready, c, withProbes, base
<1>3. QED
  BY <1>1, <1>2

(* The document persistRunState writes moves every VM forward, keeps the   *)
(* phase of an ended run, and is settled.                                  *)
LEMMA MergedForward ==
  ASSUME NEW doc, GoodDoc(doc, CpuOf), NEW m \in Messages \cup {NoMessage}
  PROVE  /\ DocForward(doc, MergedDoc(doc, m))
         /\ Ended(doc) => MergedDoc(doc, m).phase = doc.phase
         /\ Settled(MergedDoc(doc, m))
<1> DEFINE vms == [v \in VMs |-> IF v \in DOMAIN m.vms
                                 THEN ApplyReportedVmState(v, doc.vms[v], m.vms[v])
                                 ELSE doc.vms[v]]
           reported == [doc EXCEPT !.vms = vms]
           next == RecomputeRunState(reported)
<1>1. \A v \in VMs : GoodVm(doc.vms[v], CpuOf)
  BY DEF GoodDoc
<1>2. ASSUME NEW v \in VMs
      PROVE  GoodVm(vms[v], CpuOf) /\ VmForward(doc.vms[v], vms[v])
  <2>1. CASE v \in DOMAIN m.vms
    BY <1>1, <2>1, MessagesGood, ReportGood, ReportForward
  <2>2. CASE v \notin DOMAIN m.vms
    BY <1>1, <2>2, SameForward DEF GoodVm, SameVm
  <2>3. QED
    BY <2>1, <2>2
<1>3. vms \in [VMs -> VmDocs]
  BY <1>2 DEF GoodVm
<1> HIDE DEF vms
<1>4. /\ GoodDoc(reported, CpuOf) /\ reported.vms = vms /\ reported.phase = doc.phase
  BY <1>2, <1>3 DEF GoodDoc, RunDocs
<1> HIDE DEF reported
<1>5. /\ SameVms(reported, next)
      /\ Ended(reported) => next.phase = reported.phase
      /\ Settled(next) /\ GoodDoc(next, CpuOf)
  BY <1>4, RecomputeSame, RecomputeGood
<1> HIDE DEF next
<1>6. DocForward(doc, next)
  BY <1>2, <1>4, <1>5 DEF DocForward, SameVms, SameVm, VmForward
<1>7. next = ApplyReportsToRunState(doc, m.vms)
  BY DEF ApplyReportsToRunState, next, reported, vms
<1>8. CASE CanAdvanceRunPhase(doc.phase, next.phase)
  <2>1. MergedDoc(doc, m) = next
    BY <1>7, <1>8 DEF MergedDoc
  <2>2. QED
    BY <1>4, <1>5, <1>6, <2>1 DEF Ended
<1>9. CASE ~CanAdvanceRunPhase(doc.phase, next.phase)
  <2> DEFINE last == [next EXCEPT !.phase = doc.phase]
  <2>1. MergedDoc(doc, m) = last
    BY <1>7, <1>9 DEF MergedDoc
  <2>2. last.vms = next.vms /\ last.phase = doc.phase
    BY <1>5 DEF GoodDoc, RunDocs
  <2>3. ~Ended(next)
    BY <1>5, <1>9, RunOrder DEF Ended, CanAdvanceRunPhase, GoodDoc, RunDocs
  <2> HIDE DEF last
  <2>4. Settled(last)
    BY <1>5, <2>2, <2>3 DEF Settled
  <2>5. DocForward(doc, last)
    BY <1>6, <2>2 DEF DocForward
  <2>6. QED
    BY <2>1, <2>2, <2>4, <2>5
<1>10. QED
  BY <1>8, <1>9

(* updateRunState's documents move every VM forward and are settled. *)
LEMMA WriterDocsForward ==
  ASSUME NEW snap, GoodRow(snap)
  PROVE  /\ DocForward(snap.doc, TeardownDoc(snap)) /\ Settled(TeardownDoc(snap))
         /\ LET doc == RecomputeRunState(RecomputeRunState(snap.doc))
            IN  DocForward(snap.doc, doc) /\ Settled(doc)
         /\ DocForward(snap.doc, FinalizedDoc(snap)) /\ Settled(FinalizedDoc(snap))
         /\ \A expired \in SUBSET VMs :
              /\ DocForward(snap.doc, ExpiredDoc(snap, expired))
              /\ Settled(ExpiredDoc(snap, expired))
<1> DEFINE current == RecomputeRunState(snap.doc)
<1>1. GoodDoc(snap.doc, CpuOf)
  BY DEF GoodRow
<1>2. GoodDoc(current, CpuOf) /\ SameVms(snap.doc, current)
  BY <1>1, RecomputeGood, RecomputeSame
<1> HIDE DEF current
<1>3. \A v \in VMs : snap.doc.vms[v] \in VmDocs /\ current.vms[v] \in VmDocs
  BY <1>1, <1>2 DEF GoodDoc, GoodVm
<1>4. {"teardown_requested", "failed"} \subseteq RunPhases /\ "failed" \in VmPhases
  BY Phases
<1>5. ASSUME NEW doc, GoodDoc(doc, CpuOf), doc.vms = current.vms
      PROVE  DocForward(snap.doc, RecomputeRunState(doc)) /\ Settled(RecomputeRunState(doc))
  <2>1. SameVms(doc, RecomputeRunState(doc)) /\ Settled(RecomputeRunState(doc))
    BY <1>5, RecomputeSame
  <2>2. SameVms(snap.doc, RecomputeRunState(doc))
    BY <1>2, <1>5, <2>1 DEF SameVms, SameVm
  <2>3. QED
    BY <1>3, <2>1, <2>2, SameForward DEF DocForward, SameVms
<1>6. ASSUME NEW phase \in RunPhases
      PROVE  /\ GoodDoc([current EXCEPT !.phase = phase], CpuOf)
             /\ [current EXCEPT !.phase = phase].vms = current.vms
  BY <1>2, PhaseGood DEF GoodDoc, RunDocs
<1>7. DocForward(snap.doc, TeardownDoc(snap)) /\ Settled(TeardownDoc(snap))
  BY <1>4, <1>5, <1>6 DEF TeardownDoc, current
<1>8. /\ DocForward(snap.doc, RecomputeRunState(current))
      /\ Settled(RecomputeRunState(current))
  BY <1>2, <1>5
<1>9. DocForward(snap.doc, FinalizedDoc(snap)) /\ Settled(FinalizedDoc(snap))
  <2>1. CASE Ended(current)
    BY <1>8, <2>1 DEF FinalizedDoc, current
  <2>2. CASE ~Ended(current)
    BY <1>4, <1>5, <1>6, <2>2 DEF FinalizedDoc, current
  <2>3. QED
    BY <2>1, <2>2
<1>10. ASSUME NEW expired \in SUBSET VMs
       PROVE  /\ DocForward(snap.doc, ExpiredDoc(snap, expired))
              /\ Settled(ExpiredDoc(snap, expired))
  <2> DEFINE vms == [v \in VMs |-> IF v \in expired
                                   THEN [current.vms[v] EXCEPT !.phase = "failed",
                                                               !.terminal = "failed"]
                                   ELSE current.vms[v]]
             first == [phase |-> "failed", vms |-> vms]
             second == RecomputeRunState(first)
             third == RecomputeRunState(second)
  <2>1. ASSUME NEW v \in VMs
        PROVE  GoodVm(vms[v], CpuOf) /\ VmForward(snap.doc.vms[v], vms[v])
    <3> DEFINE vm == current.vms[v]
    <3>1. GoodVm(vm, CpuOf) /\ SameVm(snap.doc.vms[v], vm) /\ snap.doc.vms[v] \in VmDocs
      BY <1>2, <1>3 DEF GoodDoc, SameVms
    <3> HIDE DEF vm
    <3> DEFINE failed == [vm EXCEPT !.phase = "failed", !.terminal = "failed"]
    <3>2. GoodVm(failed, CpuOf)
      BY <3>1, <1>4 DEF GoodVm, VmDocs, ReadyVmHasEvidence, TerminalPhases
    <3>3. failed.phase = "failed" /\ failed.retired = vm.retired
      BY <3>1 DEF GoodVm, VmDocs
    <3> HIDE DEF failed
    <3>4. VmForward(snap.doc.vms[v], failed)
      BY <3>1, <3>3, VmOrder DEF VmForward, SameVm, VmDocs
    <3>5. VmForward(snap.doc.vms[v], vm)
      BY <3>1, SameForward
    <3>6. vms[v] = failed \/ vms[v] = vm
      BY DEF failed, vm
    <3>7. QED
      BY <3>1, <3>2, <3>4, <3>5, <3>6
  <2>2. vms \in [VMs -> VmDocs]
    BY <2>1 DEF GoodVm
  <2> HIDE DEF vms
  <2>3. GoodDoc(first, CpuOf) /\ first.vms = vms
    BY <2>1, <2>2, <1>4 DEF GoodDoc, RunDocs
  <2> HIDE DEF first
  <2>4. GoodDoc(second, CpuOf) /\ SameVms(first, second)
    BY <2>3, RecomputeGood, RecomputeSame
  <2> HIDE DEF second
  <2>5. SameVms(second, third) /\ Settled(third)
    BY <2>4, RecomputeSame
  <2> HIDE DEF third
  <2>6. DocForward(snap.doc, third)
    BY <2>1, <2>3, <2>4, <2>5 DEF DocForward, SameVms, SameVm, VmForward
  <2>7. ExpiredDoc(snap, expired) = third
    BY DEF ExpiredDoc, third, second, first, vms, current
  <2>8. QED
    BY <2>5, <2>6, <2>7
<1>11. QED
  BY <1>7, <1>8, <1>9, <1>10 DEF current

(* The artifact endpoints' documents are settled; recording an upload does *)
(* not end an open run.                                                    *)
LEMMA ArchiveDocsSettled ==
  ASSUME NEW doc, GoodDoc(doc, CpuOf), NEW v \in VMs
  PROVE  /\ Settled(ArchivingDoc(doc, v)) /\ Settled(CompletedDoc(doc, v))
         /\ LET next == RecomputeRunState([doc EXCEPT !.vms[v].media = TRUE])
            IN  Settled(next) /\ (Settled(doc) /\ ~Ended(doc) => ~Ended(next))
<1>1. {"archived", "completed"} \subseteq VmPhases
  BY Phases
<1>2. \A vms : DeriveArchiveRunPhase(vms) \in RunPhases
  BY Phases DEF DeriveArchiveRunPhase
<1>3. {"failed", "completed"} \subseteq RunPhases
  BY Phases
<1>4. Settled(ArchivingDoc(doc, v))
  <2> DEFINE next == IF doc.vms[v].phase # "failed"
                          /\ CanAdvanceVmPhase(doc.vms[v].phase, "archived")
                     THEN RecomputeRunState([doc EXCEPT !.vms[v].phase = "archived"])
                     ELSE RecomputeRunState(doc)
  <2>1. GoodDoc(next, CpuOf)
    BY <1>1, VmPhaseGood, RecomputeGood
  <2> HIDE DEF next
  <2>2. Settled(RecomputeRunState([next EXCEPT !.phase = DeriveArchiveRunPhase(next.vms)]))
    BY <2>1, <1>2, PhaseGood, RecomputeSame
  <2>3. QED
    BY <2>2 DEF ArchivingDoc, next
<1>5. Settled(CompletedDoc(doc, v))
  <2> DEFINE next == RecomputeRunState([doc EXCEPT !.vms[v].phase = "completed"])
             phase == IF next.phase = "failed" THEN "failed"
                      ELSE IF EveryVm(next.vms, {"completed", "failed"}) THEN "completed"
                      ELSE DeriveArchiveRunPhase(next.vms)
  <2>1. GoodDoc(next, CpuOf)
    BY <1>1, VmPhaseGood, RecomputeGood
  <2>2. phase \in RunPhases
    BY <1>2, <1>3
  <2> HIDE DEF next, phase
  <2>3. Settled(RecomputeRunState([next EXCEPT !.phase = phase]))
    BY <2>1, <2>2, PhaseGood, RecomputeSame
  <2>4. QED
    BY <2>3 DEF CompletedDoc, next, phase
<1>6. LET next == RecomputeRunState([doc EXCEPT !.vms[v].media = TRUE])
      IN  Settled(next) /\ (Settled(doc) /\ ~Ended(doc) => ~Ended(next))
  <2> DEFINE vm == [doc.vms[v] EXCEPT !.media = TRUE]
             vms == [doc.vms EXCEPT ![v] = vm]
             media == [doc EXCEPT !.vms = vms]
  <2>1. doc.vms \in [VMs -> VmDocs] /\ vm.phase = doc.vms[v].phase
    BY DEF GoodDoc, RunDocs, VmDocs
  <2> HIDE DEF vm
  <2>2. \A w \in VMs : vms[w].phase = doc.vms[w].phase
    BY <2>1
  <2> HIDE DEF vms
  <2>3. media.phase = doc.phase /\ media.vms = vms
    BY DEF GoodDoc, RunDocs
  <2>4. GoodDoc(media, CpuOf)
    BY VmMediaGood DEF vms, vm
  <2> HIDE DEF media
  <2>5. Settled(doc) /\ ~Ended(doc) => Settled(media) /\ ~Ended(media)
    BY <2>2, <2>3 DEF Settled, Ended, SomeVm, EveryVm
  <2>6. Settled(RecomputeRunState(media))
          /\ (Settled(media) /\ ~Ended(media) => ~Ended(RecomputeRunState(media)))
    BY <2>4, RecomputeSame
  <2>7. media = [doc EXCEPT !.vms[v].media = TRUE]
    BY DEF media, vms, vm
  <2>8. QED
    BY <2>5, <2>6, <2>7
<1>7. QED
  BY <1>4, <1>5, <1>6

-----------------------------------------------------------------------------
(* The slot.  A row with an active key is open or being ended, and the     *)
(* slot is only held with the key.                                         *)
KeyHeld(r) == r.activeKey => r.deleteRequested \/ ~Ended(r.doc)

SlotInv == Settled(row.doc) /\ KeyHeld(row) /\ (slot => row.activeKey)

(* The fields of the rows the writers compute. *)
LEMMA UpdatedFields ==
  ASSUME NEW snap, NEW doc, NEW del, NEW release
  PROVE  LET next == UpdatedRow(snap, doc, del, release)
         IN  /\ next.doc = doc /\ next.deleteRequested = del
             /\ next.cleanup = row.cleanup /\ next.rev = NextRev(snap.rev)
             /\ next.activeKey = (snap.activeKey /\ ~release /\ (del \/ ~Ended(doc)))
BY DEF UpdatedRow

LEMMA ProjectedFields ==
  ASSUME NEW snap, NEW m
  PROVE  LET next == ProjectedRow(snap, m)
             doc == MergedDoc(RecomputeRunState(snap.doc), m)
         IN  /\ next.doc = doc /\ next.deleteRequested = snap.deleteRequested
             /\ next.cleanup = row.cleanup /\ next.rev = NextRev(snap.rev)
             /\ next.activeKey = (snap.activeKey /\ (snap.deleteRequested \/ ~Ended(doc)))
BY DEF ProjectedRow

LEMMA StoredFields ==
  ASSUME RowInv, NEW snap, NEW doc, NEW now
  PROVE  LET next == StoredRow(snap, doc, now)
         IN  /\ next.doc = doc /\ next.deleteRequested = row.deleteRequested
             /\ next.cleanup = row.cleanup /\ next.rev = now
             /\ next.activeKey = (row.activeKey /\ (row.deleteRequested \/ ~Ended(doc)))
BY DEF StoredRow, RowInv, GoodRow, Rows

(* A row written for a settled document is settled and keeps its key only  *)
(* while it may.                                                           *)
LEMMA UpdatedHeld ==
  ASSUME NEW snap, NEW doc, NEW del, NEW release, Settled(doc)
  PROVE  LET r == UpdatedRow(snap, doc, del, release) IN Settled(r.doc) /\ KeyHeld(r)
<1> DEFINE r == UpdatedRow(snap, doc, del, release)
<1>1. /\ r.doc = doc /\ r.deleteRequested = del
      /\ r.activeKey = (snap.activeKey /\ ~release /\ (del \/ ~Ended(doc)))
  BY UpdatedFields
<1> HIDE DEF r
<1>2. r.activeKey => del \/ ~Ended(doc)
  BY <1>1
<1>3. KeyHeld(r)
  BY <1>1, <1>2 DEF KeyHeld
<1>4. QED
  BY <1>1, <1>3 DEF r

LEMMA StoredHeld ==
  ASSUME RowInv, NEW snap, NEW doc, NEW now, Settled(doc)
  PROVE  LET r == StoredRow(snap, doc, now) IN Settled(r.doc) /\ KeyHeld(r)
<1> DEFINE r == StoredRow(snap, doc, now)
<1>1. /\ r.doc = doc /\ r.deleteRequested = row.deleteRequested
      /\ r.activeKey = (row.activeKey /\ (row.deleteRequested \/ ~Ended(doc)))
  BY StoredFields
<1> HIDE DEF r
<1>2. r.activeKey => row.deleteRequested \/ ~Ended(doc)
  BY <1>1
<1>3. KeyHeld(r)
  BY <1>1, <1>2 DEF KeyHeld
<1>4. QED
  BY <1>1, <1>3 DEF r

(* The rows the writers compute are settled and hold their key rightly. *)
LEMMA WrittenRows ==
  ASSUME RecordInv
  PROVE  /\ LET r == ProjectedRow(proj.snap, proj.msg) IN Settled(r.doc) /\ KeyHeld(r)
         /\ \A d \in Destroyers :
              /\ LET r == UpdatedRow(destroy[d].snap, TeardownDoc(destroy[d].snap), TRUE, FALSE)
                 IN  Settled(r.doc) /\ KeyHeld(r)
              /\ LET r == UpdatedRow(destroy[d].snap,
                            RecomputeRunState(RecomputeRunState(destroy[d].snap.doc)), TRUE, TRUE)
                 IN  Settled(r.doc) /\ KeyHeld(r)
         /\ LET r == UpdatedRow(lease.snap, ExpiredDoc(lease.snap, lease.vms),
                                lease.deleteRequested, FALSE)
            IN  Settled(r.doc) /\ KeyHeld(r)
         /\ LET r == UpdatedRow(expiry.snap, FinalizedDoc(expiry.snap),
                                expiry.snap.deleteRequested, TRUE)
            IN  Settled(r.doc) /\ KeyHeld(r)
         /\ \A v \in VMs :
              /\ LET r == StoredRow(archive[v].snap, ArchivingDoc(archive[v].snap.doc, v),
                                    archive[v].now)
                 IN  Settled(r.doc) /\ KeyHeld(r)
              /\ LET r == StoredRow(archive[v].snap, CompletedDoc(archive[v].snap.doc, v),
                                    archive[v].now)
                 IN  Settled(r.doc) /\ KeyHeld(r)
<1> USE DEF RecordInv
<1>1. LET r == ProjectedRow(proj.snap, proj.msg) IN Settled(r.doc) /\ KeyHeld(r)
  <2>1. GoodDoc(RecomputeRunState(proj.snap.doc), CpuOf) /\ proj.msg \in Messages \cup {NoMessage}
    BY RecomputeGood DEF ProjInv, ProjStates, GoodRow
  <2>2. Settled(MergedDoc(RecomputeRunState(proj.snap.doc), proj.msg))
    BY <2>1, MergedForward
  <2>3. QED
    BY <2>2, ProjectedFields DEF KeyHeld
<1>2. ASSUME NEW d \in Destroyers
      PROVE  /\ LET r == UpdatedRow(destroy[d].snap, TeardownDoc(destroy[d].snap), TRUE, FALSE)
                IN  Settled(r.doc) /\ KeyHeld(r)
             /\ LET r == UpdatedRow(destroy[d].snap,
                           RecomputeRunState(RecomputeRunState(destroy[d].snap.doc)), TRUE, TRUE)
                IN  Settled(r.doc) /\ KeyHeld(r)
  <2>1. GoodRow(destroy[d].snap)
    BY DEF DestroyInv
  <2>2. /\ Settled(TeardownDoc(destroy[d].snap))
        /\ Settled(RecomputeRunState(RecomputeRunState(destroy[d].snap.doc)))
    BY <2>1, WriterDocsForward
  <2>3. QED
    BY <2>2, UpdatedHeld
<1>3. LET r == UpdatedRow(lease.snap, ExpiredDoc(lease.snap, lease.vms),
                          lease.deleteRequested, FALSE)
      IN  Settled(r.doc) /\ KeyHeld(r)
  <2>1. GoodRow(lease.snap) /\ lease.vms \in SUBSET VMs
    BY DEF LeaseInv, LeaseStates
  <2>2. Settled(ExpiredDoc(lease.snap, lease.vms))
    BY <2>1, WriterDocsForward
  <2>3. QED
    BY <2>2, UpdatedHeld
<1>4. LET r == UpdatedRow(expiry.snap, FinalizedDoc(expiry.snap),
                          expiry.snap.deleteRequested, TRUE)
      IN  Settled(r.doc) /\ KeyHeld(r)
  <2>1. GoodRow(expiry.snap)
    BY DEF ExpiryInv
  <2>2. Settled(FinalizedDoc(expiry.snap))
    BY <2>1, WriterDocsForward
  <2>3. QED
    BY <2>2, UpdatedHeld
<1>5. ASSUME NEW v \in VMs
      PROVE  /\ LET r == StoredRow(archive[v].snap, ArchivingDoc(archive[v].snap.doc, v),
                                   archive[v].now)
                IN  Settled(r.doc) /\ KeyHeld(r)
             /\ LET r == StoredRow(archive[v].snap, CompletedDoc(archive[v].snap.doc, v),
                                   archive[v].now)
                IN  Settled(r.doc) /\ KeyHeld(r)
  <2>1. GoodDoc(archive[v].snap.doc, CpuOf)
    BY DEF ArchiveInv, GoodRow
  <2>2. Settled(ArchivingDoc(archive[v].snap.doc, v))
          /\ Settled(CompletedDoc(archive[v].snap.doc, v))
    BY <2>1, ArchiveDocsSettled
  <2>3. QED
    BY <2>2, StoredHeld
<1>6. QED
  BY <1>1, <1>2, <1>3, <1>4, <1>5

(* A write of such a row, a lost race and a write that leaves the document *)
(* and the slot alone keep SlotInv.                                        *)
LEMMA SlotWrites ==
  ASSUME RowInv, SlotInv
  PROVE  /\ \A r : WriteRow(r) /\ Settled(r.doc) /\ KeyHeld(r) => SlotInv'
         /\ \A r, e : row' = r /\ ProjectRuntime(r, e) /\ Settled(r.doc) /\ KeyHeld(r)
                        => SlotInv'
         /\ LostRace => SlotInv'
         /\ UNCHANGED rowVars => SlotInv'
<1>1. ASSUME NEW r, NEW e, row' = r, ProjectRuntime(r, e), Settled(r.doc), KeyHeld(r)
      PROVE  SlotInv'
  BY <1>1 DEF ProjectRuntime, SlotInv
<1>2. UNCHANGED rowVars => SlotInv'
  BY DEF rowVars, SlotInv
<1>3. QED
  BY <1>1, <1>2 DEF WriteRow, LostRace, SlotInv

(* Every step keeps it. *)
LEMMA SlotStep ==
  ASSUME RecordInv, SlotInv, Next
  PROVE  SlotInv'
<1>0. RowInv /\ row \in Rows
  BY DEF RecordInv, RowInv, GoodRow
<1>1. ASSUME NEW m \in Messages, ReceiveReport(m)
      PROVE  SlotInv'
  BY <1>0, <1>1, SlotWrites DEF ReceiveReport
<1>2. CASE ProjectLoad \/ Reconnect
  BY <1>0, <1>2, SlotWrites DEF ProjectLoad, Reconnect
<1>3. CASE ProjectCommit
  <2>1. UNCHANGED rowVars \/ LostRace \/ WriteRow(ProjectedRow(proj.snap, proj.msg))
    BY <1>3 DEF ProjectCommit
  <2>2. QED
    BY <1>0, <2>1, SlotWrites, WrittenRows
<1>4. ASSUME NEW d \in Destroyers, Destroy(d)
      PROVE  SlotInv'
  <2>1. CASE DestroyLoad(d) \/ DestroyUpdateLoad(d) \/ DestroyMarkAbsent(d) \/ DestroyRevoke(d)
    BY <1>0, <2>1, SlotWrites
    DEF DestroyLoad, DestroyUpdateLoad, DestroyMarkAbsent, DestroyRevoke
  <2>2. CASE DestroyRequest(d) \/ DestroyRecord(d) \/ DestroyFinish(d)
    <3>1. /\ row'.doc = row.doc /\ row'.activeKey = row.activeKey /\ slot' = slot
          /\ row'.deleteRequested = row.deleteRequested \/ row'.deleteRequested = TRUE
      BY <1>0, <2>2 DEF DestroyRequest, DestroyRecord, DestroyFinish, Rows
    <3>2. QED
      BY <3>1 DEF SlotInv, KeyHeld
  <2>3. CASE DestroyTeardownCommit(d)
    BY <1>0, <2>3, SlotWrites, WrittenRows DEF DestroyTeardownCommit
  <2>4. CASE DestroyReleaseCommit(d)
    BY <1>0, <2>4, SlotWrites, WrittenRows DEF DestroyReleaseCommit
  <2>5. QED
    BY <1>4, <2>1, <2>2, <2>3, <2>4 DEF Destroy
<1>5. CASE Lease
  <2>1. CASE LeaseSelect \/ LeaseLoad \/ LeaseUpdateLoad \/ LeaseMarkAbsent
    BY <1>0, <2>1, SlotWrites DEF LeaseSelect, LeaseLoad, LeaseUpdateLoad, LeaseMarkAbsent
  <2>2. CASE LeaseUpdateCommit
    BY <1>0, <2>2, SlotWrites, WrittenRows DEF LeaseUpdateCommit
  <2>3. QED
    BY <1>5, <2>1, <2>2 DEF Lease
<1>6. CASE Expiry
  <2>1. CASE ExpirySelect \/ ExpiryLoad \/ ExpiryRevoke \/ ExpiryUpdateLoad
    BY <1>0, <2>1, SlotWrites DEF ExpirySelect, ExpiryLoad, ExpiryRevoke, ExpiryUpdateLoad
  <2>2. CASE ExpiryUpdateCommit
    BY <1>0, <2>2, SlotWrites, WrittenRows DEF ExpiryUpdateCommit
  <2>3. CASE ExpiryArchive
    <3>1. /\ row'.doc = row.doc /\ row'.deleteRequested = row.deleteRequested
          /\ row'.activeKey => row.activeKey
          /\ slot' = FALSE
      BY <1>0, <2>3 DEF ExpiryArchive, Rows
    <3>2. QED
      BY <3>1 DEF SlotInv, KeyHeld
  <2>4. QED
    BY <1>6, <2>1, <2>2, <2>3 DEF Expiry
<1>7. ASSUME NEW v \in VMs, Archive(v)
      PROVE  SlotInv'
  <2>1. CASE ArchiveBegin(v) \/ ArchiveUpload(v) \/ ArchiveComplete(v) \/ ArchiveLoad(v)
    BY <1>0, <2>1, SlotWrites DEF ArchiveBegin, ArchiveUpload, ArchiveComplete, ArchiveLoad
  <2>2. CASE BeginExec(v)
    BY <2>2 DEF BeginExec, SlotInv
  <2>3. CASE BeginCommit(v)
    BY <1>0, <2>3, SlotWrites, WrittenRows DEF BeginCommit
  <2>4. CASE UploadCommit(v)
    <3> DEFINE doc == RecomputeRunState([archive[v].snap.doc EXCEPT !.vms[v].media = TRUE])
    <3>1. /\ Settled(doc)
          /\ Settled(archive[v].snap.doc) /\ ~Ended(archive[v].snap.doc) => ~Ended(doc)
      <4>1. GoodDoc(archive[v].snap.doc, CpuOf)
        BY DEF RecordInv, ArchiveInv, GoodRow
      <4>2. QED
        BY <4>1, ArchiveDocsSettled
    <3>2. \/ row' = row
          \/ archive[v].snap.doc = row.doc
               /\ row' = [row EXCEPT !.doc = doc, !.rev = archive[v].now]
      BY <2>4 DEF UploadCommit
    <3>3. slot' = slot
      BY <2>4 DEF UploadCommit
    <3> HIDE DEF doc
    <3>4. CASE row' = row
      BY <3>3, <3>4 DEF SlotInv
    <3>5. CASE /\ archive[v].snap.doc = row.doc
               /\ row' = [row EXCEPT !.doc = doc, !.rev = archive[v].now]
      <4>1. row'.doc = doc /\ row'.activeKey = row.activeKey
              /\ row'.deleteRequested = row.deleteRequested
        BY <1>0, <3>5 DEF Rows
      <4>2. QED
        BY <3>1, <3>3, <3>5, <4>1 DEF SlotInv, KeyHeld
    <3>6. QED
      BY <3>2, <3>4, <3>5
  <2>5. CASE CompleteCommit(v)
    <3> DEFINE next == StoredRow(archive[v].snap, CompletedDoc(archive[v].snap.doc, v),
                                 archive[v].now)
               e == IF \A w \in VMs : sealed'[w] THEN "archived" ELSE exec
    <3>1. UNCHANGED rowVars \/ (row' = next /\ ProjectRuntime(next, e))
      BY <2>5 DEF CompleteCommit
    <3>2. Settled(next.doc) /\ KeyHeld(next)
      BY WrittenRows
    <3> HIDE DEF next, e
    <3>3. QED
      BY <1>0, <3>1, <3>2, SlotWrites
  <2>6. QED
    BY <1>7, <2>1, <2>2, <2>3, <2>4, <2>5 DEF Archive
<1>8. CASE Tick \/ LeaseElapses \/ RetireHost \/ Crash
  BY <1>0, <1>8, SlotWrites DEF Tick, LeaseElapses, RetireHost, Crash
<1>9. QED
  BY <1>1, <1>2, <1>3, <1>4, <1>5, <1>6, <1>7, <1>8 DEF Next

-----------------------------------------------------------------------------
(* Routes.  While a route may be open, every trace of a request to end the *)
(* run that a handler may still write back comes with a saved cleanup, and *)
(* a request past its revocation finds the routes closed.                  *)
CleanupDue(asked) == routes /\ asked => row.cleanup # NoCleanup

Early == {"idle", "request"}
Revoked == {"release_load", "release_commit", "finish"}

RouteInv ==
  /\ CleanupDue(row.deleteRequested) /\ CleanupDue(proj.snap.deleteRequested)
  /\ CleanupDue(lease.deleteRequested) /\ CleanupDue(expiry.snap.deleteRequested)
  /\ \A d \in Destroyers : CleanupDue(destroy[d].pc \notin Early)
  /\ \A d \in Destroyers : destroy[d].pc \in Revoked => ~routes

(* Where the snapshots come from. *)
Taken(new, old) == new = old \/ new = row \/ new = InitialRow

LEMMA SnapsTaken ==
  ASSUME RecordInv, Next
  PROVE  /\ Taken(proj'.snap, proj.snap) /\ Taken(lease'.snap, lease.snap)
         /\ Taken(expiry'.snap, expiry.snap)
         /\ \A d \in Destroyers : Taken(destroy'[d].snap, destroy[d].snap)
<1>1. proj \in ProjStates /\ lease \in LeaseStates /\ expiry \in ExpiryStates
        /\ destroy \in [Destroyers -> DestroyStates]
  BY DEF RecordInv, ProjInv, LeaseInv, ExpiryInv, DestroyInv
<1>2. /\ IdleProj.snap = InitialRow /\ IdleLease.snap = InitialRow
      /\ IdleExpiry.snap = InitialRow /\ IdleDestroy.snap = InitialRow
  BY DEF IdleProj, IdleLease, IdleExpiry, IdleDestroy
<1> DEFINE Goal == /\ Taken(proj'.snap, proj.snap) /\ Taken(lease'.snap, lease.snap)
                   /\ Taken(expiry'.snap, expiry.snap)
                   /\ \A d \in Destroyers : Taken(destroy'[d].snap, destroy[d].snap)
<1>3. UNCHANGED <<proj, destroy, lease, expiry>> => Goal
  BY DEF Taken
<1>4. UNCHANGED <<destroy, lease, expiry>> /\ Taken(proj'.snap, proj.snap) => Goal
  BY DEF Taken
<1>5. UNCHANGED <<proj, destroy, expiry>> /\ Taken(lease'.snap, lease.snap) => Goal
  BY DEF Taken
<1>6. UNCHANGED <<proj, destroy, lease>> /\ Taken(expiry'.snap, expiry.snap) => Goal
  BY DEF Taken
<1>7. UNCHANGED <<proj, lease, expiry>>
        /\ (\A d \in Destroyers : Taken(destroy'[d].snap, destroy[d].snap)) => Goal
  BY DEF Taken
<1> SUFFICES Goal
  OBVIOUS
<1> HIDE DEF Goal
<1>8. ASSUME NEW m \in Messages, ReceiveReport(m)
      PROVE  Goal
  BY <1>1, <1>4, <1>8 DEF ReceiveReport, Taken, ProjStates
<1>9. CASE ProjectLoad
  BY <1>1, <1>4, <1>9 DEF ProjectLoad, Taken, ProjStates
<1>10. CASE ProjectCommit
  <2>1. proj' = IdleProj \/ proj' = [proj EXCEPT !.pc = "load"]
    BY <1>10 DEF ProjectCommit
  <2>2. Taken(proj'.snap, proj.snap)
    BY <1>1, <1>2, <2>1 DEF Taken, ProjStates
  <2>3. QED
    BY <1>4, <1>10, <2>2 DEF ProjectCommit
<1>11. CASE Reconnect
  BY <1>3, <1>11 DEF Reconnect
<1>12. ASSUME NEW d \in Destroyers, Destroy(d)
       PROVE  Goal
  <2>1. UNCHANGED <<proj, lease, expiry>>
    BY <1>12 DEF Destroy, DestroyLoad, DestroyRequest, DestroyRecord, DestroyUpdateLoad,
                 DestroyTeardownCommit, DestroyMarkAbsent, DestroyRevoke,
                 DestroyReleaseCommit, DestroyFinish, DestroyFrame
  <2>2. destroy[d] \in DestroyStates
    BY <1>1
  <2>3. \E n : destroy' = [destroy EXCEPT ![d] = n] /\ Taken(n.snap, destroy[d].snap)
    <3>1. ASSUME NEW from, NEW to, DestroyStep(d, from, to)
          PROVE  \E n : destroy' = [destroy EXCEPT ![d] = n] /\ Taken(n.snap, destroy[d].snap)
      <4>1. destroy' = [destroy EXCEPT ![d] = [destroy[d] EXCEPT !.pc = to]]
        BY <3>1 DEF DestroyStep
      <4>2. [destroy[d] EXCEPT !.pc = to].snap = destroy[d].snap
        BY <2>2 DEF DestroyStates
      <4>3. QED
        BY <4>1, <4>2 DEF Taken
    <3>2. CASE DestroyLoad(d)
      <4> DEFINE n == [pc |-> "request", snap |-> row, cleanup |-> NoCleanup,
                       vms |-> {v \in VMs : row.doc.vms[v].phase # "completed"}]
      <4>1. destroy' = [destroy EXCEPT ![d] = n]
        BY <3>2 DEF DestroyLoad
      <4>2. n.snap = row
        OBVIOUS
      <4>3. QED
        BY <4>1, <4>2 DEF Taken
    <3>3. CASE DestroyRequest(d)
      <4> DEFINE n == [destroy[d] EXCEPT
                   !.cleanup = IF row.cleanup = NoCleanup THEN d ELSE row.cleanup,
                   !.pc = IF Ended(destroy[d].snap.doc) THEN "record" ELSE "teardown_load"]
      <4>1. destroy' = [destroy EXCEPT ![d] = n]
        BY <3>3 DEF DestroyRequest
      <4>2. n.snap = destroy[d].snap
        BY <2>2 DEF DestroyStates
      <4>3. QED
        BY <4>1, <4>2 DEF Taken
    <3>4. CASE DestroyUpdateLoad(d)
      <4> DEFINE n == [destroy[d] EXCEPT
                   !.snap = row,
                   !.pc = IF destroy[d].pc = "teardown_load"
                          THEN "teardown_commit" ELSE "release_commit"]
      <4>1. destroy' = [destroy EXCEPT ![d] = n]
        BY <3>4 DEF DestroyUpdateLoad
      <4>2. n.snap = row
        BY <2>2 DEF DestroyStates
      <4>3. QED
        BY <4>1, <4>2 DEF Taken
    <3>5. CASE DestroyFinish(d)
      BY <1>2, <3>5 DEF DestroyFinish, Taken
    <3>6. CASE DestroyRecord(d) \/ DestroyTeardownCommit(d) \/ DestroyMarkAbsent(d)
                 \/ DestroyRevoke(d) \/ DestroyReleaseCommit(d)
      BY <3>1, <3>6 DEF DestroyRecord, DestroyTeardownCommit, DestroyMarkAbsent,
                        DestroyRevoke, DestroyReleaseCommit
    <3>7. QED
      BY <1>12, <3>2, <3>3, <3>4, <3>5, <3>6 DEF Destroy
  <2>4. PICK n : destroy' = [destroy EXCEPT ![d] = n] /\ Taken(n.snap, destroy[d].snap)
    BY <2>3
  <2>5. \A e \in Destroyers : destroy'[e] = IF e = d THEN n ELSE destroy[e]
    BY <1>1, <2>4
  <2>6. \A e \in Destroyers : Taken(destroy'[e].snap, destroy[e].snap)
    BY <2>4, <2>5 DEF Taken
  <2>7. QED
    BY <1>7, <2>1, <2>6
<1>13. CASE Lease
  <2>1. UNCHANGED <<proj, destroy, expiry>>
    BY <1>13 DEF Lease, LeaseSelect, LeaseLoad, LeaseUpdateLoad, LeaseUpdateCommit,
                 LeaseMarkAbsent, LeaseFrame
  <2>2. Taken(lease'.snap, lease.snap)
    BY <1>1, <1>2, <1>13 DEF Lease, LeaseSelect, LeaseLoad, LeaseUpdateLoad,
                 LeaseUpdateCommit, LeaseMarkAbsent, LeaseStates, Taken
  <2>3. QED
    BY <1>5, <2>1, <2>2
<1>14. CASE Expiry
  <2>1. UNCHANGED <<proj, destroy, lease>>
    BY <1>14 DEF Expiry, ExpirySelect, ExpiryLoad, ExpiryRevoke, ExpiryUpdateLoad,
                 ExpiryUpdateCommit, ExpiryArchive, ExpiryFrame
  <2>2. Taken(expiry'.snap, expiry.snap)
    <3>1. CASE ExpiryLoad \/ ExpiryUpdateLoad
      BY <3>1 DEF ExpiryLoad, ExpiryUpdateLoad, Taken
    <3>2. CASE ExpiryArchive
      BY <1>2, <3>2 DEF ExpiryArchive, Taken
    <3>3. CASE ExpirySelect \/ ExpiryRevoke \/ ExpiryUpdateCommit
      <4>1. \E pc : expiry' = [expiry EXCEPT !.pc = pc]
        BY <3>3 DEF ExpirySelect, ExpiryRevoke, ExpiryUpdateCommit
      <4>2. QED
        BY <1>1, <4>1 DEF ExpiryStates, Taken
    <3>4. QED
      BY <1>14, <3>1, <3>2, <3>3 DEF Expiry
  <2>3. QED
    BY <1>6, <2>1, <2>2
<1>15. ASSUME NEW v \in VMs, Archive(v)
       PROVE  Goal
  BY <1>3, <1>15 DEF Archive, ArchiveBegin, ArchiveUpload, ArchiveComplete, BeginExec,
         ArchiveLoad, BeginCommit, UploadCommit, CompleteCommit, ArchiveFrame
<1>16. CASE Tick \/ LeaseElapses \/ RetireHost
  BY <1>3, <1>16 DEF Tick, LeaseElapses, RetireHost
<1>17. CASE Crash
  <2>1. Taken(proj'.snap, proj.snap)
    BY <1>2, <1>17 DEF Crash, Taken
  <2>2. Taken(lease'.snap, lease.snap)
    BY <1>2, <1>17 DEF Crash, Taken
  <2>3. Taken(expiry'.snap, expiry.snap)
    BY <1>2, <1>17 DEF Crash, Taken
  <2>4. destroy' = destroy \/ \E d \in Destroyers :
          destroy' = [destroy EXCEPT ![d] = IdleDestroy]
    BY <1>17 DEF Crash
  <2>5. \A e \in Destroyers : destroy'[e] = destroy[e] \/ destroy'[e] = IdleDestroy
    BY <1>1, <2>4
  <2>6. \A e \in Destroyers : Taken(destroy'[e].snap, destroy[e].snap)
    BY <1>2, <2>5 DEF Taken
  <2>7. QED
    BY <2>1, <2>2, <2>3, <2>6 DEF Goal
<1>18. QED
  BY <1>8, <1>9, <1>10, <1>11, <1>12, <1>13, <1>14, <1>15, <1>16, <1>17 DEF Next

(* What a step does to the routes, the saved cleanup and the request. *)
LEMMA RouteRow ==
  ASSUME RecordInv, RouteInv, Next
  PROVE  /\ routes' => routes
         /\ routes' /\ row.cleanup # NoCleanup => row'.cleanup # NoCleanup
         /\ CleanupDue(row.deleteRequested)'
<1>0. RowInv /\ row \in Rows
  BY DEF RecordInv, RowInv, GoodRow
<1> DEFINE Goal == /\ routes' => routes
                   /\ routes' /\ row.cleanup # NoCleanup => row'.cleanup # NoCleanup
                   /\ CleanupDue(row.deleteRequested)'
<1> SUFFICES Goal
  OBVIOUS
<1>1. row' = row /\ (routes' => routes) => Goal
  BY DEF RouteInv, CleanupDue
<1>2. ASSUME routes' = routes, row'.cleanup = row.cleanup,
             NEW asked, CleanupDue(asked), row'.deleteRequested => asked
      PROVE  Goal
  BY <1>2 DEF CleanupDue
<1> HIDE DEF Goal
<1>3. ASSUME NEW m \in Messages, ReceiveReport(m)
      PROVE  Goal
  BY <1>1, <1>3 DEF ReceiveReport, rowVars
<1>4. CASE ProjectLoad \/ Reconnect
  BY <1>1, <1>4 DEF ProjectLoad, Reconnect, rowVars
<1>5. CASE ProjectCommit
  <2> DEFINE next == ProjectedRow(proj.snap, proj.msg)
  <2>1. row' = row \/ row' = next
    BY <1>5 DEF ProjectCommit, rowVars, LostRace, WriteRow
  <2>2. routes' = routes
    BY <1>5 DEF ProjectCommit
  <2>3. next.cleanup = row.cleanup /\ next.deleteRequested = proj.snap.deleteRequested
    BY ProjectedFields
  <2> HIDE DEF next
  <2>4. CleanupDue(proj.snap.deleteRequested)
    BY DEF RouteInv
  <2>5. CASE row' = next
    BY <1>2, <2>2, <2>3, <2>4, <2>5
  <2>6. QED
    BY <1>1, <2>1, <2>2, <2>5
<1>6. ASSUME NEW d \in Destroyers, Destroy(d)
      PROVE  Goal
  <2>1. CASE DestroyLoad(d) \/ DestroyUpdateLoad(d) \/ DestroyMarkAbsent(d) \/ DestroyRevoke(d)
    BY <1>1, <2>1
    DEF DestroyLoad, DestroyUpdateLoad, DestroyMarkAbsent, DestroyRevoke, rowVars
  <2>2. CASE DestroyRequest(d)
    <3>1. row'.cleanup # NoCleanup /\ routes' = routes
      BY <1>0, <2>2, RecordAssumption DEF DestroyRequest, Rows
    <3>2. QED
      BY <3>1 DEF Goal, CleanupDue
  <2>3. CASE DestroyRecord(d)
    <3>1. row'.cleanup = row.cleanup /\ routes' = routes /\ destroy[d].pc \notin Early
      BY <1>0, <2>3 DEF DestroyRecord, DestroyStep, Rows, Early
    <3>2. CleanupDue(TRUE)
      BY <3>1 DEF RouteInv, CleanupDue
    <3>3. QED
      BY <1>2, <3>1, <3>2
  <2>4. ASSUME NEW r, row' = r \/ row' = row, routes' = routes,
               r.cleanup = row.cleanup, destroy[d].pc \notin Early
        PROVE  Goal
    <3>1. CleanupDue(TRUE)
      BY <2>4 DEF RouteInv, CleanupDue
    <3>2. QED
      BY <1>1, <1>2, <2>4, <3>1
  <2>5. CASE DestroyTeardownCommit(d)
    <3> DEFINE next == UpdatedRow(destroy[d].snap, TeardownDoc(destroy[d].snap), TRUE, FALSE)
    <3>1. /\ row' = next \/ row' = row
          /\ routes' = routes /\ destroy[d].pc \notin Early
      BY <2>5 DEF DestroyTeardownCommit, WriteRow, LostRace, Early
    <3>2. next.cleanup = row.cleanup
      BY DEF UpdatedRow
    <3> HIDE DEF next
    <3>3. QED
      BY <2>4, <3>1, <3>2
  <2>6. CASE DestroyReleaseCommit(d)
    <3> DEFINE next == UpdatedRow(destroy[d].snap,
                         RecomputeRunState(RecomputeRunState(destroy[d].snap.doc)), TRUE, TRUE)
    <3>1. /\ row' = next \/ row' = row
          /\ routes' = routes /\ destroy[d].pc \notin Early
      BY <2>6 DEF DestroyReleaseCommit, WriteRow, LostRace, Early
    <3>2. next.cleanup = row.cleanup
      BY DEF UpdatedRow
    <3> HIDE DEF next
    <3>3. QED
      BY <2>4, <3>1, <3>2
  <2>7. CASE DestroyFinish(d)
    <3>1. ~routes /\ routes' = routes
      BY <2>7 DEF DestroyFinish, RouteInv, Revoked
    <3>2. QED
      BY <3>1 DEF Goal, CleanupDue
  <2>8. QED
    BY <1>6, <2>1, <2>2, <2>3, <2>5, <2>6, <2>7 DEF Destroy
<1>7. CASE Lease
  <2>1. CASE LeaseSelect \/ LeaseLoad \/ LeaseUpdateLoad \/ LeaseMarkAbsent
    BY <1>1, <2>1 DEF LeaseSelect, LeaseLoad, LeaseUpdateLoad, LeaseMarkAbsent, LeaseFrame,
                      rowVars
  <2>2. CASE LeaseUpdateCommit
    <3> DEFINE next == UpdatedRow(lease.snap, ExpiredDoc(lease.snap, lease.vms),
                                  lease.deleteRequested, FALSE)
    <3>1. /\ row' = next \/ row' = row
          /\ routes' = routes
      BY <2>2 DEF LeaseUpdateCommit, WriteRow, LostRace, LeaseFrame
    <3>2. next.cleanup = row.cleanup /\ next.deleteRequested = lease.deleteRequested
      BY DEF UpdatedRow
    <3> HIDE DEF next
    <3>3. CleanupDue(lease.deleteRequested)
      BY DEF RouteInv
    <3>4. QED
      BY <1>1, <1>2, <3>1, <3>2, <3>3
  <2>3. QED
    BY <1>7, <2>1, <2>2 DEF Lease
<1>8. CASE Expiry
  <2>1. CASE ExpirySelect \/ ExpiryLoad \/ ExpiryRevoke \/ ExpiryUpdateLoad
    BY <1>1, <2>1 DEF ExpirySelect, ExpiryLoad, ExpiryRevoke, ExpiryUpdateLoad, rowVars
  <2>2. CASE ExpiryUpdateCommit
    <3> DEFINE next == UpdatedRow(expiry.snap, FinalizedDoc(expiry.snap),
                                  expiry.snap.deleteRequested, TRUE)
    <3>1. /\ row' = next \/ row' = row
          /\ routes' = routes
      BY <2>2 DEF ExpiryUpdateCommit, WriteRow, LostRace
    <3>2. next.cleanup = row.cleanup /\ next.deleteRequested = expiry.snap.deleteRequested
      BY DEF UpdatedRow
    <3> HIDE DEF next
    <3>3. CleanupDue(expiry.snap.deleteRequested)
      BY DEF RouteInv
    <3>4. QED
      BY <1>1, <1>2, <3>1, <3>2, <3>3
  <2>3. CASE ExpiryArchive
    <3>1. /\ row'.cleanup = row.cleanup /\ row'.deleteRequested = row.deleteRequested
          /\ routes' = routes
      BY <1>0, <2>3 DEF ExpiryArchive, Rows
    <3>2. QED
      BY <1>2, <3>1 DEF RouteInv
  <2>4. QED
    BY <1>8, <2>1, <2>2, <2>3 DEF Expiry
<1>9. ASSUME NEW v \in VMs, Archive(v)
      PROVE  Goal
  <2>1. row'.cleanup = row.cleanup /\ row'.deleteRequested = row.deleteRequested
    <3>1. CASE ArchiveBegin(v) \/ ArchiveUpload(v) \/ ArchiveComplete(v) \/ ArchiveLoad(v)
                 \/ BeginExec(v)
      BY <3>1 DEF ArchiveBegin, ArchiveUpload, ArchiveComplete, ArchiveLoad, BeginExec, rowVars
    <3>2. CASE BeginCommit(v)
      <4>1. row' = row \/ row' = StoredRow(archive[v].snap,
                                   ArchivingDoc(archive[v].snap.doc, v), archive[v].now)
        BY <3>2 DEF BeginCommit, rowVars, WriteRow
      <4>2. QED
        BY <1>0, <4>1, StoredFields
    <3>3. CASE UploadCommit(v)
      BY <1>0, <3>3 DEF UploadCommit, Rows
    <3>4. CASE CompleteCommit(v)
      <4>1. row' = row \/ row' = StoredRow(archive[v].snap,
                                   CompletedDoc(archive[v].snap.doc, v), archive[v].now)
        BY <3>4 DEF CompleteCommit, rowVars
      <4>2. QED
        BY <1>0, <4>1, StoredFields
    <3>5. QED
      BY <1>9, <3>1, <3>2, <3>3, <3>4 DEF Archive
  <2>2. routes' = routes
    BY <1>9 DEF Archive, ArchiveBegin, ArchiveUpload, ArchiveComplete, BeginExec,
         ArchiveLoad, BeginCommit, UploadCommit, CompleteCommit, ArchiveFrame
  <2>3. QED
    BY <1>2, <2>1, <2>2 DEF RouteInv
<1>10. CASE Tick \/ LeaseElapses \/ RetireHost \/ Crash
  BY <1>1, <1>10 DEF Tick, LeaseElapses, RetireHost, Crash, rowVars
<1>11. QED
  BY <1>3, <1>4, <1>5, <1>6, <1>7, <1>8, <1>9, <1>10 DEF Next

(* A request past its revocation has closed the routes, and one past its   *)
(* first write has saved the cleanup.                                      *)
LEMMA DestroyPcs ==
  ASSUME RecordInv, Next, NEW e \in Destroyers
  PROVE  /\ destroy'[e].pc \notin Early =>
              destroy[e].pc \notin Early \/ row'.cleanup # NoCleanup
         /\ destroy'[e].pc \in Revoked => destroy[e].pc \in Revoked \/ routes' = FALSE
<1> DEFINE Goal ==
             /\ destroy'[e].pc \notin Early =>
                  destroy[e].pc \notin Early \/ row'.cleanup # NoCleanup
             /\ destroy'[e].pc \in Revoked => destroy[e].pc \in Revoked \/ routes' = FALSE
<1> SUFFICES Goal
  OBVIOUS
<1>0. destroy \in [Destroyers -> DestroyStates] /\ row \in Rows
  BY DEF RecordInv, DestroyInv, RowInv, GoodRow
<1>1. destroy'[e] = destroy[e] => Goal
  OBVIOUS
<1>2. destroy'[e] = IdleDestroy => Goal
  BY DEF IdleDestroy, Early, Revoked
<1> HIDE DEF Goal
<1>3. CASE UNCHANGED destroy
  BY <1>1, <1>3
<1>4. ASSUME NEW d \in Destroyers, Destroy(d)
      PROVE  Goal
  <2>1. destroy[d] \in DestroyStates
    BY <1>0
  <2>2. ASSUME NEW n, destroy' = [destroy EXCEPT ![d] = n]
        PROVE  destroy'[e] = IF e = d THEN n ELSE destroy[e]
    BY <1>0, <2>2
  <2>3. ASSUME NEW from, NEW to, DestroyStep(d, from, to), from \notin Early,
               to \in Revoked => from \in Revoked \/ routes' = FALSE
        PROVE  Goal
    <3> DEFINE n == [destroy[d] EXCEPT !.pc = to]
    <3>1. destroy' = [destroy EXCEPT ![d] = n] /\ destroy[d].pc = from
      BY <2>3 DEF DestroyStep
    <3>2. n.pc = to
      BY <2>1 DEF DestroyStates
    <3> HIDE DEF n
    <3>3. CASE e = d
      BY <2>2, <2>3, <3>1, <3>2, <3>3 DEF Goal
    <3>4. QED
      BY <1>1, <2>2, <3>1, <3>3
  <2>4. CASE DestroyLoad(d)
    <3> DEFINE n == [pc |-> "request", snap |-> row, cleanup |-> NoCleanup,
                     vms |-> {v \in VMs : row.doc.vms[v].phase # "completed"}]
    <3>1. destroy' = [destroy EXCEPT ![d] = n]
      BY <2>4 DEF DestroyLoad
    <3>2. n.pc = "request"
      OBVIOUS
    <3> HIDE DEF n
    <3>3. CASE e = d
      BY <2>2, <3>1, <3>2, <3>3 DEF Goal, Early, Revoked
    <3>4. QED
      BY <1>1, <2>2, <3>1, <3>3
  <2>5. CASE DestroyRequest(d)
    <3> DEFINE n == [destroy[d] EXCEPT
                 !.cleanup = IF row.cleanup = NoCleanup THEN d ELSE row.cleanup,
                 !.pc = IF Ended(destroy[d].snap.doc) THEN "record" ELSE "teardown_load"]
    <3>1. destroy' = [destroy EXCEPT ![d] = n]
      BY <2>5 DEF DestroyRequest
    <3>2. n.pc \in {"record", "teardown_load"}
      BY <2>1 DEF DestroyStates
    <3>3. row'.cleanup # NoCleanup
      BY <1>0, <2>5, RecordAssumption DEF DestroyRequest, Rows
    <3> HIDE DEF n
    <3>4. CASE e = d
      BY <2>2, <3>1, <3>2, <3>3, <3>4 DEF Goal, Revoked
    <3>5. QED
      BY <1>1, <2>2, <3>1, <3>4
  <2>6. CASE DestroyUpdateLoad(d)
    <3> DEFINE n == [destroy[d] EXCEPT
                 !.snap = row,
                 !.pc = IF destroy[d].pc = "teardown_load"
                        THEN "teardown_commit" ELSE "release_commit"]
    <3>1. destroy' = [destroy EXCEPT ![d] = n]
      BY <2>6 DEF DestroyUpdateLoad
    <3>2. /\ n.pc = IF destroy[d].pc = "teardown_load"
                    THEN "teardown_commit" ELSE "release_commit"
          /\ destroy[d].pc \in {"teardown_load", "release_load"}
      BY <2>1, <2>6 DEF DestroyStates, DestroyUpdateLoad
    <3> HIDE DEF n
    <3>3. CASE e = d
      BY <2>2, <3>1, <3>2, <3>3 DEF Goal, Early, Revoked
    <3>4. QED
      BY <1>1, <2>2, <3>1, <3>3
  <2>7. CASE DestroyRecord(d)
    <3>1. DestroyStep(d, "record", "absent")
      BY <2>7 DEF DestroyRecord
    <3>2. QED
      BY <2>3, <3>1 DEF Early, Revoked
  <2>8. CASE DestroyTeardownCommit(d)
    <3>1. \/ DestroyStep(d, "teardown_commit", "absent")
          \/ DestroyStep(d, "teardown_commit", "teardown_load")
      BY <2>8 DEF DestroyTeardownCommit
    <3>2. QED
      BY <2>3, <3>1 DEF Early, Revoked
  <2>9. CASE DestroyMarkAbsent(d)
    <3>1. DestroyStep(d, "absent", "revoke")
      BY <2>9 DEF DestroyMarkAbsent
    <3>2. QED
      BY <2>3, <3>1 DEF Early, Revoked
  <2>10. CASE DestroyRevoke(d)
    <3>1. DestroyStep(d, "revoke", "release_load") /\ routes' = FALSE
      BY <2>10 DEF DestroyRevoke
    <3>2. QED
      BY <2>3, <3>1 DEF Early, Revoked
  <2>11. CASE DestroyReleaseCommit(d)
    <3>1. \/ DestroyStep(d, "release_commit", "finish")
          \/ DestroyStep(d, "release_commit", "release_load")
      BY <2>11 DEF DestroyReleaseCommit
    <3>2. QED
      BY <2>3, <3>1 DEF Early, Revoked
  <2>12. CASE DestroyFinish(d)
    BY <1>1, <1>2, <2>2, <2>12 DEF DestroyFinish
  <2>13. QED
    BY <1>4, <2>4, <2>5, <2>6, <2>7, <2>8, <2>9, <2>10, <2>11, <2>12 DEF Destroy
<1>5. CASE Crash
  <2>1. destroy' = destroy \/ \E d \in Destroyers :
          destroy' = [destroy EXCEPT ![d] = IdleDestroy]
    BY <1>5 DEF Crash
  <2>2. destroy'[e] = destroy[e] \/ destroy'[e] = IdleDestroy
    BY <1>0, <2>1
  <2>3. QED
    BY <1>1, <1>2, <2>2
<1>6. ASSUME NEW m \in Messages, ReceiveReport(m)
      PROVE  Goal
  BY <1>3, <1>6 DEF ReceiveReport
<1>7. CASE ProjectLoad \/ ProjectCommit \/ Reconnect
  BY <1>3, <1>7 DEF ProjectLoad, ProjectCommit, Reconnect
<1>8. CASE Lease
  BY <1>3, <1>8 DEF Lease, LeaseSelect, LeaseLoad, LeaseUpdateLoad, LeaseUpdateCommit,
                 LeaseMarkAbsent, LeaseFrame
<1>9. CASE Expiry
  BY <1>3, <1>9 DEF Expiry, ExpirySelect, ExpiryLoad, ExpiryRevoke, ExpiryUpdateLoad,
                 ExpiryUpdateCommit, ExpiryArchive, ExpiryFrame
<1>10. ASSUME NEW v \in VMs, Archive(v)
       PROVE  Goal
  BY <1>3, <1>10 DEF Archive, ArchiveBegin, ArchiveUpload, ArchiveComplete, BeginExec,
         ArchiveLoad, BeginCommit, UploadCommit, CompleteCommit, ArchiveFrame
<1>11. CASE Tick \/ LeaseElapses \/ RetireHost
  BY <1>3, <1>11 DEF Tick, LeaseElapses, RetireHost
<1>12. QED
  BY <1>4, <1>5, <1>6, <1>7, <1>8, <1>9, <1>10, <1>11 DEF Next

(* The delete_requested_at the lease pass remembers was the row's. *)
LEMMA LeaseAsked ==
  ASSUME RecordInv, Next
  PROVE  lease'.deleteRequested => lease.deleteRequested \/ row.deleteRequested
<1>1. lease \in LeaseStates
  BY DEF RecordInv, LeaseInv
<1>2. CASE UNCHANGED lease
  BY <1>2
<1>3. CASE lease' = IdleLease
  BY <1>3 DEF IdleLease
<1>4. CASE Lease
  <2>1. CASE LeaseLoad
    BY <1>1, <2>1 DEF LeaseLoad, LeaseStates
  <2>2. CASE LeaseMarkAbsent
    BY <1>3, <2>2 DEF LeaseMarkAbsent
  <2>3. CASE LeaseSelect \/ LeaseUpdateLoad \/ LeaseUpdateCommit
    BY <1>1, <2>3 DEF LeaseSelect, LeaseUpdateLoad, LeaseUpdateCommit, LeaseStates
  <2>4. QED
    BY <1>4, <2>1, <2>2, <2>3 DEF Lease
<1>5. CASE Crash
  BY <1>2, <1>3, <1>5 DEF Crash
<1>6. ASSUME NEW m \in Messages, ReceiveReport(m)
      PROVE  UNCHANGED lease
  BY <1>6 DEF ReceiveReport
<1>7. CASE ProjectLoad \/ ProjectCommit \/ Reconnect
  BY <1>2, <1>7 DEF ProjectLoad, ProjectCommit, Reconnect
<1>8. ASSUME NEW d \in Destroyers, Destroy(d)
      PROVE  UNCHANGED lease
  BY <1>8 DEF Destroy, DestroyLoad, DestroyRequest, DestroyRecord, DestroyUpdateLoad,
              DestroyTeardownCommit, DestroyMarkAbsent, DestroyRevoke,
              DestroyReleaseCommit, DestroyFinish, DestroyFrame
<1>9. CASE Expiry
  BY <1>2, <1>9 DEF Expiry, ExpirySelect, ExpiryLoad, ExpiryRevoke, ExpiryUpdateLoad,
                 ExpiryUpdateCommit, ExpiryArchive, ExpiryFrame
<1>10. ASSUME NEW v \in VMs, Archive(v)
       PROVE  UNCHANGED lease
  BY <1>10 DEF Archive, ArchiveBegin, ArchiveUpload, ArchiveComplete, BeginExec,
         ArchiveLoad, BeginCommit, UploadCommit, CompleteCommit, ArchiveFrame
<1>11. CASE Tick \/ LeaseElapses \/ RetireHost
  BY <1>2, <1>11 DEF Tick, LeaseElapses, RetireHost
<1>12. QED
  BY <1>2, <1>4, <1>5, <1>6, <1>7, <1>8, <1>9, <1>10, <1>11 DEF Next

(* Every step keeps RouteInv. *)
LEMMA RouteStep ==
  ASSUME RecordInv, RouteInv, Next
  PROVE  RouteInv'
<1>1. /\ routes' => routes
      /\ routes' /\ row.cleanup # NoCleanup => row'.cleanup # NoCleanup
      /\ CleanupDue(row.deleteRequested)'
  BY RouteRow
<1>2. ASSUME NEW old, NEW new, CleanupDue(old.deleteRequested), Taken(new, old),
             routes', new.deleteRequested
      PROVE  row'.cleanup # NoCleanup
  <2>1. InitialRow.deleteRequested = FALSE
    BY DEF InitialRow
  <2>2. QED
    BY <1>1, <1>2, <2>1 DEF Taken, CleanupDue, RouteInv
<1>3. CleanupDue(proj.snap.deleteRequested)' /\ CleanupDue(expiry.snap.deleteRequested)'
  BY <1>2, SnapsTaken DEF RouteInv, CleanupDue
<1>4. CleanupDue(lease.deleteRequested)'
  BY <1>1, LeaseAsked DEF RouteInv, CleanupDue
<1>5. ASSUME NEW d \in Destroyers
      PROVE  /\ CleanupDue(destroy[d].pc \notin Early)'
             /\ destroy'[d].pc \in Revoked => ~routes'
  <2>1. /\ CleanupDue(destroy[d].pc \notin Early)
        /\ destroy[d].pc \in Revoked => ~routes
    BY DEF RouteInv
  <2>2. CleanupDue(destroy[d].pc \notin Early)'
    BY <1>1, <2>1, DestroyPcs DEF CleanupDue
  <2>3. destroy'[d].pc \in Revoked => ~routes'
    BY <1>1, <2>1, DestroyPcs
  <2>4. QED
    BY <2>2, <2>3
<1>6. QED
  BY <1>1, <1>3, <1>4, <1>5 DEF RouteInv

-----------------------------------------------------------------------------
(* The execution.  No step takes it out of the archive. *)
LEMMA ArchivedStep ==
  ASSUME Next
  PROVE  ArchivedForGoodStep
<1> SUFFICES ASSUME exec = "archived"
             PROVE  exec' = "archived"
  BY DEF ArchivedForGoodStep
<1>1. \A r : ProjectRuntime(r, exec) => exec' = "archived"
  BY DEF ProjectRuntime
<1>2. (\E r : WriteRow(r)) \/ LostRace \/ UNCHANGED rowVars => exec' = "archived"
  BY <1>1 DEF WriteRow, LostRace, rowVars
<1>3. ASSUME NEW m \in Messages, ReceiveReport(m)
      PROVE  exec' = "archived"
  BY <1>2, <1>3 DEF ReceiveReport
<1>4. CASE ProjectLoad \/ ProjectCommit \/ Reconnect
  BY <1>2, <1>4 DEF ProjectLoad, ProjectCommit, Reconnect
<1>5. ASSUME NEW d \in Destroyers, Destroy(d)
      PROVE  exec' = "archived"
  BY <1>2, <1>5
  DEF Destroy, DestroyLoad, DestroyRequest, DestroyRecord, DestroyUpdateLoad,
      DestroyTeardownCommit, DestroyMarkAbsent, DestroyRevoke, DestroyReleaseCommit,
      DestroyFinish
<1>6. CASE Lease
  BY <1>2, <1>6 DEF Lease, LeaseSelect, LeaseLoad, LeaseUpdateLoad, LeaseUpdateCommit,
                 LeaseMarkAbsent
<1>7. CASE Expiry
  BY <1>2, <1>7 DEF Expiry, ExpirySelect, ExpiryLoad, ExpiryRevoke, ExpiryUpdateLoad,
                 ExpiryUpdateCommit, ExpiryArchive
<1>8. ASSUME NEW v \in VMs, Archive(v)
      PROVE  exec' = "archived"
  <2>1. CASE BeginExec(v)
    BY <2>1 DEF BeginExec
  <2>2. CASE BeginCommit(v)
    BY <1>2, <2>2 DEF BeginCommit
  <2>3. CASE CompleteCommit(v)
    <3>1. UNCHANGED rowVars \/ \E r : ProjectRuntime(r, exec)
      BY <2>3 DEF CompleteCommit
    <3>2. QED
      BY <1>1, <1>2, <3>1
  <2>4. CASE UploadCommit(v)
    BY <2>4 DEF UploadCommit
  <2>5. CASE ArchiveBegin(v) \/ ArchiveUpload(v) \/ ArchiveComplete(v) \/ ArchiveLoad(v)
    BY <1>2, <2>5 DEF ArchiveBegin, ArchiveUpload, ArchiveComplete, ArchiveLoad
  <2>6. QED
    BY <1>8, <2>1, <2>2, <2>3, <2>4, <2>5 DEF Archive
<1>9. CASE Tick \/ LeaseElapses \/ RetireHost \/ Crash
  BY <1>2, <1>9 DEF Tick, LeaseElapses, RetireHost, Crash
<1>10. QED
  BY <1>3, <1>4, <1>5, <1>6, <1>7, <1>8, <1>9 DEF Next

(* A VM is sealed, or about to be, only with its artifact uploaded, and    *)
(* the execution is archived once every VM is sealed.                      *)
Sealing == {"complete_load", "complete_commit"}

SealInv ==
  /\ \A v \in VMs : sealed[v] \/ archive[v].pc \in Sealing => ledger[v] = "uploaded"
  /\ (\A v \in VMs : sealed[v]) => exec = "archived"

LEMMA SealStep ==
  ASSUME RecordInv, SealInv, Next
  PROVE  SealInv'
<1>0. /\ archive \in [VMs -> ArchiveStates] /\ sealed \in [VMs -> BOOLEAN]
      /\ ledger \in [VMs -> {"none", "pending", "uploaded"}]
  BY DEF RecordInv, ArchiveInv, PlaceInv
<1>1. exec = "archived" => exec' = "archived"
  BY ArchivedStep DEF ArchivedForGoodStep
<1>2. CASE UNCHANGED <<ledger, sealed, archive>>
  BY <1>1, <1>2 DEF SealInv
<1>3. ASSUME NEW m \in Messages, ReceiveReport(m)
      PROVE  SealInv'
  BY <1>2, <1>3 DEF ReceiveReport, artifactVars
<1>4. CASE ProjectLoad \/ ProjectCommit \/ Reconnect
  BY <1>2, <1>4 DEF ProjectLoad, ProjectCommit, Reconnect, artifactVars
<1>5. ASSUME NEW d \in Destroyers, Destroy(d)
      PROVE  SealInv'
  BY <1>2, <1>5
  DEF Destroy, DestroyLoad, DestroyRequest, DestroyRecord, DestroyUpdateLoad,
      DestroyTeardownCommit, DestroyMarkAbsent, DestroyRevoke, DestroyReleaseCommit,
      DestroyFinish, DestroyFrame, artifactVars
<1>6. CASE Lease
  BY <1>2, <1>6 DEF Lease, LeaseSelect, LeaseLoad, LeaseUpdateLoad, LeaseUpdateCommit,
                 LeaseMarkAbsent, LeaseFrame, artifactVars
<1>7. CASE Expiry
  BY <1>2, <1>7 DEF Expiry, ExpirySelect, ExpiryLoad, ExpiryRevoke, ExpiryUpdateLoad,
                 ExpiryUpdateCommit, ExpiryArchive, ExpiryFrame, artifactVars
<1>8. ASSUME NEW v \in VMs, Archive(v)
      PROVE  SealInv'
  <2>1. ASSUME NEW n, archive' = [archive EXCEPT ![v] = n],
               \/ n.pc \notin Sealing
               \/ ledger[v] = "uploaded" \/ archive[v].pc \in Sealing,
               \/ UNCHANGED ledger
               \/ ledger' = [ledger EXCEPT ![v] = "uploaded"]
               \/ ledger[v] # "uploaded" /\ ledger' = [ledger EXCEPT ![v] = "pending"]
                    /\ n.pc \notin Sealing,
               UNCHANGED sealed
        PROVE  SealInv'
    <3>1. \A w \in VMs : archive'[w] = IF w = v THEN n ELSE archive[w]
      BY <1>0, <2>1
    <3>2. ASSUME NEW w \in VMs, sealed'[w] \/ archive'[w].pc \in Sealing
          PROVE  ledger'[w] = "uploaded"
      <4>1. CASE w # v
        BY <1>0, <2>1, <3>1, <3>2, <4>1 DEF SealInv
      <4>2. CASE w = v
        BY <1>0, <2>1, <3>1, <3>2, <4>2 DEF SealInv
      <4>3. QED
        BY <4>1, <4>2
    <3>3. (\A w \in VMs : sealed'[w]) => exec' = "archived"
      BY <1>1, <2>1 DEF SealInv
    <3>4. QED
      BY <3>2, <3>3 DEF SealInv
  <2>2. archive[v] \in ArchiveStates
    BY <1>0
  <2>3. ASSUME NEW pc, ArchiveGoto(v, pc)
        PROVE  \E n : archive' = [archive EXCEPT ![v] = n] /\ n.pc = pc
    <3>1. archive' = [archive EXCEPT ![v] = [archive[v] EXCEPT !.pc = pc]]
      BY <2>3 DEF ArchiveGoto
    <3>2. [archive[v] EXCEPT !.pc = pc].pc = pc
      BY <2>2 DEF ArchiveStates
    <3>3. QED
      BY <3>1, <3>2
  <2>4. ASSUME ArchiveDone(v)
        PROVE  \E n : archive' = [archive EXCEPT ![v] = n] /\ n.pc = "idle"
    <3>1. archive' = [archive EXCEPT ![v] = IdleArchive]
      BY <2>4 DEF ArchiveDone
    <3>2. IdleArchive.pc = "idle"
      BY DEF IdleArchive
    <3>3. QED
      BY <3>1, <3>2
  <2>5. ASSUME NEW pc, archive' = [archive EXCEPT ![v].pc = pc, ![v].now = clock]
        PROVE  \E n : archive' = [archive EXCEPT ![v] = n] /\ n.pc = pc
    <3>1. archive' = [archive EXCEPT ![v] = [archive[v] EXCEPT !.pc = pc, !.now = clock]]
      BY <2>5
    <3>2. [archive[v] EXCEPT !.pc = pc, !.now = clock].pc = pc
      BY <2>2 DEF ArchiveStates
    <3>3. QED
      BY <3>1, <3>2
  <2>6. CASE ArchiveBegin(v)
    <3>1. PICK n : archive' = [archive EXCEPT ![v] = n] /\ n.pc = "begin_exec"
      BY <2>5, <2>6 DEF ArchiveBegin
    <3>2. /\ UNCHANGED sealed
          /\ \/ UNCHANGED ledger
             \/ ledger[v] # "uploaded" /\ ledger' = [ledger EXCEPT ![v] = "pending"]
      BY <1>0, <2>6 DEF ArchiveBegin
    <3>3. n.pc \notin Sealing
      BY <3>1 DEF Sealing
    <3>4. QED
      BY <2>1, <3>1, <3>2, <3>3
  <2>7. CASE ArchiveUpload(v)
    <3>1. PICK n : archive' = [archive EXCEPT ![v] = n] /\ n.pc = "upload_load"
      BY <2>5, <2>7 DEF ArchiveUpload
    <3>2. UNCHANGED <<ledger, sealed>>
      BY <2>7 DEF ArchiveUpload, artifactVars
    <3>3. QED
      BY <2>1, <3>1, <3>2 DEF Sealing
  <2>8. CASE ArchiveComplete(v)
    <3>1. PICK n : archive' = [archive EXCEPT ![v] = n] /\ n.pc = "complete_load"
      BY <2>5, <2>8 DEF ArchiveComplete
    <3>2. UNCHANGED <<ledger, sealed>> /\ ledger[v] = "uploaded"
      BY <2>8 DEF ArchiveComplete, artifactVars
    <3>3. QED
      BY <2>1, <3>1, <3>2
  <2>9. CASE BeginExec(v)
    <3>1. PICK n : archive' = [archive EXCEPT ![v] = n] /\ n.pc \in {"begin_load", "idle"}
      BY <2>3, <2>4, <2>9 DEF BeginExec
    <3>2. UNCHANGED <<ledger, sealed>>
      BY <2>9 DEF BeginExec, artifactVars
    <3>3. QED
      BY <2>1, <3>1, <3>2 DEF Sealing
  <2>10. CASE ArchiveLoad(v)
    <3> DEFINE pc == CASE archive[v].pc = "begin_load" -> "begin_commit"
                       [] archive[v].pc = "upload_load" -> "upload_commit"
                       [] OTHER -> "complete_commit"
               n == [archive[v] EXCEPT !.snap = row, !.pc = pc]
    <3>1. archive' = [archive EXCEPT ![v] = n]
      BY <2>10 DEF ArchiveLoad
    <3>2. n.pc = pc
      BY <2>2 DEF ArchiveStates
    <3>3. pc \in Sealing => archive[v].pc \in Sealing
      BY <2>10 DEF ArchiveLoad, Sealing
    <3>4. UNCHANGED <<ledger, sealed>>
      BY <2>10 DEF ArchiveLoad, artifactVars
    <3> HIDE DEF n, pc
    <3>5. QED
      BY <2>1, <3>1, <3>2, <3>3, <3>4
  <2>11. CASE BeginCommit(v)
    <3>1. PICK n : archive' = [archive EXCEPT ![v] = n] /\ n.pc \in {"begin_exec", "idle"}
      BY <2>3, <2>4, <2>11 DEF BeginCommit
    <3>2. UNCHANGED <<ledger, sealed>>
      BY <2>11 DEF BeginCommit, artifactVars
    <3>3. QED
      BY <2>1, <3>1, <3>2 DEF Sealing
  <2>12. CASE UploadCommit(v)
    <3>1. PICK n : archive' = [archive EXCEPT ![v] = n] /\ n.pc \in {"upload_load", "idle"}
      BY <2>3, <2>4, <2>12 DEF UploadCommit
    <3>2. /\ UNCHANGED sealed
          /\ UNCHANGED ledger \/ ledger' = [ledger EXCEPT ![v] = "uploaded"]
      BY <2>12 DEF UploadCommit
    <3>3. n.pc \notin Sealing
      BY <3>1 DEF Sealing
    <3>4. QED
      BY <2>1, <3>1, <3>2, <3>3
  <2>13. CASE CompleteCommit(v)
    <3>1. archive[v].pc \in Sealing /\ UNCHANGED ledger
      BY <2>13 DEF CompleteCommit, Sealing
    <3>2. CASE ArchiveGoto(v, "complete_load") /\ UNCHANGED sealed
      <4>1. PICK n : archive' = [archive EXCEPT ![v] = n] /\ n.pc = "complete_load"
        BY <2>3, <3>2
      <4>2. QED
        BY <2>1, <3>1, <3>2, <4>1
    <3>3. CASE /\ sealed' = [sealed EXCEPT ![v] = TRUE] /\ ArchiveDone(v)
               /\ \E r : ProjectRuntime(r, IF \A w \in VMs : sealed'[w]
                                           THEN "archived" ELSE exec)
      <4>1. PICK n : archive' = [archive EXCEPT ![v] = n] /\ n.pc = "idle"
        BY <2>4, <3>3
      <4>2. \A w \in VMs : archive'[w] = IF w = v THEN n ELSE archive[w]
        BY <1>0, <4>1
      <4>3. ASSUME NEW w \in VMs, sealed'[w] \/ archive'[w].pc \in Sealing
            PROVE  ledger'[w] = "uploaded"
        <5>1. CASE w = v
          BY <3>1, <5>1 DEF SealInv
        <5>2. CASE w # v
          BY <1>0, <3>1, <3>3, <4>2, <4>3, <5>2 DEF SealInv
        <5>3. QED
          BY <5>1, <5>2
      <4>4. (\A w \in VMs : sealed'[w]) => exec' = "archived"
        BY <3>3 DEF ProjectRuntime
      <4>5. QED
        BY <4>3, <4>4 DEF SealInv
    <3>4. QED
      BY <2>13, <3>2, <3>3 DEF CompleteCommit
  <2>14. QED
    BY <1>8, <2>6, <2>7, <2>8, <2>9, <2>10, <2>11, <2>12, <2>13 DEF Archive
<1>9. CASE Tick \/ LeaseElapses \/ RetireHost
  BY <1>2, <1>9 DEF Tick, LeaseElapses, RetireHost, artifactVars
<1>10. CASE Crash
  <2>1. UNCHANGED <<ledger, sealed>>
    BY <1>10 DEF Crash, artifactVars
  <2>2. UNCHANGED archive \/ \E v \in VMs : archive' = [archive EXCEPT ![v] = IdleArchive]
    BY <1>10 DEF Crash, ArchiveDone
  <2>3. \A w \in VMs : archive'[w] = archive[w] \/ archive'[w] = IdleArchive
    BY <1>0, <2>2
  <2>4. IdleArchive.pc \notin Sealing
    BY DEF IdleArchive, Sealing
  <2>5. \A w \in VMs : archive'[w].pc \in Sealing => archive[w].pc \in Sealing
    BY <2>3, <2>4
  <2>6. QED
    BY <1>1, <2>1, <2>5 DEF SealInv
<1>11. QED
  BY <1>3, <1>4, <1>5, <1>6, <1>7, <1>8, <1>9, <1>10 DEF Next

(* The inductive invariant behind RunRowSound. *)
RowSoundInv == SlotInv /\ RouteInv /\ SealInv

LEMMA RowSoundInit ==
  ASSUME Init
  PROVE  RowSoundInv
<1>1. row = InitialRow /\ InitialRow.deleteRequested = FALSE /\ InitialRow.activeKey = TRUE
        /\ InitialRow.doc = BuildInitialRunState
  BY DEF Init, InitialRow
<1>2. GoodDoc([phase |-> "queued", vms |-> [v \in VMs |-> InitialVmState]], CpuOf)
  <2>1. GoodVm(InitialVmState, CpuOf)
    BY Phases, RunAssumption
    DEF GoodVm, InitialVmState, VmDocs, ReadyVmHasEvidence, TerminalPhases
  <2>2. QED
    BY <2>1, Phases DEF GoodDoc, RunDocs, GoodVm
<1>3. Settled(BuildInitialRunState)
  BY <1>2, RecomputeSame DEF BuildInitialRunState
<1>4. ~Ended(BuildInitialRunState)
  <2> DEFINE doc == [phase |-> "queued", vms |-> [v \in VMs |-> InitialVmState]]
  <2>1. ~Ended(doc) /\ \A v \in VMs : doc.vms[v].phase = "queued"
    BY DEF Ended, TerminalRunPhases, InitialVmState
  <2> HIDE DEF doc
  <2>2. Settled(doc)
    BY <2>1, RunAssumption DEF Settled, SomeVm, EveryVm
  <2>3. QED
    BY <1>2, <2>1, <2>2, RecomputeSame DEF BuildInitialRunState, doc
<1>5. SlotInv
  BY <1>1, <1>3, <1>4 DEF SlotInv, KeyHeld
<1>6. RouteInv
  <2>1. /\ proj.snap = InitialRow /\ expiry.snap = InitialRow
        /\ lease.deleteRequested = FALSE
        /\ \A d \in Destroyers : destroy[d].pc = "idle"
    BY DEF Init, IdleProj, IdleExpiry, IdleLease, IdleDestroy
  <2>2. QED
    BY <1>1, <2>1 DEF RouteInv, CleanupDue, Early, Revoked
<1>7. SealInv
  <2>1. \A v \in VMs : sealed[v] = FALSE /\ archive[v].pc = "idle"
    BY DEF Init, IdleArchive
  <2>2. QED
    BY <2>1, RunAssumption DEF SealInv, Sealing
<1>8. QED
  BY <1>5, <1>6, <1>7 DEF RowSoundInv

LEMMA RowSoundNext ==
  ASSUME RecordInv, RowSoundInv, [Next]_vars
  PROVE  RowSoundInv'
<1>1. CASE Next
  BY <1>1, SlotStep, RouteStep, SealStep DEF RowSoundInv
<1>2. CASE UNCHANGED vars
  BY <1>2 DEF vars, RowSoundInv, SlotInv, RouteInv, SealInv, CleanupDue
<1>3. QED
  BY <1>1, <1>2

LEMMA RowSoundHolds == Spec => []RowSoundInv
<1>1. Init => RowSoundInv
  BY RowSoundInit
<1>2. RecordInv /\ RowSoundInv /\ [Next]_vars => RowSoundInv'
  BY RowSoundNext
<1>3. QED
  BY <1>1, <1>2, InvariantHolds, PTL DEF Spec

(* Whatever the handlers interleave and wherever they crash, a run that    *)
(* ended without a request frees the slot, the route cleanup that a        *)
(* request still owes is saved, and a run is sealed only with everything   *)
(* uploaded, its execution archived.                                       *)
THEOREM RunRowCorrect == Spec => []RunRowSound
<1>1. RowSoundInv => RunRowSound
  BY DEF RowSoundInv, SlotInv, KeyHeld, RouteInv, CleanupDue, SealInv, RunRowSound,
         EndedRunFreesSlot, RouteCleanupSaved, SealedRunIsArchived
<1>2. QED
  BY <1>1, RowSoundHolds, PTL

(* An execution that was archived stays archived. *)
THEOREM ArchivedCorrect == Spec => ArchivedForGood
<1>1. [Next]_vars => [ArchivedForGoodStep]_exec
  <2>1. CASE Next
    BY <2>1, ArchivedStep
  <2>2. CASE UNCHANGED vars
    BY <2>2 DEF vars
  <2>3. QED
    BY <2>1, <2>2
<1>2. QED
  BY <1>1, PTL DEF Spec, ArchivedForGood

-----------------------------------------------------------------------------
(* Writers that compare updated_at.  A snapshot is never ahead of the row, *)
(* and one with the row's revision agrees with it: a write that wins the   *)
(* comparison was computed from what it replaces.  The artifact endpoints  *)
(* stamp the row with the time their request began, so this needs them     *)
(* out of the way.                                                         *)
Fresh(s, r) ==
  /\ s.rev <= r.rev
  /\ s.rev = r.rev => /\ s.doc = r.doc /\ s.activeKey = r.activeKey
                      /\ s.deleteRequested = r.deleteRequested

FreshInv ==
  /\ Fresh(InitialRow, row) /\ Fresh(proj.snap, row) /\ Fresh(lease.snap, row)
  /\ Fresh(expiry.snap, row) /\ \A d \in Destroyers : Fresh(destroy[d].snap, row)
  /\ row.activeKey => slot
  /\ \A v \in VMs : archive[v].pc = "idle" /\ ledger[v] = "none"

(* A step keeps the row as it was, but for the saved cleanup, or gives it  *)
(* a later revision.                                                       *)
Revised ==
  \/ row'.rev > row.rev
  \/ /\ row'.rev = row.rev /\ row'.doc = row.doc /\ row'.activeKey = row.activeKey
     /\ row'.deleteRequested = row.deleteRequested

(* Such a step moves every VM forward and takes the key with the slot. *)
Advanced ==
  /\ Revised
  /\ DocForward(row.doc, row'.doc)
  /\ row'.activeKey => row.activeKey /\ slot'

LEMMA DocStays ==
  ASSUME NEW doc, GoodDoc(doc, CpuOf)
  PROVE  DocForward(doc, doc)
<1>1. \A v \in VMs : doc.vms[v] \in VmDocs
  BY DEF GoodDoc, GoodVm
<1>2. \A vm : SameVm(vm, vm)
  BY DEF SameVm
<1>3. QED
  BY <1>1, <1>2, SameForward DEF DocForward

(* A later revision is later. *)
LEMMA NextRevLater ==
  ASSUME PlaceInv, NEW rev \in Nat
  PROVE  NextRev(rev) > rev
BY DEF PlaceInv, NextRev, Later

(* A write that won the comparison advances the row. *)
LEMMA ComparedWrite ==
  ASSUME RecordInv, row.activeKey => slot, NEW snap, Fresh(snap, row), snap.rev = row.rev,
         NEW r, WriteRow(r), r.rev = NextRev(snap.rev),
         r.activeKey => snap.activeKey, DocForward(snap.doc, r.doc)
  PROVE  Advanced
<1>1. row.rev \in Nat /\ PlaceInv
  BY DEF RecordInv, RowInv, GoodRow, Rows
<1>2. row' = r /\ ProjectRuntime(r, exec)
  BY DEF WriteRow
<1>3. row'.rev > row.rev
  BY <1>1, <1>2, NextRevLater
<1>4. snap.doc = row.doc /\ snap.activeKey = row.activeKey
  BY DEF Fresh
<1>5. row'.activeKey => row.activeKey
  BY <1>2, <1>4
<1>6. row'.activeKey => slot'
  BY <1>2, <1>5 DEF ProjectRuntime
<1>7. QED
  BY <1>2, <1>3, <1>4, <1>5, <1>6 DEF Advanced, Revised

(* A write that lost it, and a step that writes nothing. *)
LEMMA NoWrite ==
  ASSUME RecordInv, row.activeKey => slot, LostRace \/ UNCHANGED rowVars
  PROVE  Advanced
<1>1. GoodDoc(row.doc, CpuOf)
  BY DEF RecordInv, RowInv, GoodRow
<1>2. row' = row
  BY DEF LostRace, rowVars
<1>3. row.activeKey => slot'
  BY DEF LostRace, ProjectRuntime, rowVars
<1>4. QED
  BY <1>1, <1>2, <1>3, DocStays DEF Advanced, Revised

(* Without the artifact endpoints, every step advances the row. *)
LEMMA RowAdvances ==
  ASSUME "archive" \notin Enabled, RecordInv, FreshInv, Next
  PROVE  Advanced
<1>0. /\ row \in Rows /\ row.rev \in Nat /\ PlaceInv /\ GoodDoc(row.doc, CpuOf)
      /\ row.activeKey => slot
  BY DEF RecordInv, RowInv, GoodRow, Rows, FreshInv
<1>1. UNCHANGED rowVars \/ LostRace => Advanced
  BY <1>0, NoWrite
<1>2. ASSUME NEW m \in Messages, ReceiveReport(m)
      PROVE  Advanced
  BY <1>1, <1>2 DEF ReceiveReport
<1>3. CASE ProjectLoad \/ Reconnect
  BY <1>1, <1>3 DEF ProjectLoad, Reconnect
<1>4. CASE ProjectCommit
  <2> DEFINE next == ProjectedRow(proj.snap, proj.msg)
  <2>1. UNCHANGED rowVars \/ LostRace \/ (proj.snap.rev = row.rev /\ WriteRow(next))
    BY <1>4 DEF ProjectCommit
  <2>2. next.rev = NextRev(proj.snap.rev) /\ (next.activeKey => proj.snap.activeKey)
    BY ProjectedFields
  <2>3. DocForward(proj.snap.doc, next.doc)
    <3> DEFINE current == RecomputeRunState(proj.snap.doc)
    <3>1. GoodDoc(proj.snap.doc, CpuOf) /\ proj.msg \in Messages \cup {NoMessage}
      BY DEF RecordInv, ProjInv, ProjStates, GoodRow
    <3>2. GoodDoc(current, CpuOf) /\ SameVms(proj.snap.doc, current)
      BY <3>1, RecomputeGood, RecomputeSame
    <3> HIDE DEF current
    <3>3. DocForward(current, MergedDoc(current, proj.msg))
      BY <3>1, <3>2, MergedForward
    <3>4. next.doc = MergedDoc(current, proj.msg)
      BY ProjectedFields DEF current
    <3> HIDE DEF next
    <3>5. QED
      BY <3>2, <3>3, <3>4 DEF DocForward, SameVms, SameVm, VmForward
  <2> HIDE DEF next
  <2>4. QED
    BY <1>0, <1>1, <2>1, <2>2, <2>3, ComparedWrite DEF FreshInv
<1>5. ASSUME NEW d \in Destroyers, Destroy(d)
      PROVE  Advanced
  <2>1. GoodRow(destroy[d].snap) /\ Fresh(destroy[d].snap, row)
    BY DEF RecordInv, DestroyInv, FreshInv
  <2>2. CASE DestroyLoad(d) \/ DestroyUpdateLoad(d) \/ DestroyMarkAbsent(d) \/ DestroyRevoke(d)
    BY <1>1, <2>2 DEF DestroyLoad, DestroyUpdateLoad, DestroyMarkAbsent, DestroyRevoke
  <2>3. CASE DestroyRequest(d) \/ DestroyRecord(d)
    <3>1. /\ row'.doc = row.doc /\ row'.activeKey = row.activeKey /\ slot' = slot
          /\ row'.rev = NextRev(row.rev)
      BY <1>0, <2>3 DEF DestroyRequest, DestroyRecord, Rows
    <3>2. row'.rev > row.rev
      BY <1>0, <3>1, NextRevLater
    <3>3. QED
      BY <1>0, <3>1, <3>2, DocStays DEF Advanced, Revised
  <2>4. CASE DestroyFinish(d)
    <3>1. /\ row'.doc = row.doc /\ row'.activeKey = row.activeKey /\ slot' = slot
          /\ row'.rev = row.rev /\ row'.deleteRequested = row.deleteRequested
      BY <1>0, <2>4 DEF DestroyFinish, Rows
    <3>2. QED
      BY <1>0, <3>1, DocStays DEF Advanced, Revised
  <2>5. CASE DestroyTeardownCommit(d)
    <3> DEFINE next == UpdatedRow(destroy[d].snap, TeardownDoc(destroy[d].snap), TRUE, FALSE)
    <3>1. LostRace \/ (destroy[d].snap.rev = row.rev /\ WriteRow(next))
      BY <2>5 DEF DestroyTeardownCommit
    <3>2. /\ next.rev = NextRev(destroy[d].snap.rev)
          /\ next.activeKey => destroy[d].snap.activeKey
          /\ next.doc = TeardownDoc(destroy[d].snap)
      BY DEF UpdatedRow
    <3>3. DocForward(destroy[d].snap.doc, next.doc)
      BY <2>1, <3>2, WriterDocsForward
    <3> HIDE DEF next
    <3>4. QED
      BY <1>0, <1>1, <2>1, <3>1, <3>2, <3>3, ComparedWrite
  <2>6. CASE DestroyReleaseCommit(d)
    <3> DEFINE doc == RecomputeRunState(RecomputeRunState(destroy[d].snap.doc))
               next == UpdatedRow(destroy[d].snap, doc, TRUE, TRUE)
    <3>1. LostRace \/ (destroy[d].snap.rev = row.rev /\ WriteRow(next))
      BY <2>6 DEF DestroyReleaseCommit
    <3>2. /\ next.rev = NextRev(destroy[d].snap.rev)
          /\ next.activeKey => destroy[d].snap.activeKey
          /\ next.doc = doc
      BY DEF UpdatedRow
    <3>3. DocForward(destroy[d].snap.doc, next.doc)
      BY <2>1, <3>2, WriterDocsForward
    <3> HIDE DEF next
    <3>4. QED
      BY <1>0, <1>1, <2>1, <3>1, <3>2, <3>3, ComparedWrite
  <2>7. QED
    BY <1>5, <2>2, <2>3, <2>4, <2>5, <2>6 DEF Destroy
<1>6. CASE Lease
  <2>1. CASE LeaseSelect \/ LeaseLoad \/ LeaseUpdateLoad \/ LeaseMarkAbsent
    BY <1>1, <2>1 DEF LeaseSelect, LeaseLoad, LeaseUpdateLoad, LeaseMarkAbsent
  <2>2. CASE LeaseUpdateCommit
    <3> DEFINE next == UpdatedRow(lease.snap, ExpiredDoc(lease.snap, lease.vms),
                                  lease.deleteRequested, FALSE)
    <3>1. LostRace \/ (lease.snap.rev = row.rev /\ WriteRow(next))
      BY <2>2 DEF LeaseUpdateCommit
    <3>2. /\ next.rev = NextRev(lease.snap.rev)
          /\ next.activeKey => lease.snap.activeKey
          /\ next.doc = ExpiredDoc(lease.snap, lease.vms)
      BY DEF UpdatedRow
    <3>3. GoodRow(lease.snap) /\ lease.vms \in SUBSET VMs
      BY DEF RecordInv, LeaseInv, LeaseStates
    <3>4. DocForward(lease.snap.doc, next.doc)
      BY <3>2, <3>3, WriterDocsForward
    <3> HIDE DEF next
    <3>5. QED
      BY <1>0, <1>1, <3>1, <3>2, <3>4, ComparedWrite DEF FreshInv
  <2>3. QED
    BY <1>6, <2>1, <2>2 DEF Lease
<1>7. CASE Expiry
  <2>1. CASE ExpirySelect \/ ExpiryLoad \/ ExpiryRevoke \/ ExpiryUpdateLoad
    BY <1>1, <2>1 DEF ExpirySelect, ExpiryLoad, ExpiryRevoke, ExpiryUpdateLoad
  <2>2. CASE ExpiryUpdateCommit
    <3> DEFINE next == UpdatedRow(expiry.snap, FinalizedDoc(expiry.snap),
                                  expiry.snap.deleteRequested, TRUE)
    <3>1. LostRace \/ (expiry.snap.rev = row.rev /\ WriteRow(next))
      BY <2>2 DEF ExpiryUpdateCommit
    <3>2. /\ next.rev = NextRev(expiry.snap.rev)
          /\ next.activeKey => expiry.snap.activeKey
          /\ next.doc = FinalizedDoc(expiry.snap)
      BY DEF UpdatedRow
    <3>3. GoodRow(expiry.snap)
      BY DEF RecordInv, ExpiryInv
    <3>4. DocForward(expiry.snap.doc, next.doc)
      BY <3>2, <3>3, WriterDocsForward
    <3> HIDE DEF next
    <3>5. QED
      BY <1>0, <1>1, <3>1, <3>2, <3>4, ComparedWrite DEF FreshInv
  <2>3. CASE ExpiryArchive
    <3>1. CASE row.activeKey
      <4>1. /\ row'.doc = row.doc /\ row'.activeKey = FALSE /\ row'.rev = NextRev(row.rev)
        BY <1>0, <2>3, <3>1 DEF ExpiryArchive, Rows
      <4>2. row'.rev > row.rev
        BY <1>0, <4>1, NextRevLater
      <4>3. QED
        BY <1>0, <4>1, <4>2, DocStays DEF Advanced, Revised
    <3>2. CASE ~row.activeKey
      <4>1. row' = row
        BY <2>3, <3>2 DEF ExpiryArchive
      <4>2. QED
        BY <1>0, <3>2, <4>1, DocStays DEF Advanced, Revised
    <3>3. QED
      BY <3>1, <3>2
  <2>4. QED
    BY <1>7, <2>1, <2>2, <2>3 DEF Expiry
<1>8. ASSUME NEW v \in VMs, Archive(v)
      PROVE  FALSE
  <2>1. archive[v].pc = "idle" /\ ledger[v] = "none"
    BY DEF FreshInv
  <2>2. QED
    BY <1>8, <2>1 DEF Archive, ArchiveBegin, ArchiveUpload, ArchiveComplete, BeginExec,
                      ArchiveLoad, BeginCommit, UploadCommit, CompleteCommit
<1>9. CASE Tick \/ LeaseElapses \/ RetireHost \/ Crash
  BY <1>1, <1>9 DEF Tick, LeaseElapses, RetireHost, Crash
<1>10. QED
  BY <1>2, <1>3, <1>4, <1>5, <1>6, <1>7, <1>8, <1>9 DEF Next

(* The snapshots stay behind the row. *)
LEMMA FreshStep ==
  ASSUME "archive" \notin Enabled, RecordInv, FreshInv, Next
  PROVE  FreshInv'
<1>0. RecordInv'
  BY NextGood
<1>1. Advanced
  BY RowAdvances
<1>2. row.rev \in Nat /\ row'.rev \in Nat
  BY <1>0 DEF RecordInv, RowInv, GoodRow, Rows
<1>3. ASSUME NEW s, s.rev \in Nat, Fresh(s, row)
      PROVE  Fresh(s, row')
  <2>1. CASE row'.rev > row.rev
    BY <1>2, <1>3, <2>1 DEF Fresh
  <2>2. CASE row'.rev = row.rev /\ row'.doc = row.doc /\ row'.activeKey = row.activeKey
               /\ row'.deleteRequested = row.deleteRequested
    BY <1>2, <1>3, <2>2 DEF Fresh
  <2>3. QED
    BY <1>1, <2>1, <2>2 DEF Advanced, Revised
<1>4. Fresh(row, row) /\ Fresh(InitialRow, row) /\ InitialRow.rev \in Nat
  <2>1. Fresh(row, row)
    BY <1>2 DEF Fresh
  <2>2. Fresh(InitialRow, row)
    BY DEF FreshInv
  <2>3. InitialRow.rev \in Nat
    BY DEF InitialRow
  <2>4. QED
    BY <2>1, <2>2, <2>3
<1>5. ASSUME NEW old, NEW new, GoodRow(old), Fresh(old, row), Taken(new, old)
      PROVE  Fresh(new, row')
  <2>1. old.rev \in Nat
    BY <1>5 DEF GoodRow, Rows
  <2>2. QED
    BY <1>2, <1>3, <1>4, <1>5, <2>1 DEF Taken
<1>6. Fresh(proj'.snap, row') /\ Fresh(lease'.snap, row') /\ Fresh(expiry'.snap, row')
  BY <1>5, SnapsTaken DEF RecordInv, ProjInv, LeaseInv, ExpiryInv, FreshInv
<1>7. \A d \in Destroyers : Fresh(destroy'[d].snap, row')
  BY <1>5, SnapsTaken DEF RecordInv, DestroyInv, FreshInv
<1>8. \A v \in VMs : archive'[v].pc = "idle" /\ ledger'[v] = "none"
  <2>1. ASSUME NEW v \in VMs, Archive(v)
        PROVE  FALSE
    <3>1. archive[v].pc = "idle" /\ ledger[v] = "none"
      BY DEF FreshInv
    <3>2. QED
      BY <2>1, <3>1 DEF Archive, ArchiveBegin, ArchiveUpload, ArchiveComplete, BeginExec,
                        ArchiveLoad, BeginCommit, UploadCommit, CompleteCommit
  <2>2. ASSUME NEW m \in Messages, ReceiveReport(m)
        PROVE  UNCHANGED <<archive, ledger>>
    BY <2>2 DEF ReceiveReport, artifactVars
  <2>3. CASE ProjectLoad \/ ProjectCommit \/ Reconnect
    BY <2>3 DEF ProjectLoad, ProjectCommit, Reconnect, artifactVars, FreshInv
  <2>4. ASSUME NEW d \in Destroyers, Destroy(d)
        PROVE  UNCHANGED <<archive, ledger>>
    BY <2>4
    DEF Destroy, DestroyLoad, DestroyRequest, DestroyRecord, DestroyUpdateLoad,
        DestroyTeardownCommit, DestroyMarkAbsent, DestroyRevoke, DestroyReleaseCommit,
        DestroyFinish, DestroyFrame, artifactVars
  <2>5. CASE Lease
    BY <2>5 DEF Lease, LeaseSelect, LeaseLoad, LeaseUpdateLoad, LeaseUpdateCommit,
                LeaseMarkAbsent, LeaseFrame, artifactVars, FreshInv
  <2>6. CASE Expiry
    BY <2>6 DEF Expiry, ExpirySelect, ExpiryLoad, ExpiryRevoke, ExpiryUpdateLoad,
                ExpiryUpdateCommit, ExpiryArchive, ExpiryFrame, artifactVars, FreshInv
  <2>7. CASE Tick \/ LeaseElapses \/ RetireHost
    BY <2>7 DEF Tick, LeaseElapses, RetireHost, artifactVars, FreshInv
  <2>8. CASE Crash
    <3>1. UNCHANGED ledger
      BY <2>8 DEF Crash, artifactVars
    <3>2. UNCHANGED archive \/ \E v \in VMs : archive[v].pc # "idle"
      BY <2>8 DEF Crash
    <3>3. QED
      BY <3>1, <3>2 DEF FreshInv
  <2>9. UNCHANGED <<archive, ledger>> => \A v \in VMs : archive'[v].pc = "idle" /\ ledger'[v] = "none"
    BY DEF FreshInv
  <2>10. QED
    BY <2>1, <2>2, <2>3, <2>4, <2>5, <2>6, <2>7, <2>8, <2>9 DEF Next
<1>9. Fresh(InitialRow, row')
  BY <1>3, <1>4
<1>10. row'.activeKey => slot'
  BY <1>1 DEF Advanced
<1>11. QED
  BY <1>6, <1>7, <1>8, <1>9, <1>10 DEF FreshInv

LEMMA FreshHolds ==
  ASSUME "archive" \notin Enabled
  PROVE  Spec => []FreshInv
<1>1. ASSUME Init
      PROVE  FreshInv
  <2>1. row = InitialRow /\ slot = TRUE /\ InitialRow.rev \in Nat
    BY <1>1 DEF Init, InitialRow
  <2>2. /\ proj.snap = InitialRow /\ lease.snap = InitialRow /\ expiry.snap = InitialRow
        /\ \A d \in Destroyers : destroy[d].snap = InitialRow
    BY <1>1 DEF Init, IdleProj, IdleExpiry, IdleLease, IdleDestroy
  <2>3. \A v \in VMs : archive[v].pc = "idle" /\ ledger[v] = "none"
    BY <1>1 DEF Init, IdleArchive
  <2>4. Fresh(InitialRow, InitialRow)
    BY <2>1 DEF Fresh
  <2>5. QED
    BY <2>1, <2>2, <2>3, <2>4 DEF FreshInv
<1>2. RecordInv /\ FreshInv /\ [Next]_vars => FreshInv'
  <2> SUFFICES ASSUME RecordInv, FreshInv, [Next]_vars
               PROVE  FreshInv'
    OBVIOUS
  <2>1. CASE Next
    BY <2>1, FreshStep
  <2>2. CASE UNCHANGED vars
    BY <2>2 DEF vars, FreshInv
  <2>3. QED
    BY <2>1, <2>2
<1>3. QED
  BY <1>1, <1>2, InvariantHolds, PTL DEF Spec

(* A report committed to an ended run leaves its phase alone. *)
LEMMA ReportStep ==
  ASSUME RecordInv, FreshInv, Next, Ended(row.doc), proj.pc = "commit", proj' # proj
  PROVE  row'.doc.phase = row.doc.phase
<1>1. CASE row' = row
  BY <1>1
<1>2. CASE ProjectCommit
  <2> DEFINE next == ProjectedRow(proj.snap, proj.msg)
             current == RecomputeRunState(proj.snap.doc)
  <2>1. row' = row \/ (proj.snap.rev = row.rev /\ row' = next)
    BY <1>2 DEF ProjectCommit, rowVars, LostRace, WriteRow
  <2>2. CASE proj.snap.rev = row.rev /\ row' = next
    <3>1. proj.snap.doc = row.doc
      BY <2>2 DEF FreshInv, Fresh
    <3>2. GoodDoc(proj.snap.doc, CpuOf) /\ proj.msg \in Messages \cup {NoMessage}
      BY DEF RecordInv, ProjInv, ProjStates, GoodRow
    <3>3. GoodDoc(current, CpuOf) /\ current.phase = row.doc.phase
      BY <3>1, <3>2, RecomputeGood, RecomputeSame
    <3> HIDE DEF current
    <3>4. Ended(current)
      BY <3>3 DEF Ended
    <3>5. MergedDoc(current, proj.msg).phase = row.doc.phase
      BY <3>2, <3>3, <3>4, MergedForward
    <3>6. next.doc = MergedDoc(current, proj.msg)
      BY ProjectedFields DEF current
    <3> HIDE DEF next
    <3>7. QED
      BY <2>2, <3>5, <3>6
  <2>3. QED
    BY <1>1, <2>1, <2>2
<1>3. ASSUME NEW m \in Messages, ReceiveReport(m)
      PROVE  FALSE
  BY <1>3 DEF ReceiveReport
<1>4. CASE ProjectLoad \/ Reconnect
  BY <1>1, <1>4 DEF ProjectLoad, Reconnect, rowVars
<1>5. ASSUME NEW d \in Destroyers, Destroy(d)
      PROVE  UNCHANGED proj
  BY <1>5
  DEF Destroy, DestroyLoad, DestroyRequest, DestroyRecord, DestroyUpdateLoad,
      DestroyTeardownCommit, DestroyMarkAbsent, DestroyRevoke, DestroyReleaseCommit,
      DestroyFinish, DestroyFrame
<1>6. CASE Lease
  <2>1. UNCHANGED proj
    BY <1>6 DEF Lease, LeaseSelect, LeaseLoad, LeaseUpdateLoad, LeaseUpdateCommit,
                LeaseMarkAbsent, LeaseFrame
  <2>2. QED
    BY <2>1
<1>7. CASE Expiry
  <2>1. UNCHANGED proj
    BY <1>7 DEF Expiry, ExpirySelect, ExpiryLoad, ExpiryRevoke, ExpiryUpdateLoad,
                ExpiryUpdateCommit, ExpiryArchive, ExpiryFrame
  <2>2. QED
    BY <2>1
<1>8. ASSUME NEW v \in VMs, Archive(v)
      PROVE  UNCHANGED proj
  BY <1>8 DEF Archive, ArchiveBegin, ArchiveUpload, ArchiveComplete, BeginExec,
         ArchiveLoad, BeginCommit, UploadCommit, CompleteCommit, ArchiveFrame
<1>9. CASE Tick \/ LeaseElapses \/ RetireHost \/ Crash
  BY <1>1, <1>9 DEF Tick, LeaseElapses, RetireHost, Crash, rowVars
<1>10. QED
  BY <1>2, <1>3, <1>4, <1>5, <1>6, <1>7, <1>8, <1>9 DEF Next

(* As long as every writer compares updated_at, no write of the row takes  *)
(* back another's: retired generations stay retired, a VM goes back only   *)
(* by retiring its generation, a report keeps the outcome of an ended run, *)
(* and an active key given up is not restored.                             *)
THEOREM RunRowMovesForward ==
  ASSUME "archive" \notin Enabled
  PROVE  Spec => RunRowForward
<1> DEFINE Step ==
             /\ \A v \in VMs : row.doc.vms[v].retired \subseteq row'.doc.vms[v].retired
             /\ \A v \in VMs :
                  LET old == row.doc.vms[v]
                      new == row'.doc.vms[v]
                  IN  CanAdvanceVmPhase(old.phase, new.phase) \/ old.gen \in new.retired
             /\ ActiveKeyNeverRestoredStep
             /\ Ended(row.doc) /\ proj.pc = "commit" /\ proj' # proj
                  => row'.doc.phase = row.doc.phase
<1>1. RecordInv /\ FreshInv /\ [Next]_vars => [Step]_vars
  <2> SUFFICES ASSUME RecordInv, FreshInv, Next
               PROVE  Step
    OBVIOUS
  <2>1. Advanced
    BY RowAdvances
  <2>2. QED
    BY <2>1, ReportStep DEF Advanced, DocForward, VmForward, ActiveKeyNeverRestoredStep
<1>2. [Step]_vars => /\ [\A v \in VMs : row.doc.vms[v].retired
                                          \subseteq row'.doc.vms[v].retired]_row
                     /\ [\A v \in VMs :
                           LET old == row.doc.vms[v]
                               new == row'.doc.vms[v]
                           IN  CanAdvanceVmPhase(old.phase, new.phase)
                                 \/ old.gen \in new.retired]_row
                     /\ [ActiveKeyNeverRestoredStep]_row
                     /\ [Ended(row.doc) /\ proj.pc = "commit" /\ proj' # proj
                           => row'.doc.phase = row.doc.phase]_vars
  BY DEF vars
<1> HIDE DEF Step
<1>3. QED
  BY <1>1, <1>2, InvariantHolds, FreshHolds, PTL
  DEF Spec, RunRowForward, GenerationsStayRetired, VmPhaseForward, ReportsKeepOutcome,
      ActiveKeyNeverRestored

(* Under the same condition the slot is held exactly while the run has its *)
(* active key.                                                             *)
THEOREM SlotCorrect ==
  ASSUME "archive" \notin Enabled
  PROVE  Spec => []SlotMatchesActiveKey
<1>1. RecordInv /\ RowSoundInv /\ FreshInv => SlotMatchesActiveKey
  <2> SUFFICES ASSUME RecordInv, RowSoundInv, FreshInv
               PROVE  slot = row.activeKey
    BY DEF SlotMatchesActiveKey
  <2>1. slot \in BOOLEAN /\ row.activeKey \in BOOLEAN
    BY DEF RecordInv, RowInv, GoodRow, Rows
  <2>2. (slot => row.activeKey) /\ (row.activeKey => slot)
    BY DEF RowSoundInv, SlotInv, FreshInv
  <2>3. QED
    BY <2>1, <2>2
<1>2. QED
  BY <1>1, RowSoundHolds, InvariantHolds, FreshHolds, PTL

(* Without the lease pass, which writes back the request it read earlier,  *)
(* no writer erases the request to end the run.                            *)
LEMMA RequestKept ==
  ASSUME "archive" \notin Enabled, "lease" \notin Enabled, RecordInv, FreshInv,
         lease.pc = "idle", Next
  PROVE  DeleteRequestKeptStep /\ lease'.pc = "idle"
<1>0. row \in Rows
  BY DEF RecordInv, RowInv, GoodRow
<1> DEFINE Goal == DeleteRequestKeptStep /\ lease'.pc = "idle"
<1> SUFFICES Goal
  OBVIOUS
<1>1. UNCHANGED lease /\ (UNCHANGED row \/ row'.deleteRequested = TRUE
                           \/ row'.deleteRequested = row.deleteRequested) => Goal
  BY DEF DeleteRequestKeptStep
<1> HIDE DEF Goal
<1>2. ASSUME NEW m \in Messages, ReceiveReport(m)
      PROVE  Goal
  BY <1>1, <1>2 DEF ReceiveReport, rowVars
<1>3. CASE ProjectLoad \/ Reconnect
  BY <1>1, <1>3 DEF ProjectLoad, Reconnect, rowVars
<1>4. CASE ProjectCommit
  <2> DEFINE next == ProjectedRow(proj.snap, proj.msg)
  <2>1. row' = row \/ (proj.snap.rev = row.rev /\ row' = next)
    BY <1>4 DEF ProjectCommit, rowVars, LostRace, WriteRow
  <2>2. next.deleteRequested = proj.snap.deleteRequested
    BY ProjectedFields
  <2> HIDE DEF next
  <2>3. row' = row \/ row'.deleteRequested = row.deleteRequested
    BY <2>1, <2>2 DEF FreshInv, Fresh
  <2>4. UNCHANGED lease
    BY <1>4 DEF ProjectCommit
  <2>5. QED
    BY <1>1, <2>3, <2>4
<1>5. ASSUME NEW d \in Destroyers, Destroy(d)
      PROVE  Goal
  <2>1. UNCHANGED lease
    BY <1>5 DEF Destroy, DestroyLoad, DestroyRequest, DestroyRecord, DestroyUpdateLoad,
                DestroyTeardownCommit, DestroyMarkAbsent, DestroyRevoke,
                DestroyReleaseCommit, DestroyFinish, DestroyFrame
  <2>2. CASE DestroyLoad(d) \/ DestroyUpdateLoad(d) \/ DestroyMarkAbsent(d) \/ DestroyRevoke(d)
    BY <1>1, <2>1, <2>2
    DEF DestroyLoad, DestroyUpdateLoad, DestroyMarkAbsent, DestroyRevoke, rowVars
  <2>3. CASE DestroyRequest(d) \/ DestroyRecord(d) \/ DestroyFinish(d)
    <3>1. row'.deleteRequested = TRUE \/ row'.deleteRequested = row.deleteRequested
      BY <1>0, <2>3 DEF DestroyRequest, DestroyRecord, DestroyFinish, Rows
    <3>2. QED
      BY <1>1, <2>1, <3>1
  <2>4. CASE DestroyTeardownCommit(d) \/ DestroyReleaseCommit(d)
    <3>1. row' = row \/ row'.deleteRequested = TRUE
      BY <2>4 DEF DestroyTeardownCommit, DestroyReleaseCommit, LostRace, WriteRow, UpdatedRow
    <3>2. QED
      BY <1>1, <2>1, <3>1
  <2>5. QED
    BY <1>5, <2>2, <2>3, <2>4 DEF Destroy
<1>6. CASE Lease
  BY <1>6 DEF Lease, LeaseSelect, LeaseLoad, LeaseUpdateLoad, LeaseUpdateCommit,
              LeaseMarkAbsent
<1>7. CASE Expiry
  <2>1. UNCHANGED lease
    BY <1>7 DEF Expiry, ExpirySelect, ExpiryLoad, ExpiryRevoke, ExpiryUpdateLoad,
                ExpiryUpdateCommit, ExpiryArchive, ExpiryFrame
  <2>2. CASE ExpirySelect \/ ExpiryLoad \/ ExpiryRevoke \/ ExpiryUpdateLoad
    BY <1>1, <2>1, <2>2
    DEF ExpirySelect, ExpiryLoad, ExpiryRevoke, ExpiryUpdateLoad, rowVars
  <2>3. CASE ExpiryUpdateCommit
    <3> DEFINE next == UpdatedRow(expiry.snap, FinalizedDoc(expiry.snap),
                                  expiry.snap.deleteRequested, TRUE)
    <3>1. row' = row \/ (expiry.snap.rev = row.rev /\ row' = next)
      BY <2>3 DEF ExpiryUpdateCommit, LostRace, WriteRow
    <3>2. next.deleteRequested = expiry.snap.deleteRequested
      BY DEF UpdatedRow
    <3> HIDE DEF next
    <3>3. row' = row \/ row'.deleteRequested = row.deleteRequested
      BY <3>1, <3>2 DEF FreshInv, Fresh
    <3>4. QED
      BY <1>1, <2>1, <3>3
  <2>4. CASE ExpiryArchive
    <3>1. row'.deleteRequested = row.deleteRequested
      BY <1>0, <2>4 DEF ExpiryArchive, Rows
    <3>2. QED
      BY <1>1, <2>1, <3>1
  <2>5. QED
    BY <1>7, <2>2, <2>3, <2>4 DEF Expiry
<1>8. ASSUME NEW v \in VMs, Archive(v)
      PROVE  Goal
  <2>1. archive[v].pc = "idle" /\ ledger[v] = "none"
    BY DEF FreshInv
  <2>2. QED
    BY <1>8, <2>1 DEF Archive, ArchiveBegin, ArchiveUpload, ArchiveComplete, BeginExec,
                      ArchiveLoad, BeginCommit, UploadCommit, CompleteCommit
<1>9. CASE Tick \/ LeaseElapses \/ RetireHost
  BY <1>1, <1>9 DEF Tick, LeaseElapses, RetireHost, rowVars
<1>10. CASE Crash
  <2>1. UNCHANGED row /\ UNCHANGED lease
    BY <1>10 DEF Crash, rowVars
  <2>2. QED
    BY <1>1, <2>1
<1>11. QED
  BY <1>2, <1>3, <1>4, <1>5, <1>6, <1>7, <1>8, <1>9, <1>10 DEF Next

(* Reports, requests and the expiry pass never erase the request to end a  *)
(* run (delete_requested_at), whatever they interleave.                    *)
THEOREM DeleteRequestCorrect ==
  ASSUME "archive" \notin Enabled, "lease" \notin Enabled
  PROVE  Spec => DeleteRequestKept
<1> DEFINE Idle == lease.pc = "idle"
<1>1. Init => Idle
  BY DEF Init, IdleLease
<1>2. RecordInv /\ FreshInv /\ Idle /\ [Next]_vars
        => Idle' /\ [DeleteRequestKeptStep]_row
  <2> SUFFICES ASSUME RecordInv, FreshInv, Idle, [Next]_vars
               PROVE  Idle' /\ [DeleteRequestKeptStep]_row
    OBVIOUS
  <2>1. CASE Next
    BY <2>1, RequestKept
  <2>2. CASE UNCHANGED vars
    BY <2>2 DEF vars
  <2>3. QED
    BY <2>1, <2>2
<1> HIDE DEF Idle
<1>3. QED
  BY <1>1, <1>2, InvariantHolds, FreshHolds, PTL DEF Spec, DeleteRequestKept

=============================================================================
