------------------------------ MODULE RunRecord -----------------------------
(***************************************************************************)
(* The durable scenario run row and its concurrent writers.  Each handler  *)
(* reads the row, computes, and writes later in one D1 batch, so a handler *)
(* is one action per round trip and keeps what it read in between:         *)
(*   proj      host reports projected by the host's Durable Object         *)
(*   destroy   users ending the run (one record per concurrent request)    *)
(*   lease     the reconcile pass that expires desired-state leases        *)
(*   expiry    the pass that finalizes expired executions                  *)
(*   archive   the artifact endpoints the agent calls, per VM              *)
(* Any handler can stop between two round trips (Crash): an isolate is     *)
(* evicted, a call throws, an eight-attempt CAS loop runs out.             *)
(***************************************************************************)
EXTENDS RunState, FiniteSets

CONSTANTS
  Messages,    \* the reports the host may send: [kind, vms]
  Destroyers,  \* concurrent requests to end the run
  NoCleanup,   \* route_cleanup_id is null
  Enabled,     \* which other handlers take part: a subset of HandlerNames
  MaxRev,      \* bound: largest updated_at explored
  MaxSession   \* bound: bridge sessions opened

HandlerNames == {"proj", "lease", "expiry", "archive"}

IsMessage(m) ==
  /\ m = [kind |-> m.kind, vms |-> m.vms]
  /\ m.kind \in {"host", "vm"}
  /\ DOMAIN m.vms \subseteq VMs
  /\ m.vms \in [DOMAIN m.vms -> VmReports]

ASSUME RecordAssumption ==
  /\ \A m \in Messages : IsMessage(m)
  /\ NoCleanup \notin Destroyers
  /\ Enabled \subseteq HandlerNames
  /\ MaxRev \in Nat \ {0}
  /\ MaxSession \in Nat \ {0}

(* The agent reports the CPU limit a VM was launched with, so two reports  *)
(* of one generation agree on it.                                          *)
ASSUME CpuPerGeneration ==
  \A m, n \in Messages : \A v \in DOMAIN m.vms, w \in DOMAIN n.vms :
    m.vms[v].gen = n.vms[w].gen /\ m.vms[v].gen # NoGen
      => m.vms[v].cpu = n.vms[w].cpu

VARIABLES
  row,        \* the scenario_runs row
  exec,       \* runtime_executions.state of the run's execution
  slot,       \* is the user's active_runtime_slots row this run's?
  desired,    \* [VMs -> desired_phase] in the host's desired state
  routes,     \* can a terminal route of the run still be used?
  ledger,     \* [VMs -> the VM's artifact: none, pending, uploaded]
  sealed,     \* [VMs -> artifact_writes_sealed]
  clock,      \* Date.now() of the workers
  session,    \* agent_hosts.active_session_id
  leaseOver,  \* have the run's desired-state leases passed?
  retired,    \* has the host been retired (execution lease set to now)?
  proj, destroy, lease, expiry, archive   \* handlers in flight

rowVars == <<row, exec, slot>>
hostVars == <<session, leaseOver, retired, clock>>
artifactVars == <<ledger, sealed>>
vars == <<row, exec, slot, desired, routes, ledger, sealed, clock, session,
          leaseOver, retired, proj, destroy, lease, expiry, archive>>

-----------------------------------------------------------------------------
(* The row.  completed_at and failed_at are set exactly when the phase is  *)
(* completed or failed, by every writer, and are read off it.              *)
Rows == [doc : RunDocs, deleteRequested : BOOLEAN, activeKey : BOOLEAN,
         solved : BOOLEAN, cleanup : Destroyers \cup {NoCleanup}, rev : Nat]

InitialRow ==
  [doc |-> BuildInitialRunState, deleteRequested |-> FALSE,
   activeKey |-> TRUE, solved |-> FALSE, cleanup |-> NoCleanup, rev |-> 1]

Ended(doc) == doc.phase \in TerminalRunPhases

Later(a, b) == IF a > b THEN a ELSE b

(* Math.max(Date.now(), row.updatedAt + 1) *)
NextRev(rev) == Later(clock, rev + 1)

NextSolvedAt(solved, currentPhase, nextPhase) ==
  solved \/ currentPhase = "solved" \/ nextPhase = "solved"

(* Mutant: the completed run is not mapped to an archived execution. *)
ExecStateUnmapped(phase) ==
  CASE phase \in {"teardown_requested", "tearing_down", "archiving"} -> "archiving"
    [] phase \in {"active_partial", "active_full", "solved"} -> "ready"
    [] OTHER -> phase

ExecStateOf(phase) ==
  CASE phase \in {"queued", "provisioning", "failed"} -> phase
    [] phase \in {"teardown_requested", "tearing_down", "archiving"} -> "archiving"
    [] phase = "completed" -> "archived"
    [] OTHER -> "ready"

(* Mutant: the slot of a run without active_key is not deleted. *)
ProjectRuntimeKeepsSlot(r, e) ==
  LET e2 == IF e = "archived" THEN e ELSE ExecStateOf(r.doc.phase)
  IN  exec' = e2 /\ slot' = (slot \/ (r.activeKey /\ e2 # "archived"))

(* The statements appended to every run write: the execution mirrors the   *)
(* row unless archived, and the slot follows active_key.  They read the    *)
(* authoritative row r, also when the write itself lost its race.          *)
ProjectRuntime(r, e) ==
  LET e2 == IF e = "archived" THEN e ELSE ExecStateOf(r.doc.phase)
  IN  /\ exec' = e2
      /\ slot' = IF r.activeKey THEN slot \/ e2 # "archived" ELSE FALSE

WriteRow(r) == row' = r /\ ProjectRuntime(r, exec)
LostRace == row' = row /\ ProjectRuntime(row, exec)

(* updateRunState: the row written from the snapshot the attempt loaded. *)
UpdatedRow(snap, next, deleteRequested, release) ==
  [doc |-> next, deleteRequested |-> deleteRequested,
   activeKey |-> /\ snap.activeKey
                 /\ ~release
                 /\ deleteRequested \/ ~Ended(next),
   solved |-> NextSolvedAt(snap.solved, RecomputeRunState(snap.doc).phase, next.phase),
   cleanup |-> row.cleanup, rev |-> NextRev(snap.rev)]

-----------------------------------------------------------------------------
NoMessage == [kind |-> "vm", vms |-> [v \in {} |-> InitialVmState]]

IdleProj == [pc |-> "idle", snap |-> InitialRow, msg |-> NoMessage, session |-> 0]
IdleDestroy == [pc |-> "idle", snap |-> InitialRow, vms |-> {}, cleanup |-> NoCleanup]
IdleLease == [pc |-> "idle", snap |-> InitialRow, vms |-> {}, deleteRequested |-> FALSE]
IdleExpiry == [pc |-> "idle", snap |-> InitialRow]
IdleArchive == [pc |-> "idle", snap |-> InitialRow, now |-> 0]

Init ==
  /\ row = InitialRow
  /\ exec = "queued" /\ slot = TRUE
  /\ desired = [v \in VMs |-> "running"]
  /\ routes = TRUE
  /\ ledger = [v \in VMs |-> "none"] /\ sealed = [v \in VMs |-> FALSE]
  /\ clock = 1 /\ session = 1 /\ leaseOver = FALSE /\ retired = FALSE
  /\ proj = IdleProj
  /\ destroy = [d \in Destroyers |-> IdleDestroy]
  /\ lease = IdleLease /\ expiry = IdleExpiry
  /\ archive = [v \in VMs |-> IdleArchive]

-----------------------------------------------------------------------------
(* Projection of host reports: applyBridgeStateReport, applyBridgeVmReport *)
(* and persistRunState.  The per-run queue admits one at a time.           *)

(* A state_report visits only runs it lists as open; a vm_report needs an  *)
(* execution that is not archived.                                         *)
ReceiveReport(m) ==
  /\ "proj" \in Enabled
  /\ proj.pc = "idle"
  /\ IF m.kind = "host" THEN ~Ended(row.doc) ELSE exec # "archived"
  /\ proj' = [proj EXCEPT !.pc = "load", !.msg = m, !.session = session]
  /\ UNCHANGED <<rowVars, desired, routes, artifactVars, hostVars,
                 destroy, lease, expiry, archive>>

ProjectLoad ==
  /\ proj.pc = "load"
  /\ proj' = [proj EXCEPT !.pc = "commit", !.snap = row]
  /\ UNCHANGED <<rowVars, desired, routes, artifactVars, hostVars,
                 destroy, lease, expiry, archive>>

(* The document persistRunState writes: the run phase never moves back. *)
MergedDoc(current, msg) ==
  LET recomputed == ApplyReportsToRunState(current, msg.vms)
  IN  IF CanAdvanceRunPhase(current.phase, recomputed.phase) THEN recomputed
      ELSE [recomputed EXCEPT !.phase = current.phase]

(* Mutant: a report that ends the run leaves active_key alone. *)
ProjectedRowKeepsKey(snap, msg) ==
  LET current == RecomputeRunState(snap.doc)
      merged  == MergedDoc(current, msg)
  IN  [doc |-> merged, deleteRequested |-> snap.deleteRequested,
       activeKey |-> snap.activeKey,
       solved |-> NextSolvedAt(snap.solved, current.phase, merged.phase),
       cleanup |-> row.cleanup, rev |-> NextRev(snap.rev)]

ProjectedRow(snap, msg) ==
  LET current == RecomputeRunState(snap.doc)
      merged  == MergedDoc(current, msg)
  IN  [doc |-> merged, deleteRequested |-> snap.deleteRequested,
       activeKey |-> snap.activeKey /\ (snap.deleteRequested \/ ~Ended(merged)),
       solved |-> NextSolvedAt(snap.solved, current.phase, merged.phase),
       cleanup |-> row.cleanup, rev |-> NextRev(snap.rev)]

ProjectionUnchanged(snap, next) ==
  /\ next.doc = RecomputeRunState(snap.doc)
  /\ next.activeKey = snap.activeKey /\ next.solved = snap.solved

(* Mutant: the projection writes without comparing updated_at. *)
ProjectCommitBlind ==
  LET next == ProjectedRow(proj.snap, proj.msg) IN
  /\ proj.pc = "commit"
  /\ proj' = IdleProj
  /\ IF ProjectionUnchanged(proj.snap, next) THEN UNCHANGED rowVars
     ELSE next.rev <= MaxRev /\ WriteRow(next)
  /\ UNCHANGED <<desired, routes, artifactVars, hostVars, destroy, lease,
                 expiry, archive>>

(* The compare-and-swap, fenced by the execution and by the host session.  *)
ProjectCommit ==
  /\ proj.pc = "commit"
  /\ LET next == ProjectedRow(proj.snap, proj.msg)
     IN  IF ProjectionUnchanged(proj.snap, next)
         THEN proj' = IdleProj /\ UNCHANGED rowVars
         ELSE IF /\ proj.snap.rev = row.rev
                 /\ exec # "archived" /\ proj.session = session
         THEN next.rev <= MaxRev /\ proj' = IdleProj /\ WriteRow(next)
         ELSE /\ LostRace
              /\ proj' = IF exec = "archived" \/ proj.session # session
                         THEN IdleProj ELSE [proj EXCEPT !.pc = "load"]
  /\ UNCHANGED <<desired, routes, artifactVars, hostVars, destroy, lease,
                 expiry, archive>>

(* A hello on a new connection replaces the active session. *)
Reconnect ==
  /\ session < MaxSession
  /\ session' = session + 1
  /\ UNCHANGED <<rowVars, desired, routes, artifactVars, leaseOver, retired,
                 clock, proj, destroy, lease, expiry, archive>>

-----------------------------------------------------------------------------
(* Ending a run: destroyScenarioRunForUserWithDependencies. *)

DestroyFrame == UNCHANGED <<artifactVars, hostVars, proj, lease, expiry, archive>>

DestroyStep(d, from, to) ==
  /\ destroy[d].pc = from
  /\ destroy' = [destroy EXCEPT ![d].pc = to]

(* loadRunRow; teardownVms are the VMs not completed at this read. *)
DestroyLoad(d) ==
  /\ destroy[d].pc = "idle"
  /\ destroy' = [destroy EXCEPT ![d] =
       [pc |-> "request", snap |-> row, cleanup |-> NoCleanup,
        vms |-> {v \in VMs : row.doc.vms[v].phase # "completed"}]]
  /\ UNCHANGED <<rowVars, desired, routes>> /\ DestroyFrame

(* Mutant: the request is recorded without the cleanup to carry out. *)
DestroyRequestUnsaved(d) ==
  /\ destroy[d].pc = "request"
  /\ NextRev(row.rev) <= MaxRev
  /\ row' = [row EXCEPT !.deleteRequested = TRUE, !.rev = NextRev(row.rev)]
  /\ destroy' = [destroy EXCEPT
       ![d].cleanup = d,
       ![d].pc = IF Ended(destroy[d].snap.doc) THEN "record" ELSE "teardown_load"]
  /\ UNCHANGED <<exec, slot, desired, routes>> /\ DestroyFrame

(* requestScenarioRunRouteCleanup: one statement, both columns coalesced. *)
DestroyRequest(d) ==
  LET id == IF row.cleanup = NoCleanup THEN d ELSE row.cleanup IN
  /\ destroy[d].pc = "request"
  /\ NextRev(row.rev) <= MaxRev
  /\ row' = [row EXCEPT !.cleanup = id, !.deleteRequested = TRUE,
                        !.rev = NextRev(row.rev)]
  /\ destroy' = [destroy EXCEPT
       ![d].cleanup = id,
       ![d].pc = IF Ended(destroy[d].snap.doc) THEN "record" ELSE "teardown_load"]
  /\ UNCHANGED <<exec, slot, desired, routes>> /\ DestroyFrame

(* A run that had ended keeps its outcome; only the request is recorded. *)
DestroyRecord(d) ==
  /\ NextRev(row.rev) <= MaxRev
  /\ DestroyStep(d, "record", "absent")
  /\ row' = [row EXCEPT !.deleteRequested = TRUE, !.rev = NextRev(row.rev)]
  /\ UNCHANGED <<exec, slot, desired, routes>> /\ DestroyFrame

(* Both updateRunState calls of the handler start by loading the row. *)
DestroyUpdateLoad(d) ==
  /\ destroy[d].pc \in {"teardown_load", "release_load"}
  /\ destroy' = [destroy EXCEPT
       ![d].snap = row,
       ![d].pc = IF destroy[d].pc = "teardown_load"
                 THEN "teardown_commit" ELSE "release_commit"]
  /\ UNCHANGED <<rowVars, desired, routes>> /\ DestroyFrame

TeardownDoc(snap) ==
  RecomputeRunState([RecomputeRunState(snap.doc) EXCEPT !.phase = "teardown_requested"])

DestroyTeardownCommit(d) ==
  LET snap == destroy[d].snap
      next == UpdatedRow(snap, TeardownDoc(snap), TRUE, FALSE) IN
  /\ destroy[d].pc = "teardown_commit"
  /\ IF snap.rev = row.rev
     THEN next.rev <= MaxRev /\ WriteRow(next) /\ DestroyStep(d, "teardown_commit", "absent")
     ELSE LostRace /\ DestroyStep(d, "teardown_commit", "teardown_load")
  /\ UNCHANGED <<desired, routes>> /\ DestroyFrame

(* markRunVmsAbsentInDesiredState *)
DestroyMarkAbsent(d) ==
  /\ DestroyStep(d, "absent", "revoke")
  /\ desired' = [v \in VMs |-> IF v \in destroy[d].vms THEN "absent" ELSE desired[v]]
  /\ UNCHANGED <<rowVars, routes>> /\ DestroyFrame

(* A revocation that fails ends the request with 503: that is Crash. *)
DestroyRevoke(d) ==
  /\ DestroyStep(d, "revoke", "release_load")
  /\ routes' = FALSE
  /\ UNCHANGED <<rowVars, desired>> /\ DestroyFrame

(* Mutant: the last update does not release the active key. *)
DestroyReleaseNothing(d) ==
  LET snap == destroy[d].snap
      next == UpdatedRow(snap, RecomputeRunState(RecomputeRunState(snap.doc)), TRUE, FALSE) IN
  /\ destroy[d].pc = "release_commit"
  /\ IF snap.rev = row.rev
     THEN next.rev <= MaxRev /\ WriteRow(next) /\ DestroyStep(d, "release_commit", "finish")
     ELSE LostRace /\ DestroyStep(d, "release_commit", "release_load")
  /\ UNCHANGED <<desired, routes>> /\ DestroyFrame

(* The identity mutation still recomputes.  releaseActiveRuntimeSlot then  *)
(* repeats what the batch did: active_key is null and the slot is gone.    *)
DestroyReleaseCommit(d) ==
  LET snap == destroy[d].snap
      next == UpdatedRow(snap, RecomputeRunState(RecomputeRunState(snap.doc)), TRUE, TRUE) IN
  /\ destroy[d].pc = "release_commit"
  /\ IF snap.rev = row.rev
     THEN next.rev <= MaxRev /\ WriteRow(next) /\ DestroyStep(d, "release_commit", "finish")
     ELSE LostRace /\ DestroyStep(d, "release_commit", "release_load")
  /\ UNCHANGED <<desired, routes>> /\ DestroyFrame

(* completeScenarioRunRouteCleanup clears only the request it carried out. *)
DestroyFinish(d) ==
  /\ destroy[d].pc = "finish"
  /\ row' = [row EXCEPT !.cleanup = IF @ = destroy[d].cleanup THEN NoCleanup ELSE @]
  /\ destroy' = [destroy EXCEPT ![d] = IdleDestroy]
  /\ UNCHANGED <<exec, slot, desired, routes>> /\ DestroyFrame

Destroy(d) ==
  \/ DestroyLoad(d) \/ DestroyRequest(d) \/ DestroyRecord(d)
  \/ DestroyUpdateLoad(d) \/ DestroyTeardownCommit(d) \/ DestroyMarkAbsent(d)
  \/ DestroyRevoke(d) \/ DestroyReleaseCommit(d) \/ DestroyFinish(d)

-----------------------------------------------------------------------------
(* expireOverdueRunLeases *)

LeaseFrame == UNCHANGED <<routes, artifactVars, hostVars, proj, destroy, expiry, archive>>

LeaseSelect ==
  LET overdue == {v \in VMs : desired[v] = "running"} IN
  /\ "lease" \in Enabled
  /\ lease.pc = "idle" /\ leaseOver /\ overdue # {}
  /\ lease' = [lease EXCEPT !.pc = "load", !.vms = overdue]
  /\ UNCHANGED <<rowVars, desired>> /\ LeaseFrame

LeaseLoad ==
  /\ lease.pc = "load"
  /\ lease' = [lease EXCEPT !.pc = IF Ended(row.doc) THEN "absent" ELSE "update_load",
                            !.deleteRequested = row.deleteRequested]
  /\ UNCHANGED <<rowVars, desired>> /\ LeaseFrame

LeaseUpdateLoad ==
  /\ lease.pc = "update_load"
  /\ lease' = [lease EXCEPT !.pc = "update_commit", !.snap = row]
  /\ UNCHANGED <<rowVars, desired>> /\ LeaseFrame

ExpiredDoc(snap, expired) ==
  LET current == RecomputeRunState(snap.doc)
      vms == [v \in VMs |-> IF v \in expired
                            THEN [current.vms[v] EXCEPT !.phase = "failed",
                                                        !.terminal = "failed"]
                            ELSE current.vms[v]]
  IN  RecomputeRunState(RecomputeRunState([phase |-> "failed", vms |-> vms]))

(* Mutant: the lease pass writes without comparing updated_at. *)
LeaseUpdateBlind ==
  LET next == UpdatedRow(lease.snap, ExpiredDoc(lease.snap, lease.vms),
                         lease.deleteRequested, FALSE) IN
  /\ lease.pc = "update_commit"
  /\ next.rev <= MaxRev /\ WriteRow(next) /\ lease' = [lease EXCEPT !.pc = "absent"]
  /\ UNCHANGED desired /\ LeaseFrame

(* The delete_requested_at written is the one read by LeaseLoad. *)
LeaseUpdateCommit ==
  LET snap == lease.snap
      next == UpdatedRow(snap, ExpiredDoc(snap, lease.vms), lease.deleteRequested, FALSE) IN
  /\ lease.pc = "update_commit"
  /\ IF snap.rev = row.rev
     THEN next.rev <= MaxRev /\ WriteRow(next) /\ lease' = [lease EXCEPT !.pc = "absent"]
     ELSE LostRace /\ lease' = [lease EXCEPT !.pc = "update_load"]
  /\ UNCHANGED desired /\ LeaseFrame

LeaseMarkAbsent ==
  /\ lease.pc = "absent"
  /\ desired' = [v \in VMs |-> IF v \in lease.vms THEN "absent" ELSE desired[v]]
  /\ lease' = IdleLease
  /\ UNCHANGED rowVars /\ LeaseFrame

Lease == LeaseSelect \/ LeaseLoad \/ LeaseUpdateLoad \/ LeaseUpdateCommit \/ LeaseMarkAbsent

-----------------------------------------------------------------------------
(* expireOverdueRuntimeExecutions and archiveRuntimeExecution *)

ExpiryFrame == UNCHANGED <<desired, artifactVars, hostVars, proj, destroy, lease, archive>>

ExpirySelect ==
  /\ "expiry" \in Enabled
  /\ expiry.pc = "idle" /\ retired /\ exec # "archived"
  /\ expiry' = [expiry EXCEPT !.pc = "load"]
  /\ UNCHANGED <<rowVars, routes>> /\ ExpiryFrame

ExpiryLoad ==
  /\ expiry.pc = "load"
  /\ expiry' = [pc |-> "revoke", snap |-> row]
  /\ UNCHANGED <<rowVars, routes>> /\ ExpiryFrame

ExpiryRevoke ==
  /\ expiry.pc = "revoke"
  /\ routes' = FALSE
  /\ expiry' = [expiry EXCEPT !.pc = IF Ended(expiry.snap.doc) THEN "archive"
                                     ELSE "update_load"]
  /\ UNCHANGED rowVars /\ ExpiryFrame

ExpiryUpdateLoad ==
  /\ expiry.pc = "update_load"
  /\ expiry' = [pc |-> "update_commit", snap |-> row]
  /\ UNCHANGED <<rowVars, routes>> /\ ExpiryFrame

FinalizedDoc(snap) ==
  LET current == RecomputeRunState(snap.doc)
  IN  RecomputeRunState(IF Ended(current) THEN current
                        ELSE [current EXCEPT !.phase = "failed"])

ExpiryUpdateCommit ==
  LET snap == expiry.snap
      next == UpdatedRow(snap, FinalizedDoc(snap), snap.deleteRequested, TRUE) IN
  /\ expiry.pc = "update_commit"
  /\ IF snap.rev = row.rev
     THEN next.rev <= MaxRev /\ WriteRow(next) /\ expiry' = [expiry EXCEPT !.pc = "archive"]
     ELSE LostRace /\ expiry' = [expiry EXCEPT !.pc = "update_load"]
  /\ UNCHANGED routes /\ ExpiryFrame

ExpiryArchive ==
  /\ expiry.pc = "archive"
  /\ row.activeKey => NextRev(row.rev) <= MaxRev
  /\ row' = IF row.activeKey
            THEN [row EXCEPT !.activeKey = FALSE, !.rev = NextRev(row.rev)] ELSE row
  /\ exec' = "archived" /\ slot' = FALSE
  /\ expiry' = IdleExpiry
  /\ UNCHANGED routes /\ ExpiryFrame

Expiry == \/ ExpirySelect \/ ExpiryLoad \/ ExpiryRevoke \/ ExpiryUpdateLoad
          \/ ExpiryUpdateCommit \/ ExpiryArchive

-----------------------------------------------------------------------------
(* The artifact endpoints: begin, artifact complete and run complete.      *)
(* Each takes Date.now() when it starts and stamps the row with it; its    *)
(* write is conditional on the document, not on updated_at.                *)

ArchiveFrame == UNCHANGED <<desired, routes, hostVars, proj, destroy, lease, expiry>>

ArchiveGoto(v, pc) == archive' = [archive EXCEPT ![v].pc = pc]
ArchiveDone(v) == archive' = [archive EXCEPT ![v] = IdleArchive]

(* artifactWriteCondition without allowSealed *)
Writable(v) == ~sealed[v] /\ row.doc.vms[v].phase # "completed"

(* The agent archives a VM it was told to remove.  handleBeginRunUpload    *)
(* reserves the manifest before it moves the run.                          *)
ArchiveBegin(v) ==
  /\ "archive" \in Enabled
  /\ archive[v].pc = "idle" /\ desired[v] = "absent" /\ Writable(v)
  /\ ledger' = [ledger EXCEPT ![v] = IF @ = "none" THEN "pending" ELSE @]
  /\ archive' = [archive EXCEPT ![v].pc = "begin_exec", ![v].now = clock]
  /\ UNCHANGED <<rowVars, sealed>> /\ ArchiveFrame

ArchiveUpload(v) ==
  /\ archive[v].pc = "idle" /\ ledger[v] = "pending" /\ Writable(v)
  /\ archive' = [archive EXCEPT ![v].pc = "upload_load", ![v].now = clock]
  /\ UNCHANGED <<rowVars, artifactVars>> /\ ArchiveFrame

(* A completion that was already sealed may be repeated. *)
ArchiveComplete(v) ==
  /\ archive[v].pc = "idle" /\ ledger[v] = "uploaded"
  /\ archive' = [archive EXCEPT ![v].pc = "complete_load", ![v].now = clock]
  /\ UNCHANGED <<rowVars, artifactVars>> /\ ArchiveFrame

(* Mutant: an archived execution goes back to archiving. *)
BeginExecReopens(v) ==
  /\ archive[v].pc = "begin_exec"
  /\ IF Writable(v) THEN exec' = "archiving" /\ ArchiveGoto(v, "begin_load")
     ELSE ArchiveDone(v) /\ UNCHANGED exec
  /\ UNCHANGED <<row, slot, artifactVars>> /\ ArchiveFrame

BeginExec(v) ==
  /\ archive[v].pc = "begin_exec"
  /\ IF Writable(v)
     THEN /\ exec' = IF exec \in {"queued", "provisioning", "ready"}
                     THEN "archiving" ELSE exec
          /\ ArchiveGoto(v, "begin_load")
     ELSE ArchiveDone(v) /\ UNCHANGED exec
  /\ UNCHANGED <<row, slot, artifactVars>> /\ ArchiveFrame

ArchiveLoad(v) ==
  /\ archive[v].pc \in {"begin_load", "upload_load", "complete_load"}
  /\ archive' = [archive EXCEPT
       ![v].snap = row,
       ![v].pc = CASE archive[v].pc = "begin_load" -> "begin_commit"
                   [] archive[v].pc = "upload_load" -> "upload_commit"
                   [] OTHER -> "complete_commit"]
  /\ UNCHANGED <<rowVars, artifactVars>> /\ ArchiveFrame

DeriveArchiveRunPhase(vms) ==
  IF SomeVm(vms, {"failed"}) THEN "failed"
  ELSE IF EveryVm(vms, {"completed", "failed"}) THEN "completed"
  ELSE IF SomeVm(vms, {"destroying"}) THEN "tearing_down"
  ELSE IF SomeVm(vms, {"archived", "completed"}) THEN "archiving"
  ELSE "tearing_down"

ArchivingDoc(doc, v) ==
  LET vm == doc.vms[v]
      next == IF vm.phase # "failed" /\ CanAdvanceVmPhase(vm.phase, "archived")
              THEN RecomputeRunState([doc EXCEPT !.vms[v].phase = "archived"])
              ELSE RecomputeRunState(doc)
  IN  RecomputeRunState([next EXCEPT !.phase = DeriveArchiveRunPhase(next.vms)])

CompletedDoc(doc, v) ==
  LET next == RecomputeRunState([doc EXCEPT !.vms[v].phase = "completed"])
      phase == IF next.phase = "failed" THEN "failed"
               ELSE IF EveryVm(next.vms, {"completed", "failed"}) THEN "completed"
               ELSE DeriveArchiveRunPhase(next.vms)
  IN  RecomputeRunState([next EXCEPT !.phase = phase])

(* persistStoredRunLifecycle: delete_requested_at and active_key are taken *)
(* from the authoritative row.                                             *)
StoredRow(snap, doc, now) ==
  [row EXCEPT !.doc = doc,
              !.activeKey = row.activeKey /\ (row.deleteRequested \/ ~Ended(doc)),
              !.solved = NextSolvedAt(snap.solved, snap.doc.phase, doc.phase),
              !.rev = now]

BeginCommit(v) ==
  /\ archive[v].pc = "begin_commit"
  /\ IF ~Writable(v) THEN ArchiveDone(v) /\ UNCHANGED rowVars
     ELSE IF archive[v].snap.doc # row.doc
     THEN ArchiveGoto(v, "begin_exec") /\ UNCHANGED rowVars
     ELSE /\ WriteRow(StoredRow(archive[v].snap,
                                ArchivingDoc(archive[v].snap.doc, v), archive[v].now))
          /\ ArchiveDone(v)
  /\ UNCHANGED artifactVars /\ ArchiveFrame

(* markArtifactUploaded for session media: the ledger and the document. *)
UploadCommit(v) ==
  /\ archive[v].pc = "upload_commit"
  /\ IF ~Writable(v) THEN ArchiveDone(v) /\ UNCHANGED <<row, ledger>>
     ELSE IF archive[v].snap.doc # row.doc
     THEN ArchiveGoto(v, "upload_load") /\ UNCHANGED <<row, ledger>>
     ELSE /\ row' = [row EXCEPT
               !.doc = RecomputeRunState([archive[v].snap.doc EXCEPT !.vms[v].media = TRUE]),
               !.rev = archive[v].now]
          /\ ledger' = [ledger EXCEPT ![v] = "uploaded"]
          /\ ArchiveDone(v)
  /\ UNCHANGED <<exec, slot, sealed>> /\ ArchiveFrame

(* Mutant: the last seal does not archive the execution. *)
CompleteCommitLeavesExec(v) ==
  /\ archive[v].pc = "complete_commit"
  /\ IF archive[v].snap.doc # row.doc
     THEN ArchiveGoto(v, "complete_load") /\ UNCHANGED <<rowVars, sealed>>
     ELSE /\ WriteRow(StoredRow(archive[v].snap,
                                CompletedDoc(archive[v].snap.doc, v), archive[v].now))
          /\ sealed' = [sealed EXCEPT ![v] = TRUE]
          /\ ArchiveDone(v)
  /\ UNCHANGED ledger /\ ArchiveFrame

(* transitionRunVmToCompleted: the row, the seal, the archived execution   *)
(* once every VM is sealed, and the runtime projection, in one batch.      *)
CompleteCommit(v) ==
  /\ archive[v].pc = "complete_commit"
  /\ IF archive[v].snap.doc # row.doc
     THEN ArchiveGoto(v, "complete_load") /\ UNCHANGED <<rowVars, sealed>>
     ELSE LET next == StoredRow(archive[v].snap,
                                CompletedDoc(archive[v].snap.doc, v), archive[v].now)
          IN  /\ row' = next
              /\ sealed' = [sealed EXCEPT ![v] = TRUE]
              /\ ProjectRuntime(next, IF \A w \in VMs : sealed'[w] THEN "archived" ELSE exec)
              /\ ArchiveDone(v)
  /\ UNCHANGED ledger /\ ArchiveFrame

Archive(v) ==
  \/ ArchiveBegin(v) \/ ArchiveUpload(v) \/ ArchiveComplete(v) \/ BeginExec(v)
  \/ ArchiveLoad(v) \/ BeginCommit(v) \/ UploadCommit(v) \/ CompleteCommit(v)

-----------------------------------------------------------------------------
(* The environment. *)

(* Without the artifact endpoints revisions are only compared for equality *)
(* and the +1 of NextRev tells them apart, so time may stand still.        *)
Tick ==
  /\ "archive" \in Enabled /\ clock < MaxRev
  /\ clock' = clock + 1
  /\ UNCHANGED <<rowVars, desired, routes, artifactVars, session, leaseOver,
                 retired, proj, destroy, lease, expiry, archive>>

LeaseElapses ==
  /\ "lease" \in Enabled /\ ~leaseOver
  /\ leaseOver' = TRUE
  /\ UNCHANGED <<rowVars, desired, routes, artifactVars, session, clock,
                 retired, proj, destroy, lease, expiry, archive>>

(* Retiring a host sets the lease of its open executions to now. *)
RetireHost ==
  /\ "expiry" \in Enabled /\ ~retired
  /\ retired' = TRUE
  /\ UNCHANGED <<rowVars, desired, routes, artifactVars, session, clock,
                 leaseOver, proj, destroy, lease, expiry, archive>>

(* A handler stops where it is and its memory is gone. *)
Crash ==
  /\ \/ proj.pc # "idle" /\ proj' = IdleProj
        /\ UNCHANGED <<destroy, lease, expiry, archive>>
     \/ \E d \in Destroyers :
          destroy[d].pc # "idle" /\ destroy' = [destroy EXCEPT ![d] = IdleDestroy]
        /\ UNCHANGED <<proj, lease, expiry, archive>>
     \/ lease.pc # "idle" /\ lease' = IdleLease
        /\ UNCHANGED <<proj, destroy, expiry, archive>>
     \/ expiry.pc # "idle" /\ expiry' = IdleExpiry
        /\ UNCHANGED <<proj, destroy, lease, archive>>
     \/ \E v \in VMs : archive[v].pc # "idle" /\ ArchiveDone(v)
        /\ UNCHANGED <<proj, destroy, lease, expiry>>
  /\ UNCHANGED <<rowVars, desired, routes, artifactVars, hostVars>>

Next ==
  \/ \E m \in Messages : ReceiveReport(m)
  \/ ProjectLoad \/ ProjectCommit \/ Reconnect
  \/ \E d \in Destroyers : Destroy(d)
  \/ Lease \/ Expiry
  \/ \E v \in VMs : Archive(v)
  \/ Tick \/ LeaseElapses \/ RetireHost \/ Crash

Spec == Init /\ [][Next]_vars

-----------------------------------------------------------------------------
(* Properties *)

ExecStates == {"queued", "provisioning", "ready", "archiving", "archived", "failed"}

ProjStates == [pc : {"idle", "load", "commit"}, snap : Rows,
               msg : Messages \cup {NoMessage}, session : Nat]

DestroyStates ==
  [pc : {"idle", "request", "record", "teardown_load", "teardown_commit",
         "absent", "revoke", "release_load", "release_commit", "finish"},
   snap : Rows, vms : SUBSET VMs, cleanup : Destroyers \cup {NoCleanup}]

LeaseStates == [pc : {"idle", "load", "update_load", "update_commit", "absent"},
                snap : Rows, vms : SUBSET VMs, deleteRequested : BOOLEAN]

ExpiryStates == [pc : {"idle", "load", "revoke", "update_load", "update_commit",
                       "archive"}, snap : Rows]

ArchiveStates ==
  [pc : {"idle", "begin_exec", "begin_load", "begin_commit", "upload_load",
         "upload_commit", "complete_load", "complete_commit"},
   snap : Rows, now : Nat]

(* Every variable has its type; what a handler holds is a row it read. *)
TypeOK ==
  /\ row \in Rows /\ exec \in ExecStates /\ slot \in BOOLEAN
  /\ desired \in [VMs -> {"running", "absent"}] /\ routes \in BOOLEAN
  /\ ledger \in [VMs -> {"none", "pending", "uploaded"}]
  /\ sealed \in [VMs -> BOOLEAN]
  /\ clock \in Nat /\ session \in Nat /\ leaseOver \in BOOLEAN /\ retired \in BOOLEAN
  /\ proj \in ProjStates /\ destroy \in [Destroyers -> DestroyStates]
  /\ lease \in LeaseStates /\ expiry \in ExpiryStates
  /\ archive \in [VMs -> ArchiveStates]

(* No VM offers a terminal without that evidence, whatever order reports,  *)
(* restarts of the VM and the other writers come in.                       *)
ReadyTargetIsCurrent == \A v \in VMs : ReadyVmHasEvidence(row.doc.vms[v])

(* A generation that was replaced never describes the VM again. *)
RetiredIsNotCurrent == \A v \in VMs : row.doc.vms[v].gen \notin row.doc.vms[v].retired

(* No write forgets a retired generation: late and duplicated reports of   *)
(* it stay refused for the life of the run.                                *)
GenerationsStayRetired ==
  [][\A v \in VMs : row.doc.vms[v].retired \subseteq row'.doc.vms[v].retired]_row

(* A VM's phase goes back only in the write that retires its generation. *)
VmPhaseForward ==
  [][\A v \in VMs :
       LET old == row.doc.vms[v]
           new == row'.doc.vms[v]
       IN  CanAdvanceVmPhase(old.phase, new.phase) \/ old.gen \in new.retired]_row

(* "Terminal outcomes keep their original scoring state": once a run ended *)
(* as completed or failed, no writer gives it another phase.               *)
OutcomeKeptStep == Ended(row.doc) => row'.doc.phase = row.doc.phase
OutcomeKept == [][OutcomeKeptStep]_row

(* Of the writers, the projection does keep it: a late report, also one of *)
(* a new generation that resets every VM, never reopens an ended run.      *)
ReportsKeepOutcome ==
  [][Ended(row.doc) /\ proj.pc = "commit" /\ proj' # proj
       => row'.doc.phase = row.doc.phase]_vars

(* The user's slot is held by this run exactly while it has an active key. *)
SlotMatchesActiveKey == slot = row.activeKey

(* An active key given up is never restored by a writer that read the row  *)
(* before (the slot may already belong to the user's next run).            *)
ActiveKeyNeverRestoredStep == ~row.activeKey => ~row'.activeKey
ActiveKeyNeverRestored == [][ActiveKeyNeverRestoredStep]_row

(* A run that ended without a request to end it does not hold the slot. *)
EndedRunFreesSlot == Ended(row.doc) /\ ~row.deleteRequested => ~slot

(* The request to end a run is durable: no writer erases it. *)
DeleteRequestKeptStep == row.deleteRequested => row'.deleteRequested
DeleteRequestKept == [][DeleteRequestKeptStep]_row

(* While a route of a run being ended may still be open, the intent to     *)
(* close it is saved, whatever step of the request failed.                 *)
RouteCleanupSaved == row.deleteRequested /\ routes => row.cleanup # NoCleanup

(* A request that reports success left nothing half done: every VM the run *)
(* still has is to be absent, routes are closed, and the slot is free.     *)
AcceptedTeardownIsWhole ==
  \A d \in Destroyers : destroy[d].pc = "finish" =>
    /\ row.deleteRequested /\ ~routes /\ ~slot
    /\ \A v \in VMs : desired[v] = "absent" \/ row.doc.vms[v].phase = "completed"

(* Artifact writes are sealed only when everything was uploaded, and the   *)
(* execution is archived once every VM is sealed.                          *)
SealedRunIsArchived ==
  /\ \A v \in VMs : sealed[v] => ledger[v] = "uploaded"
  /\ (\A v \in VMs : sealed[v]) => exec = "archived"

(* No late writer reopens an archived execution. *)
ArchivedForGoodStep == exec = "archived" => exec' = "archived"
ArchivedForGood == [][ArchivedForGoodStep]_exec

(* "A strictly increasing value doubles as the optimistic projection       *)
(* generation": a write that changes the document raises updated_at.       *)
RevisionMovesForward == [][row.doc # row'.doc => row'.rev > row.rev]_row

(* Whatever the writers of the run row interleave, and wherever they stop: *)
(* an ended run frees the user's slot, the route cleanup a request still   *)
(* owes is on disk, and a sealed run's execution is archived.              *)
RunRowSound == EndedRunFreesSlot /\ RouteCleanupSaved /\ SealedRunIsArchived

(* No write of the run row takes back another's: retired generations stay  *)
(* retired, a VM's phase only advances within a generation, a report never *)
(* reopens an ended run, and an active key given up is not restored.       *)
RunRowForward ==
  /\ GenerationsStayRetired
  /\ VmPhaseForward
  /\ ReportsKeepOutcome
  /\ ActiveKeyNeverRestored
=============================================================================
