---------------------------- MODULE RunAdmission ----------------------------
(***************************************************************************)
(* Starting a run: beginScenarioRun and the one D1 batch that commits the   *)
(* run, its execution, the desired VMs, the CPU quota and the active slot   *)
(* (lib/scenario-runs/begin.ts), the release of that quota by the host's    *)
(* reconcile (control-plane/host-cpu-reservations.ts) and the cancel of a   *)
(* run whose account was revoked inside the commit window.  A step is what  *)
(* happens between two awaits on the database.                             *)
(*                                                                         *)
(* A request admits at most one run, so a run has its request's name.  Its *)
(* VMs are one VM.  A version bump of the desired state is one more than   *)
(* the version read.  Each host has a fixed schedulable CPU capacity.       *)
(***************************************************************************)
EXTENDS Naturals, FiniteSets, FiniteSetsExt

CONSTANTS
  Requests,    \* calls of beginScenarioRun, retries included
  Users,
  UserOf,      \* [Requests -> Users]
  KeyOf,       \* [Requests -> idempotency keys]
  ScopeOf,     \* [Requests -> request scopes]
  Hosts,
  NoHost,      \* no host allocated yet
  Cpu,         \* [Requests -> CPU a run of the request reserves]
  Capacity,    \* [Hosts -> schedulable CPU]
  Attempts,    \* ADMISSION_CAS_ATTEMPTS
  Events       \* the other actors that act: a subset of AllEvents

AllEvents == {"drain", "revoke", "publish", "sweep", "offline", "report", "expire",
              "end", "reconcile", "crash"}

AdmissionConstants ==
  /\ IsFiniteSet(Requests) /\ UserOf \in [Requests -> Users]
  /\ DOMAIN KeyOf = Requests /\ DOMAIN ScopeOf = Requests
  /\ Cpu \in [Requests -> Nat \ {0}] /\ Capacity \in [Hosts -> Nat]
  /\ NoHost \notin Hosts /\ Attempts \in Nat \ {0}
  /\ Events \subseteq AllEvents

VARIABLES
  req,      \* [Requests -> the call: where it is and what it has read]
  run,      \* [Requests -> the scenario_runs row the request committed]
  quota,    \* [Requests -> the run's host_cpu_reservations row exists]
  reserve,  \* [Requests -> state of the run's host_resource_reservations row]
  desiredState, \* [Hosts -> host_desired_state: version, VMs desired running]
  actualState,  \* [Hosts -> host_actual_state: applied version and VMs reported]
  hostAgent,    \* [Hosts -> what the host really applied and runs]
  rec,      \* [Hosts -> the reconcile of the host under way]
  drained,  \* the cut-over gate is closed
  access,   \* [Users -> "full", "content": no longer this lecture, "revoked"]
  online,   \* [Hosts -> agent_hosts.connected, with a fresh heartbeat]
  source,   \* the image identity in the catalog
  sweeping  \* a collector sweep holds the registry gate

startVars == <<req, run, quota, reserve, desiredState, actualState, hostAgent, rec, drained,
               access, online, source, sweeping>>
others == <<drained, access, online, source, sweeping>>

NoRun == [state |-> "none", host |-> NoHost, slot |-> FALSE]
IdleRec == [pc |-> "idle", known |-> {}, ended |-> {}, doc |-> [version |-> 0, vms |-> {}],
            report |-> [applied |-> 0, vms |-> {}], todo |-> {}]

StartInit ==
  /\ req = [r \in Requests |->
       [pc |-> "begin", guard |-> FALSE, source |-> 0, host |-> NoHost,
        doc |-> [version |-> 0, vms |-> {}], fresh |-> FALSE, tried |-> {}, attempt |-> 1,
        answer |-> "none", of |-> r]]
  /\ run = [r \in Requests |-> NoRun]
  /\ quota = [r \in Requests |-> FALSE] /\ reserve = [r \in Requests |-> "none"]
  /\ desiredState = [h \in Hosts |-> [version |-> 1, vms |-> {}]]
  /\ actualState = [h \in Hosts |-> [applied |-> 1, vms |-> {}]]
  /\ hostAgent = [h \in Hosts |-> [applied |-> 1, vms |-> {}]]
  /\ rec = [h \in Hosts |-> IdleRec]
  /\ drained = FALSE /\ access = [u \in Users |-> "full"]
  /\ online = [h \in Hosts |-> TRUE]
  /\ source = 1 /\ sweeping = FALSE

-----------------------------------------------------------------------------
At(r, pc) == req[r].pc = pc

Step(r, pc) == req' = [req EXCEPT ![r].pc = pc]

(* The answer leaves and the finally block completes the registry guard.   *)
Answered(r, answer, q) ==
  req' = [req EXCEPT ![r].pc = "done", ![r].guard = FALSE, ![r].answer = answer,
                     ![r].of = q]

Refuse(r, answer) == Answered(r, answer, r)

rowVars == <<run, quota, reserve, desiredState>>
Quiet == UNCHANGED <<rowVars, actualState, hostAgent, rec, others>>

(* The unique indexes of scenario_runs: the idempotency key of a user, and *)
(* the active key (one run that holds the slot per user).                  *)
ByKey(r) == {q \in Requests : /\ run[q].state # "none"
                              /\ UserOf[q] = UserOf[r] /\ KeyOf[q] = KeyOf[r]}
ActiveRuns(u) == {q \in Requests : run[q].slot /\ UserOf[q] = u}

Replay(r) ==
  \E q \in ByKey(r) :
    IF ScopeOf[q] = ScopeOf[r] THEN Answered(r, "reused", q) ELSE Refuse(r, "key_conflict")

(* assertAgentKvmRunsOpen, then openRunStartRegistryGuard.                 *)
Begin(r) ==
  /\ At(r, "begin")
  /\ IF drained THEN Refuse(r, "drained")
     ELSE IF sweeping THEN Refuse(r, "registry_busy")
     ELSE req' = [req EXCEPT ![r].pc = "read", ![r].guard = TRUE]
  /\ Quiet

(* The source and the active run are read together; admitScenarioStart     *)
(* looks the key up afterwards.                                            *)
ReadSource(r) ==
  /\ At(r, "read")
  /\ req' = [req EXCEPT ![r].pc = IF ActiveRuns(UserOf[r]) # {} THEN "active" ELSE "lookup",
                        ![r].source = source]
  /\ Quiet

LookupKey(r) ==
  /\ req[r].pc \in {"active", "lookup"}
  /\ IF access[UserOf[r]] # "full" THEN Refuse(r, access[UserOf[r]])
     ELSE IF ByKey(r) # {} THEN Replay(r)
     ELSE IF At(r, "active") THEN Refuse(r, "active_run")
     ELSE Step(r, "build")
  /\ Quiet

(* admitNewRun builds the run, its VMs, keys and desired VMs; a scenario    *)
(* without complete launch metadata is refused.                            *)
BuildRun(r) ==
  /\ At(r, "build")
  /\ Step(r, "images") \/ Refuse(r, "scenario_invalid")
  /\ Quiet

(* preparePersonalScenarioImages: the images are ready on the user's host,  *)
(* or not yet, or another request of the same key consumed the grant.      *)
PrepareImages(r) ==
  /\ At(r, "images")
  /\ \/ Step(r, "select")
     \/ IF ByKey(r) # {} THEN Replay(r) ELSE Refuse(r, "images_preparing")
  /\ Quiet

-----------------------------------------------------------------------------
(* No candidate is left.                                                   *)
PlanFails(r) ==
  /\ At(r, "plan") /\ req[r].tried = Hosts
  /\ Refuse(r, "host_unavailable")
  /\ Quiet

Charged(h) == {q \in Requests : quota[q] /\ run[q].host = h}
Total(S) == SumFunctionOnSet(Cpu, S)

(* hostCpuReservationCapacityFromSnapshot: a quota row counts in full, a   *)
(* reported VM that has none counts as reported.                           *)
FreeCpu(h) == Capacity[h] - Total(Charged(h) \cup actualState[h].vms)

(* availableRuntimeHostResources: the generic ledger leaves expired        *)
(* pending rows out.                                                       *)
Reserved(h) == {q \in Requests : run[q].host = h /\ reserve[q] \in {"pending", "committed"}}
FitsGeneric(r, h) == Cpu[r] + Total(Reserved(h) \cup actualState[h].vms) <= Capacity[h]

(* loadEligibleScenarioLaunchHosts.                                        *)
Eligible(h) == online[h]

(* selectScenarioHosts: the candidates that fit now, in an order that does  *)
(* not matter here; the others are not tried in this attempt.              *)
SelectHosts(r) ==
  LET candidates == {h \in Hosts : Eligible(h) /\ FitsGeneric(r, h)} IN
  /\ At(r, "select")
  /\ IF candidates = {} THEN Refuse(r, "host_unavailable")
     ELSE req' = [req EXCEPT ![r].pc = "plan", ![r].tried = Hosts \ candidates]
  /\ Quiet

(* planAdmissionHost: the desired version of a candidate first.            *)
ReadDesired(r, h) ==
  /\ At(r, "plan") /\ h \notin req[r].tried
  /\ req' = [req EXCEPT ![r].pc = "ledger", ![r].host = h, ![r].doc = desiredState[h]]
  /\ Quiet

(* Mutant: the capacity is read before the version that the commit fences. *)
ReadLedgerThenVersion(r) ==
  LET h == req[r].host IN
  /\ At(r, "ledger")
  /\ IF req[r].fresh
     THEN req' = [req EXCEPT ![r].pc = "gate", ![r].doc = desiredState[h]]
     ELSE req' = IF Eligible(h) /\ Cpu[r] <= FreeCpu(h) /\ FitsGeneric(r, h)
                 THEN [req EXCEPT ![r].fresh = TRUE]
                 ELSE [req EXCEPT ![r].pc = "plan", ![r].tried = req[r].tried \cup {h}]
  /\ Quiet

(* Then the report and the ledger, and the draft if the run fits.          *)
ReadLedger(r) ==
  LET h == req[r].host IN
  /\ At(r, "ledger")
  /\ req' = IF Eligible(h) /\ Cpu[r] <= FreeCpu(h) /\ FitsGeneric(r, h)
            THEN [req EXCEPT ![r].pc = "gate", ![r].fresh = TRUE]
            ELSE [req EXCEPT ![r].pc = "plan", ![r].tried = req[r].tried \cup {h}]
  /\ Quiet

(* The gate is read again after the allocation.                            *)
RecheckGate(r) ==
  /\ At(r, "gate")
  /\ IF drained THEN Refuse(r, "drained") ELSE Step(r, "commit")
  /\ Quiet

-----------------------------------------------------------------------------
(* The conditions the run insert selects through.  metalAdmissionSql: the   *)
(* owner is active and placed on the host.                                 *)
Placed(r) == access[UserOf[r]] # "revoked"

(* admissionContentAccessCondition.                                        *)
ContentAccess(r) == access[UserOf[r]] = "full"

(* admissionHostReadinessCondition: the session and the report are the     *)
(* ones the plan read.                                                     *)
HostAsRead(r) == online[req[r].host] /\ req[r].fresh

(* liveSourceAnchorCondition: the catalog still names the images read.     *)
SourceAsRead(r) == req[r].source = source

Anchored(r) == Placed(r) /\ HostAsRead(r) /\ ContentAccess(r) /\ ~drained /\ SourceAsRead(r)

(* desiredStateCasStatement and the sentinel after it: the batch is rolled *)
(* back unless the committed document holds this run's VMs.                *)
CasLands(r) == desiredState[req[r].host].version = req[r].doc.version

RunInserted(r) ==
  run' = [run EXCEPT ![r] = [state |-> "provisioning", host |-> req[r].host, slot |-> TRUE]]

QuotaInserted(r) == quota' = [quota EXCEPT ![r] = TRUE]

ReservationInserted(r) == reserve' = [reserve EXCEPT ![r] = "pending"]

(* Every statement of the batch, in one transaction.                       *)
Committed(r, cas) ==
  /\ RunInserted(r) /\ QuotaInserted(r) /\ ReservationInserted(r)
  /\ desiredState' = IF cas THEN [desiredState EXCEPT ![req[r].host] =
                               [version |-> req[r].doc.version + 1,
                                vms |-> req[r].doc.vms \cup {r}]]
                ELSE desiredState
  /\ Step(r, "fence")

(* Mutant: the sentinel compares the version, which the winner of the race *)
(* has set to the same number.                                             *)
CommitComparesVersion(r) ==
  /\ At(r, "commit")
  /\ IF ~Anchored(r) THEN /\ Step(r, IF Placed(r) THEN "lost" ELSE "refused")
                          /\ UNCHANGED rowVars
     ELSE IF ByKey(r) # {} \/ ActiveRuns(UserOf[r]) # {}
          THEN Step(r, "clash") /\ UNCHANGED rowVars
     ELSE IF CasLands(r) \/ desiredState[req[r].host].version = req[r].doc.version + 1
          THEN Committed(r, CasLands(r))
     ELSE Step(r, "lost") /\ UNCHANGED rowVars
  /\ UNCHANGED <<actualState, hostAgent, rec, others>>

(* commitAdmissionBatch.  A refused insert trips the refusal sentinel, and *)
(* looks like a lost compare-and-set, while the account is active.         *)
CommitAdmissionBatch(r) ==
  /\ At(r, "commit")
  /\ IF ~Anchored(r) THEN /\ Step(r, IF Placed(r) THEN "lost" ELSE "refused")
                          /\ UNCHANGED rowVars
     ELSE IF ByKey(r) # {} \/ ActiveRuns(UserOf[r]) # {}
          THEN Step(r, "clash") /\ UNCHANGED rowVars
     ELSE IF CasLands(r) THEN Committed(r, TRUE)
     ELSE Step(r, "lost") /\ UNCHANGED rowVars
  /\ UNCHANGED <<actualState, hostAgent, rec, others>>

(* Mutant: a violated active key is reported without the re-read of the    *)
(* idempotency key.                                                        *)
ClashIsConflict(r) ==
  /\ At(r, "clash")
  /\ Refuse(r, "active_run")
  /\ Quiet

(* Mutant: the loser of a race answers with its own run, never committed.  *)
ClashIsAccepted(r) ==
  /\ At(r, "clash")
  /\ Answered(r, "accepted", r)
  /\ Quiet

(* A unique index refused the batch: the key is read again, so the loser of *)
(* a race with its own retry replays the winner's run.                      *)
Clash(r) ==
  /\ At(r, "clash")
  /\ IF ByKey(r) # {} THEN Replay(r) ELSE Refuse(r, "active_run")
  /\ Quiet

(* sourceAnchorRefusal, assertAdmissionRefusalPriority and                  *)
(* assertCurrentContentAccess name the fence that refused the insert.      *)
Refused(r) ==
  /\ At(r, "refused")
  /\ Refuse(r, IF ~SourceAsRead(r) THEN "source_changed"
               ELSE IF drained THEN "drained" ELSE "revoked")
  /\ Quiet

(* Mutant: an attempt more than ADMISSION_CAS_ATTEMPTS.                    *)
LostOnceMore(r) ==
  /\ At(r, "lost")
  /\ IF drained THEN Refuse(r, "drained")
     ELSE IF ~Placed(r) THEN Refuse(r, "revoked")
     ELSE IF ~SourceAsRead(r) THEN Refuse(r, "source_changed")
     ELSE IF ~ContentAccess(r) THEN Refuse(r, "content")
     ELSE IF req[r].attempt > Attempts THEN Refuse(r, "contended")
     ELSE req' = [req EXCEPT ![r].pc = "select", ![r].tried = {}, ![r].fresh = FALSE,
                             ![r].attempt = req[r].attempt + 1]
  /\ Quiet

(* The refusals that no retry can pass come first; then the next attempt.  *)
Lost(r) ==
  /\ At(r, "lost")
  /\ IF drained THEN Refuse(r, "drained")
     ELSE IF ~Placed(r) THEN Refuse(r, "revoked")
     ELSE IF ~SourceAsRead(r) THEN Refuse(r, "source_changed")
     ELSE IF ~ContentAccess(r) THEN Refuse(r, "content")
     ELSE IF req[r].attempt = Attempts THEN Refuse(r, "contended")
     ELSE req' = [req EXCEPT ![r].pc = "select", ![r].tried = {}, ![r].fresh = FALSE,
                             ![r].attempt = req[r].attempt + 1]
  /\ Quiet

(* assertAccountStillActive, after the commit.                             *)
Fence(r) ==
  /\ At(r, "fence")
  /\ IF Placed(r) /\ run[r].state = "provisioning" THEN Answered(r, "accepted", r)
     ELSE req' = [req EXCEPT ![r].pc = "cancel", ![r].attempt = 1]
  /\ Quiet

-----------------------------------------------------------------------------
(* cancelAdmittedRun: read the desired state, then one batch.              *)
CancelRead(r) ==
  /\ At(r, "cancel")
  /\ req' = [req EXCEPT ![r].pc = "cancelBatch", ![r].doc = desiredState[run[r].host]]
  /\ Quiet

Torn(r) == IF run[r].state = "provisioning"
           THEN [run EXCEPT ![r].state = "teardown"] ELSE run

(* The sentinel of the cancel compares the version: it stays silent when   *)
(* another writer published the same next version.                         *)
CancelBatch(r) ==
  LET h == run[r].host
      doc == req[r].doc
      cas == desiredState[h].version = doc.version
      next == [version |-> doc.version + 1, vms |-> doc.vms \ {r}]
  IN
  /\ At(r, "cancelBatch")
  /\ \/ /\ r \notin doc.vms
        /\ run' = Torn(r) /\ Refuse(r, "revoked")
        /\ UNCHANGED desiredState
     \/ /\ r \in doc.vms /\ (cas \/ desiredState[h].version = next.version)
        /\ desiredState' = IF cas THEN [desiredState EXCEPT ![h] = next] ELSE desiredState
        /\ run' = Torn(r) /\ Refuse(r, "revoked")
     \/ /\ r \in doc.vms /\ ~cas /\ desiredState[h].version # next.version
        /\ IF req[r].attempt = Attempts THEN Refuse(r, "contended")
           ELSE req' = [req EXCEPT ![r].pc = "cancel", ![r].attempt = req[r].attempt + 1]
        /\ UNCHANGED <<run, desiredState>>
  /\ UNCHANGED <<quota, reserve, actualState, hostAgent, rec, others>>

(* The isolate dies: the guard stays as a hold for the operator's reap.    *)
Crash(r) ==
  /\ "crash" \in Events /\ req[r].pc \notin {"begin", "done"}
  /\ req' = [req EXCEPT ![r].pc = "done"]
  /\ Quiet

-----------------------------------------------------------------------------
(* The other actors.                                                       *)
Drain ==
  /\ "drain" \in Events /\ ~drained /\ drained' = TRUE
  /\ UNCHANGED <<req, rowVars, actualState, hostAgent, rec, access, online, source, sweeping>>

(* The account is revoked, or a lecture is hidden from the user.           *)
Revoke(u) ==
  /\ "revoke" \in Events
  /\ \E a \in {"content", "revoked"} : /\ access[u] \notin {a, "revoked"}
                                       /\ access' = [access EXCEPT ![u] = a]
  /\ UNCHANGED <<req, rowVars, actualState, hostAgent, rec, drained, online, source, sweeping>>

Publish ==
  /\ "publish" \in Events /\ source = 1 /\ source' = 2
  /\ UNCHANGED <<req, rowVars, actualState, hostAgent, rec, drained, access, online, sweeping>>

(* The sweep takes the gate only when no shared writer is open.            *)
RegistrySweep ==
  /\ "sweep" \in Events
  /\ sweeping' = (~sweeping /\ \A r \in Requests : ~req[r].guard)
  /\ sweeping' # sweeping
  /\ UNCHANGED <<req, rowVars, actualState, hostAgent, rec, drained, access, online, source>>

(* The bridge socket of the host goes or comes back, as another session.   *)
Offline(h) ==
  /\ "offline" \in Events
  /\ online' = [online EXCEPT ![h] = ~@]
  /\ req' = [r \in Requests |-> IF req[r].host = h THEN [req[r] EXCEPT !.fresh = FALSE]
                                ELSE req[r]]
  /\ UNCHANGED <<rowVars, actualState, hostAgent, rec, drained, access, source, sweeping>>

(* A pending generic reservation reaches its expiry.                       *)
Expire(r) == /\ "expire" \in Events /\ reserve[r] = "pending"
             /\ reserve' = [reserve EXCEPT ![r] = "expired"]
             /\ UNCHANGED <<req, run, quota, desiredState, actualState, hostAgent, rec, others>>

(* The run is told to end: its VMs become absent in the desired state.     *)
EndRun(r) ==
  LET h == run[r].host IN
  /\ "end" \in Events /\ run[r].state = "provisioning"
  /\ run' = [run EXCEPT ![r].state = "teardown"]
  /\ desiredState' = [desiredState EXCEPT ![h] =
       [version |-> desiredState[h].version + 1, vms |-> desiredState[h].vms \ {r}]]
  /\ UNCHANGED <<req, quota, reserve, actualState, hostAgent, rec, others>>

(* The report projection ends a run whose VMs the host no longer lists.     *)
RunEnds(r) ==
  /\ run[r].state = "teardown" /\ run[r].slot
  /\ actualState[run[r].host].applied >= desiredState[run[r].host].version
  /\ r \notin actualState[run[r].host].vms
  /\ run' = [run EXCEPT ![r].state = "ended", ![r].slot = FALSE]
  /\ UNCHANGED <<req, quota, reserve, desiredState, actualState, hostAgent, rec, others>>

(* The agent: it applies the latest document, and stops what that document *)
(* no longer wants some time later.                                        *)
ApplyDesired(h) ==
  /\ hostAgent[h].applied # desiredState[h].version
  /\ hostAgent' = [hostAgent EXCEPT ![h] = [applied |-> desiredState[h].version,
                                    vms |-> hostAgent[h].vms \cup desiredState[h].vms]]
  /\ UNCHANGED <<req, rowVars, actualState, rec, others>>

AgentStop(h, r) ==
  /\ r \in hostAgent[h].vms \ desiredState[h].vms
  /\ hostAgent[h].applied = desiredState[h].version
  /\ hostAgent' = [hostAgent EXCEPT ![h].vms = hostAgent[h].vms \ {r}]
  /\ UNCHANGED <<req, rowVars, actualState, rec, others>>

(* A state report replaces the row a start may have read: the snapshot of  *)
(* every start that planned on the host is stale.                          *)
StateReport(h) ==
  /\ "report" \in Events /\ actualState[h] # hostAgent[h]
  /\ actualState' = [actualState EXCEPT ![h] = hostAgent[h]]
  /\ req' = [r \in Requests |-> IF req[r].host = h THEN [req[r] EXCEPT !.fresh = FALSE]
                                ELSE req[r]]
  /\ UNCHANGED <<rowVars, hostAgent, rec, others>>

-----------------------------------------------------------------------------
(* reconcileHostCpuReservations, under the host's lock: one at a time.      *)
Reconcile(h, pc, record) ==
  /\ "reconcile" \in Events /\ rec[h].pc = pc
  /\ rec' = [rec EXCEPT ![h] = record]
  /\ UNCHANGED <<req, run, desiredState, actualState, hostAgent, others>>

(* The reservations, then the runs they name; nothing to do without any.   *)
ReconcileRuns(h) ==
  /\ Charged(h) # {}
  /\ Reconcile(h, "idle",
       [IdleRec EXCEPT !.pc = "desired", !.known = Charged(h),
          !.ended = {q \in Charged(h) : run[q].state # "provisioning"}])
  /\ UNCHANGED <<quota, reserve>>

ReconcileDesired(h) ==
  /\ Reconcile(h, "desired", [rec[h] EXCEPT !.pc = "actual", !.doc = desiredState[h]])
  /\ UNCHANGED <<quota, reserve>>

ReconcileActual(h) ==
  /\ Reconcile(h, "actual", [rec[h] EXCEPT !.pc = "reload", !.report = actualState[h]])
  /\ UNCHANGED <<quota, reserve>>

(* The reservations are read again: some may belong to runs committed      *)
(* since, which the map of runs does not know.                             *)
ReconcileReload(h) ==
  /\ Reconcile(h, "reload", [rec[h] EXCEPT !.pc = "release", !.todo = Charged(h)])
  /\ UNCHANGED <<quota, reserve>>


(* terminalOrDeleting, and applied absence.                                *)
Releasable(h, r) ==
  /\ r \notin rec[h].known \ rec[h].ended
  /\ rec[h].report.applied >= rec[h].doc.version
  /\ r \notin rec[h].doc.vms /\ r \notin rec[h].report.vms


(* One row: released with its generic reservation, or kept and synced.      *)
ReconcileRow(h) ==
  \E r \in rec[h].todo :
    /\ LET left == rec[h].todo \ {r} IN
       Reconcile(h, "release", IF left = {} THEN IdleRec ELSE [rec[h] EXCEPT !.todo = left])
    /\ IF Releasable(h, r)
       THEN /\ quota' = [quota EXCEPT ![r] = FALSE]
            /\ reserve' = [reserve EXCEPT ![r] = "released"]
       ELSE /\ reserve' = [reserve EXCEPT ![r] =
                 IF @ \in {"pending", "expired"} THEN "committed" ELSE @]
            /\ UNCHANGED quota

-----------------------------------------------------------------------------
StartSteps(r) ==
  \/ Begin(r) \/ ReadSource(r) \/ LookupKey(r) \/ BuildRun(r) \/ PrepareImages(r)
  \/ SelectHosts(r) \/ PlanFails(r) \/ ReadLedger(r)
  \/ RecheckGate(r) \/ CommitAdmissionBatch(r) \/ Clash(r) \/ Refused(r) \/ Lost(r) \/ Fence(r)
  \/ CancelRead(r) \/ CancelBatch(r)
  \/ \E h \in Hosts : ReadDesired(r, h)

ReconcileSteps(h) ==
  \/ ReconcileRuns(h) \/ ReconcileDesired(h) \/ ReconcileActual(h)
  \/ ReconcileReload(h) \/ ReconcileRow(h)

AgentSteps(h) == ApplyDesired(h) \/ StateReport(h) \/ \E r \in Requests : AgentStop(h, r)

StartNext ==
  \/ \E r \in Requests : StartSteps(r) \/ Crash(r) \/ Expire(r) \/ EndRun(r) \/ RunEnds(r)
  \/ \E h \in Hosts : ReconcileSteps(h) \/ AgentSteps(h) \/ Offline(h)
  \/ Drain \/ Publish \/ RegistrySweep \/ \E u \in Users : Revoke(u)

StartSpec == StartInit /\ [][StartNext]_startVars

(* The agent applies and reports while it is connected, and every report   *)
(* reconciles; a run that is told to end is left to the others.            *)
StartFairness ==
  /\ \A h \in Hosts : WF_startVars(ReconcileSteps(h)) /\ WF_startVars(AgentSteps(h))
  /\ \A r \in Requests : WF_startVars(RunEnds(r)) /\ WF_startVars(StartSteps(r))

FairStartSpec == StartSpec /\ StartFairness

-----------------------------------------------------------------------------
(* Documents the type of every variable.                                   *)
StartTypes ==
  /\ \A r \in Requests :
       /\ req[r].host \in Hosts \cup {NoHost} /\ req[r].of \in Requests
       /\ req[r].attempt \in 1..Attempts /\ req[r].tried \subseteq Hosts
       /\ run[r].state \in {"none", "provisioning", "teardown", "ended"}
       /\ run[r].host \in Hosts \cup {NoHost} /\ run[r].slot \in BOOLEAN
       /\ reserve[r] \in {"none", "pending", "expired", "committed", "released"}
  /\ quota \in [Requests -> BOOLEAN]
  /\ \A h \in Hosts : /\ desiredState[h].version \in Nat /\ hostAgent[h].applied \in Nat
                      /\ desiredState[h].vms \cup hostAgent[h].vms \subseteq Requests
                      /\ actualState[h].vms \subseteq Requests
  /\ drained \in BOOLEAN /\ sweeping \in BOOLEAN
  /\ access \in [Users -> {"full", "content", "revoked"}]

(* Two starts never charge the same free CPU: the quotas of a host fit its *)
(* capacity, whatever starts run against each other.                       *)
CpuNotOversold == \A h \in Hosts : Total(Charged(h)) <= Capacity[h]

(* A committed start is whole: while the run is to boot, its VMs are in    *)
(* the desired state of its host, its quota is charged, and it is the only *)
(* run in its user's slot, wherever the isolate died.                      *)
AdmissionIsWhole ==
  \A r \in Requests : run[r].state = "provisioning" =>
    /\ r \in desiredState[run[r].host].vms
    /\ quota[r] /\ reserve[r] # "none"
    /\ ActiveRuns(UserOf[r]) = {r}

(* A start is never answered with "you already have an active run" when    *)
(* the run of its own idempotency key exists.                              *)
RetryIsNotAConflictStep ==
  \A r \in Requests :
     req[r].answer # req'[r].answer /\ req'[r].answer = "active_run" => ByKey(r) = {}
RetryIsNotAConflict == [][RetryIsNotAConflictStep]_startVars

(* What a start answers for a key is the one run of that key.              *)
KeyNamesOneRun ==
  \A r, q \in Requests :
    /\ UserOf[r] = UserOf[q] /\ KeyOf[r] = KeyOf[q]
    /\ {req[r].answer, req[q].answer} \subseteq {"accepted", "reused"}
    => req[r].of = req[q].of

(* Starts of several users, retried, revoked and abandoned, and runs told  *)
(* to end: the quotas of a host fit its CPU, a key names one run, and a    *)
(* run, its desired VMs, its quota and its slot exist together.            *)
AdmissionSound == StartTypes /\ CpuNotOversold /\ KeyNamesOneRun /\ AdmissionIsWhole

(* A quota is released only when the VMs of the run are neither desired    *)
(* nor on the host, as host-cpu-reservations.ts promises: "Keep the        *)
(* declared reservation until applied absence proves teardown."            *)
ReleaseProvesTeardownStep ==
  \A r \in Requests : quota[r] /\ ~quota'[r] =>
     r \notin desiredState[run[r].host].vms \cup hostAgent[run[r].host].vms
ReleaseProvesTeardown == [][ReleaseProvesTeardownStep]_startVars


(* "a cancel can never move a run to teardown while its VMs stay desired   *)
(* running" (cancelSentinelStatement).                                     *)
CancelledRunIsUndesired ==
  \A r \in Requests : run[r].state = "teardown" => r \notin desiredState[run[r].host].vms
=============================================================================
