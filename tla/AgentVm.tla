------------------------------- MODULE AgentVm -------------------------------
(***************************************************************************)
(* The VM manager of the host agent (crates/intar-agent/src/vm/manager):   *)
(* create tasks, deletes, cleanups, the archive queue and the reconcile    *)
(* after a restart, for the VMs of one host.  The agent keeps every VM in  *)
(* memory (mem) and in sqlite (row); the jailer daemon keeps the sandbox   *)
(* (jail) and the network the VMs of a run share (net), and outlives the   *)
(* agent.  A task is one tokio task: its program counter names the await   *)
(* it stands at, and every await is a place where the others may run.      *)
(***************************************************************************)
EXTENDS Naturals, FiniteSets

CONSTANTS
    ManagedVms,   \* names of VMs
    ManagedRuns,  \* runs
    RunOfVm,      \* the run each VM belongs to
    MaxErrors,    \* bound on failing calls (sqlite, file system, jailerd, guest)
    MaxRestarts,  \* bound on agent restarts
    MaxCreate     \* bound on the creates of one VM name

AgentVmConstants ==
    /\ RunOfVm \in [ManagedVms -> ManagedRuns]
    /\ {MaxErrors, MaxRestarts, MaxCreate} \subseteq Nat

VARIABLES
    mem,      \* states: the tracked VMs, in memory
    row,      \* the vms table
    jail,     \* jailerd: the sandbox of each VM
    net,      \* jailerd: the runs whose network exists
    spool,    \* the VM's spool directory, and whether it holds the export
    task,     \* program counter of the create or resume task
    resumed,  \* VMs whose task was spawned by the startup reconcile
    clean,    \* program counter of the cleanup
    mode,     \* archive or drop
    inline,   \* cleanups a create or resume task runs itself
    lock,     \* run_cleanup_locks: the holder, per run
    delReq,   \* delete_requests, memory only
    recon,    \* names the startup reconcile has not visited
    job,      \* the archive_jobs table
    saved,    \* archives the control plane has
    desired,  \* VMs the control plane wants running
    served,   \* history: VMs whose terminal-ready was published
    owed,     \* history: VMs deleted after they were served
    creates, errors, restarts

agent == <<mem, task, resumed, clean, mode, inline, lock, delReq, recon>>
durable == <<row, jail, net, spool, job, saved>>
managerVars == <<agent, durable, desired, served, owed, creates, errors, restarts>>

Creating == {"Queued", "CachingImage", "PreparingDisks", "CreatingVm", "BootingVm"}
States == Creating \cup {"Running", "DeletingVm", "ArchivingArtifacts", "Failed", "DeleteFailed"}
NoRow == [st |-> "none", gen |-> FALSE]
Row == [st : States, gen : BOOLEAN] \cup {NoRow}
Free == <<"free">>
TaskSteps == {"idle", "queued", "lock", "image", "disks", "launch", "persist", "boot", "ready",
              "commit", "publish", "endOk", "endErr", "abort"}
CleanSteps == {"idle", "enter", "capture", "release", "last", "released", "queue", "remove"}
Tracked(v) == mem[v] # NoRow

ManagerInit ==
    /\ mem = [v \in ManagedVms |-> NoRow] /\ row = mem
    /\ jail = [v \in ManagedVms |-> "none"] /\ net = {}
    /\ spool = [v \in ManagedVms |-> "none"]
    /\ task = [v \in ManagedVms |-> "idle"] /\ clean = task
    /\ mode = [v \in ManagedVms |-> "archive"]
    /\ lock = [r \in ManagedRuns |-> Free]
    /\ resumed = {} /\ inline = {} /\ delReq = {} /\ recon = {}
    /\ job = {} /\ saved = {} /\ desired = {} /\ served = {} /\ owed = {}
    /\ creates = [v \in ManagedVms |-> 0] /\ errors = 0 /\ restarts = 0

CallFails == errors < MaxErrors /\ errors' = errors + 1

(***************************************************************************)
(* Shared steps.                                                           *)
(***************************************************************************)
\* set_state, mark_vm_failed, mark_vm_delete_failed: memory, then sqlite;
\* a sqlite error is logged and the row keeps its old state.
SetState(v, s) ==
    /\ mem' = IF Tracked(v) THEN [mem EXCEPT ![v].st = s] ELSE mem
    /\ \/ /\ row' = IF Tracked(v) THEN [row EXCEPT ![v] = mem'[v]] ELSE row
          /\ UNCHANGED errors
       \/ /\ Tracked(v) /\ CallFails
          /\ UNCHANGED row

\* stop_cloud_hypervisor by the generation the agent knows: the unit is
\* drained and jailerd publishes the recording disk in the spool.
Drained(v) == [jail EXCEPT ![v] = IF mem[v].gen /\ @ # "none" THEN "down" ELSE @]
Exported(v) ==
    [spool EXCEPT ![v] = IF mem[v].gen /\ jail[v] \in {"created", "up"} THEN "export" ELSE @]

TaskAt(v, step) == task' = [task EXCEPT ![v] = step]
Unlock(v, who) ==
    lock' = [r \in ManagedRuns |-> IF lock[r] = <<v, who>> THEN Free ELSE lock[r]]
Lock(v, who) ==
    /\ lock[RunOfVm[v]] = Free
    /\ lock' = [lock EXCEPT ![RunOfVm[v]] = <<v, who>>]

(***************************************************************************)
(* The control plane's desired state.                                      *)
(***************************************************************************)
Want(v) ==
    /\ v \notin desired /\ mem[v] = NoRow /\ creates[v] < MaxCreate
    /\ desired' = desired \cup {v}
    /\ UNCHANGED <<agent, durable, served, owed, creates, errors, restarts>>

Unwant(v) ==
    /\ v \in desired /\ creates[v] > 0
    /\ desired' = desired \ {v}
    /\ UNCHANGED <<agent, durable, served, owed, creates, errors, restarts>>

\* queue_vm_create: an untracked name with no spool left over is reserved in
\* memory, persisted, staged, and its create task spawned.
QueueVmCreate(v) ==
    /\ recon = {} /\ v \in desired /\ creates[v] < MaxCreate
    /\ mem[v] = NoRow /\ spool[v] = "none" /\ task[v] = "idle"
    /\ mem' = [mem EXCEPT ![v] = [st |-> "Queued", gen |-> FALSE]]
    /\ row' = [row EXCEPT ![v] = mem'[v]]
    /\ spool' = [spool EXCEPT ![v] = "dir"]
    /\ TaskAt(v, "queued")
    /\ creates' = [creates EXCEPT ![v] = @ + 1]
    /\ saved' = saved \ {v} /\ served' = served \ {v} /\ owed' = owed \ {v}
    /\ UNCHANGED <<jail, net, job, resumed, clean, mode, inline, lock, delReq, recon,
                   desired, errors, restarts>>

(***************************************************************************)
(* run_create.                                                             *)
(***************************************************************************)
task0 == <<jail, net, spool, job, saved, resumed, clean, mode, inline, delReq, recon,
           desired, served, owed, creates, restarts>>

BeginCaching(v) ==
    /\ task[v] = "queued"
    /\ SetState(v, "CachingImage") /\ TaskAt(v, "lock")
    /\ UNCHANGED <<task0, lock>>

\* The run lock first, then the first look for a delete request.
TakeRunLock(v) ==
    /\ task[v] = "lock" /\ lock[RunOfVm[v]] = Free
    /\ IF v \in delReq THEN TaskAt(v, "endErr") /\ UNCHANGED lock
                       ELSE TaskAt(v, "image") /\ Lock(v, "create")
    /\ UNCHANGED <<task0, mem, row, errors>>

\* An image that does not become ready, or a delete request, ends the task;
\* the network task may have built the network already.
ImageFails(v) ==
    /\ task[v] = "image"
    /\ \/ v \in delReq /\ UNCHANGED errors
       \/ v \notin delReq /\ CallFails
    /\ net' \in {net, net \cup {RunOfVm[v]}}
    /\ TaskAt(v, "endErr") /\ Unlock(v, "create")
    /\ UNCHANGED <<mem, row, jail, spool, job, saved, resumed, clean, mode, inline,
                   delReq, recon, desired, served, owed, creates, restarts>>

ImageReady(v) ==
    /\ task[v] = "image" /\ v \notin delReq
    /\ SetState(v, "PreparingDisks") /\ TaskAt(v, "disks")
    /\ UNCHANGED <<task0, lock>>

\* The runtime disk and the run network are both ready.
DisksReady(v) ==
    /\ task[v] = "disks"
    /\ net' = net \cup {RunOfVm[v]}
    /\ IF v \in delReq THEN /\ TaskAt(v, "endErr") /\ Unlock(v, "create")
                            /\ UNCHANGED <<mem, row, errors>>
                       ELSE /\ TaskAt(v, "launch") /\ SetState(v, "CreatingVm")
                            /\ UNCHANGED lock
    /\ UNCHANGED <<jail, spool, job, saved, resumed, clean, mode, inline, delReq, recon,
                   desired, served, owed, creates, restarts>>

\* LaunchVmV2; the reply to a launch jailerd has committed may be lost.
Launch(v) ==
    /\ task[v] = "launch"
    /\ \/ /\ jail' = [jail EXCEPT ![v] = "created"]
          /\ TaskAt(v, "persist") /\ UNCHANGED <<lock, errors>>
       \/ /\ CallFails /\ jail' \in {jail, [jail EXCEPT ![v] = "created"]}
          /\ TaskAt(v, "endErr") /\ Unlock(v, "create")
    /\ UNCHANGED <<mem, row, net, spool, job, saved, resumed, clean, mode, inline, delReq,
                   recon, desired, served, owed, creates, restarts>>

\* persist_jail_launch, then the run lock is dropped.
PersistLaunch(v) ==
    /\ task[v] = "persist"
    /\ mem' = [mem EXCEPT ![v].gen = TRUE]
    /\ \/ row' = [row EXCEPT ![v] = mem'[v]] /\ TaskAt(v, "boot") /\ UNCHANGED errors
       \/ CallFails /\ TaskAt(v, "endErr") /\ UNCHANGED row
    /\ Unlock(v, "create")
    /\ UNCHANGED task0

\* vm.create, BootingVm, vm.boot: they need the VMM a delete may have stopped.
Boot(v) ==
    /\ task[v] = "boot"
    /\ IF v \notin delReq /\ jail[v] = "created"
       THEN /\ SetState(v, "BootingVm") /\ TaskAt(v, "ready")
            /\ jail' = [jail EXCEPT ![v] = "up"]
       ELSE TaskAt(v, "endErr") /\ UNCHANGED <<mem, row, jail, errors>>
    /\ UNCHANGED <<net, spool, job, saved, resumed, clean, mode, inline, delReq, recon, lock,
                   desired, served, owed, creates, restarts>>

\* wait_for_scenario_runtime_ready, seal, SSH: fail when the VM stopped, when
\* a delete was requested, or of themselves.
ReadyFails(v) ==
    /\ task[v] = "ready"
    /\ \/ (v \in delReq \/ jail[v] # "up" \/ mem[v] = NoRow) /\ UNCHANGED errors
       \/ v \notin delReq /\ jail[v] = "up" /\ CallFails
    /\ TaskAt(v, "endErr")
    /\ UNCHANGED <<task0, mem, row, lock>>

\* Guest ready, quota sealed, SSH verified, no delete request seen.
ReadySeen(v) ==
    /\ task[v] = "ready" /\ v \notin delReq /\ jail[v] = "up" /\ Tracked(v)
    /\ TaskAt(v, "commit")
    /\ UNCHANGED <<task0, mem, row, lock, errors>>

\* commit_ready_vm_and_probe: fenced by the generation, whatever the state.
CommitReady(v) ==
    /\ task[v] = "commit"
    /\ \/ /\ mem[v].gen
          /\ mem' = [mem EXCEPT ![v].st = "Running"]
          /\ row' = [row EXCEPT ![v] = mem'[v]]
          /\ TaskAt(v, "publish") /\ UNCHANGED errors
       \/ /\ IF mem[v].gen THEN CallFails ELSE UNCHANGED errors
          /\ TaskAt(v, "endErr") /\ UNCHANGED <<mem, row>>
    /\ UNCHANGED <<task0, lock>>

\* terminal_state_for_attested_ready and the terminal worker.
PublishReady(v) ==
    /\ task[v] = "publish"
    /\ IF mem[v].st = "Running" THEN served' = served \cup {v} /\ TaskAt(v, "endOk")
                                ELSE TaskAt(v, "endErr") /\ UNCHANGED served
    /\ UNCHANGED <<mem, durable, resumed, clean, mode, inline, lock, delReq, recon,
                   desired, owed, creates, errors, restarts>>

\* The end of the task takes the delete request and cleans up itself.
TakeDeleteRequest(v) ==
    /\ task[v] \in {"endOk", "endErr"} /\ v \in delReq /\ clean[v] = "idle"
    /\ delReq' = delReq \ {v}
    /\ jail' = Drained(v) /\ spool' = Exported(v)
    /\ TaskAt(v, "idle") /\ resumed' = resumed \ {v}
    /\ clean' = [clean EXCEPT ![v] = "enter"] /\ mode' = [mode EXCEPT ![v] = "archive"]
    /\ inline' = inline \cup {v}
    /\ UNCHANGED <<mem, row, net, job, saved, lock, recon, desired, served, owed, creates,
                   errors, restarts>>

EndOk(v) ==
    /\ task[v] = "endOk" /\ v \notin delReq
    /\ TaskAt(v, "idle") /\ resumed' = resumed \ {v}
    /\ UNCHANGED <<mem, durable, clean, mode, inline, lock, delReq, recon, desired, served,
                   owed, creates, errors, restarts>>

\* A failed create stops the VM and waits for the run lock.
EndErr(v) ==
    /\ task[v] = "endErr" /\ v \notin delReq
    /\ jail' = Drained(v) /\ spool' = Exported(v)
    /\ TaskAt(v, "abort")
    /\ UNCHANGED <<mem, row, net, job, saved, resumed, clean, mode, inline, lock, delReq, recon,
                   desired, served, owed, creates, errors, restarts>>

\* cleanup_jailed_vm_by_logical_id under the run lock, then Failed.  A
\* resumed VM keeps its sandbox and is only marked.
MarkFailed(v) ==
    /\ task[v] = "abort"
    /\ IF v \in resumed THEN UNCHANGED jail
                        ELSE lock[RunOfVm[v]] = Free /\ jail' = [jail EXCEPT ![v] = "none"]
    /\ SetState(v, "Failed") /\ TaskAt(v, "idle") /\ resumed' = resumed \ {v}
    /\ UNCHANGED <<net, spool, job, saved, clean, mode, inline, lock, delReq, recon, desired,
                   served, owed, creates, restarts>>

(***************************************************************************)
(* Deletes.                                                                *)
(***************************************************************************)
clean0 == <<task, resumed, recon, desired, served, creates, restarts>>

\* Mutant: a failed delete is taken for one still in progress.
DeleteVmOnce(v) ==
    /\ recon = {} /\ v \notin desired /\ Tracked(v)
    /\ \/ /\ mem[v].st \in Creating /\ v \notin delReq
          /\ delReq' = delReq \cup {v}
          /\ jail' = Drained(v) /\ spool' = Exported(v)
          /\ UNCHANGED <<mem, row, clean, mode, inline, owed, errors>>
       \/ /\ mem[v].st \in {"Running", "Failed"} /\ clean[v] = "idle"
          /\ SetState(v, "DeletingVm")
          /\ owed' = IF v \in served THEN owed \cup {v} ELSE owed
          /\ clean' = [clean EXCEPT ![v] = "enter"] /\ mode' = [mode EXCEPT ![v] = "archive"]
          /\ inline' = inline \ {v}
          /\ UNCHANGED <<jail, spool, delReq>>
    /\ UNCHANGED <<net, job, saved, lock, clean0>>

\* delete_vm, from a desired state that no longer lists the VM.
DeleteVm(v) ==
    /\ recon = {} /\ v \notin desired /\ Tracked(v)
    /\ \/ /\ mem[v].st \in Creating /\ v \notin delReq
          /\ delReq' = delReq \cup {v}
          /\ jail' = Drained(v) /\ spool' = Exported(v)
          /\ UNCHANGED <<mem, row, clean, mode, inline, owed, errors>>
       \/ /\ mem[v].st \in {"Running", "Failed", "DeleteFailed"} /\ clean[v] = "idle"
          /\ SetState(v, "DeletingVm")
          /\ owed' = IF v \in served THEN owed \cup {v} ELSE owed
          /\ clean' = [clean EXCEPT ![v] = "enter"] /\ mode' = [mode EXCEPT ![v] = "archive"]
          /\ inline' = inline \ {v}
          /\ UNCHANGED <<jail, spool, delReq>>
    /\ UNCHANGED <<net, job, saved, lock, clean0>>

\* cleanup_expired_leases: a lease starts when the VM is first ready.
\* prune_vms: any VM that is not being created.
SweepVm(v) ==
    /\ recon = {} /\ Tracked(v) /\ clean[v] = "idle" /\ mem[v].st \notin Creating
    /\ clean' = [clean EXCEPT ![v] = "enter"] /\ mode' = [mode EXCEPT ![v] = "archive"]
    /\ inline' = inline \ {v}
    /\ UNCHANGED <<mem, durable, lock, delReq, owed, errors, clean0>>

(***************************************************************************)
(* cleanup_tracked_vm_with_mode.                                           *)
(***************************************************************************)
\* Every failure but one leaves DeleteFailed; the task that cleans up for
\* itself then overwrites it with Failed.
CleanFails(v) ==
    /\ SetState(v, IF v \in inline THEN "Failed" ELSE "DeleteFailed")
    /\ clean' = [clean EXCEPT ![v] = "idle"] /\ Unlock(v, "clean")

CleanEnter(v) ==
    /\ clean[v] = "enter"
    /\ IF ~Tracked(v)
       THEN clean' = [clean EXCEPT ![v] = "idle"] /\ UNCHANGED <<mem, row, errors, jail, spool>>
       ELSE IF mode[v] = "archive"
       THEN /\ SetState(v, "DeletingVm") /\ UNCHANGED <<jail, spool>>
            /\ clean' = [clean EXCEPT ![v] = "capture"]
       ELSE /\ jail' = Drained(v) /\ spool' = Exported(v)
            /\ clean' = [clean EXCEPT ![v] = "release"] /\ UNCHANGED <<mem, row, errors>>
    /\ UNCHANGED <<net, job, saved, mode, inline, lock, delReq, owed, clean0>>

\* teardown_vm_runtime and the capture of prepare_vm_for_delete.  A VM that
\* was launched must have its recording export.
Capture(v) ==
    /\ clean[v] = "capture"
    /\ jail' = Drained(v)
    /\ spool' = [spool EXCEPT ![v] = IF Exported(v)[v] = "none" THEN "dir" ELSE Exported(v)[v]]
    /\ IF ~mem[v].gen \/ spool'[v] = "export"
       THEN clean' = [clean EXCEPT ![v] = "release"] /\ UNCHANGED <<mem, row, lock, errors>>
       ELSE CleanFails(v)
    /\ UNCHANGED <<net, job, saved, mode, inline, delReq, owed, clean0>>

\* release_jailed_runtime under the run lock: the sandbox, then the network
\* unless another tracked VM belongs to the run.
\* Mutant: a sibling counts only once its launch is recorded.
OtherTrackedLaunched(v) ==
    \E w \in ManagedVms \ {v} : RunOfVm[w] = RunOfVm[v] /\ Tracked(w) /\ mem[w].gen

OtherTracked(v) == \E w \in ManagedVms \ {v} : RunOfVm[w] = RunOfVm[v] /\ Tracked(w)

\* Mutants: the release decision without the run lock; no cleanup by name of
\* a launch whose generation was never recorded.
ReleaseUnlocked(v) ==
    /\ clean[v] = "release"
    /\ jail' = [jail EXCEPT ![v] = "none"] /\ spool' = Exported(v)
    /\ clean' = [clean EXCEPT ![v] = IF OtherTracked(v) THEN "released" ELSE "last"]
    /\ UNCHANGED <<mem, row, errors, net, job, saved, mode, inline, lock, delReq, owed, clean0>>
ReleaseByGeneration(v) ==
    /\ clean[v] = "release" /\ Lock(v, "clean")
    /\ jail' = [jail EXCEPT ![v] = IF mem[v].gen THEN "none" ELSE @] /\ spool' = Exported(v)
    /\ clean' = [clean EXCEPT ![v] = IF OtherTracked(v) THEN "released" ELSE "last"]
    /\ UNCHANGED <<mem, row, errors, net, job, saved, mode, inline, delReq, owed, clean0>>

Release(v) ==
    /\ clean[v] = "release" /\ Lock(v, "clean")
    /\ jail' = [jail EXCEPT ![v] = "none"] /\ spool' = Exported(v)
    /\ clean' = [clean EXCEPT ![v] = IF OtherTracked(v) THEN "released" ELSE "last"]
    /\ UNCHANGED <<mem, row, errors, net, job, saved, mode, inline, delReq, owed, clean0>>

RemoveRunNetwork(v) ==
    /\ clean[v] = "last"
    /\ net' = net \ {RunOfVm[v]}
    /\ clean' = [clean EXCEPT ![v] = "released"]
    /\ UNCHANGED <<mem, row, errors, jail, spool, job, saved, mode, inline, lock, delReq, owed, clean0>>

\* A refused jailerd call, a failed capture, queue or removal.
CleanupFails(v) ==
    /\ clean[v] \in {"capture", "last", "released", "queue", "remove"}
    /\ CallFails
    /\ mem' = [mem EXCEPT ![v].st = IF v \in inline THEN "Failed" ELSE "DeleteFailed"]
    /\ row' = [row EXCEPT ![v] = mem'[v]]
    /\ clean' = [clean EXCEPT ![v] = "idle"] /\ Unlock(v, "clean")
    /\ UNCHANGED <<jail, spool, net, job, saved, mode, inline, delReq, owed, clean0>>

SetArchiving(v) ==
    /\ clean[v] = "released"
    /\ IF mode[v] = "archive" THEN /\ SetState(v, "ArchivingArtifacts")
                                   /\ clean' = [clean EXCEPT ![v] = "queue"]
                              ELSE /\ clean' = [clean EXCEPT ![v] = "remove"]
                                   /\ UNCHANGED <<mem, row, errors>>
    /\ UNCHANGED <<jail, spool, net, job, saved, mode, inline, lock, delReq, owed, clean0>>

\* queue_archive_job: the durable row, then the wake of the archive worker.
QueueArchiveJob(v) ==
    /\ clean[v] = "queue"
    /\ job' = job \cup {v}
    /\ clean' = [clean EXCEPT ![v] = "remove"]
    /\ UNCHANGED <<mem, row, errors, jail, spool, net, saved, mode, inline, lock, delReq, owed, clean0>>

\* Mutant: the sandbox identity survives the removal.
LocalCleanupKeepsIdentity(v) ==
    /\ clean[v] = "remove"
    /\ delReq' = delReq \ {v}
    /\ spool' = IF mode[v] = "drop" THEN [spool EXCEPT ![v] = "none"] ELSE spool
    /\ row' = [row EXCEPT ![v] = NoRow] /\ mem' = [mem EXCEPT ![v].st = "none"]
    /\ clean' = [clean EXCEPT ![v] = "idle"] /\ Unlock(v, "clean")
    /\ UNCHANGED <<errors, jail, net, job, saved, mode, inline, owed, clean0>>

\* local_cleanup_tracked_vm: files, then the sqlite row, then memory.
LocalCleanup(v) ==
    /\ clean[v] = "remove"
    /\ delReq' = delReq \ {v}
    /\ spool' = IF mode[v] = "drop" THEN [spool EXCEPT ![v] = "none"] ELSE spool
    /\ row' = [row EXCEPT ![v] = NoRow] /\ mem' = [mem EXCEPT ![v] = NoRow]
    /\ clean' = [clean EXCEPT ![v] = "idle"] /\ Unlock(v, "clean")
    /\ UNCHANGED <<errors, jail, net, job, saved, mode, inline, owed, clean0>>

\* process_archive_job: upload, delete the job, delete the spool.
UploadArchive(v) ==
    /\ recon = {} /\ v \in job
    /\ job' = job \ {v} /\ saved' = saved \cup {v}
    /\ spool' = [spool EXCEPT ![v] = "none"]
    /\ UNCHANGED <<agent, row, jail, net, desired, served, owed, creates, errors, restarts>>

(***************************************************************************)
(* The agent restarts; the VMs do not.                                     *)
(***************************************************************************)
ManagerRestart ==
    /\ restarts < MaxRestarts /\ restarts' = restarts + 1
    /\ mem' = row /\ recon' = {v \in ManagedVms : row[v] # NoRow}
    /\ task' = [v \in ManagedVms |-> "idle"] /\ clean' = task'
    /\ lock' = [r \in ManagedRuns |-> Free]
    /\ delReq' = {} /\ resumed' = {} /\ inline' = {}
    /\ UNCHANGED <<mode, durable, desired, served, owed, creates, errors>>

\* The startup loop visits one VM at a time and waits for its cleanup.
Visiting(v) == v \in recon /\ \A w \in ManagedVms : clean[w] = "idle"

\* detect_tracked_vm_runtime: without a generation, or with nothing left in
\* jailerd, the VM is dead; otherwise live, or not to be told.
ReconcileLive(v) ==
    /\ Visiting(v) /\ mem[v].gen /\ jail[v] \in {"created", "up"}
    /\ mem[v].st \in {"BootingVm", "Running"}
    /\ jail' = [jail EXCEPT ![v] = "up"]
    /\ TaskAt(v, "ready") /\ resumed' = resumed \cup {v}
    /\ recon' = recon \ {v}
    /\ UNCHANGED <<mem, row, net, spool, job, saved, clean, mode, inline, lock, delReq, desired,
                   served, owed, creates, errors, restarts>>

\* Mutant: only a VM that is still Running is archived.
StartupModeRunning(s) == IF s = "Running" THEN "archive" ELSE "drop"
StartupMode(s) ==
    IF s \in {"Running", "DeletingVm", "ArchivingArtifacts", "DeleteFailed"} THEN "archive" ELSE "drop"

ReconcileCleanup(v) ==
    /\ Visiting(v)
    /\ \/ ~mem[v].gen \/ jail[v] \in {"none", "down"}
       \/ mem[v].st \notin {"BootingVm", "Running"}
    /\ mode' = [mode EXCEPT ![v] = StartupMode(mem[v].st)]
    /\ clean' = [clean EXCEPT ![v] = "enter"]
    /\ inline' = inline \ {v} /\ recon' = recon \ {v}
    /\ UNCHANGED <<mem, durable, task, resumed, lock, delReq, desired, served, owed, creates,
                   errors, restarts>>

ReconcileInconclusive(v) ==
    /\ Visiting(v) /\ mem[v].gen /\ jail[v] \in {"created", "up"} /\ errors < MaxErrors
    /\ SetState(v, "Failed") /\ recon' = recon \ {v}
    /\ UNCHANGED <<task, resumed, clean, mode, inline, lock, delReq, jail, net, spool, job, saved,
                   desired, served, owed, creates, restarts>>

\* The guest powers off or its VMM dies.
VmDies(v) ==
    /\ jail[v] = "up" /\ CallFails
    /\ jail' = [jail EXCEPT ![v] = "down"] /\ spool' = [spool EXCEPT ![v] = "export"]
    /\ UNCHANGED <<agent, row, net, job, saved, desired, served, owed, creates, restarts>>

CreateStep(v) ==
    \/ BeginCaching(v) \/ TakeRunLock(v) \/ ImageFails(v) \/ ImageReady(v) \/ DisksReady(v)
    \/ Launch(v) \/ PersistLaunch(v) \/ Boot(v) \/ ReadyFails(v) \/ ReadySeen(v)
    \/ CommitReady(v) \/ PublishReady(v)
    \/ TakeDeleteRequest(v) \/ EndOk(v) \/ EndErr(v) \/ MarkFailed(v)

CleanStep(v) ==
    \/ CleanEnter(v) \/ Capture(v) \/ Release(v) \/ RemoveRunNetwork(v)
    \/ SetArchiving(v) \/ QueueArchiveJob(v) \/ LocalCleanup(v)

Reconcile(v) == ReconcileLive(v) \/ ReconcileCleanup(v)

ManagerNext ==
    \/ \E v \in ManagedVms :
        \/ Want(v) \/ Unwant(v) \/ QueueVmCreate(v)
        \/ CreateStep(v) \/ DeleteVm(v) \/ SweepVm(v)
        \/ CleanStep(v) \/ CleanupFails(v) \/ UploadArchive(v)
        \/ Reconcile(v) \/ ReconcileInconclusive(v) \/ VmDies(v)
    \/ ManagerRestart

ManagerSpec == ManagerInit /\ [][ManagerNext]_managerVars

\* Tokio keeps polling its tasks, its mutexes are fair, the startup loop runs
\* to its end, and the control plane sends the desired state again.
ManagerFairness ==
    /\ \A v \in ManagedVms :
        /\ SF_managerVars(CreateStep(v)) /\ SF_managerVars(CleanStep(v))
        /\ WF_managerVars(Reconcile(v)) /\ WF_managerVars(DeleteVm(v))
        /\ WF_managerVars(UploadArchive(v))

FairManagerSpec == ManagerSpec /\ ManagerFairness

(***************************************************************************)
(* Properties.                                                             *)
(***************************************************************************)
\* Every field has its type.
ManagerTypes ==
    /\ mem \in [ManagedVms -> Row] /\ row \in [ManagedVms -> Row]
    /\ jail \in [ManagedVms -> {"none", "created", "up", "down"}] /\ net \subseteq ManagedRuns
    /\ spool \in [ManagedVms -> {"none", "dir", "export"}]
    /\ task \in [ManagedVms -> TaskSteps] /\ clean \in [ManagedVms -> CleanSteps]
    /\ mode \in [ManagedVms -> {"archive", "drop"}]
    /\ lock \in [ManagedRuns -> {Free} \cup (ManagedVms \X {"create", "clean"})]
    /\ UNION {delReq, recon, job, saved, desired, served, owed, resumed, inline}
         \subseteq ManagedVms

\* The network of a run stays while one of its VMs is in a sandbox: no
\* cleanup of a sibling takes it away under a launch or a running VM.
NetworkUnderVm == \A v \in ManagedVms : jail[v] \in {"created", "up"} => RunOfVm[v] \in net

\* Two cleanups of one run that see each other do not both leave the network:
\* the last VM to be forgotten takes it along.
LastOutTakesNetwork ==
    \A r \in net : \E v \in ManagedVms : RunOfVm[v] = r /\ (Tracked(v) \/ row[v] # NoRow)

\* A sandbox always has a durable row behind it, so an agent that restarts at
\* any await finds what it has to tear down.
NoOrphanJail == \A v \in ManagedVms : jail[v] # "none" => row[v] # NoRow

\* Creates, deletes, failing calls and restarts of the agent, in any order: no VM loses its
\* run's network, the last one out removes it, and no sandbox is left without a row.
RuntimesKept == ManagerTypes /\ NetworkUnderVm /\ LastOutTakesNetwork /\ NoOrphanJail

\* A VM that was ready for its learner and then deleted is not forgotten
\* before its recordings are queued for upload or uploaded.
RecordingsKept == \A v \in owed : row[v] = NoRow => v \in job \cup saved

\* A VM that is being deleted does not become ready again.
DeleteIsFinalStep ==
    \A v \in ManagedVms : mem[v].st = "DeletingVm" => mem'[v].st # "Running"
DeleteIsFinal == [][DeleteIsFinalStep]_managerVars

\* A VM the control plane no longer wants loses its sandbox, whatever the
\* create task, a failed call or a restart was doing when it was unwanted.
RuntimeReleased == \A v \in ManagedVms : v \notin desired ~> (jail[v] = "none" \/ v \in desired)

\* ... and is forgotten: a cleanup that failed half way succeeds on a retry.
RetryCompletes == \A v \in ManagedVms : v \notin desired ~> (~Tracked(v) \/ v \in desired)
==============================================================================
