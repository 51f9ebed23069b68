------------------------------ MODULE ProbePush ------------------------------
(***************************************************************************)
(* How the results of a guest's probes reach the run: the push connection  *)
(* of the guest, the worker of the agent that accepts it, the launch waiter*)
(* and ready commit of a new VM, and the report to the control plane.      *)
(*                                                                         *)
(* Results are numbered: a snapshot is the number of changes the store had *)
(* when it was taken.  The VM may be replaced by a new generation, whose   *)
(* guest starts from nothing, while work of the old one is under way: the  *)
(* connection tasks of a stopped worker are not stopped with it.           *)
(***************************************************************************)
EXTENDS Integers, Sequences, FiniteSets

CONSTANTS MaxVer,    \* changes of one guest's store
          MaxBoots,  \* VM generations
          MaxDrops,  \* connections that break
          MaxChan,   \* frames on their way on a connection
          Lag        \* updates the bridge may be behind before the oldest is lost

ProbePushConstants ==
    {MaxVer, MaxBoots, MaxChan, Lag} \subseteq Nat \ {0} /\ MaxDrops \in Nat

VARIABLES pushVm,       \* the agent's view: generation and lifecycle
          ver,          \* the changes the store of the current guest has had
          push,         \* the guest's push loop
          tasks,        \* connection tasks of the agent, the live one and detached ones
          waiter,       \* the snapshot the launch waits for
          db,           \* the persisted snapshot
          bus,          \* probe_updates_tx: updates the bridge has not taken
          shownChecks,  \* the run's checks at the control plane
          sync,         \* the learner's `intar check`
          drops

pushVars == <<pushVm, ver, push, tasks, waiter, db, bus, shownChecks, sync, drops>>

PushGens == 1..MaxBoots
Snap(g, v) == [gen |-> g, ver |-> v]
Snaps == [gen : 0..MaxBoots, ver : 0..MaxVer]
NoSnap == Snap(0, 0)

\* The guest is not connected; a connection first sends, then waits for a change
\* of the store or the keepalive.
Down == [up |-> FALSE, send |-> FALSE, seen |-> 0]
TaskPlaces == {"none", "read", "stage", "project", "publish"}
Tasks == [gen : 0..MaxBoots, pc : TaskPlaces, snap : Snaps, chan : Seq(Snaps)]
NoTask == [gen |-> 0, pc |-> "none", snap |-> NoSnap, chan |-> <<>>]

PushInit ==
    /\ pushVm = [gen |-> 1, st |-> "booting"]
    /\ ver = 0 /\ push = Down
    /\ tasks = [k \in {"live", "old"} |-> NoTask]
    /\ waiter = NoSnap /\ db = NoSnap /\ bus = <<>> /\ shownChecks = NoSnap
    /\ sync = [pc |-> "idle", ver |-> 0] /\ drops = 0

LiveTask == tasks["live"]
-----------------------------------------------------------------------------
(* The guest *)

\* apply_update of the store, and the watch that wakes the push loop.
StoreChange ==
    /\ ver < MaxVer /\ pushVm.st \in {"booting", "running"}
    /\ ver' = ver + 1
    /\ UNCHANGED <<pushVm, push, tasks, waiter, db, bus, shownChecks, sync, drops>>

\* The push loop connects; the worker's accept supersedes the connection it had.
PushConnect ==
    /\ ~push.up /\ pushVm.st \in {"booting", "running"}
    /\ push' = [up |-> TRUE, send |-> TRUE, seen |-> ver]
    /\ tasks' = [tasks EXCEPT !["live"] = [NoTask EXCEPT !.gen = pushVm.gen, !.pc = "read"]]
    /\ UNCHANGED <<pushVm, ver, waiter, db, bus, shownChecks, sync, drops>>

\* encode_ready_frame takes a snapshot now, and the frame is written.
SendFrame ==
    /\ push.up /\ push.send /\ Len(LiveTask.chan) < MaxChan
    /\ push' = [push EXCEPT !.send = FALSE, !.seen = ver]
    /\ tasks' = [tasks EXCEPT !["live"].chan = Append(@, Snap(pushVm.gen, ver))]
    /\ UNCHANGED <<pushVm, ver, waiter, db, bus, shownChecks, sync, drops>>

\* changes.changed(), or the keepalive.
FrameDueOnChange == push.seen < ver
FrameDue == TRUE

\* select of the push loop: the next frame is due.
PushWake ==
    /\ push.up /\ ~push.send /\ FrameDue
    /\ push' = [push EXCEPT !.send = TRUE]
    /\ UNCHANGED <<pushVm, ver, tasks, waiter, db, bus, shownChecks, sync, drops>>

\* The connection breaks: the guest's next write fails, the reader sees the end.
Break ==
    /\ push.up /\ drops < MaxDrops
    /\ drops' = drops + 1
    /\ push' = Down
    /\ tasks' = [tasks EXCEPT !["live"] = NoTask]
    /\ UNCHANGED <<pushVm, ver, waiter, db, bus, shownChecks, sync>>

-----------------------------------------------------------------------------
(* The agent: apply_kino_ready_snapshot, one await at a time *)

OfThisVm(t) == pushVm.st # "gone" /\ t.gen = pushVm.gen

StepTo(k, pc) == tasks' = [tasks EXCEPT ![k].pc = pc]
EndTask(k) ==
    /\ tasks' = [tasks EXCEPT ![k] = NoTask]
    /\ push' = IF k = "live" THEN Down ELSE push

\* A frame is read and its generation compared with the VM's.
ReadFrame(k) ==
    /\ tasks[k].pc = "read" /\ tasks[k].chan # <<>>
    /\ IF OfThisVm(tasks[k])
       THEN /\ tasks' = [tasks EXCEPT ![k].pc = "stage", ![k].snap = Head(tasks[k].chan),
                                      ![k].chan = Tail(@)]
            /\ UNCHANGED push
       ELSE EndTask(k)
    /\ UNCHANGED <<pushVm, ver, waiter, db, bus, shownChecks, sync, drops>>

\* After the host keys are staged the generation is compared again, and the
\* launch waiter of this generation is woken.
WakeWaiter(k) ==
    /\ tasks[k].pc = "stage"
    /\ IF OfThisVm(tasks[k])
       THEN /\ StepTo(k, "project")
            /\ waiter' = IF pushVm.st = "booting" /\ waiter = NoSnap THEN tasks[k].snap ELSE waiter
            /\ UNCHANGED push
       ELSE EndTask(k) /\ UNCHANGED waiter
    /\ UNCHANGED <<pushVm, ver, db, bus, shownChecks, sync, drops>>

\* Only a committed, running VM of this generation is projected: the states lock
\* is held over the write of the snapshot.
ProjectBooting(t) == OfThisVm(t)
ProjectAny(t) == pushVm.st = "running"
MayProject(t) == pushVm.st = "running" /\ OfThisVm(t)

ProjectPersist(k) ==
    /\ tasks[k].pc = "project"
    /\ IF MayProject(tasks[k])
       THEN db' = tasks[k].snap /\ StepTo(k, "publish")
       ELSE tasks' = [tasks EXCEPT ![k].pc = "read"] /\ UNCHANGED db
    /\ UNCHANGED <<pushVm, ver, push, waiter, bus, shownChecks, sync, drops>>

BroadcastAll(u) == Append(bus, u)

\* broadcast: a slow receiver loses its oldest update.
Broadcast(u) == LET q == Append(bus, u) IN IF Len(q) > Lag THEN Tail(q) ELSE q

Publish(k) ==
    /\ tasks[k].pc = "publish"
    /\ bus' = Broadcast(tasks[k].snap)
    /\ StepTo(k, "read")
    /\ UNCHANGED <<pushVm, ver, push, waiter, db, shownChecks, sync, drops>>

\* The ready transaction commits the VM as running with the snapshot the launch
\* waited for, after the quota was sealed and SSH verified.
CommitReady ==
    /\ pushVm.st = "booting" /\ waiter # NoSnap
    /\ pushVm' = [pushVm EXCEPT !.st = "running"]
    /\ db' = waiter
    /\ UNCHANGED <<ver, push, tasks, waiter, bus, shownChecks, sync, drops>>

\* build_vm_report_from_probe_update: an update of another generation is dropped.
ReportStale(u) == pushVm.st # "gone"
Reportable(u) == pushVm.st # "gone" /\ u.gen = pushVm.gen

BridgeReport ==
    /\ bus # <<>>
    /\ bus' = Tail(bus)
    /\ shownChecks' = IF Reportable(Head(bus)) THEN Head(bus) ELSE shownChecks
    /\ UNCHANGED <<pushVm, ver, push, tasks, waiter, db, sync, drops>>

\* A full report takes the persisted snapshot of the VM's generation.
FullReport ==
    /\ pushVm.st = "running" /\ Reportable(db) /\ shownChecks # db
    /\ shownChecks' = db
    /\ UNCHANGED <<pushVm, ver, push, tasks, waiter, db, bus, sync, drops>>

\* The VM is removed: its worker is aborted, but not the connection task it
\* spawned, which runs until it reads again (at most one such task at a time).
RemoveVm ==
    /\ pushVm.st \in {"booting", "running"} /\ tasks["old"] = NoTask
    /\ pushVm' = [pushVm EXCEPT !.st = "gone"]
    /\ tasks' = [tasks EXCEPT !["live"] = NoTask,
                             !["old"] = IF LiveTask.pc = "read" THEN NoTask
                                        ELSE [LiveTask EXCEPT !.chan = <<>>]]
    /\ push' = Down /\ waiter' = NoSnap /\ sync' = [pc |-> "idle", ver |-> 0]
    /\ UNCHANGED <<ver, db, bus, shownChecks, drops>>

\* A new generation of the same VM boots a guest of its own.
CreateVm ==
    /\ pushVm.st = "gone" /\ pushVm.gen < MaxBoots
    /\ pushVm' = [gen |-> pushVm.gen + 1, st |-> "booting"]
    /\ ver' = 0
    /\ UNCHANGED <<push, tasks, waiter, db, bus, shownChecks, sync, drops>>

\* A detached task that has nothing left to apply ends at its next read.
DetachedEnds ==
    /\ tasks["old"].pc = "read"
    /\ tasks' = [tasks EXCEPT !["old"] = NoTask]
    /\ UNCHANGED <<pushVm, ver, push, waiter, db, bus, shownChecks, sync, drops>>

-----------------------------------------------------------------------------
(* `intar check`: the probes ran, and check_sync asks the control plane for a
   view before the command returns *)

CheckRan ==
    /\ sync.pc = "idle" /\ pushVm.st = "running" /\ ver < MaxVer
    /\ ver' = ver + 1
    /\ sync' = [pc |-> "sync", ver |-> ver + 1]
    /\ UNCHANGED <<pushVm, push, tasks, waiter, db, bus, shownChecks, drops>>

CheckSync ==
    /\ sync.pc = "sync" /\ pushVm.st = "running"
    /\ sync' = [sync EXCEPT !.pc = "returned"]
    /\ UNCHANGED <<pushVm, ver, push, tasks, waiter, db, bus, shownChecks, drops>>

-----------------------------------------------------------------------------
GuestStep == StoreChange \/ PushConnect \/ SendFrame \/ PushWake \/ Break \/ CheckRan \/ CheckSync
ApplySnapshot(k) == ReadFrame(k) \/ WakeWaiter(k) \/ ProjectPersist(k) \/ Publish(k)
AgentStep == (\E k \in {"live", "old"} : ApplySnapshot(k)) \/ CommitReady \/ RemoveVm \/ CreateVm \/ DetachedEnds
BridgeStep == BridgeReport \/ FullReport

PushNext == GuestStep \/ AgentStep \/ BridgeStep

PushSpec == PushInit /\ [][PushNext]_pushVars

\* The guest reconnects and sends, the agent reads and applies, the launch
\* commits, the bridge takes what it is given.  Full reports are not counted on.
PushFairness ==
    /\ WF_pushVars(PushConnect) /\ WF_pushVars(SendFrame) /\ WF_pushVars(PushWake)
    /\ \A k \in {"live", "old"} : WF_pushVars(ApplySnapshot(k))
    /\ WF_pushVars(CommitReady) /\ WF_pushVars(BridgeReport)

FairPushSpec == PushSpec /\ PushFairness

-----------------------------------------------------------------------------
(* Properties *)

PushTypes ==
    /\ pushVm \in [gen : PushGens, st : {"booting", "running", "gone"}]
    /\ ver \in 0..MaxVer
    /\ push \in [up : BOOLEAN, send : BOOLEAN, seen : 0..MaxVer]
    /\ tasks \in [{"live", "old"} -> Tasks]
    /\ \A k \in {"live", "old"} : Len(tasks[k].chan) <= MaxChan
    /\ waiter \in Snaps /\ db \in Snaps /\ shownChecks \in Snaps
    /\ bus \in Seq(Snaps) /\ Len(bus) <= Lag
    /\ sync \in [pc : {"idle", "sync", "returned"}, ver : 0..MaxVer]
    /\ drops \in 0..MaxDrops

\* The persisted snapshot of a running VM is one of its own generation, whatever
\* work of an older one is still under way (the generation fences of
\* apply_kino_ready_snapshot).
PersistedIsCurrent == pushVm.st = "running" => db.gen = pushVm.gen

\* The run never goes back from the results of a generation to those of an older
\* one (the fence of build_vm_report_from_probe_update).
RunNotBackStep == shownChecks'.gen >= shownChecks.gen
RunNotBack == [][RunNotBackStep]_pushVars

\* Nothing of a VM is persisted or shown before its ready transaction committed
\* (the first snapshot is published through it).
NothingBeforeReady == pushVm.st = "booting" => db.gen < pushVm.gen /\ shownChecks.gen < pushVm.gen

\* Removals and new boots of the VM, detached connection tasks and lost
\* connections, in any order: what is persisted is of the VM that is there, and
\* nothing of it is persisted or shown before it was ready.
PushKept == PushTypes /\ PersistedIsCurrent /\ NothingBeforeReady

\* What the store holds comes to be what the run shows, with or without broken
\* connections and although snapshots that arrive before the commit are not
\* projected (the keepalive of the push loop).
ResultsArrive ==
    \A v \in 1..MaxVer :
        ver = v /\ pushVm.st = "running" ~> shownChecks = Snap(pushVm.gen, v) \/ pushVm.st = "gone" \/ ver # v

\* The command has published the fresh results when it returns
\* ("Publish the fresh local state before the command returns.").
CheckPublished == sync.pc = "returned" => shownChecks.gen = pushVm.gen /\ shownChecks.ver >= sync.ver
=============================================================================
