---------------------------- MODULE ProbeProofs ----------------------------
(***************************************************************************)
(* The probes of a guest and the way of their results to the run, for any  *)
(* number of probes, checks, boots, results and lost connections; and the  *)
(* learner's command, for any number of hints, generations and requests.   *)
(***************************************************************************)
EXTENDS ProbePush, GuestProbes, RunCli, FiniteSetTheorems, TLAPS

(* What a connection task holds is of the generation it was accepted for,  *)
(* which is the VM's or an older one; before the VM is ready nothing of    *)
(* it is about to be published.                                            *)
TaskSound(k) ==
  /\ tasks[k].gen <= pushVm.gen
  /\ \A i \in 1..Len(tasks[k].chan) : tasks[k].chan[i].gen = tasks[k].gen
  /\ tasks[k].pc \in {"stage", "project", "publish"} => tasks[k].snap.gen = tasks[k].gen
  /\ pushVm.st = "booting" /\ tasks[k].pc = "publish" => tasks[k].gen < pushVm.gen

BusSound ==
  \A i \in 1..Len(bus) : /\ bus[i].gen <= pushVm.gen
                         /\ pushVm.st = "booting" => bus[i].gen < pushVm.gen

(* The guest that is connected and the launch that waits are the VM's. *)
VmHolds ==
  /\ push.up => pushVm.st # "gone" /\ tasks["live"].gen = pushVm.gen
  /\ waiter # NoSnap => pushVm.st # "gone" /\ waiter.gen = pushVm.gen
  /\ db.gen <= pushVm.gen /\ shownChecks.gen <= pushVm.gen
  /\ PersistedIsCurrent /\ NothingBeforeReady

PushInv ==
  PushTypes /\ TaskSound("live") /\ TaskSound("old") /\ BusSound /\ VmHolds

-----------------------------------------------------------------------------
LEMMA NoTaskIsTask == ASSUME ProbePushConstants PROVE NoSnap \in Snaps /\ NoTask \in Tasks
BY DEF ProbePushConstants, NoSnap, Snap, Snaps, NoTask, Tasks, TaskPlaces

LEMMA InitPush == ASSUME ProbePushConstants PROVE PushInit => PushInv
<1> SUFFICES ASSUME PushInit PROVE PushInv
  OBVIOUS
<1> USE DEF ProbePushConstants, PushInit
<1>1. PushTypes
  <2>1. Down \in [up : BOOLEAN, send : BOOLEAN, seen : 0..MaxVer]
    BY DEF Down
  <2>2. NoTask.chan = <<>>
    BY DEF NoTask
  <2>3. QED
    BY <2>1, <2>2, NoTaskIsTask DEF PushTypes, PushGens
<1>2. TaskSound("live") /\ TaskSound("old")
  BY DEF TaskSound, NoTask
<1>3. BusSound /\ VmHolds
  BY DEF BusSound, VmHolds, PersistedIsCurrent, NothingBeforeReady, NoSnap, Snap, Down
<1>4. QED
  BY <1>1, <1>2, <1>3 DEF PushInv

(* The guest's side: frames of the VM's generation on the VM's connection. *)
LEMMA GuestPush ==
  ASSUME ProbePushConstants, PushInv, GuestStep PROVE PushInv'
<1> USE DEF ProbePushConstants
<1>0. PushTypes /\ TaskSound("live") /\ TaskSound("old") /\ BusSound /\ VmHolds
  BY DEF PushInv
<1>1. ASSUME StoreChange \/ PushWake \/ CheckRan \/ CheckSync PROVE PushInv'
  <2>1. /\ UNCHANGED <<pushVm, tasks, waiter, db, bus, shownChecks, drops>>
        /\ ver' \in 0..MaxVer /\ (push'.up <=> push.up)
        /\ push' \in [up : BOOLEAN, send : BOOLEAN, seen : 0..MaxVer]
        /\ sync' \in [pc : {"idle", "sync", "returned"}, ver : 0..MaxVer]
    <3>1. CASE StoreChange
      BY <1>0, <3>1 DEF PushTypes, StoreChange
    <3>2. CASE PushWake
      BY <1>0, <3>2 DEF PushTypes, PushWake
    <3>3. CASE CheckRan
      BY <1>0, <3>3 DEF PushTypes, CheckRan
    <3>4. CASE CheckSync
      BY <1>0, <3>4 DEF PushTypes, CheckSync
    <3>5. QED
      BY <1>1, <3>1, <3>2, <3>3, <3>4
  <2>2. PushTypes'
    BY <1>0, <2>1 DEF PushTypes
  <2>3. QED
    BY <1>0, <2>1, <2>2
    DEF PushInv, TaskSound, BusSound, VmHolds, PersistedIsCurrent, NothingBeforeReady
<1>2. ASSUME PushConnect PROVE PushInv'
  <2> DEFINE new == [NoTask EXCEPT !.gen = pushVm.gen, !.pc = "read"]
  <2>1. /\ UNCHANGED <<pushVm, ver, waiter, db, bus, shownChecks, sync, drops>>
        /\ push' = [up |-> TRUE, send |-> TRUE, seen |-> ver] /\ pushVm.st # "gone"
        /\ tasks' = [tasks EXCEPT !["live"] = new]
    BY <1>2 DEF PushConnect
  <2>2. new \in Tasks /\ new.gen = pushVm.gen /\ new.chan = <<>> /\ new.pc = "read"
    <3>1. NoTask.chan = <<>> /\ pushVm.gen \in 0..MaxBoots /\ "read" \in TaskPlaces
      BY <1>0 DEF PushTypes, PushGens, NoTask, TaskPlaces
    <3>2. QED
      BY <3>1, NoTaskIsTask DEF Tasks
  <2> HIDE DEF new
  <2>3. tasks'["live"] = new /\ tasks'["old"] = tasks["old"]
    BY <1>0, <2>1 DEF PushTypes
  <2>4. PushTypes'
    BY <1>0, <2>1, <2>2, <2>3 DEF PushTypes
  <2>5. TaskSound("live")'
    BY <1>0, <2>1, <2>2, <2>3 DEF TaskSound, PushTypes, PushGens
  <2>6. TaskSound("old")'
    BY <1>0, <2>1, <2>3 DEF TaskSound
  <2>7. BusSound' /\ VmHolds'
    BY <1>0, <2>1, <2>2, <2>3
    DEF BusSound, VmHolds, PersistedIsCurrent, NothingBeforeReady
  <2>8. QED
    BY <2>4, <2>5, <2>6, <2>7 DEF PushInv
<1>3. ASSUME SendFrame PROVE PushInv'
  <2> DEFINE frame == Snap(pushVm.gen, ver)
             new == [tasks["live"] EXCEPT !.chan = Append(@, frame)]
  <2>1. /\ UNCHANGED <<pushVm, ver, waiter, db, bus, shownChecks, sync, drops>>
        /\ push.up /\ push' = [push EXCEPT !.send = FALSE, !.seen = ver]
        /\ tasks' = [tasks EXCEPT !["live"] = new] /\ Len(tasks["live"].chan) < MaxChan
    BY <1>3 DEF SendFrame, LiveTask
  <2>2. frame \in Snaps /\ frame.gen = pushVm.gen
    BY <1>0 DEF PushTypes, PushGens, Snap, Snaps
  <2> HIDE DEF frame
  <2>3. /\ new \in Tasks /\ new.gen = tasks["live"].gen /\ new.pc = tasks["live"].pc
        /\ new.snap = tasks["live"].snap /\ new.chan = Append(tasks["live"].chan, frame)
    <3>1. tasks["live"] \in Tasks /\ tasks["live"].chan \in Seq(Snaps)
      BY <1>0 DEF PushTypes, Tasks
    <3>2. Append(tasks["live"].chan, frame) \in Seq(Snaps)
      BY <2>2, <3>1
    <3>3. QED
      BY <3>1, <3>2 DEF Tasks
  <2> HIDE DEF new
  <2>4. tasks'["live"] = new /\ tasks'["old"] = tasks["old"]
    BY <1>0, <2>1 DEF PushTypes
  <2>5. push' \in [up : BOOLEAN, send : BOOLEAN, seen : 0..MaxVer] /\ push'.up
    BY <1>0, <2>1 DEF PushTypes
  <2>6. tasks["live"].chan \in Seq(Snaps) /\ tasks["live"].gen = pushVm.gen
    BY <1>0, <2>1 DEF PushTypes, Tasks, VmHolds
  <2>7. PushTypes'
    BY <1>0, <2>1, <2>3, <2>4, <2>5, <2>6 DEF PushTypes
  <2>8. TaskSound("live")'
    <3>1. ASSUME NEW i \in 1..Len(new.chan) PROVE new.chan[i].gen = new.gen
      <4>1. Len(new.chan) = Len(tasks["live"].chan) + 1
        BY <2>3, <2>6
      <4>2. CASE i = Len(tasks["live"].chan) + 1
        BY <2>2, <2>3, <2>6, <4>2
      <4>3. CASE i \in 1..Len(tasks["live"].chan)
        <5>1. new.chan[i] = tasks["live"].chan[i]
          BY <2>3, <2>6, <4>3
        <5>2. QED
          BY <1>0, <2>3, <4>3, <5>1 DEF TaskSound
      <4>4. QED
        BY <2>6, <4>1, <4>2, <4>3
    <3>2. QED
      BY <1>0, <2>1, <2>3, <2>4, <3>1 DEF TaskSound
  <2>9. TaskSound("old")'
    BY <1>0, <2>1, <2>4 DEF TaskSound
  <2>10. BusSound' /\ VmHolds'
    BY <1>0, <2>1, <2>3, <2>4, <2>5
    DEF BusSound, VmHolds, PersistedIsCurrent, NothingBeforeReady
  <2>11. QED
    BY <2>7, <2>8, <2>9, <2>10 DEF PushInv
<1>4. ASSUME Break PROVE PushInv'
  <2>1. /\ UNCHANGED <<pushVm, ver, waiter, db, bus, shownChecks, sync>>
        /\ push' = Down /\ drops' \in 0..MaxDrops
        /\ tasks' = [tasks EXCEPT !["live"] = NoTask]
    BY <1>0, <1>4 DEF Break, PushTypes
  <2>2. Down \in [up : BOOLEAN, send : BOOLEAN, seen : 0..MaxVer] /\ ~Down.up
    BY DEF Down
  <2>3. tasks'["live"] = NoTask /\ tasks'["old"] = tasks["old"]
    BY <1>0, <2>1 DEF PushTypes
  <2>4. NoTask.chan = <<>> /\ NoTask.gen = 0 /\ NoTask.pc = "none"
    BY DEF NoTask
  <2>5. PushTypes'
    BY <1>0, <2>1, <2>2, <2>3, <2>4, NoTaskIsTask DEF PushTypes
  <2>6. TaskSound("live")'
    BY <1>0, <2>1, <2>3, <2>4 DEF TaskSound, PushTypes, PushGens
  <2>7. TaskSound("old")'
    BY <1>0, <2>1, <2>3 DEF TaskSound
  <2>8. BusSound' /\ VmHolds'
    BY <1>0, <2>1, <2>2 DEF BusSound, VmHolds, PersistedIsCurrent, NothingBeforeReady
  <2>9. QED
    BY <2>5, <2>6, <2>7, <2>8 DEF PushInv
<1>5. QED
  BY <1>1, <1>2, <1>3, <1>4 DEF GuestStep

-----------------------------------------------------------------------------
(* A connection task moves: the other one, the VM and its connection stay. *)
(* What it may change of the rest is said by its own step.                 *)
LEMMA TaskMoves ==
  ASSUME ProbePushConstants, PushInv, NEW k \in {"live", "old"}, NEW new \in Tasks,
         tasks' = [tasks EXCEPT ![k] = new], Len(new.chan) <= MaxChan,
         new.gen = tasks[k].gen \/ (new = NoTask /\ (k = "live" => push' = Down)),
         push' \in {push, Down}, \A i \in 1..Len(new.chan) : new.chan[i].gen = new.gen,
         new.pc \in {"stage", "project", "publish"} => new.snap.gen = new.gen,
         pushVm.st = "booting" /\ new.pc = "publish" => new.gen < pushVm.gen,
         UNCHANGED <<pushVm, ver, shownChecks, sync, drops>>,
         waiter' \in Snaps, db' \in Snaps, bus' \in Seq(Snaps), Len(bus') <= Lag, BusSound',
         waiter' = waiter \/ (pushVm.st # "gone" /\ waiter'.gen = pushVm.gen),
         db' = db \/ (pushVm.st = "running" /\ db'.gen = pushVm.gen)
  PROVE  PushInv'
<1> USE DEF ProbePushConstants
<1>0. PushTypes /\ TaskSound("live") /\ TaskSound("old") /\ VmHolds
  BY DEF PushInv
<1>1. /\ tasks'[k] = new /\ \A j \in {"live", "old"} \ {k} : tasks'[j] = tasks[j]
      /\ tasks' \in [{"live", "old"} -> Tasks]
  BY <1>0 DEF PushTypes
<1>2. Down \in [up : BOOLEAN, send : BOOLEAN, seen : 0..MaxVer] /\ ~Down.up
  BY DEF Down
<1>3. PushTypes'
  BY <1>0, <1>1, <1>2 DEF PushTypes
<1>4. pushVm.gen \in Nat /\ NoTask.gen = 0
  BY <1>0 DEF PushTypes, PushGens, NoTask
<1>5. TaskSound(k)'
  <2>1. new.gen <= pushVm.gen
    BY <1>0, <1>4 DEF TaskSound
  <2>2. QED
    BY <1>1, <2>1 DEF TaskSound
<1>6. \A j \in {"live", "old"} \ {k} : TaskSound(j)'
  BY <1>0, <1>1 DEF TaskSound
<1>7. VmHolds'
  <2>1. push'.up => push.up /\ tasks'["live"].gen = tasks["live"].gen
    BY <1>1, <1>2
  <2>2. pushVm.st = "running" => db'.gen = pushVm.gen
    BY <1>0 DEF VmHolds, PersistedIsCurrent
  <2>3. pushVm.st = "booting" => db' = db
    OBVIOUS
  <2>4. db'.gen <= pushVm.gen
    BY <1>0, <1>4 DEF VmHolds
  <2>5. QED
    BY <1>0, <2>1, <2>2, <2>3, <2>4 DEF VmHolds, PersistedIsCurrent, NothingBeforeReady
<1>8. QED
  BY <1>3, <1>5, <1>6, <1>7 DEF PushInv

(* A task reads a frame of its connection and applies it, with the         *)
(* generation compared again after each await.                             *)
LEMMA ApplyPush ==
  ASSUME ProbePushConstants, PushInv, NEW k \in {"live", "old"}, ApplySnapshot(k)
  PROVE  PushInv'
<1> USE DEF ProbePushConstants
<1>0. PushTypes /\ TaskSound(k) /\ BusSound /\ VmHolds
  BY DEF PushInv
<1>1. /\ tasks[k] \in Tasks /\ tasks[k].chan \in Seq(Snaps) /\ Len(tasks[k].chan) <= MaxChan
      /\ tasks[k].gen \in 0..MaxBoots /\ tasks[k].snap \in Snaps
  BY <1>0 DEF PushTypes, Tasks
<1>2. NoTask \in Tasks /\ NoTask.chan = <<>> /\ NoTask.pc = "none"
  BY NoTaskIsTask DEF NoTask
<1>3. ASSUME EndTask(k), UNCHANGED <<pushVm, ver, waiter, db, bus, shownChecks, sync, drops>>
      PROVE  PushInv'
  <2>1. /\ tasks' = [tasks EXCEPT ![k] = NoTask] /\ push' \in {push, Down}
        /\ k = "live" => push' = Down
    BY <1>3 DEF EndTask
  <2>2. BusSound' /\ waiter \in Snaps /\ db \in Snaps /\ bus \in Seq(Snaps) /\ Len(bus) <= Lag
    BY <1>0, <1>3 DEF PushTypes, BusSound
  <2>3. Len(NoTask.chan) <= MaxChan /\ 1..Len(NoTask.chan) = {}
    BY <1>2
  <2>4. QED
    BY <1>2, <1>3, <2>1, <2>2, <2>3, TaskMoves
<1>4. ASSUME ReadFrame(k), OfThisVm(tasks[k]) PROVE PushInv'
  <2> DEFINE new == [tasks[k] EXCEPT !.pc = "stage", !.snap = Head(tasks[k].chan), !.chan = Tail(@)]
  <2>1. /\ UNCHANGED <<pushVm, ver, push, waiter, db, bus, shownChecks, sync, drops>>
        /\ tasks[k].chan # <<>> /\ tasks' = [tasks EXCEPT ![k] = new]
    BY <1>4 DEF ReadFrame
  <2>2. Head(tasks[k].chan) \in Snaps /\ Tail(tasks[k].chan) \in Seq(Snaps)
    BY <1>1, <2>1
  <2>3. /\ new \in Tasks /\ new.gen = tasks[k].gen /\ new.snap = Head(tasks[k].chan)
        /\ new.chan = Tail(tasks[k].chan) /\ new.pc = "stage"
    BY <1>1, <2>2 DEF Tasks, TaskPlaces
  <2> HIDE DEF new
  <2>4. Len(new.chan) <= MaxChan /\ \A i \in 1..Len(new.chan) : new.chan[i].gen = new.gen
    <3>1. /\ Len(new.chan) = Len(tasks[k].chan) - 1
          /\ \A i \in 1..Len(new.chan) : i + 1 \in 1..Len(tasks[k].chan)
          /\ \A i \in 1..Len(new.chan) : new.chan[i] = tasks[k].chan[i + 1]
      BY <1>1, <2>1, <2>3
    <3>2. QED
      BY <1>0, <1>1, <2>3, <3>1 DEF TaskSound
  <2>5. new.snap.gen = new.gen
    <3>1. Head(tasks[k].chan) = tasks[k].chan[1] /\ 1 \in 1..Len(tasks[k].chan)
      BY <1>1, <2>1
    <3>2. QED
      BY <1>0, <2>3, <3>1 DEF TaskSound
  <2>6. BusSound' /\ waiter \in Snaps /\ db \in Snaps /\ bus \in Seq(Snaps) /\ Len(bus) <= Lag
    BY <1>0, <2>1 DEF PushTypes, BusSound
  <2>7. QED
    BY <2>1, <2>3, <2>4, <2>5, <2>6, TaskMoves
<1>5. ASSUME NEW place \in TaskPlaces PROVE
        LET new == [tasks[k] EXCEPT !.pc = place]
        IN  /\ new \in Tasks /\ new.gen = tasks[k].gen /\ new.snap = tasks[k].snap
            /\ new.chan = tasks[k].chan /\ new.pc = place
  BY <1>1 DEF Tasks
<1>6. \A i \in 1..Len(tasks[k].chan) : tasks[k].chan[i].gen = tasks[k].gen
  BY <1>0 DEF TaskSound
<1>7. ASSUME WakeWaiter(k), OfThisVm(tasks[k]) PROVE PushInv'
  <2> DEFINE new == [tasks[k] EXCEPT !.pc = "project"]
  <2>1. /\ UNCHANGED <<pushVm, ver, push, db, bus, shownChecks, sync, drops>>
        /\ tasks[k].pc = "stage" /\ tasks' = [tasks EXCEPT ![k] = new]
        /\ waiter' \in {waiter, tasks[k].snap}
    BY <1>7 DEF WakeWaiter, StepTo
  <2>2. pushVm.st # "gone" /\ tasks[k].gen = pushVm.gen
    BY <1>7 DEF OfThisVm
  <2>3. tasks[k].snap.gen = tasks[k].gen
    BY <1>0, <2>1 DEF TaskSound
  <2>4. /\ new \in Tasks /\ new.gen = tasks[k].gen /\ new.snap = tasks[k].snap
        /\ new.chan = tasks[k].chan /\ new.pc = "project"
    BY <1>5 DEF TaskPlaces
  <2> HIDE DEF new
  <2>5. BusSound' /\ waiter' \in Snaps /\ db \in Snaps /\ bus \in Seq(Snaps) /\ Len(bus) <= Lag
    BY <1>0, <1>1, <2>1 DEF PushTypes, BusSound
  <2>6. QED
    BY <1>1, <1>6, <2>1, <2>2, <2>3, <2>4, <2>5, TaskMoves
<1>8. ASSUME ProjectPersist(k) PROVE PushInv'
  <2>0. /\ UNCHANGED <<pushVm, ver, push, waiter, bus, shownChecks, sync, drops>>
        /\ tasks[k].pc = "project" /\ tasks[k].snap.gen = tasks[k].gen
    BY <1>0, <1>8 DEF ProjectPersist, TaskSound
  <2>1. BusSound' /\ waiter \in Snaps /\ db' \in Snaps /\ bus \in Seq(Snaps) /\ Len(bus) <= Lag
    BY <1>0, <1>1, <1>8, <2>0 DEF PushTypes, BusSound, ProjectPersist
  <2>2. CASE MayProject(tasks[k])
    <3> DEFINE new == [tasks[k] EXCEPT !.pc = "publish"]
    <3>1. tasks' = [tasks EXCEPT ![k] = new] /\ db' = tasks[k].snap
      BY <1>8, <2>2 DEF ProjectPersist, StepTo
    <3>2. pushVm.st = "running" /\ tasks[k].gen = pushVm.gen
      BY <2>2 DEF MayProject, OfThisVm
    <3>3. /\ new \in Tasks /\ new.gen = tasks[k].gen /\ new.snap = tasks[k].snap
          /\ new.chan = tasks[k].chan /\ new.pc = "publish"
      BY <1>5 DEF TaskPlaces
    <3> HIDE DEF new
    <3>4. QED
      BY <1>1, <1>6, <2>0, <2>1, <3>1, <3>2, <3>3, TaskMoves
  <2>3. CASE ~MayProject(tasks[k])
    <3> DEFINE new == [tasks[k] EXCEPT !.pc = "read"]
    <3>1. tasks' = [tasks EXCEPT ![k] = new] /\ db' = db
      BY <1>8, <2>3 DEF ProjectPersist
    <3>2. /\ new \in Tasks /\ new.gen = tasks[k].gen /\ new.snap = tasks[k].snap
          /\ new.chan = tasks[k].chan /\ new.pc = "read"
      BY <1>5 DEF TaskPlaces
    <3> HIDE DEF new
    <3>3. QED
      BY <1>1, <1>6, <2>0, <2>1, <3>1, <3>2, TaskMoves
  <2>4. QED
    BY <2>2, <2>3
<1>9. ASSUME Publish(k) PROVE PushInv'
  <2> DEFINE new == [tasks[k] EXCEPT !.pc = "read"]
             all == Append(bus, tasks[k].snap)
  <2>1. /\ UNCHANGED <<pushVm, ver, push, waiter, db, shownChecks, sync, drops>>
        /\ tasks[k].pc = "publish" /\ tasks' = [tasks EXCEPT ![k] = new]
        /\ bus' = IF Len(all) > Lag THEN Tail(all) ELSE all
    BY <1>9 DEF Publish, StepTo, Broadcast
  <2>2. /\ tasks[k].snap.gen <= pushVm.gen
        /\ pushVm.st = "booting" => tasks[k].snap.gen < pushVm.gen
    BY <1>0, <2>1 DEF TaskSound
  <2>3. bus \in Seq(Snaps) /\ Len(bus) <= Lag /\ Len(bus) \in Nat
    BY <1>0 DEF PushTypes
  <2>4. all \in Seq(Snaps) /\ Len(all) = Len(bus) + 1 /\ all # <<>>
    BY <1>1, <2>3
  <2>5. \A i \in 1..Len(all) : /\ all[i].gen <= pushVm.gen
                               /\ pushVm.st = "booting" => all[i].gen < pushVm.gen
    <3> SUFFICES ASSUME NEW i \in 1..Len(all)
                 PROVE  /\ all[i].gen <= pushVm.gen
                        /\ pushVm.st = "booting" => all[i].gen < pushVm.gen
      OBVIOUS
    <3>1. CASE i = Len(bus) + 1
      <4>1. all[i] = tasks[k].snap
        BY <1>1, <2>3, <3>1
      <4>2. QED
        BY <2>2, <4>1
    <3>2. CASE i \in 1..Len(bus)
      <4>1. all[i] = bus[i]
        BY <1>1, <2>3, <3>2
      <4>2. QED
        BY <1>0, <3>2, <4>1 DEF BusSound
    <3>3. QED
      BY <2>3, <2>4, <3>1, <3>2
  <2> HIDE DEF all
  <2>6. bus' \in Seq(Snaps) /\ Len(bus') <= Lag
    BY <2>1, <2>3, <2>4
  <2>7. BusSound'
    <3>1. CASE Len(all) > Lag
      <4>1. /\ Len(bus') = Len(all) - 1
            /\ \A i \in 1..Len(bus') : i + 1 \in 1..Len(all) /\ bus'[i] = all[i + 1]
        BY <2>1, <2>4, <3>1
      <4>2. QED
        BY <2>1, <2>5, <4>1 DEF BusSound
    <3>2. CASE ~(Len(all) > Lag)
      BY <2>1, <2>5, <3>2 DEF BusSound
    <3>3. QED
      BY <3>1, <3>2
  <2>8. /\ new \in Tasks /\ new.gen = tasks[k].gen /\ new.snap = tasks[k].snap
        /\ new.chan = tasks[k].chan /\ new.pc = "read"
    BY <1>5 DEF TaskPlaces
  <2> HIDE DEF new
  <2>9. waiter \in Snaps /\ db \in Snaps
    BY <1>0 DEF PushTypes
  <2>10. QED
    BY <1>1, <1>6, <2>1, <2>6, <2>7, <2>8, <2>9, TaskMoves
<1>10. QED
  <2>1. CASE ReadFrame(k) /\ ~OfThisVm(tasks[k])
    BY <1>3, <2>1 DEF ReadFrame
  <2>2. CASE WakeWaiter(k) /\ ~OfThisVm(tasks[k])
    BY <1>3, <2>2 DEF WakeWaiter
  <2>3. QED
    BY <1>4, <1>7, <1>8, <1>9, <2>1, <2>2 DEF ApplySnapshot

(* The VM becomes ready, is removed and boots again; a detached task ends. *)
LEMMA VmPush ==
  ASSUME ProbePushConstants, PushInv, CommitReady \/ RemoveVm \/ CreateVm \/ DetachedEnds
  PROVE  PushInv'
<1> USE DEF ProbePushConstants
<1>0. PushTypes /\ TaskSound("live") /\ TaskSound("old") /\ BusSound /\ VmHolds
  BY DEF PushInv
<1>1. NoTask.chan = <<>> /\ NoTask.gen = 0 /\ NoTask.pc = "none" /\ NoSnap.gen = 0
  BY DEF NoTask, NoSnap, Snap
<1>2. pushVm.gen \in 1..MaxBoots /\ \A k \in {"live", "old"} : tasks[k].gen \in Nat
  BY <1>0 DEF PushTypes, PushGens, Tasks
<1>3. ASSUME CommitReady PROVE PushInv'
  <2>1. /\ pushVm.st = "booting" /\ waiter # NoSnap /\ db' = waiter
        /\ pushVm' = [pushVm EXCEPT !.st = "running"]
        /\ UNCHANGED <<ver, push, tasks, waiter, bus, shownChecks, sync, drops>>
    BY <1>3 DEF CommitReady
  <2>2. /\ pushVm'.gen = pushVm.gen /\ pushVm'.st = "running"
        /\ pushVm' \in [gen : PushGens, st : {"booting", "running", "gone"}]
    BY <1>0, <2>1 DEF PushTypes
  <2>3. PushTypes'
    BY <1>0, <2>1, <2>2 DEF PushTypes
  <2>4. TaskSound("live")' /\ TaskSound("old")' /\ BusSound'
    BY <1>0, <2>1, <2>2 DEF TaskSound, BusSound
  <2>5. VmHolds'
    BY <1>0, <1>2, <2>1, <2>2 DEF VmHolds, PersistedIsCurrent, NothingBeforeReady
  <2>6. QED
    BY <2>3, <2>4, <2>5 DEF PushInv
<1>4. ASSUME RemoveVm PROVE PushInv'
  <2> DEFINE left == IF tasks["live"].pc = "read" THEN NoTask
                     ELSE [tasks["live"] EXCEPT !.chan = <<>>]
  <2>1. /\ pushVm' = [pushVm EXCEPT !.st = "gone"] /\ push' = Down /\ waiter' = NoSnap
        /\ tasks' = [tasks EXCEPT !["live"] = NoTask, !["old"] = left]
        /\ sync' = [pc |-> "idle", ver |-> 0]
        /\ UNCHANGED <<ver, db, bus, shownChecks, drops>>
    BY <1>4 DEF RemoveVm, LiveTask
  <2>2. /\ left \in Tasks /\ left.chan = <<>> /\ left.gen <= pushVm.gen
        /\ left.pc \in {"stage", "project", "publish"} => left.snap.gen = left.gen
    <3>1. CASE tasks["live"].pc = "read"
      BY <1>1, <1>2, <3>1, NoTaskIsTask
    <3>2. CASE tasks["live"].pc # "read"
      <4>1. tasks["live"] \in Tasks
        BY <1>0 DEF PushTypes
      <4>2. /\ left \in Tasks /\ left.chan = <<>> /\ left.gen = tasks["live"].gen
            /\ left.pc = tasks["live"].pc /\ left.snap = tasks["live"].snap
        <5>1. <<>> \in Seq(Snaps) /\ left = [tasks["live"] EXCEPT !.chan = <<>>]
          BY <3>2
        <5>2. QED
          BY <4>1, <5>1 DEF Tasks
      <4>3. QED
        BY <1>0, <4>2 DEF TaskSound
    <3>3. QED
      BY <3>1, <3>2
  <2> HIDE DEF left
  <2>3. /\ pushVm'.gen = pushVm.gen /\ pushVm'.st = "gone"
        /\ pushVm' \in [gen : PushGens, st : {"booting", "running", "gone"}]
    BY <1>0, <2>1 DEF PushTypes
  <2>4. tasks'["live"] = NoTask /\ tasks'["old"] = left
    BY <1>0, <2>1 DEF PushTypes
  <2>5. Down \in [up : BOOLEAN, send : BOOLEAN, seen : 0..MaxVer] /\ ~Down.up
    BY DEF Down
  <2>6. /\ tasks' \in [{"live", "old"} -> Tasks]
        /\ \A k \in {"live", "old"} : Len(tasks'[k].chan) <= MaxChan
    BY <1>0, <1>1, <2>1, <2>2, <2>4, NoTaskIsTask DEF PushTypes
  <2>7. PushTypes'
    BY <1>0, <2>1, <2>3, <2>5, <2>6, NoTaskIsTask DEF PushTypes
  <2>8. TaskSound("live")'
    BY <1>1, <1>2, <2>3, <2>4 DEF TaskSound
  <2>9. TaskSound("old")'
    BY <1>1, <1>2, <2>2, <2>3, <2>4 DEF TaskSound
  <2>10. BusSound'
    BY <1>0, <2>1, <2>3 DEF BusSound
  <2>11. VmHolds'
    BY <1>0, <2>1, <2>3, <2>5 DEF VmHolds, PersistedIsCurrent, NothingBeforeReady
  <2>12. QED
    BY <2>7, <2>8, <2>9, <2>10, <2>11 DEF PushInv
<1>5. ASSUME CreateVm PROVE PushInv'
  <2>1. /\ pushVm.st = "gone" /\ pushVm.gen < MaxBoots
        /\ pushVm' = [gen |-> pushVm.gen + 1, st |-> "booting"] /\ ver' = 0
        /\ UNCHANGED <<push, tasks, waiter, db, bus, shownChecks, sync, drops>>
    BY <1>5 DEF CreateVm
  <2>2. /\ pushVm'.gen = pushVm.gen + 1 /\ pushVm'.st = "booting"
        /\ pushVm' \in [gen : PushGens, st : {"booting", "running", "gone"}]
    BY <1>2, <2>1 DEF PushGens
  <2>3. PushTypes'
    BY <1>0, <2>1, <2>2 DEF PushTypes
  <2>4. TaskSound("live")' /\ TaskSound("old")'
    BY <1>0, <1>2, <2>1, <2>2 DEF TaskSound
  <2>5. BusSound'
    <3>1. \A i \in 1..Len(bus) : bus[i] \in Snaps
      BY <1>0 DEF PushTypes
    <3> \A s \in Snaps : s.gen \in Nat
      BY DEF Snaps
    <3>2. QED
      BY <1>0, <1>2, <2>1, <2>2, <3>1 DEF BusSound
  <2>6. VmHolds'
    <3>1. db.gen \in Nat /\ shownChecks.gen \in Nat
      BY <1>0 DEF PushTypes, Snaps
    <3>2. QED
      BY <1>0, <1>2, <2>1, <2>2, <3>1 DEF VmHolds, PersistedIsCurrent, NothingBeforeReady
  <2>7. QED
    BY <2>3, <2>4, <2>5, <2>6 DEF PushInv
<1>6. ASSUME DetachedEnds PROVE PushInv'
  <2>1. /\ tasks' = [tasks EXCEPT !["old"] = NoTask]
        /\ UNCHANGED <<pushVm, ver, push, waiter, db, bus, shownChecks, sync, drops>>
    BY <1>6 DEF DetachedEnds
  <2>2. Len(NoTask.chan) <= MaxChan /\ 1..Len(NoTask.chan) = {}
    BY <1>1
  <2>3. BusSound' /\ waiter \in Snaps /\ db \in Snaps /\ bus \in Seq(Snaps) /\ Len(bus) <= Lag
    BY <1>0, <2>1 DEF PushTypes, BusSound
  <2>4. QED
    BY <1>1, <2>1, <2>2, <2>3, NoTaskIsTask, TaskMoves
<1>7. QED
  BY <1>3, <1>4, <1>5, <1>6

(* The bridge shows what is of the VM that is there. *)
LEMMA BridgePush ==
  ASSUME ProbePushConstants, PushInv, BridgeStep PROVE PushInv'
<1> USE DEF ProbePushConstants
<1>0. PushTypes /\ TaskSound("live") /\ TaskSound("old") /\ BusSound /\ VmHolds
  BY DEF PushInv
<1>1. /\ UNCHANGED <<pushVm, ver, push, tasks, waiter, db, sync, drops>>
      /\ bus' \in Seq(Snaps) /\ Len(bus') <= Lag
      /\ \A i \in 1..Len(bus') : \E j \in 1..Len(bus) : bus'[i] = bus[j]
      /\ shownChecks' \in Snaps
      /\ shownChecks' = shownChecks \/ (pushVm.st = "running" /\ shownChecks'.gen = pushVm.gen)
  <2>1. CASE BridgeReport
    <3>1. bus \in Seq(Snaps) /\ bus # <<>> /\ bus' = Tail(bus) /\ Len(bus) <= Lag
      BY <1>0, <2>1 DEF PushTypes, BridgeReport
    <3>2. Head(bus) = bus[1] /\ 1 \in 1..Len(bus) /\ bus[1] \in Snaps
      BY <3>1
    <3>3. /\ bus' \in Seq(Snaps) /\ Len(bus') = Len(bus) - 1
          /\ \A i \in 1..Len(bus') : bus'[i] = bus[i + 1] /\ i + 1 \in 1..Len(bus)
      BY <3>1
    <3>4. Reportable(Head(bus)) => pushVm.st = "running" /\ Head(bus).gen = pushVm.gen
      <4>1. pushVm.st = "booting" => bus[1].gen < pushVm.gen
        BY <1>0, <3>2 DEF BusSound
      <4>2. pushVm.st \in {"booting", "running", "gone"} /\ pushVm.gen \in Nat
        BY <1>0 DEF PushTypes, PushGens
      <4>3. QED
        BY <3>2, <4>1, <4>2 DEF Reportable
    <3>5. shownChecks' \in {shownChecks, Head(bus)}
      BY <2>1 DEF BridgeReport
    <3>6. QED
      BY <1>0, <2>1, <3>1, <3>2, <3>3, <3>4, <3>5 DEF BridgeReport, PushTypes
  <2>2. CASE FullReport
    BY <1>0, <2>2 DEF FullReport, Reportable, PushTypes
  <2>3. QED
    BY <2>1, <2>2 DEF BridgeStep
<1>2. PushTypes'
  BY <1>0, <1>1 DEF PushTypes
<1>3. TaskSound("live")' /\ TaskSound("old")' /\ BusSound'
  BY <1>0, <1>1 DEF TaskSound, BusSound
<1>4. VmHolds'
  <2>1. pushVm.gen \in Nat
    BY <1>0 DEF PushTypes, PushGens
  <2>2. QED
    BY <1>0, <1>1, <2>1 DEF VmHolds, PersistedIsCurrent, NothingBeforeReady
<1>5. QED
  BY <1>2, <1>3, <1>4 DEF PushInv

LEMMA NextPush ==
  ASSUME ProbePushConstants, PushInv, [PushNext]_pushVars PROVE PushInv'
<1>1. CASE UNCHANGED pushVars
  BY <1>1 DEF pushVars, PushInv, PushTypes, TaskSound, BusSound, VmHolds, PersistedIsCurrent,
     NothingBeforeReady
<1>2. CASE PushNext
  BY <1>2, GuestPush, ApplyPush, VmPush, BridgePush DEF PushNext, AgentStep
<1>3. QED
  BY <1>1, <1>2

(* For any number of boots, results, frames in flight and lost connections, *)
(* and connection tasks that outlive their worker: the snapshot persisted   *)
(* for a running VM is one of its own, and nothing of a VM is persisted or  *)
(* shown before its ready transaction.                                      *)
THEOREM PushCorrect == ASSUME ProbePushConstants PROVE PushSpec => []PushKept
<1>1. PushInit => PushInv
  BY InitPush
<1>2. PushInv /\ [PushNext]_pushVars => PushInv'
  BY NextPush
<1>3. PushInv => PushKept
  BY DEF PushInv, PushKept, VmHolds
<1>4. QED
  BY <1>1, <1>2, <1>3, PTL DEF PushSpec

(* What the run shows never goes back to an older generation. *)
THEOREM ShownForward == ASSUME ProbePushConstants PROVE PushSpec => RunNotBack
<1>1. PushInit => PushInv
  BY InitPush
<1>2. PushInv /\ [PushNext]_pushVars => PushInv'
  BY NextPush
<1>3. PushInv /\ [PushNext]_pushVars => [RunNotBackStep]_pushVars
  <2> SUFFICES ASSUME PushInv, PushNext PROVE RunNotBackStep
    OBVIOUS
  <2>1. shownChecks.gen \in Nat /\ shownChecks.gen <= pushVm.gen
    BY DEF PushInv, PushTypes, VmHolds, Snaps
  <2>2. shownChecks' = shownChecks \/ shownChecks'.gen = pushVm.gen
    <3>1. CASE BridgeStep
      BY <3>1 DEF BridgeStep, BridgeReport, FullReport, Reportable
    <3>2. CASE GuestStep \/ AgentStep
      BY <3>2 DEF GuestStep, StoreChange, PushConnect, SendFrame, PushWake, Break, CheckRan,
         CheckSync, AgentStep, ApplySnapshot, ReadFrame, WakeWaiter, ProjectPersist, Publish,
         CommitReady, RemoveVm, CreateVm, DetachedEnds
    <3>3. QED
      BY <3>1, <3>2 DEF PushNext
  <2>3. QED
    BY <2>1, <2>2 DEF RunNotBackStep
<1>4. QED
  BY <1>1, <1>2, <1>3, PTL DEF PushSpec, RunNotBack

-----------------------------------------------------------------------------
(* The probes of the guest.  An execution of a check that has looked at the *)
(* guest knows its present state, unless the guest changed since the check  *)
(* was asked for; so do the results it got and showed.                      *)
ExecutionSound(r) ==
  /\ \A s \in executions : s.probe = r.probe => s = r
  /\ r.by \in Checks => /\ check[r.by].pc # "idle"
                        /\ r.saw # "none" /\ r.probe \in check[r.by].same => r.saw = Truth(r.probe)

ResultSound(c, p) ==
  p \in check[c].same => /\ check[c].got[p] \in {"none", "late", Truth(p)}
                         /\ check[c].shown[p] \in {"none", "late", Truth(p)}

QueueSound ==
  \A p \in Probes : \A i \in 1..Len(queue[p]) :
    queue[p][i] \in Checks => check[queue[p][i]].pc # "idle"

ProbeInv ==
  /\ ProbeTypes /\ leftovers \subseteq Detached /\ QueueSound
  /\ \A r \in executions : ExecutionSound(r)
  /\ \A c \in Checks, p \in Probes : ResultSound(c, p)

(* A check that moves on stays asked for, and loses no doubt. *)
CheckMoves ==
  \A c \in Checks : /\ check[c].pc # "idle" => check'[c].pc # "idle"
                    /\ check[c].pc # "idle" => check'[c].same \subseteq check[c].same

LEMMA InitProbe == ASSUME GuestProbesConstants PROVE ProbeInit => ProbeInv
<1> SUFFICES ASSUME ProbeInit PROVE ProbeInv
  OBVIOUS
<1> USE DEF GuestProbesConstants, ProbeInit
<1>1. NoCheck \in CheckStates /\ NoCheck.same = {}
  BY DEF NoCheck, CheckStates
<1>2. ProbeTypes
  BY <1>1 DEF ProbeTypes
<1>3. QED
  BY <1>1, <1>2 DEF ProbeInv, QueueSound, ResultSound

(* The queues hold whom they held, and whoever asked. *)
LEMMA QueueKept ==
  ASSUME ProbeInv, CheckMoves,
         \A p \in Probes : \A i \in 1..Len(queue'[p]) :
           \/ \E j \in 1..Len(queue[p]) : queue'[p][i] = queue[p][j]
           \/ queue'[p][i] \in Checks => check'[queue'[p][i]].pc # "idle"
  PROVE  QueueSound'
<1> SUFFICES ASSUME NEW p \in Probes, NEW i \in 1..Len(queue'[p]), queue'[p][i] \in Checks
             PROVE  check'[queue'[p][i]].pc # "idle"
  BY DEF QueueSound
<1>1. CASE \E j \in 1..Len(queue[p]) : queue'[p][i] = queue[p][j]
  <2>1. PICK j \in 1..Len(queue[p]) : queue'[p][i] = queue[p][j]
    BY <1>1
  <2>2. check[queue[p][j]].pc # "idle"
    BY <2>1 DEF ProbeInv, QueueSound
  <2>3. QED
    BY <2>1, <2>2 DEF CheckMoves
<1>2. QED
  BY <1>1

(* A result: the execution ends, the store takes it, and so does the check  *)
(* that ran it.                                                             *)
LEMMA ResultKept ==
  ASSUME GuestProbesConstants, ProbeInv, NEW r \in executions, NEW out \in Results,
         executions' = executions \ {r}, store' = Apply(r.probe, out), OwnResult(r, out),
         out \in {"late", r.saw}, leftovers' \subseteq leftovers \cup (Detached \cap {r.probe}),
         UNCHANGED <<holds, flips, queue, manual>>
  PROVE  ProbeInv'
<1> USE DEF GuestProbesConstants
<1>0. /\ ProbeTypes /\ ExecutionSound(r) /\ leftovers \subseteq Detached
      /\ r.probe \in Probes /\ r.by \in Checks \cup {Sched} /\ Sched \notin Checks
      /\ "none" \notin Results
  BY DEF ProbeInv, ProbeTypes, Sched, Results
<1> DEFINE new == [check[r.by] EXCEPT !.got[r.probe] = out]
<1>1. \/ r.by = Sched /\ check' = check
      \/ r.by \in Checks /\ check' = [check EXCEPT ![r.by] = new]
  BY <1>0 DEF OwnResult
<1>2. ASSUME r.by \in Checks
      PROVE  /\ new \in CheckStates /\ new.pc = check[r.by].pc /\ new.same = check[r.by].same
             /\ new.shown = check[r.by].shown
             /\ new.got = [check[r.by].got EXCEPT ![r.probe] = out]
  <2>1. check[r.by] \in CheckStates
    BY <1>0, <1>2 DEF ProbeTypes
  <2>2. [check[r.by].got EXCEPT ![r.probe] = out] \in [Probes -> Results \cup {"none"}]
    BY <1>0, <2>1 DEF CheckStates
  <2>3. QED
    BY <2>1, <2>2 DEF CheckStates
<1> HIDE DEF new
<1>3. ProbeTypes'
  <2>1. check' \in [Checks -> CheckStates]
    BY <1>0, <1>1, <1>2 DEF ProbeTypes
  <2>2. store' \in [Probes -> Results \cup {"unknown"}]
    BY <1>0 DEF ProbeTypes, Apply
  <2>3. QED
    BY <1>0, <2>1, <2>2 DEF ProbeTypes
<1>4. \A c \in Checks : check'[c].pc = check[c].pc /\ check'[c].same = check[c].same
  BY <1>0, <1>1, <1>2 DEF ProbeTypes
<1>5. QueueSound'
  BY <1>4, QueueKept DEF CheckMoves
<1>6. ASSUME NEW s \in executions' PROVE ExecutionSound(s)'
  <2>1. s \in executions /\ ExecutionSound(s)
    BY DEF ProbeInv
  <2>2. QED
    BY <1>4, <2>1 DEF ExecutionSound, Truth
<1>7. ASSUME NEW c \in Checks, NEW p \in Probes PROVE ResultSound(c, p)'
  <2>1. ResultSound(c, p) /\ Truth(p)' = Truth(p)
    BY DEF ProbeInv, Truth
  <2>2. CASE check'[c] = check[c]
    BY <2>1, <2>2 DEF ResultSound
  <2>3. CASE r.by = c /\ check'[c] = new
    <3>1. new.got[p] = IF p = r.probe THEN out ELSE check[c].got[p]
      BY <1>0, <1>2, <2>3 DEF ProbeTypes, CheckStates
    <3>2. p = r.probe /\ p \in check[c].same => out \in {"late", Truth(p)}
      BY <1>0, <2>3 DEF ExecutionSound
    <3>3. QED
      BY <1>2, <2>1, <2>3, <3>1, <3>2 DEF ResultSound
  <2>4. QED
    BY <1>0, <1>1, <2>2, <2>3 DEF ProbeTypes
<1>8. leftovers' \subseteq Detached
  BY <1>0
<1>9. QED
  BY <1>3, <1>5, <1>6, <1>7, <1>8 DEF ProbeInv

(* A check moves on, without a new result. *)
LEMMA CheckKept ==
  ASSUME GuestProbesConstants, ProbeInv, NEW c \in Checks, NEW new \in CheckStates,
         check' = [check EXCEPT ![c] = new], new.pc # "idle",
         check[c].pc # "idle" => new.same = check[c].same,
         \A p \in new.same : /\ new.got[p] \in {"none", check[c].got[p]}
                             /\ new.shown[p] \in {"none", check[c].got[p], check[c].shown[p]}
                             /\ p \notin check[c].same =>
                                  new.got[p] = "none" /\ new.shown[p] = "none",
         queue' \in [Probes -> Seq(Checks \cup {Sched})],
         \A p \in Probes : \A i \in 1..Len(queue'[p]) :
           queue'[p][i] = c \/ \E j \in 1..Len(queue[p]) : queue'[p][i] = queue[p][j],
         executions' \subseteq executions, leftovers' \subseteq Detached,
         manual' \in Checks \cup {Nobody}, UNCHANGED <<holds, flips, store>>
  PROVE  ProbeInv'
<1> USE DEF GuestProbesConstants
<1>0. ProbeTypes
  BY DEF ProbeInv
<1>1. ProbeTypes'
  BY <1>0 DEF ProbeTypes
<1>2. check'[c] = new /\ \A d \in Checks \ {c} : check'[d] = check[d]
  BY <1>0 DEF ProbeTypes
<1>3. QueueSound'
  BY <1>2, QueueKept DEF CheckMoves
<1>4. ASSUME NEW s \in executions' PROVE ExecutionSound(s)'
  <2>1. s \in executions /\ ExecutionSound(s)
    BY DEF ProbeInv
  <2>2. s.by \in Checks => check[s.by].pc # "idle" /\ check'[s.by].same = check[s.by].same
    BY <1>2, <2>1 DEF ExecutionSound
  <2>3. s.by \in Checks => check'[s.by].pc # "idle"
    BY <1>2, <2>2
  <2>4. QED
    BY <2>1, <2>2, <2>3 DEF ExecutionSound, Truth
<1>5. ASSUME NEW d \in Checks, NEW p \in Probes PROVE ResultSound(d, p)'
  <2>1. ResultSound(d, p) /\ Truth(p)' = Truth(p)
    BY DEF ProbeInv, Truth
  <2>2. CASE d # c
    BY <1>2, <2>1, <2>2 DEF ResultSound
  <2>3. CASE d = c
    BY <1>2, <2>1, <2>3 DEF ResultSound
  <2>4. QED
    BY <2>2, <2>3
<1>6. QED
  BY <1>1, <1>3, <1>4, <1>5 DEF ProbeInv

(* An execution waits for the lock of its probe, begins, looks at the guest *)
(* and ends.                                                                *)
LEMMA LoopKept ==
  ASSUME GuestProbesConstants, ProbeInv, NEW p \in Probes, ProbeTick(p) \/ Begin(p)
  PROVE  ProbeInv'
<1> USE DEF GuestProbesConstants
<1>0. ProbeTypes /\ queue[p] \in Seq(Checks \cup {Sched}) /\ Sched \notin Checks
  BY DEF ProbeInv, ProbeTypes, Sched
<1>1. ASSUME ProbeTick(p) PROVE ProbeInv'
  <2>1. /\ queue' = [queue EXCEPT ![p] = Append(queue[p], Sched)]
        /\ UNCHANGED <<holds, flips, executions, leftovers, store, manual, check>>
    BY <1>1 DEF ProbeTick
  <2>2. ProbeTypes'
    BY <1>0, <2>1 DEF ProbeTypes
  <2>3. ASSUME NEW q \in Probes, NEW i \in 1..Len(queue'[q])
        PROVE  \/ \E j \in 1..Len(queue[q]) : queue'[q][i] = queue[q][j]
               \/ queue'[q][i] \in Checks => check'[queue'[q][i]].pc # "idle"
    <3>1. CASE q # p
      BY <1>0, <2>1, <3>1 DEF ProbeTypes
    <3>2. CASE q = p
      <4>1. queue'[p] = Append(queue[p], Sched)
        BY <1>0, <2>1 DEF ProbeTypes
      <4>2. i = Len(queue[p]) + 1 \/ i \in 1..Len(queue[p])
        BY <1>0, <3>2, <4>1
      <4>3. CASE i = Len(queue[p]) + 1
        BY <1>0, <3>2, <4>1, <4>3
      <4>4. CASE i \in 1..Len(queue[p])
        BY <1>0, <3>2, <4>1, <4>4
      <4>5. QED
        BY <4>2, <4>3, <4>4
    <3>3. QED
      BY <3>1, <3>2
  <2>4. QueueSound'
    BY <2>1, <2>3, QueueKept DEF CheckMoves
  <2>5. QED
    BY <2>1, <2>2, <2>4 DEF ProbeInv, ExecutionSound, ResultSound, Truth
<1>2. ASSUME Begin(p) PROVE ProbeInv'
  <2> DEFINE new == [probe |-> p, by |-> Head(queue[p]), saw |-> "none"]
  <2>1. /\ queue[p] # <<>> /\ Of(p) = {} /\ executions' = executions \cup {new}
        /\ queue' = [queue EXCEPT ![p] = Tail(queue[p])]
        /\ UNCHANGED <<holds, flips, leftovers, store, manual, check>>
    BY <1>2 DEF Begin, LockFree
  <2>2. /\ Head(queue[p]) = queue[p][1] /\ 1 \in 1..Len(queue[p])
        /\ Head(queue[p]) \in Checks \cup {Sched} /\ Tail(queue[p]) \in Seq(Checks \cup {Sched})
    BY <1>0, <2>1
  <2>3. new \in [probe : Probes, by : Checks \cup {Sched}, saw : {"none", "pass", "fail"}]
    BY <2>2
  <2>4. ProbeTypes'
    BY <1>0, <2>1, <2>2, <2>3 DEF ProbeTypes
  <2>5. ASSUME NEW q \in Probes, NEW i \in 1..Len(queue'[q])
        PROVE  \E j \in 1..Len(queue[q]) : queue'[q][i] = queue[q][j]
    <3>1. CASE q # p
      BY <1>0, <2>1, <3>1 DEF ProbeTypes
    <3>2. CASE q = p
      <4>1. queue'[p] = Tail(queue[p])
        BY <1>0, <2>1 DEF ProbeTypes
      <4>2. i + 1 \in 1..Len(queue[p]) /\ Tail(queue[p])[i] = queue[p][i + 1]
        <5>1. Len(Tail(queue[p])) = Len(queue[p]) - 1 /\ i \in 1..Len(Tail(queue[p]))
          <6>1. i \in 1..Len(Tail(queue[p]))
            BY <3>2, <4>1
          <6>2. Len(Tail(queue[p])) = Len(queue[p]) - 1
            BY <1>0, <2>1
          <6>3. QED
            BY <6>1, <6>2
        <5>2. QED
          BY <1>0, <2>1, <5>1
      <4>3. QED
        BY <3>2, <4>1, <4>2
    <3>3. QED
      BY <3>1, <3>2
  <2>6. QueueSound'
    BY <2>1, <2>5, QueueKept DEF CheckMoves
  <2>7. new.by \in Checks => check[new.by].pc # "idle"
    BY <2>2 DEF ProbeInv, QueueSound
  <2>8. new.probe = p /\ new.saw = "none"
    OBVIOUS
  <2> HIDE DEF new
  <2>9. ASSUME NEW r \in executions' PROVE ExecutionSound(r)'
    <3>1. CASE r = new
      BY <2>1, <2>7, <2>8, <3>1 DEF ExecutionSound, Of
    <3>2. CASE r \in executions
      <4>1. ExecutionSound(r) /\ r.probe # p
        BY <2>1, <3>2 DEF ProbeInv, Of
      <4>2. QED
        BY <2>1, <2>8, <4>1 DEF ExecutionSound, Truth
    <3>3. QED
      BY <2>1, <3>1, <3>2
  <2>10. QED
    BY <2>1, <2>4, <2>6, <2>9 DEF ProbeInv, ResultSound, Truth
<1>3. QED
  BY <1>1, <1>2

LEMMA ExecutionKept ==
  ASSUME GuestProbesConstants, ProbeInv, NEW r \in executions, Sample(r) \/ Finish(r) \/ Expire(r)
  PROVE  ProbeInv'
<1> USE DEF GuestProbesConstants
<1>0. /\ ProbeTypes /\ ExecutionSound(r) /\ leftovers \subseteq Detached
      /\ r \in [probe : Probes, by : Checks \cup {Sched}, saw : {"none", "pass", "fail"}]
  BY DEF ProbeInv, ProbeTypes
<1>1. ASSUME Sample(r) PROVE ProbeInv'
  <2> DEFINE new == [r EXCEPT !.saw = Truth(r.probe)]
  <2>1. /\ executions' = (executions \ {r}) \cup {new}
        /\ UNCHANGED <<holds, flips, queue, leftovers, store, manual, check>>
    BY <1>1 DEF Sample
  <2>2. /\ new \in [probe : Probes, by : Checks \cup {Sched}, saw : {"none", "pass", "fail"}]
        /\ new.probe = r.probe /\ new.by = r.by /\ new.saw = Truth(r.probe)
    BY <1>0 DEF Truth
  <2> HIDE DEF new
  <2>3. ProbeTypes'
    BY <1>0, <2>1, <2>2 DEF ProbeTypes
  <2>4. ASSUME NEW s \in executions' PROVE ExecutionSound(s)'
    <3>1. CASE s = new
      <4>1. \A t \in executions \ {r} : t.probe # r.probe
        BY <1>0 DEF ExecutionSound
      <4>2. QED
        BY <1>0, <2>1, <2>2, <3>1, <4>1 DEF ExecutionSound, Truth
    <3>2. CASE s \in executions \ {r}
      <4>1. ExecutionSound(s) /\ s.probe # r.probe
        BY <1>0, <3>2 DEF ProbeInv, ExecutionSound
      <4>2. QED
        BY <2>1, <2>2, <4>1 DEF ExecutionSound, Truth
    <3>3. QED
      BY <2>1, <3>1, <3>2
  <2>5. QED
    BY <2>1, <2>3, <2>4 DEF ProbeInv, QueueSound, ResultSound, Truth
<1>2. ASSUME Finish(r) PROVE ProbeInv'
  <2>1. /\ r.saw # "none" /\ executions' = executions \ {r} /\ store' = Apply(r.probe, r.saw)
        /\ OwnResult(r, r.saw) /\ UNCHANGED <<holds, flips, queue, leftovers, manual>>
    BY <1>2 DEF Finish
  <2>2. r.saw \in Results
    BY <1>0, <2>1 DEF Results
  <2>3. QED
    BY <2>1, <2>2, ResultKept
<1>3. ASSUME Expire(r) PROVE ProbeInv'
  <2>1. /\ executions' = executions \ {r} /\ store' = Apply(r.probe, "late")
        /\ OwnResult(r, "late") /\ UNCHANGED <<holds, flips, queue, manual>>
        /\ leftovers' = leftovers \cup (Detached \cap {s.probe : s \in {r}})
    BY <1>3 DEF Expire, Dropped
  <2>2. leftovers' \subseteq leftovers \cup (Detached \cap {r.probe}) /\ "late" \in Results
    BY <2>1 DEF Results
  <2>3. QED
    BY <2>1, <2>2, ResultKept
<1>4. QED
  BY <1>1, <1>2, <1>3

(* The learner changes the guest, and with it what is known of a probe. *)
LEMMA FlipKept ==
  ASSUME GuestProbesConstants, ProbeInv, NEW p \in Probes, Flip(p) PROVE ProbeInv'
<1> USE DEF GuestProbesConstants
<1>0. ProbeTypes
  BY DEF ProbeInv
<1>1. /\ holds' = [holds EXCEPT ![p] = ~holds[p]] /\ flips' \in 0..MaxFlips
      /\ check' = [c \in Checks |-> [check[c] EXCEPT !.same = check[c].same \ {p}]]
      /\ UNCHANGED <<executions, queue, leftovers, store, manual>>
  BY <1>0 DEF Flip, ProbeTypes
<1>2. ASSUME NEW c \in Checks
      PROVE  /\ check'[c] \in CheckStates /\ check'[c].same = check[c].same \ {p}
             /\ check'[c].pc = check[c].pc /\ check'[c].got = check[c].got
             /\ check'[c].shown = check[c].shown
  <2>1. check[c] \in CheckStates /\ check'[c] = [check[c] EXCEPT !.same = check[c].same \ {p}]
    BY <1>0, <1>1 DEF ProbeTypes
  <2>2. QED
    BY <2>1 DEF CheckStates
<1>3. check' \in [Checks -> CheckStates]
  BY <1>1, <1>2
<1>4. ProbeTypes'
  BY <1>0, <1>1, <1>3 DEF ProbeTypes
<1>5. \A q \in Probes \ {p} : Truth(q)' = Truth(q)
  BY <1>0, <1>1 DEF ProbeTypes, Truth
<1>6. QueueSound'
  BY <1>1, <1>2, QueueKept DEF CheckMoves
<1>7. ASSUME NEW r \in executions' PROVE ExecutionSound(r)'
  <2>1. r \in executions /\ ExecutionSound(r) /\ r.probe \in Probes
    BY <1>0, <1>1 DEF ProbeInv, ProbeTypes
  <2>2. QED
    BY <1>1, <1>2, <1>5, <2>1 DEF ExecutionSound
<1>8. ASSUME NEW c \in Checks, NEW q \in Probes PROVE ResultSound(c, q)'
  <2>1. ResultSound(c, q)
    BY DEF ProbeInv
  <2>2. QED
    BY <1>2, <1>5, <2>1 DEF ResultSound
<1>9. QED
  BY <1>1, <1>4, <1>6, <1>7, <1>8 DEF ProbeInv

(* A check is asked for, begins, shows results, ends or is dropped. *)
LEMMA WithoutKept ==
  ASSUME NEW S, NEW q \in Seq(S), NEW who
  PROVE  /\ Without(q, who) \in Seq(S)
         /\ \A i \in 1..Len(Without(q, who)) : \E j \in 1..Len(q) : Without(q, who)[i] = q[j]
<1> DEFINE at == {i \in 1..Len(q) : q[i] = who}
<1>1. CASE at = {}
  BY <1>1 DEF Without
<1>2. CASE at # {}
  <2>1. PICK k \in 1..Len(q) : Without(q, who) = RemoveAt(q, k)
    BY <1>2 DEF Without
  <2> DEFINE before == SubSeq(q, 1, k - 1)
             after == SubSeq(q, k + 1, Len(q))
  <2>2. /\ before \in Seq(S) /\ Len(before) = k - 1
        /\ \A i \in 1..(k - 1) : before[i] = q[i]
    OBVIOUS
  <2>3. /\ after \in Seq(S) /\ Len(after) = Len(q) - k
        /\ \A i \in 1..(Len(q) - k) : after[i] = q[k + i]
    OBVIOUS
  <2>4. Without(q, who) = before \o after
    BY <2>1 DEF RemoveAt
  <2> HIDE DEF before, after
  <2>5. before \o after \in Seq(S) /\ Len(before \o after) = Len(q) - 1
    BY <2>2, <2>3
  <2>6. ASSUME NEW i \in 1..Len(before \o after)
        PROVE  \E j \in 1..Len(q) : (before \o after)[i] = q[j]
    <3>1. CASE i <= k - 1
      BY <2>2, <2>3, <2>5, <3>1
    <3>2. CASE i > k - 1
      <4>1. (before \o after)[i] = after[i - (k - 1)] /\ i - (k - 1) \in 1..(Len(q) - k)
        <5>1. i \in (Len(before) + 1)..(Len(before) + Len(after))
          BY <2>2, <2>3, <2>5, <3>2
        <5>2. (before \o after)[i] = after[i - Len(before)]
          BY <2>2, <2>3, <5>1
        <5>3. QED
          BY <2>2, <2>3, <5>1, <5>2
      <4>2. (before \o after)[i] = q[i + 1] /\ i + 1 \in 1..Len(q)
        <5>1. i \in Nat /\ k + (i - (k - 1)) = i + 1 /\ i + 1 \in 1..Len(q)
          BY <2>5, <4>1
        <5>2. after[i - (k - 1)] = q[k + (i - (k - 1))]
          BY <2>3, <4>1
        <5>3. QED
          BY <4>1, <5>1, <5>2
      <4>3. QED
        BY <4>2
    <3>3. QED
      BY <2>2, <3>1, <3>2
  <2>7. QED
    BY <2>4, <2>5, <2>6
<1>3. QED
  BY <1>1, <1>2

LEMMA ClientKept ==
  ASSUME GuestProbesConstants, ProbeInv, NEW c \in Checks, Client(c)
  PROVE  ProbeInv'
<1> USE DEF GuestProbesConstants
<1>0. /\ ProbeTypes /\ leftovers \subseteq Detached /\ check[c] \in CheckStates
      /\ queue \in [Probes -> Seq(Checks \cup {Sched})] /\ manual \in Checks \cup {Nobody}
  BY DEF ProbeInv, ProbeTypes
<1>1. ASSUME Ask(c) PROVE ProbeInv'
  <2>1. PICK sel \in SUBSET Probes \ {{}} :
          check' = [check EXCEPT ![c] =
            [NoCheck EXCEPT !.pc = IF Cardinality(Connected) < Permits THEN "asked" ELSE "failed",
                            !.sel = sel, !.same = Probes]]
    BY <1>1 DEF Ask
  <2> DEFINE place == IF Cardinality(Connected) < Permits THEN "asked" ELSE "failed"
             new == [NoCheck EXCEPT !.pc = place, !.sel = sel, !.same = Probes]
  <2>2. check' = [check EXCEPT ![c] = new] /\ place \in {"asked", "failed"} /\ sel \in SUBSET Probes
    BY <2>1
  <2> HIDE DEF place
  <2>3. /\ new \in CheckStates /\ new.pc = place
        /\ \A p \in Probes : new.got[p] = "none" /\ new.shown[p] = "none"
    BY <2>2 DEF NoCheck, CheckStates
  <2>4. new.same \subseteq Probes
    BY <2>3 DEF CheckStates
  <2>5. /\ check[c].pc = "idle"
        /\ UNCHANGED <<holds, flips, executions, queue, leftovers, store, manual>>
    BY <1>1 DEF Ask
  <2> HIDE DEF new
  <2>6. QED
    BY <1>0, <2>2, <2>3, <2>4, <2>5, CheckKept
<1>2. ASSUME NEW place \in {"asked", "running", "sent", "aborting", "done", "failed"} PROVE
        LET new == [check[c] EXCEPT !.pc = place]
        IN  /\ new \in CheckStates /\ new.pc # "idle" /\ new.same = check[c].same
            /\ new.got = check[c].got /\ new.shown = check[c].shown
  BY <1>0, <1>2 DEF CheckStates
<1>3. ASSUME NEW place \in {"asked", "running", "sent", "aborting", "done", "failed"},
             check' = [check EXCEPT ![c].pc = place],
             queue' \in [Probes -> Seq(Checks \cup {Sched})],
             \A p \in Probes : \A i \in 1..Len(queue'[p]) :
               queue'[p][i] = c \/ \E j \in 1..Len(queue[p]) : queue'[p][i] = queue[p][j],
             executions' \subseteq executions, leftovers' \subseteq Detached,
             manual' \in Checks \cup {Nobody}, UNCHANGED <<holds, flips, store>>
      PROVE  ProbeInv'
  <2> DEFINE new == [check[c] EXCEPT !.pc = place]
  <2>1. check' = [check EXCEPT ![c] = new]
    BY <1>3
  <2>2. /\ new \in CheckStates /\ new.pc # "idle" /\ new.same = check[c].same
        /\ new.got = check[c].got /\ new.shown = check[c].shown
    BY <1>2
  <2> HIDE DEF new
  <2>3. QED
    BY <1>3, <2>1, <2>2, CheckKept
<1>4. ASSUME StartBatch(c) PROVE ProbeInv'
  <2>1. /\ manual' \in Checks \cup {Nobody}
        /\ UNCHANGED <<holds, flips, executions, leftovers, store>>
        /\ \/ check' = [check EXCEPT ![c].pc = "running"]
           \/ check' = [check EXCEPT ![c].pc = "failed"]
        /\ \/ queue' = queue
           \/ queue' = [p \in Probes |->
                          IF p \in check[c].sel THEN Append(queue[p], c) ELSE queue[p]]
    BY <1>0, <1>4 DEF StartBatch
  <2>2. queue' \in [Probes -> Seq(Checks \cup {Sched})]
    <3>1. \A p \in Probes : Append(queue[p], c) \in Seq(Checks \cup {Sched})
      BY <1>0
    <3>2. QED
      BY <1>0, <2>1, <3>1
  <2>3. ASSUME NEW p \in Probes, NEW i \in 1..Len(queue'[p])
        PROVE  queue'[p][i] = c \/ \E j \in 1..Len(queue[p]) : queue'[p][i] = queue[p][j]
    <3>1. CASE queue'[p] = queue[p]
      BY <3>1
    <3>2. CASE queue'[p] = Append(queue[p], c)
      <4>1. queue[p] \in Seq(Checks \cup {Sched})
        BY <1>0
      <4>2. i = Len(queue[p]) + 1 \/ i \in 1..Len(queue[p])
        BY <3>2, <4>1
      <4>3. CASE i = Len(queue[p]) + 1
        BY <3>2, <4>1, <4>3
      <4>4. CASE i \in 1..Len(queue[p])
        BY <3>2, <4>1, <4>4
      <4>5. QED
        BY <4>2, <4>3, <4>4
    <3>3. QED
      BY <1>0, <2>1, <3>1, <3>2
  <2>4. QED
    BY <1>0, <1>3, <2>1, <2>2, <2>3
<1>5. ASSUME NEW p \in Probes, Deliver(c, p) PROVE ProbeInv'
  <2> DEFINE new == [check[c] EXCEPT !.shown[p] = check[c].got[p]]
  <2>1. /\ check[c].pc \in {"running", "sent"} /\ check' = [check EXCEPT ![c] = new]
        /\ UNCHANGED <<holds, flips, executions, queue, leftovers, store, manual>>
    BY <1>5 DEF Deliver
  <2>2. [check[c].shown EXCEPT ![p] = check[c].got[p]] \in [Probes -> Results \cup {"none"}]
    BY <1>0 DEF CheckStates
  <2>3. /\ new \in CheckStates /\ new.pc = check[c].pc /\ new.same = check[c].same
        /\ new.got = check[c].got /\ new.shown = [check[c].shown EXCEPT ![p] = check[c].got[p]]
    BY <1>0, <2>2 DEF CheckStates
  <2> HIDE DEF new
  <2>4. \A q \in Probes : new.shown[q] \in {check[c].got[q], check[c].shown[q]}
    BY <1>0, <2>3 DEF CheckStates
  <2>5. new.same \subseteq Probes
    BY <2>3 DEF CheckStates
  <2>6. QED
    BY <1>0, <2>1, <2>3, <2>4, <2>5, CheckKept
<1>6. ASSUME EndBatch(c) \/ Complete(c) \/ LearnerLeaves(c) PROVE ProbeInv'
  <2>1. /\ manual' \in Checks \cup {Nobody}
        /\ UNCHANGED <<holds, flips, executions, queue, leftovers, store>>
        /\ \/ check' = [check EXCEPT ![c].pc = "sent"]
           \/ check' = [check EXCEPT ![c].pc = "done"]
           \/ check' = [check EXCEPT ![c].pc = "aborting"]
           \/ check' = [check EXCEPT ![c].pc = "failed"]
    BY <1>0, <1>6 DEF EndBatch, Complete, LearnerLeaves
  <2>2. QED
    BY <1>0, <1>3, <2>1
<1>7. ASSUME Reap(c) PROVE ProbeInv'
  <2>1. /\ manual' = Nobody /\ check' = [check EXCEPT ![c].pc = "failed"]
        /\ queue' = [p \in Probes |-> Without(queue[p], c)]
        /\ leftovers' \subseteq leftovers \cup Detached /\ executions' \subseteq executions
        /\ UNCHANGED <<holds, flips, store>>
    BY <1>7 DEF Reap, DropLock, Dropped
  <2>2. ASSUME NEW p \in Probes
        PROVE  /\ queue'[p] \in Seq(Checks \cup {Sched})
               /\ \A i \in 1..Len(queue'[p]) :
                    \E j \in 1..Len(queue[p]) : queue'[p][i] = queue[p][j]
    <3>1. queue[p] \in Seq(Checks \cup {Sched}) /\ queue'[p] = Without(queue[p], c)
      BY <1>0, <2>1
    <3>2. QED
      BY <3>1, WithoutKept
  <2>3. queue' \in [Probes -> Seq(Checks \cup {Sched})]
    BY <2>1, <2>2
  <2>4. QED
    BY <1>0, <1>3, <2>1, <2>2, <2>3
<1>8. QED
  BY <1>1, <1>4, <1>5, <1>6, <1>7 DEF Client

LEMMA NextProbe ==
  ASSUME GuestProbesConstants, ProbeInv, [ProbeNext]_probeVars PROVE ProbeInv'
<1>1. CASE UNCHANGED probeVars
  BY <1>1 DEF probeVars, ProbeInv, ProbeTypes, QueueSound, ExecutionSound, ResultSound, Truth
<1>2. ASSUME NEW p \in Probes, LeftoverExits(p) PROVE ProbeInv'
  BY <1>2 DEF LeftoverExits, ProbeInv, ProbeTypes, QueueSound, ExecutionSound, ResultSound, Truth
<1>3. QED
  BY <1>1, <1>2, LoopKept, ExecutionKept, FlipKept, ClientKept DEF ProbeNext, Probe

(* For any number of probes and checks, however scheduled executions,       *)
(* timeouts and learners who go away interleave: a probe runs once at a     *)
(* time, and a result a check shows was measured after it was asked for.    *)
THEOREM ProbesCorrect == ASSUME GuestProbesConstants PROVE ProbeSpec => []ProbesFresh
<1>1. ProbeInit => ProbeInv
  BY InitProbe
<1>2. ProbeInv /\ [ProbeNext]_probeVars => ProbeInv'
  BY NextProbe
<1>3. ProbeInv => ProbesFresh
  <2> SUFFICES ASSUME ProbeInv PROVE ProbesFresh
    OBVIOUS
  <2>1. OneCopy
    <3> SUFFICES ASSUME NEW p \in Probes \ Detached
                 PROVE  Cardinality(Of(p)) + Cardinality({p} \cap leftovers) <= 1
      BY DEF OneCopy
    <3>1. {p} \cap leftovers = {} /\ Cardinality({}) = 0
      BY FS_EmptySet DEF ProbeInv
    <3>2. CASE Of(p) = {}
      BY <3>1, <3>2
    <3>3. CASE Of(p) # {}
      <4>1. PICK r \in Of(p) : TRUE
        BY <3>3
      <4>2. Of(p) = {r}
        BY <4>1 DEF Of, ProbeInv, ExecutionSound
      <4>3. Cardinality({r}) = 1
        BY FS_Singleton
      <4>4. QED
        BY <3>1, <4>2, <4>3
    <3>4. QED
      BY <3>2, <3>3
  <2>2. CheckIsFresh
    BY DEF CheckIsFresh, ProbeInv, ResultSound
  <2>3. QED
    BY <2>1, <2>2 DEF ProbesFresh, ProbeInv
<1>4. QED
  BY <1>1, <1>2, <1>3, PTL DEF ProbeSpec

-----------------------------------------------------------------------------
(* The learner's command.                                                  *)

RealMarks == [gen : 1..MaxGen, alias : Aliases, ord : 1..MaxHints]

CliSteps == {"idle", "status", "view", "load", "persist", "reveal", "ask", "confirm",
             "drop", "print", "clear"}

MarkSteps == {"persist", "reveal", "ask", "confirm", "drop", "print", "clear"}

Invocations ==
  {c \in [pc : CliSteps, alias : Aliases \cup {"none"}, mark : RealMarks \cup {NoMark},
          view : Reveals \cup {Empty}, err : BOOLEAN] :
     /\ c.pc \in {"status", "load"} => c.alias \in Aliases
     /\ c.pc = "load" => c.view \in Reveals
     /\ c.pc \in MarkSteps => c.mark \in RealMarks}

CliRequests ==
  [st : {"free", "lane", "fence", "read", "decide", "update", "answer", "recheck", "reply"},
   kind : {"status", "sync", "solution", "hint"}, by : Procs \cup {NoClient},
   alias : Aliases \cup {"none"}, ord : 0..MaxHints, gen : 0..MaxGen,
   seen : Reveals \cup {Empty}, solved : BOOLEAN, assisted : BOOLEAN,
   at : 0..MaxGen, out : {"none", "view", "error"}]

Rows == [revealed : Reveals, gen : 1..MaxGen, solved : BOOLEAN, solution : BOOLEAN,
         assisted : BOOLEAN]

Fills == [pc : {"idle", "asked", "got"}, same : BOOLEAN, seen : Reveals \cup {Empty}]

AtMost(v, w) == \A a \in Aliases : v[a] <= w[a]

(* What a request carries was true of the run when it was read, and the run *)
(* only moves forward: its generation, its reveals and its solution.        *)
RequestSound(r, run, e) ==
  /\ r.kind = "hint" => r.alias \in Aliases
  /\ r.st \in {"read", "decide", "update", "answer", "recheck"} => r.gen <= run.gen
  /\ r.st = "recheck" => r.gen <= r.at /\ r.at <= run.gen
  /\ r.st = "recheck" \/ (r.st = "reply" /\ r.out = "view")
       => r.seen \in Reveals /\ AtMost(r.seen, run.revealed)
  /\ r.st = "reply" /\ r.out = "view" => r.at = r.gen
  /\ r.st = "update" /\ r.kind = "hint" =>
       r.seen \in Reveals /\ r.seen[r.alias] + 1 = r.ord
  /\ r.st = "update" /\ r.kind # "hint" /\ r.solved => run.solved /\ (e => r.assisted)

CliShapes ==
  /\ row \in Rows /\ vm \in 1..MaxGen /\ row.gen <= vm
  /\ pending \in RealMarks \cup {NoMark}
  /\ cli \in [Procs -> Invocations]
  /\ cliReq \in [Slots -> CliRequests]
  /\ lane \in Slots \cup {0}
  /\ lane # 0 => cliReq[lane].st \notin {"free", "lane"}
  /\ cache \in Reveals \cup {Empty} /\ answered \in Reveals
  /\ fill \in Fills /\ (fill.pc = "got" => fill.seen \in Reveals)
  /\ early \in BOOLEAN

(* The completion cache, and the refresh that may still fill it, are not   *)
(* behind the last view the broker passed on.                              *)
CacheAhead ==
  /\ AtMost(answered, row.revealed)
  /\ cache = Empty \/ AtMost(answered, cache)
  /\ fill.pc = "got" /\ fill.same => AtMost(answered, fill.seen)

CliInv ==
  /\ CliShapes /\ CacheAhead /\ AssistedIsKept
  /\ \A s \in Slots : RequestSound(cliReq[s], row, early)

(* Constants used to be there for the record notation. *)
LEMMA CliConsts ==
  ASSUME RunCliConstants
  PROVE  /\ IdleCli \in Invocations /\ Free \in CliRequests
         /\ \A run, e : RequestSound(Free, run, e)
         /\ \A c \in Invocations : Fail(c) \in Invocations /\ Refused(c) \in Invocations
         /\ \A c \in Invocations : \A v \in Reveals : Viewed(c, v) \in Invocations
<1>1. IdleCli \in Invocations
  BY DEF IdleCli, Invocations, CliSteps, MarkSteps
<1>2. Free \in CliRequests
  BY DEF Free, CliRequests, RunCliConstants
<1>3. \A run, e : RequestSound(Free, run, e)
  BY DEF Free, RequestSound
<1>4. ASSUME NEW c \in Invocations
      PROVE  Fail(c) \in Invocations /\ Refused(c) \in Invocations
  <2>1. c.pc = "reveal" => [c EXCEPT !.pc = "ask", !.err = FALSE] \in Invocations
                            /\ [c EXCEPT !.pc = "ask", !.err = TRUE] \in Invocations
    BY DEF Invocations, CliSteps, MarkSteps
  <2>2. c.pc = "confirm" => [c EXCEPT !.pc = "drop"] \in Invocations
    BY DEF Invocations, CliSteps, MarkSteps
  <2>3. QED
    BY <1>1, <2>1, <2>2 DEF Fail, Refused
<1>5. ASSUME NEW c \in Invocations, NEW v \in Reveals
      PROVE  Viewed(c, v) \in Invocations
  <2>1. c.pc = "status" => [c EXCEPT !.pc = "load", !.view = v] \in Invocations
    BY DEF Invocations, CliSteps, MarkSteps
  <2>2. c.pc \in {"reveal", "confirm"} => [c EXCEPT !.pc = "print"] \in Invocations
    BY DEF Invocations, CliSteps, MarkSteps
  <2>3. c.pc = "confirm" => [c EXCEPT !.pc = "drop"] \in Invocations
    BY DEF Invocations, CliSteps, MarkSteps
  <2>4. QED
    BY <1>1, <2>1, <2>2, <2>3 DEF Viewed
<1>6. QED
  BY <1>1, <1>2, <1>3, <1>4, <1>5

(* A request keeps what it carries while the run moves forward. *)
LEMMA SoundForward ==
  ASSUME RunCliConstants, NEW r \in CliRequests, NEW run \in Rows, NEW to \in Rows,
         NEW e \in BOOLEAN, NEW f \in BOOLEAN, RequestSound(r, run, e),
         run.gen <= to.gen, AtMost(run.revealed, to.revealed),
         run.solved => to.solved /\ f = e
  PROVE  RequestSound(r, to, f)
<1>1. run.gen \in Int /\ to.gen \in Int /\ r.gen \in Int /\ r.at \in Int
  BY DEF Rows, CliRequests, RunCliConstants
<1>2. run.revealed \in Reveals /\ to.revealed \in Reveals
  BY DEF Rows
<1>3. r.seen \in Reveals /\ AtMost(r.seen, run.revealed) => AtMost(r.seen, to.revealed)
  BY <1>2 DEF AtMost, Reveals, RunCliConstants
<1>4. QED
  BY <1>1, <1>3 DEF RequestSound

(* What is left to show of a step of an invocation. *)
LEMMA GuestKept ==
  ASSUME RunCliConstants, CliInv, GuestOnly, pending' \in RealMarks \cup {NoMark},
         cli' \in [Procs -> Invocations], cliReq' \in [Slots -> CliRequests],
         \A s \in Slots : RequestSound(cliReq'[s], row, early),
         \A s \in Slots : cliReq[s].st \notin {"free", "lane"} => cliReq'[s].st = cliReq[s].st
  PROVE  CliInv'
<1>1. UNCHANGED <<row, vm, lane, cache, fill, answered, early>>
  BY DEF GuestOnly
<1>2. CliShapes' /\ CacheAhead' /\ AssistedIsKept'
  BY <1>1 DEF CliInv, CliShapes, CacheAhead, AssistedIsKept
<1>3. \A s \in Slots : RequestSound(cliReq[s], row, early)'
  BY <1>1
<1>4. QED
  BY <1>2, <1>3 DEF CliInv

LEMMA SendKept ==
  ASSUME RunCliConstants, CliInv, NEW p \in Procs, NEW kind \in {"status", "sync", "solution", "hint"},
         NEW c \in Invocations, kind = "hint" => c.mark \in RealMarks, Send(p, kind, c)
  PROVE  /\ cli' \in [Procs -> Invocations] /\ cliReq' \in [Slots -> CliRequests]
         /\ \A s \in Slots : RequestSound(cliReq'[s], row, early)
         /\ \A s \in Slots : cliReq[s].st \notin {"free", "lane"} => cliReq'[s].st = cliReq[s].st
<1>1. Fail(c) \in Invocations
  BY CliConsts
<1>2. CASE FreeSlots = {}
  BY <1>1, <1>2 DEF Send, CliInv, CliShapes
<1>3. CASE FreeSlots # {}
  <2>1. PICK s \in Slots : /\ cliReq[s].st = "free"
                           /\ cli' = [cli EXCEPT ![p] = c]
                           /\ cliReq' = [cliReq EXCEPT ![s] = CliRequest(p, kind, c)]
    BY <1>3 DEF Send, FreeSlots
  <2>2. vm \in 1..MaxGen /\ MaxGen \in Nat /\ MaxHints \in Nat
    BY DEF CliInv, CliShapes, RunCliConstants
  <2>3. c.mark.alias \in Aliases \cup {"none"} /\ c.mark.ord \in 0..MaxHints
    <3>1. c.mark \in RealMarks \cup {NoMark}
      BY DEF Invocations
    <3>2. QED
      BY <2>2, <3>1 DEF RealMarks, NoMark
  <2>4. CliRequest(p, kind, c) \in CliRequests
    <3>1. Free \in CliRequests
      BY CliConsts
    <3>2. vm \in 0..MaxGen
      BY <2>2
    <3>3. QED
      BY <2>3, <3>1, <3>2 DEF CliRequest, CliRequests
  <2>5. /\ CliRequest(p, kind, c).st = "lane" /\ CliRequest(p, kind, c).kind = kind
        /\ CliRequest(p, kind, c).alias = c.mark.alias
    BY DEF CliRequest, Free
  <2>6. RequestSound(CliRequest(p, kind, c), row, early)
    BY <2>5 DEF RequestSound, RealMarks
  <2>7. QED
    BY <2>1, <2>4, <2>5, <2>6 DEF CliInv, CliShapes
<1>4. QED
  BY <1>2, <1>3

LEMMA StartKept ==
  ASSUME RunCliConstants, CliInv, NEW p \in Procs,
         \/ \E a \in Aliases : StartHint(p, a)
         \/ \E k \in {"status", "sync", "solution"} : StartOther(p, k)
         \/ Confirm(p)
  PROVE  CliInv'
<1>1. GuestOnly /\ pending' \in RealMarks \cup {NoMark}
  BY DEF StartHint, StartOther, Confirm, CliInv, CliShapes
<1>2. ASSUME NEW a \in Aliases, StartHint(p, a)
      PROVE  CliInv'
  <2>1. [IdleCli EXCEPT !.pc = "status", !.alias = a] \in Invocations
    BY DEF IdleCli, Invocations, CliSteps, MarkSteps
  <2>2. Send(p, "status", [IdleCli EXCEPT !.pc = "status", !.alias = a])
    BY <1>2 DEF StartHint
  <2>3. QED
    BY <1>1, <2>1, <2>2, SendKept, GuestKept
<1>3. ASSUME NEW k \in {"status", "sync", "solution"}, StartOther(p, k)
      PROVE  CliInv'
  <2>1. [IdleCli EXCEPT !.pc = "view"] \in Invocations
    BY DEF IdleCli, Invocations, CliSteps, MarkSteps
  <2>2. Send(p, k, [IdleCli EXCEPT !.pc = "view"])
    BY <1>3 DEF StartOther
  <2>3. QED
    BY <1>1, <2>1, <2>2, SendKept, GuestKept
<1>4. CASE Confirm(p)
  <2>1. cli[p] \in Invocations /\ cli[p].pc = "ask"
    BY <1>4 DEF Confirm, CliInv, CliShapes
  <2>2. [cli[p] EXCEPT !.pc = "confirm"] \in Invocations
    BY <2>1 DEF Invocations, CliSteps, MarkSteps
  <2>3. Send(p, "status", [cli[p] EXCEPT !.pc = "confirm"])
    BY <1>4 DEF Confirm
  <2>4. QED
    BY <1>1, <2>2, <2>3, SendKept, GuestKept
<1>5. QED
  BY <1>2, <1>3, <1>4

LEMMA LoadKept ==
  ASSUME RunCliConstants, CliInv, NEW p \in Procs, Load(p)
  PROVE  CliInv'
<1> DEFINE c == cli[p]
           mark == IF pending # NoMark /\ pending.gen # vm THEN NoMark ELSE pending
           next == [gen |-> vm, alias |-> c.alias, ord |-> c.view[c.alias] + 1]
<1>1. c \in Invocations /\ c.pc = "load" /\ c.alias \in Aliases /\ c.view \in Reveals
  BY DEF Load, CliInv, CliShapes, Invocations
<1>2. mark \in RealMarks \cup {NoMark} /\ pending' = mark /\ GuestOnly
  BY DEF Load, CliInv, CliShapes
<1>3. CASE /\ mark # NoMark
           /\ Send(p, "hint", [c EXCEPT !.mark = mark, !.pc = "reveal"])
  <2>1. [c EXCEPT !.mark = mark, !.pc = "reveal"] \in Invocations
        /\ [c EXCEPT !.mark = mark, !.pc = "reveal"].mark \in RealMarks
    <3> HIDE DEF mark
    <3>1. mark \in RealMarks
      BY <1>2, <1>3
    <3>2. QED
      BY <1>1, <3>1 DEF Invocations, CliSteps, MarkSteps
  <2>2. QED
    BY <1>2, <1>3, <2>1, SendKept, GuestKept
<1>4. CASE /\ cli' = [cli EXCEPT ![p] =
                        CASE mark # NoMark /\ mark.alias = c.alias /\ IsRevealed(c.view, mark)
                               -> [c EXCEPT !.mark = mark, !.pc = "print"]
                          [] mark = NoMark /\ c.view[c.alias] < MaxHints
                               -> [c EXCEPT !.mark = next, !.pc = "persist"]
                          [] OTHER -> IdleCli]
           /\ UNCHANGED cliReq
  <2>1. mark # NoMark => [c EXCEPT !.mark = mark, !.pc = "print"] \in Invocations
    <3> HIDE DEF mark
    <3> QED
      BY <1>1, <1>2 DEF Invocations, CliSteps, MarkSteps
  <2>2. c.view[c.alias] < MaxHints => next \in RealMarks
    BY <1>1 DEF RealMarks, Reveals, CliInv, CliShapes, RunCliConstants
  <2>3. c.view[c.alias] < MaxHints => [c EXCEPT !.mark = next, !.pc = "persist"] \in Invocations
    <3> HIDE DEF next
    <3> QED
      BY <1>1, <2>2 DEF Invocations, CliSteps, MarkSteps
  <2>4. cli' \in [Procs -> Invocations]
    <3> HIDE DEF next, mark
    <3> QED
      BY <1>4, <2>1, <2>3, CliConsts DEF CliInv, CliShapes
  <2>5. QED
    BY <1>2, <1>4, <2>4, GuestKept DEF CliInv, CliShapes
<1>5. QED
  BY <1>3, <1>4 DEF Load

LEMMA PersistKept ==
  ASSUME RunCliConstants, CliInv, NEW p \in Procs, NEW ok \in BOOLEAN, Persist(p, ok)
  PROVE  CliInv'
<1>1. cli[p] \in Invocations /\ cli[p].pc = "persist" /\ cli[p].mark \in RealMarks
  BY DEF Persist, CliInv, CliShapes, Invocations, MarkSteps
<1>2. CASE ok
  <2>1. [cli[p] EXCEPT !.pc = "reveal"] \in Invocations
        /\ [cli[p] EXCEPT !.pc = "reveal"].mark \in RealMarks
    BY <1>1 DEF Invocations, CliSteps, MarkSteps
  <2>2. /\ pending' = cli[p].mark /\ GuestOnly
        /\ Send(p, "hint", [cli[p] EXCEPT !.pc = "reveal"])
    BY <1>2 DEF Persist
  <2>3. QED
    BY <1>1, <2>1, <2>2, SendKept, GuestKept
<1>3. CASE ~ok
  <2>1. /\ cli' = [cli EXCEPT ![p] = IdleCli] /\ UNCHANGED <<pending, cliReq>>
        /\ GuestOnly
    BY <1>3 DEF Persist
  <2>2. QED
    BY <2>1, CliConsts, GuestKept DEF CliInv, CliShapes
<1>4. QED
  BY <1>2, <1>3

(* An invocation that ends or gives up on its request. *)
LEMMA EndKept ==
  ASSUME RunCliConstants, CliInv, NEW p \in Procs,
         Drop(p) \/ Clear(p) \/ TimeOut(p) \/ Interrupt(p) \/ \E ok \in BOOLEAN : Show(p, ok)
  PROVE  CliInv'
<1>1. cli[p] \in Invocations /\ GuestOnly
  BY DEF CliInv, CliShapes, Drop, Clear, TimeOut, Interrupt, Show
<1>2. CASE Drop(p) \/ Clear(p)
  <2>1. /\ pending' = ClearIfMatches(cli[p].mark) /\ UNCHANGED cliReq
        /\ cli' = [cli EXCEPT ![p] = IdleCli]
    BY <1>2 DEF Drop, Clear
  <2>2. QED
    BY <1>1, <2>1, CliConsts, GuestKept DEF CliInv, CliShapes, ClearIfMatches
<1>3. CASE TimeOut(p) \/ Interrupt(p)
  <2>1. /\ cliReq' = Abandoned(p) /\ UNCHANGED pending
        /\ cli' = [cli EXCEPT ![p] = Fail(cli[p])] \/ cli' = [cli EXCEPT ![p] = IdleCli]
    BY <1>3 DEF TimeOut, Interrupt
  <2>2. cli' \in [Procs -> Invocations]
    BY <1>1, <2>1, CliConsts DEF CliInv, CliShapes
  <2>3. ASSUME NEW s \in Slots
        PROVE  /\ Abandoned(p)[s] \in CliRequests /\ Abandoned(p)[s].st = cliReq[s].st
               /\ RequestSound(Abandoned(p)[s], row, early)
    <3>1. cliReq[s] \in CliRequests /\ RequestSound(cliReq[s], row, early)
      BY DEF CliInv, CliShapes
    <3>2. [cliReq[s] EXCEPT !.by = NoClient] \in CliRequests
      BY <3>1 DEF CliRequests
    <3>3. RequestSound([cliReq[s] EXCEPT !.by = NoClient], row, early)
      BY <3>1 DEF CliRequests, RequestSound
    <3>4. [cliReq[s] EXCEPT !.by = NoClient].st = cliReq[s].st
      BY <3>1 DEF CliRequests
    <3>5. QED
      BY <3>1, <3>2, <3>3, <3>4 DEF Abandoned
  <2>4. Abandoned(p) \in [Slots -> CliRequests]
    BY <2>3 DEF Abandoned
  <2>5. QED
    BY <1>1, <2>1, <2>2, <2>3, <2>4, GuestKept DEF CliInv, CliShapes
<1>4. ASSUME NEW ok \in BOOLEAN, Show(p, ok)
      PROVE  CliInv'
  <2>1. cli[p].pc = "print" /\ cli' = [cli EXCEPT ![p] = AfterWrite(cli[p], ok)]
        /\ UNCHANGED <<pending, cliReq>>
    BY <1>4 DEF Show
  <2>2. [cli[p] EXCEPT !.pc = "clear"] \in Invocations
    BY <1>1, <2>1 DEF Invocations, CliSteps, MarkSteps
  <2>3. cli' \in [Procs -> Invocations]
    BY <2>1, <2>2, CliConsts DEF AfterWrite, CliInv, CliShapes
  <2>4. QED
    BY <1>1, <2>1, <2>3, GuestKept DEF CliInv, CliShapes
<1>5. QED
  BY <1>2, <1>3, <1>4

(* A step of the control plane on one request, in which the run may move forward. *)
LEMMA WorkerKept ==
  ASSUME RunCliConstants, CliInv, NEW s \in Slots, NEW r \in CliRequests,
         cliReq' = [cliReq EXCEPT ![s] = r], r.st \notin {"free", "lane"}, Remote,
         row' \in Rows, row'.gen = row.gen, AtMost(row.revealed, row'.revealed),
         early' \in BOOLEAN, row.solved => row'.solved /\ early' = early,
         early' => row'.assisted, RequestSound(r, row', early')
  PROVE  CliInv'
<1>1. UNCHANGED <<vm, pending, cli, lane, cache, fill, answered>>
  BY DEF Remote
<1>2. AtMost(answered, row'.revealed)
  BY DEF CliInv, CacheAhead, CliShapes, AtMost, Rows, Reveals, RunCliConstants
<1>3. CacheAhead'
  BY <1>1, <1>2 DEF CliInv, CacheAhead, AtMost
<1>4. CliShapes'
  BY <1>1 DEF CliInv, CliShapes
<1>5. ASSUME NEW x \in Slots
      PROVE  RequestSound(cliReq'[x], row', early')
  <2>1. x # s => RequestSound(cliReq[x], row', early')
    <3>1. /\ cliReq[x] \in CliRequests /\ row \in Rows /\ early \in BOOLEAN
          /\ RequestSound(cliReq[x], row, early) /\ row.gen <= row'.gen
      BY DEF CliInv, CliShapes, Rows, RunCliConstants
    <3>2. QED
      BY <3>1, SoundForward
  <2>2. QED
    BY <2>1 DEF CliInv, CliShapes
<1>6. QED
  BY <1>3, <1>4, <1>5 DEF CliInv, AssistedIsKept

LEMMA AnswerKept ==
  ASSUME RunCliConstants, CliInv, NEW s \in Slots, NEW out \in {"view", "error"}, Answer(s, out),
         Remote, UNCHANGED <<row, early>>,
         out = "view" => /\ cliReq[s].st = "recheck" /\ cliReq[s].at = cliReq[s].gen
  PROVE  CliInv'
<1>1. PICK r : r = [cliReq[s] EXCEPT !.st = "reply", !.out = out]
  OBVIOUS
<1>2. cliReq[s] \in CliRequests /\ RequestSound(cliReq[s], row, early)
  BY DEF CliInv, CliShapes
<1>3. r \in CliRequests /\ r.st = "reply" /\ r.out = out
  BY <1>1, <1>2 DEF CliRequests
<1>4. RequestSound(r, row, early)
  BY <1>1, <1>2 DEF CliRequests, RequestSound
<1>5. cliReq' = [cliReq EXCEPT ![s] = r]
  BY <1>1, <1>2 DEF Answer, CliRequests, CliInv, CliShapes
<1>6. AtMost(row.revealed, row'.revealed)
  BY DEF AtMost, CliInv, CliShapes, Rows, Reveals, RunCliConstants
<1>7. QED
  BY <1>3, <1>4, <1>5, <1>6, WorkerKept DEF CliInv, CliShapes, AssistedIsKept

LEMMA GotoKept ==
  ASSUME RunCliConstants, CliInv, NEW s \in Slots, NEW st \in {"fence", "read", "decide", "answer"},
         Goto(s, st), Remote, UNCHANGED <<row, early>>,
         st # "fence" => cliReq[s].gen <= row.gen
  PROVE  CliInv'
<1>1. PICK r : r = [cliReq[s] EXCEPT !.st = st]
  OBVIOUS
<1>2. cliReq[s] \in CliRequests /\ RequestSound(cliReq[s], row, early)
  BY DEF CliInv, CliShapes
<1>3. r \in CliRequests /\ r.st = st
  BY <1>1, <1>2 DEF CliRequests
<1>4. RequestSound(r, row, early)
  BY <1>1, <1>2 DEF CliRequests, RequestSound
<1>5. cliReq' = [cliReq EXCEPT ![s] = r]
  BY <1>1, <1>2 DEF Goto, CliRequests, CliInv, CliShapes
<1>6. AtMost(row.revealed, row'.revealed)
  BY DEF AtMost, CliInv, CliShapes, Rows, Reveals, RunCliConstants
<1>7. QED
  BY <1>3, <1>4, <1>5, <1>6, WorkerKept DEF CliInv, CliShapes, AssistedIsKept

LEMMA ControlKept ==
  ASSUME RunCliConstants, CliInv, NEW s \in Slots, Fence(s) \/ Read(s) \/ Recheck(s)
  PROVE  CliInv'
<1>1. Remote /\ UNCHANGED <<row, early>>
  BY DEF Fence, Read, Recheck
<1>2. cliReq[s] \in CliRequests /\ RequestSound(cliReq[s], row, early) /\ row \in Rows
  BY DEF CliInv, CliShapes
<1>3. cliReq[s].gen \in Int /\ row.gen \in Int /\ cliReq[s].at \in Int
  BY <1>2 DEF CliRequests, Rows, RunCliConstants
<1>4. CASE Fence(s)
  <2>1. CASE cliReq[s].gen = row.gen /\ Goto(s, "read")
    <3>1. cliReq[s].gen <= row.gen
      BY <1>3, <2>1
    <3>2. QED
      BY <1>1, <2>1, <3>1, GotoKept
  <2>2. CASE Answer(s, "error")
    BY <1>1, <2>2, AnswerKept
  <2>3. QED
    BY <1>4, <2>1, <2>2 DEF Fence
<1>5. CASE Read(s)
  <2>1. cliReq[s].gen <= row.gen
    BY <1>2, <1>5 DEF Read, RequestSound
  <2>2. CASE Goto(s, "decide") \/ Goto(s, "answer")
    BY <1>1, <2>1, <2>2, GotoKept
  <2>3. CASE Answer(s, "error")
    BY <1>1, <2>3, AnswerKept
  <2>4. QED
    BY <1>5, <2>2, <2>3 DEF Read
<1>6. CASE Recheck(s)
  <2>1. CASE cliReq[s].gen = row.gen /\ Answer(s, "view")
    <3>1. cliReq[s].st = "recheck" /\ cliReq[s].at = cliReq[s].gen
      BY <1>2, <1>3, <1>6, <2>1 DEF Recheck, RequestSound
    <3>2. QED
      BY <1>1, <2>1, <3>1, AnswerKept
  <2>2. CASE Answer(s, "error")
    BY <1>1, <2>2, AnswerKept
  <2>3. QED
    BY <1>6, <2>1, <2>2 DEF Recheck
<1>7. QED
  BY <1>4, <1>5, <1>6

LEMMA DecideKept ==
  ASSUME RunCliConstants, CliInv, NEW s \in Slots, Decide(s)
  PROVE  CliInv'
<1>1. Remote /\ UNCHANGED <<row, early>> /\ cliReq[s].st = "decide"
  BY DEF Decide
<1>2. cliReq[s] \in CliRequests /\ RequestSound(cliReq[s], row, early) /\ row \in Rows
  BY DEF CliInv, CliShapes
<1>3. CASE Answer(s, "error")
  BY <1>1, <1>3, AnswerKept
<1>4. CASE /\ cliReq[s].kind = "hint" => cliReq[s].ord = row.revealed[cliReq[s].alias] + 1
           /\ cliReq' = [cliReq EXCEPT ![s].st = "update", ![s].seen = row.revealed,
                                       ![s].solved = row.solved, ![s].assisted = row.assisted]
  <2>1. PICK r : r = [cliReq[s] EXCEPT !.st = "update", !.seen = row.revealed,
                                       !.solved = row.solved, !.assisted = row.assisted]
    OBVIOUS
  <2>2. r \in CliRequests
    BY <1>2, <2>1 DEF CliRequests, Rows
  <2>3. /\ r.st = "update" /\ r.seen = row.revealed /\ r.solved = row.solved
        /\ r.assisted = row.assisted /\ r.kind = cliReq[s].kind /\ r.alias = cliReq[s].alias
        /\ r.ord = cliReq[s].ord /\ r.gen = cliReq[s].gen
    BY <1>2, <2>1 DEF CliRequests
  <2>4. row.revealed \in Reveals
    BY <1>2 DEF Rows
  <2>5. RequestSound(r, row, early)
    BY <1>1, <1>2, <1>4, <2>3, <2>4 DEF RequestSound, CliInv, AssistedIsKept
  <2>6. cliReq' = [cliReq EXCEPT ![s] = r]
    BY <1>2, <1>4, <2>1 DEF CliRequests, CliInv, CliShapes
  <2>7. AtMost(row.revealed, row'.revealed)
    BY <1>1, <2>4 DEF AtMost, Reveals, RunCliConstants
  <2>8. QED
    BY <1>1, <2>2, <2>3, <2>5, <2>6, <2>7, WorkerKept DEF CliInv, CliShapes, AssistedIsKept
<1>5. QED
  BY <1>3, <1>4 DEF Decide

LEMMA ReadAnswerKept ==
  ASSUME RunCliConstants, CliInv, NEW s \in Slots, NEW ok \in BOOLEAN, ReadAnswer(s, ok)
  PROVE  CliInv'
<1>1. Remote /\ UNCHANGED <<row, early>> /\ cliReq[s].st = "answer"
  BY DEF ReadAnswer
<1>2. cliReq[s] \in CliRequests /\ RequestSound(cliReq[s], row, early) /\ row \in Rows
  BY DEF CliInv, CliShapes
<1>3. CASE Answer(s, "error")
  BY <1>1, <1>3, AnswerKept
<1>4. CASE cliReq' = [cliReq EXCEPT ![s].st = "recheck", ![s].seen = row.revealed, ![s].at = row.gen]
  <2>1. PICK r : r = [cliReq[s] EXCEPT !.st = "recheck", !.seen = row.revealed, !.at = row.gen]
    OBVIOUS
  <2>2. row.gen \in 0..MaxGen /\ row.revealed \in Reveals /\ row.gen \in Int
    BY <1>2 DEF Rows, RunCliConstants
  <2>3. r \in CliRequests
    BY <1>2, <2>1, <2>2 DEF CliRequests
  <2>4. /\ r.st = "recheck" /\ r.seen = row.revealed /\ r.at = row.gen
        /\ r.kind = cliReq[s].kind /\ r.alias = cliReq[s].alias /\ r.gen = cliReq[s].gen
    BY <1>2, <2>1 DEF CliRequests
  <2>5. AtMost(row.revealed, row.revealed)
    BY <2>2 DEF AtMost, Reveals, RunCliConstants
  <2>6. RequestSound(r, row, early)
    BY <1>1, <1>2, <2>2, <2>4, <2>5 DEF RequestSound
  <2>7. cliReq' = [cliReq EXCEPT ![s] = r]
    BY <1>2, <1>4, <2>1 DEF CliRequests, CliInv, CliShapes
  <2>8. QED
    BY <1>1, <2>3, <2>4, <2>5, <2>6, <2>7, WorkerKept DEF CliInv, CliShapes, AssistedIsKept
<1>5. QED
  BY <1>3, <1>4 DEF ReadAnswer

LEMMA UpdateKept ==
  ASSUME RunCliConstants, CliInv, NEW s \in Slots, Update(s)
  PROVE  CliInv'
<1>1. Remote /\ cliReq[s].st = "update"
  BY DEF Update
<1>2. cliReq[s] \in CliRequests /\ RequestSound(cliReq[s], row, early) /\ row \in Rows
  BY DEF CliInv, CliShapes
<1>3. CASE Answer(s, "error") /\ UNCHANGED <<row, early>>
  BY <1>1, <1>3, AnswerKept
<1>4. CASE Guard(cliReq[s]) /\ Goto(s, "answer")
  <2>1. PICK r : r = [cliReq[s] EXCEPT !.st = "answer"]
    OBVIOUS
  <2>2. /\ r \in CliRequests /\ r.st = "answer" /\ r.kind = cliReq[s].kind
        /\ r.alias = cliReq[s].alias /\ r.gen = cliReq[s].gen
    BY <1>2, <2>1 DEF CliRequests
  <2>3. cliReq' = [cliReq EXCEPT ![s] = r]
    BY <1>2, <1>4, <2>1 DEF Goto, CliRequests, CliInv, CliShapes
  <2>4. CASE cliReq[s].kind = "hint"
    <3>1. row' = [row EXCEPT !.revealed[cliReq[s].alias] = @ + 1] /\ early' = early
      BY <1>1, <1>4, <2>4 DEF Update
    <3>2. /\ cliReq[s].alias \in Aliases /\ row.revealed \in Reveals
          /\ row.revealed[cliReq[s].alias] + 1 = cliReq[s].ord
      BY <1>1, <1>2, <1>4, <2>4 DEF RequestSound, Guard, Rows
    <3>3. /\ cliReq[s].ord \in 0..MaxHints
      BY <1>2 DEF CliRequests
    <3>4. row' = [row EXCEPT !.revealed = [row.revealed EXCEPT ![cliReq[s].alias] = cliReq[s].ord]]
      BY <1>2, <3>1, <3>2 DEF Rows
    <3>5. /\ [row.revealed EXCEPT ![cliReq[s].alias] = cliReq[s].ord] \in Reveals
          /\ AtMost(row.revealed, [row.revealed EXCEPT ![cliReq[s].alias] = cliReq[s].ord])
      BY <3>2, <3>3 DEF AtMost, Reveals, RunCliConstants
    <3>6. /\ row' \in Rows /\ row'.gen = row.gen /\ row'.solved = row.solved
          /\ row'.assisted = row.assisted /\ AtMost(row.revealed, row'.revealed)
      BY <1>2, <3>4, <3>5 DEF Rows
    <3>7. RequestSound(r, row', early')
      BY <1>1, <1>2, <2>2, <3>6 DEF RequestSound
    <3>8. QED
      BY <1>1, <2>2, <2>3, <3>1, <3>6, <3>7, WorkerKept DEF CliInv, CliShapes, AssistedIsKept
  <2>5. CASE cliReq[s].kind # "hint"
    <3>1. /\ row' = [row EXCEPT !.solution = TRUE, !.assisted = Assisted(cliReq[s])]
          /\ early' = (early \/ ~row.solved)
      BY <1>1, <1>4, <2>5 DEF Update
    <3>2. Assisted(cliReq[s]) \in BOOLEAN
      BY DEF Assisted
    <3>3. /\ row' \in Rows /\ row'.gen = row.gen /\ row'.solved = row.solved
          /\ row'.assisted = Assisted(cliReq[s]) /\ row'.revealed = row.revealed
      BY <1>2, <3>1, <3>2 DEF Rows
    <3>4. early \in BOOLEAN /\ row.solved \in BOOLEAN
      BY <1>2 DEF CliInv, CliShapes, Rows
    <3>5. /\ early' \in BOOLEAN /\ (row.solved => early' = early)
      BY <3>1, <3>4
    <3>6. early' => row'.assisted
      BY <1>1, <1>2, <2>5, <3>1, <3>3 DEF Assisted, RequestSound
    <3>7. AtMost(row.revealed, row'.revealed)
      BY <1>2, <3>3 DEF AtMost, Rows, Reveals, RunCliConstants
    <3>8. RequestSound(r, row', early')
      BY <1>1, <1>2, <2>2, <3>3 DEF RequestSound
    <3>9. QED
      BY <1>1, <2>2, <2>3, <3>3, <3>5, <3>6, <3>7, <3>8, WorkerKept
  <2>6. QED
    BY <2>4, <2>5
<1>5. QED
  BY <1>3, <1>4 DEF Update

(* The broker frees a slot, or leaves its worker without a client. *)
LEMMA BrokerKept ==
  ASSUME RunCliConstants, CliInv, NEW s \in Slots,
         cliReq' \in [Slots -> CliRequests],
         \A x \in Slots : RequestSound(cliReq'[x], row, early),
         UNCHANGED <<row, vm, pending, early>>, cli' \in [Procs -> Invocations],
         lane' \in Slots \cup {0}, lane' # 0 => cliReq'[lane'].st \notin {"free", "lane"},
         cache' \in Reveals \cup {Empty}, answered' \in Reveals, fill' \in Fills,
         fill'.pc = "got" => fill'.seen \in Reveals,
         AtMost(answered', row.revealed),
         cache' = Empty \/ AtMost(answered', cache'),
         fill'.pc = "got" /\ fill'.same => AtMost(answered', fill'.seen)
  PROVE  CliInv'
<1>1. CliShapes' /\ AssistedIsKept'
  BY DEF CliInv, CliShapes, AssistedIsKept
<1>2. CacheAhead'
  BY DEF CacheAhead, AtMost
<1>3. QED
  BY <1>1, <1>2 DEF CliInv

LEMMA AcquireKept ==
  ASSUME RunCliConstants, CliInv, NEW s \in Slots, Acquire(s)
  PROVE  CliInv'
<1>1. /\ cliReq[s] \in CliRequests /\ RequestSound(cliReq[s], row, early) /\ fill \in Fills
      /\ cliReq \in [Slots -> CliRequests]
      /\ \A x \in Slots : RequestSound(cliReq[x], row, early)
  BY DEF CliInv, CliShapes
<1>2. /\ UNCHANGED <<row, vm, pending, cli, shownHints, answered, early>>
      /\ cliReq[s].st = "lane" /\ lane = 0
  BY DEF Acquire
<1>3. CASE cliReq' = [cliReq EXCEPT ![s] = Free] /\ UNCHANGED <<lane, cache, fill>>
  <2>1. cliReq' \in [Slots -> CliRequests]
    BY <1>1, <1>3, CliConsts
  <2>2. \A x \in Slots : RequestSound(cliReq'[x], row, early)
    BY <1>1, <1>3, CliConsts
  <2>3. lane' = 0
    BY <1>2, <1>3
  <2>4. QED
    BY <1>2, <1>3, <2>1, <2>2, <2>3, BrokerKept DEF CliInv, CliShapes, CacheAhead
<1>4. CASE /\ lane' = s /\ Goto(s, "fence")
           /\ \/ cache' = Empty /\ fill' = [fill EXCEPT !.same = FALSE]
              \/ UNCHANGED <<cache, fill>>
  <2>1. PICK r : r = [cliReq[s] EXCEPT !.st = "fence"]
    OBVIOUS
  <2>2. r \in CliRequests /\ r.st = "fence" /\ r.kind = cliReq[s].kind /\ r.alias = cliReq[s].alias
    BY <1>1, <2>1 DEF CliRequests
  <2>3. RequestSound(r, row, early)
    BY <1>1, <2>2 DEF RequestSound
  <2>4. cliReq' = [cliReq EXCEPT ![s] = r]
    BY <1>1, <1>4, <2>1 DEF Goto, CliRequests
  <2>5. /\ cliReq' \in [Slots -> CliRequests] /\ cliReq'[s].st = "fence"
        /\ \A x \in Slots : RequestSound(cliReq'[x], row, early)
    BY <1>1, <2>2, <2>3, <2>4
  <2>6. [fill EXCEPT !.same = FALSE] \in Fills /\ ~[fill EXCEPT !.same = FALSE].same
        /\ [fill EXCEPT !.same = FALSE].pc = fill.pc /\ [fill EXCEPT !.same = FALSE].seen = fill.seen
    BY <1>1 DEF Fills
  <2>7. /\ cache' \in Reveals \cup {Empty} /\ fill' \in Fills
        /\ fill'.pc = "got" => fill'.seen \in Reveals
        /\ AtMost(answered, row.revealed)
        /\ cache' = Empty \/ AtMost(answered, cache')
        /\ fill'.pc = "got" /\ fill'.same => AtMost(answered, fill'.seen)
    BY <1>4, <2>6 DEF CliInv, CliShapes, CacheAhead
  <2>8. cli' \in [Procs -> Invocations] /\ answered' \in Reveals /\ answered' = answered
    BY <1>2 DEF CliInv, CliShapes
  <2>9. QED
    BY <1>2, <1>4, <2>5, <2>7, <2>8, BrokerKept
<1>5. QED
  BY <1>3, <1>4 DEF Acquire

LEMMA ReplyKept ==
  ASSUME RunCliConstants, CliInv, NEW s \in Slots, Reply(s)
  PROVE  CliInv'
<1> DEFINE r == cliReq[s]
           mine == lane = s
           view == r.out = "view"
<1>1. /\ r \in CliRequests /\ RequestSound(r, row, early) /\ fill \in Fills
      /\ cliReq \in [Slots -> CliRequests] /\ cli \in [Procs -> Invocations]
      /\ \A x \in Slots : RequestSound(cliReq[x], row, early)
  BY DEF CliInv, CliShapes
<1>2. /\ r.st = "reply" /\ cliReq' = [cliReq EXCEPT ![s] = Free]
      /\ UNCHANGED <<row, vm, pending, shownHints, early>>
      /\ cache' = IF ~mine THEN cache ELSE IF view THEN r.seen ELSE Empty
      /\ fill' = IF mine THEN [fill EXCEPT !.same = FALSE] ELSE fill
      /\ answered' = IF mine /\ view THEN r.seen ELSE answered
      /\ lane' = IF mine THEN 0 ELSE lane
      /\ cli' = IF r.by = NoClient THEN cli
                ELSE [cli EXCEPT ![r.by] = IF view THEN Viewed(@, r.seen) ELSE Refused(@)]
  BY DEF Reply
<1>3. /\ cliReq' \in [Slots -> CliRequests]
      /\ \A x \in Slots : RequestSound(cliReq'[x], row, early)
  BY <1>1, <1>2, CliConsts
<1>4. view => r.seen \in Reveals /\ AtMost(r.seen, row.revealed)
  BY <1>1, <1>2 DEF RequestSound
<1>5. lane' \in Slots \cup {0} /\ (lane' # 0 => cliReq'[lane'].st \notin {"free", "lane"})
  BY <1>2 DEF CliInv, CliShapes
<1>6. cli' \in [Procs -> Invocations]
  <2>1. CASE r.by = NoClient
    BY <1>1, <1>2, <2>1
  <2>2. CASE r.by # NoClient
    <3>1. r.by \in Procs /\ cli[r.by] \in Invocations
      BY <1>1, <2>2 DEF CliRequests
    <3>2. Refused(cli[r.by]) \in Invocations /\ (view => Viewed(cli[r.by], r.seen) \in Invocations)
      BY <1>4, <3>1, CliConsts
    <3>3. cli' = [cli EXCEPT ![r.by] = IF view THEN Viewed(cli[r.by], r.seen) ELSE Refused(cli[r.by])]
      BY <1>2, <2>2
    <3> HIDE DEF r, view
    <3>4. QED
      BY <1>1, <3>1, <3>2, <3>3
  <2>3. QED
    BY <2>1, <2>2
<1>7. [fill EXCEPT !.same = FALSE] \in Fills /\ ~[fill EXCEPT !.same = FALSE].same
      /\ [fill EXCEPT !.same = FALSE].pc = fill.pc /\ [fill EXCEPT !.same = FALSE].seen = fill.seen
  BY <1>1 DEF Fills
<1>8. fill' \in Fills /\ (fill'.pc = "got" => fill'.seen \in Reveals)
  BY <1>2, <1>7 DEF CliInv, CliShapes
<1>9. /\ cache' \in Reveals \cup {Empty} /\ answered' \in Reveals
      /\ AtMost(answered', row.revealed)
  BY <1>2, <1>4 DEF CliInv, CliShapes, CacheAhead
<1>10. cache' = Empty \/ AtMost(answered', cache')
  <2>1. CASE mine /\ view
    BY <1>2, <1>4, <2>1 DEF AtMost, Reveals, RunCliConstants
  <2>2. CASE mine /\ ~view
    BY <1>2, <2>2
  <2>3. CASE ~mine
    BY <1>2, <2>3 DEF CliInv, CacheAhead
  <2>4. QED
    BY <2>1, <2>2, <2>3
<1>11. fill'.pc = "got" /\ fill'.same => AtMost(answered', fill'.seen)
  BY <1>2, <1>7 DEF CliInv, CacheAhead
<1>12. QED
  BY <1>2, <1>3, <1>5, <1>6, <1>8, <1>9, <1>10, <1>11, BrokerKept

LEMMA LostKept ==
  ASSUME RunCliConstants, CliInv, NEW s \in Slots, Lost(s)
  PROVE  CliInv'
<1>1. /\ cliReq[s] \in CliRequests /\ RequestSound(cliReq[s], row, early)
      /\ cliReq \in [Slots -> CliRequests] /\ cli \in [Procs -> Invocations]
      /\ \A x \in Slots : RequestSound(cliReq[x], row, early)
  BY DEF CliInv, CliShapes
<1>2. PICK r : r = [cliReq[s] EXCEPT !.by = NoClient]
  OBVIOUS
<1>3. r \in CliRequests /\ RequestSound(r, row, early)
  BY <1>1, <1>2 DEF CliRequests, RequestSound
<1>4. /\ cliReq' = [cliReq EXCEPT ![s] = Free] \/ cliReq' = [cliReq EXCEPT ![s] = r]
      /\ lane' = 0 /\ UNCHANGED <<row, vm, pending, cache, fill, shownHints, answered, early>>
  BY <1>1, <1>2 DEF Lost
<1>5. /\ cliReq' \in [Slots -> CliRequests]
      /\ \A x \in Slots : RequestSound(cliReq'[x], row, early)
  BY <1>1, <1>3, <1>4, CliConsts
<1>6. cli' \in [Procs -> Invocations]
  <2>1. CASE cliReq[s].by = NoClient
    BY <1>1, <2>1 DEF Lost
  <2>2. CASE cliReq[s].by # NoClient
    <3>1. cliReq[s].by \in Procs /\ cli[cliReq[s].by] \in Invocations
      BY <1>1, <2>2 DEF CliRequests
    <3>2. cli' = [cli EXCEPT ![cliReq[s].by] = Fail(cli[cliReq[s].by])]
      BY <2>2 DEF Lost
    <3>3. QED
      BY <1>1, <3>1, <3>2, CliConsts
  <2>3. QED
    BY <2>1, <2>2
<1>7. QED
  BY <1>4, <1>5, <1>6, BrokerKept DEF CliInv, CliShapes, CacheAhead

LEMMA RefreshKept ==
  ASSUME RunCliConstants, CliInv,
         RefreshStart \/ RefreshRead \/ RefreshApply \/ RefreshFails \/ CacheExpires
  PROVE  CliInv'
<1>1. UNCHANGED <<row, vm, pending, cli, cliReq, lane, answered, early>>
  BY DEF RefreshStart, RefreshRead, RefreshApply, RefreshFails, CacheExpires, Others
<1>2. /\ fill \in Fills /\ (fill.pc = "got" => fill.seen \in Reveals) /\ row.revealed \in Reveals
      /\ cache \in Reveals \cup {Empty}
  BY DEF CliInv, CliShapes, Rows
<1>3. NoFill \in Fills /\ NoFill.pc = "idle"
  BY DEF NoFill, Fills
<1>4. /\ cache' \in Reveals \cup {Empty} /\ fill' \in Fills
      /\ fill'.pc = "got" => fill'.seen \in Reveals
      /\ cache' = Empty \/ AtMost(answered, cache')
      /\ fill'.pc = "got" /\ fill'.same => AtMost(answered, fill'.seen)
  <2>1. CASE RefreshStart
    <3>1. /\ cache' = Empty /\ fill' \in Fills /\ fill'.pc = "asked"
      BY <2>1 DEF RefreshStart, Fills
    <3>2. QED
      BY <3>1
  <2>2. CASE RefreshRead
    <3>1. fill' \in Fills /\ fill'.seen = row.revealed /\ cache' = cache
      BY <1>2, <2>2 DEF RefreshRead, Fills
    <3>2. QED
      BY <1>2, <3>1 DEF CliInv, CacheAhead
  <2>3. CASE RefreshApply
    BY <1>2, <1>3, <2>3 DEF RefreshApply, AppliedAliases, CliInv, CacheAhead
  <2>4. CASE RefreshFails
    BY <1>2, <1>3, <2>4 DEF RefreshFails, CliInv, CacheAhead
  <2>5. CASE CacheExpires
    BY <1>2, <2>5 DEF CacheExpires, CliInv, CacheAhead
  <2>6. QED
    BY <2>1, <2>2, <2>3, <2>4, <2>5
<1>5. CliShapes' /\ AssistedIsKept'
  BY <1>1, <1>4 DEF CliInv, CliShapes, AssistedIsKept
<1>6. CacheAhead'
  BY <1>1, <1>4 DEF CacheAhead, CliInv
<1>7. \A s \in Slots : RequestSound(cliReq[s], row, early)'
  BY <1>1 DEF CliInv
<1>8. QED
  BY <1>5, <1>6, <1>7 DEF CliInv

LEMMA RunKept ==
  ASSUME RunCliConstants, CliInv, Solve \/ Report \/ \E a \in Aliases : BrowserHint(a)
  PROVE  CliInv'
<1>1. UNCHANGED <<vm, pending, cli, cliReq, lane, cache, fill, answered, early>>
  BY DEF Solve, Report, BrowserHint
<1>2. /\ row' \in Rows /\ row'.gen <= vm /\ row.gen <= row'.gen /\ (row.solved => row'.solved)
      /\ row'.assisted = row.assisted /\ AtMost(row.revealed, row'.revealed)
  <2>1. row \in Rows /\ row.gen <= vm /\ vm \in 1..MaxGen /\ MaxGen \in Nat /\ MaxHints \in Nat
    BY DEF CliInv, CliShapes, RunCliConstants
  <2>2. row.gen \in Int /\ row.revealed \in Reveals /\ AtMost(row.revealed, row.revealed)
    BY <2>1 DEF AtMost, Rows, Reveals
  <2>3. CASE Solve \/ Report
    <3>1. CASE Solve
      <4>1. /\ row' \in Rows /\ row'.gen = row.gen /\ row'.solved /\ row'.assisted = row.assisted
            /\ row'.revealed = row.revealed
        BY <2>1, <3>1 DEF Solve, Rows
      <4>2. QED
        BY <2>1, <2>2, <4>1
    <3>2. CASE Report
      <4>1. /\ row' \in Rows /\ row'.gen = vm /\ row'.solved = row.solved
            /\ row'.assisted = row.assisted /\ row'.revealed = row.revealed
        BY <2>1, <3>2 DEF Report, Rows
      <4>2. QED
        BY <2>1, <2>2, <4>1
    <3>3. QED
      BY <2>3, <3>1, <3>2
  <2>4. ASSUME NEW a \in Aliases, BrowserHint(a)
        PROVE  /\ row' \in Rows /\ row'.gen = row.gen /\ row'.solved = row.solved
               /\ row'.assisted = row.assisted /\ AtMost(row.revealed, row'.revealed)
    <3>1. row' = [row EXCEPT !.revealed = [row.revealed EXCEPT ![a] = row.revealed[a] + 1]]
          /\ row.revealed[a] < MaxHints
      BY <2>1, <2>4 DEF BrowserHint, Rows
    <3>2. /\ [row.revealed EXCEPT ![a] = row.revealed[a] + 1] \in Reveals
          /\ AtMost(row.revealed, [row.revealed EXCEPT ![a] = row.revealed[a] + 1])
      BY <2>1, <2>2, <3>1 DEF Reveals, AtMost
    <3>3. QED
      BY <2>1, <3>1, <3>2 DEF Rows
  <2>5. QED
    BY <2>1, <2>2, <2>3, <2>4
<1>3. AtMost(answered, row'.revealed)
  BY <1>2 DEF CliInv, CacheAhead, CliShapes, AtMost, Rows, Reveals, RunCliConstants
<1>4. CliShapes' /\ CacheAhead' /\ AssistedIsKept'
  BY <1>1, <1>2, <1>3 DEF CliInv, CliShapes, CacheAhead, AssistedIsKept, AtMost
<1>5. ASSUME NEW s \in Slots
      PROVE  RequestSound(cliReq'[s], row', early')
  <2>1. /\ cliReq[s] \in CliRequests /\ row \in Rows /\ early \in BOOLEAN
        /\ RequestSound(cliReq[s], row, early)
    BY DEF CliInv, CliShapes
  <2>2. RequestSound(cliReq[s], row', early)
    BY <1>2, <2>1, SoundForward
  <2>3. QED
    BY <1>1, <2>2
<1>6. QED
  BY <1>4, <1>5 DEF CliInv

LEMMA ReplaceKept ==
  ASSUME RunCliConstants, CliInv, NEW home \in BOOLEAN, Replace(home)
  PROVE  CliInv'
<1>1. /\ cliReq' = [s \in Slots |-> IF cliReq[s].st \in {"free", "lane"} THEN Free
                                    ELSE [cliReq[s] EXCEPT !.by = NoClient]]
      /\ cli' = [p \in Procs |-> IdleCli] /\ pending' \in {pending, NoMark}
      /\ vm' = vm + 1 /\ vm < MaxGen /\ lane' = 0 /\ cache' = Empty /\ fill' = NoFill
      /\ UNCHANGED <<row, answered, early>>
  BY DEF Replace
<1>2. ASSUME NEW s \in Slots
      PROVE  cliReq'[s] \in CliRequests /\ RequestSound(cliReq'[s], row, early)
  <2>1. cliReq[s] \in CliRequests /\ RequestSound(cliReq[s], row, early)
    BY DEF CliInv, CliShapes
  <2>2. PICK r : r = [cliReq[s] EXCEPT !.by = NoClient]
    OBVIOUS
  <2>3. r \in CliRequests /\ RequestSound(r, row, early)
    BY <2>1, <2>2 DEF CliRequests, RequestSound
  <2>4. cliReq'[s] = Free \/ cliReq'[s] = r
    BY <1>1, <2>2
  <2>5. QED
    BY <2>3, <2>4, CliConsts
<1>3. cliReq' \in [Slots -> CliRequests]
  BY <1>1, <1>2
<1>4. cli' \in [Procs -> Invocations]
  BY <1>1, CliConsts
<1>5. fill' \in Fills /\ fill'.pc = "idle"
  BY <1>1 DEF NoFill, Fills
<1>6. vm' \in 1..MaxGen /\ row.gen <= vm'
  BY <1>1 DEF CliInv, CliShapes, Rows, RunCliConstants
<1>7. CliShapes' /\ CacheAhead' /\ AssistedIsKept'
  BY <1>1, <1>3, <1>4, <1>5, <1>6 DEF CliInv, CliShapes, CacheAhead, AssistedIsKept
<1>8. \A s \in Slots : RequestSound(cliReq[s], row, early)'
  BY <1>1, <1>2
<1>9. QED
  BY <1>7, <1>8 DEF CliInv

LEMMA CliStart == ASSUME RunCliConstants, CliInit PROVE CliInv
<1>1. row \in Rows /\ row.gen = 1 /\ row.revealed = answered /\ ~early /\ row.revealed \in Reveals
  BY DEF CliInit, Rows, Reveals, RunCliConstants
<1>2. /\ cli \in [Procs -> Invocations] /\ cliReq \in [Slots -> CliRequests]
      /\ \A s \in Slots : RequestSound(cliReq[s], row, early)
  BY CliConsts DEF CliInit
<1>3. fill \in Fills /\ fill.pc = "idle"
  BY DEF CliInit, NoFill, Fills
<1>4. CliShapes
  <2>1. /\ vm = 1 /\ pending = NoMark /\ lane = 0 /\ cache = Empty
    BY DEF CliInit
  <2>2. vm \in 1..MaxGen
    BY <2>1 DEF RunCliConstants
  <2>3. early \in BOOLEAN
    BY DEF CliInit
  <2>4. QED
    BY <1>1, <1>2, <1>3, <2>1, <2>2, <2>3 DEF CliShapes
<1>5. CacheAhead
  BY <1>1, <1>3 DEF CliInit, CacheAhead, AtMost, Reveals, RunCliConstants
<1>6. QED
  BY <1>1, <1>2, <1>4, <1>5 DEF CliInv, AssistedIsKept

LEMMA CliStep == ASSUME RunCliConstants, CliInv, [CliNext]_cliVars PROVE CliInv'
<1>1. CASE UNCHANGED cliVars
  BY <1>1 DEF cliVars, CliInv, CliShapes, CacheAhead, AssistedIsKept
<1>2. CASE \E p \in Procs : \/ Guest(p) \/ TimeOut(p) \/ Interrupt(p)
                            \/ \E a \in Aliases : StartHint(p, a)
                            \/ \E k \in {"status", "sync", "solution"} : StartOther(p, k)
  BY <1>2, StartKept, LoadKept, PersistKept, EndKept DEF Guest
<1>3. CASE \E s \in Slots : Worker(s) \/ Lost(s)
  BY <1>3, AcquireKept, ControlKept, DecideKept, UpdateKept, ReadAnswerKept, ReplyKept, LostKept
  DEF Worker
<1>4. QED
  BY <1>1, <1>2, <1>3, RefreshKept, RunKept, ReplaceKept DEF CliNext

LEMMA CliInvProperties ==
  ASSUME RunCliConstants, CliInv
  PROVE  CliTypes /\ DeliveredIsCurrent /\ CompletionNotStale /\ AssistedIsKept
<1>1. CliTypes
  <2>1. row.revealed \in Reveals /\ row.gen \in 1..vm /\ vm \in 1..MaxGen
    BY DEF CliInv, CliShapes, Rows, RunCliConstants
  <2>2. RealMarks \subseteq Marks /\ NoMark \in Marks
        /\ \A m \in RealMarks : m # NoMark /\ m.gen # 0 /\ m.ord # 0
    BY DEF RealMarks, Marks, NoMark, RunCliConstants
  <2>3. pending \in Marks /\ (pending # NoMark => pending.gen # 0 /\ pending.ord # 0)
    BY <2>2 DEF CliInv, CliShapes
  <2>4. ASSUME NEW p \in Procs
        PROVE  /\ cli[p].view \in Reveals \cup {Empty}
               /\ cli[p].pc \in MarkSteps => cli[p].mark \in Marks \ {NoMark}
    <3>1. cli[p] \in Invocations
      BY DEF CliInv, CliShapes
    <3>2. QED
      BY <2>2, <3>1 DEF Invocations
  <2>5. QED
    BY <2>1, <2>3, <2>4 DEF CliTypes, CliInv, CliShapes, MarkSteps
<1>2. DeliveredIsCurrent
  BY DEF DeliveredIsCurrent, CliInv, RequestSound
<1>3. CompletionNotStale
  BY DEF CompletionNotStale, Offered, CanReveal, CliInv, CacheAhead, AtMost, CliShapes, Reveals,
     Empty, RunCliConstants
<1>4. QED
  BY <1>1, <1>2, <1>3 DEF CliInv

(* One learner with one group of hints.  Each hint up to n was given to the learner. *)
Given(a, n) == 1..n \subseteq shownHints[a]

MarkOf(r) == [gen |-> r.gen, alias |-> r.alias, ord |-> r.ord]

(* A hint is asked for in turn: the ones before it are revealed and given. *)
InTurn(m) == m.ord <= row.revealed[m.alias] + 1 /\ Given(m.alias, m.ord - 1)

Told(m) == m.ord <= row.revealed[m.alias] /\ Given(m.alias, m.ord)

(* The marker names the revealed hint that was not given yet; one of the   *)
(* current generation was written after the run had reported it.           *)
MarkerSound(marker) ==
  /\ row.gen = vm => \A a \in Aliases :
       Given(a, row.revealed[a]) \/ marker = [gen |-> vm, alias |-> a, ord |-> row.revealed[a]]
  /\ marker # NoMark => marker.gen <= vm
  /\ marker # NoMark /\ marker.gen = vm => row.gen = vm /\ InTurn(marker)

(* Only the request in the lane works for the current generation, and a    *)
(* reveal that can still take place has its marker.                        *)
RequestTurn(r, s, marker) ==
  /\ r.gen <= vm
  /\ r.gen = vm /\ r.st \notin {"free", "lane"} => lane = s
  /\ r.st = "reply" /\ r.out = "view" => r.gen <= row.gen
  /\ r.kind = "hint" /\ r.st \in {"lane", "fence", "read", "decide", "update"} =>
       /\ r.gen = row.gen => InTurn(MarkOf(r))
       /\ r.gen = vm => row.gen = vm
       /\ r.gen = vm /\ r.ord = row.revealed[r.alias] + 1 => marker = MarkOf(r)
  /\ r.kind = "hint" /\ r.st \in {"decide", "update"} /\ r.gen = vm
       /\ r.ord <= row.revealed[r.alias] => Given(r.alias, r.ord)
  /\ r.kind = "hint" /\ r.st = "update" => r.seen[r.alias] <= row.revealed[r.alias]
  /\ r.kind = "hint" /\ r.st = "reply" /\ r.out # "view" /\ r.gen = vm => Told(MarkOf(r))

CommandSound(c, marker) ==
  /\ c.pc = "load" => row.gen = vm /\ AtMost(c.view, row.revealed)
  /\ c.pc \in MarkSteps => row.gen = vm /\ c.mark.gen = vm /\ InTurn(c.mark)
  /\ c.pc = "persist" => marker = NoMark
  /\ c.pc \in MarkSteps \ {"persist"} => marker = c.mark
  /\ c.pc = "print" => c.mark.ord <= row.revealed[c.mark.alias]
  /\ c.pc \in {"clear", "drop"} \/ (c.pc \in {"ask", "confirm"} /\ c.err) => Told(c.mark)

(* A request that an invocation waits for is the one it sent last. *)
AskedBy(r, c) ==
  /\ c.pc \in {"status", "view", "reveal", "confirm"} /\ r.gen = vm
  /\ c.pc = "reveal" <=> r.kind = "hint"
  /\ c.pc = "reveal" => MarkOf(r) = c.mark

HintInv ==
  /\ CliInv /\ shownHints \in [Aliases -> SUBSET Nat] /\ NoHintSkipped /\ MarkerSound(pending)
  /\ \A a \in Aliases : shownHints[a] \subseteq 1..row.revealed[a]
  /\ \A s \in Slots : RequestTurn(cliReq[s], s, pending)
  /\ \A p \in Procs : CommandSound(cli[p], pending)
  /\ \A s \in Slots : cliReq[s].by \in Procs => AskedBy(cliReq[s], cli[cliReq[s].by])
  /\ \A s, t \in Slots : cliReq[s].by \in Procs /\ cliReq[s].by = cliReq[t].by => s = t

OneLearner ==
  /\ RunCliConstants /\ ~LateErrors
  /\ \A p, q \in Procs : p = q
  /\ \A a, b \in Aliases : a = b

(* Steps of an invocation: the run stands still. *)
LEMMA GuestHint ==
  ASSUME OneLearner, HintInv, CliInv', NEW p \in Procs, NEW c,
         UNCHANGED <<row, vm, shownHints, lane>>, cli' = [cli EXCEPT ![p] = c],
         CommandSound(c, pending'), MarkerSound(pending'),
         \A s \in Slots : RequestTurn(cliReq'[s], s, pending'),
         \A s \in Slots : cliReq'[s].by = p => AskedBy(cliReq'[s], c),
         \A s, t \in Slots : cliReq'[s].by = p /\ cliReq'[t].by = p => s = t
  PROVE  HintInv'
<1>1. cli'[p] = c /\ \A q \in Procs : q = p
  BY DEF OneLearner, HintInv, CliInv, CliShapes
<1>2. NoHintSkipped' /\ shownHints' \in [Aliases -> SUBSET Nat]
      /\ \A a \in Aliases : shownHints'[a] \subseteq 1..row'.revealed[a]
  BY DEF HintInv, NoHintSkipped
<1>3. \A q \in Procs : CommandSound(cli[q], pending)'
  BY <1>1 DEF CommandSound, InTurn, Told, Given, AtMost
<1>4. \A s \in Slots : cliReq'[s].by \in Procs => AskedBy(cliReq[s], cli[cliReq[s].by])'
  BY <1>1 DEF AskedBy
<1>5. \A s, t \in Slots : cliReq'[s].by \in Procs /\ cliReq'[s].by = cliReq'[t].by => s = t
  BY <1>1
<1>6. MarkerSound(pending)'
  BY DEF MarkerSound, InTurn, Given
<1>7. \A s \in Slots : RequestTurn(cliReq[s], s, pending)'
  BY DEF RequestTurn, InTurn, Told, Given
<1>8. QED
  BY <1>2, <1>3, <1>4, <1>5, <1>6, <1>7 DEF HintInv

(* No reveal that can still take place has another marker than the one     *)
(* that is there: when the marker goes, the reveals are done.              *)
LEMMA TurnsKept ==
  ASSUME OneLearner, HintInv, NEW n,
         n = pending \/ pending.gen # vm \/ pending.ord <= row.revealed[pending.alias]
  PROVE  \A s \in Slots : RequestTurn(cliReq[s], s, n)
<1> SUFFICES ASSUME NEW s \in Slots PROVE RequestTurn(cliReq[s], s, n)
  OBVIOUS
<1>1. PICK r : r = cliReq[s]
  OBVIOUS
<1>2. RequestTurn(r, s, pending) /\ (r.kind = "hint" => row.revealed[r.alias] \in Int)
  BY <1>1 DEF HintInv, CliInv, CliShapes, RequestSound, Rows, Reveals, OneLearner, RunCliConstants
<1>3. r.kind = "hint" /\ r.gen = vm /\ r.ord = row.revealed[r.alias] + 1 /\ pending = MarkOf(r)
        => n = MarkOf(r)
  BY <1>2 DEF MarkOf
<1>4. RequestTurn(r, s, n)
  BY <1>2, <1>3 DEF RequestTurn
<1>5. QED
  BY <1>1, <1>4

LEMMA FailSound ==
  ASSUME NEW c \in Invocations, NEW m, CommandSound(c, m)
  PROVE  CommandSound(Fail(c), m)
<1>1. CommandSound(IdleCli, m)
  BY DEF CommandSound, IdleCli, MarkSteps
<1>2. CASE c.pc = "reveal"
  <2>1. CommandSound([c EXCEPT !.pc = "ask", !.err = FALSE], m)
    BY <1>2 DEF CommandSound, Invocations, MarkSteps
  <2>2. QED
    BY <1>2, <2>1 DEF Fail
<1>3. CASE c.pc = "confirm" /\ c.err
  <2>1. CommandSound([c EXCEPT !.pc = "drop"], m)
    BY <1>3 DEF CommandSound, Invocations, MarkSteps
  <2>2. QED
    BY <1>3, <2>1 DEF Fail
<1>4. QED
  BY <1>1, <1>2, <1>3 DEF Fail

(* A request of an invocation that was not waiting. *)
LEMMA SendHint ==
  ASSUME OneLearner, HintInv, CliInv', NEW p \in Procs, NEW c \in Invocations,
         NEW kind \in {"status", "sync", "solution", "hint"}, Send(p, kind, c),
         ~Waiting(p), UNCHANGED <<row, vm, shownHints, lane>>,
         NEW m, pending' = m, MarkerSound(m), CommandSound(c, m),
         c.pc \in {"status", "view", "reveal", "confirm"},
         c.pc = "reveal" <=> kind = "hint",
         \A s \in Slots : RequestTurn(cliReq[s], s, m)
  PROVE  HintInv'
<1>1. \A s \in Slots : cliReq[s].by # p
  BY DEF HintInv, AskedBy, Waiting
<1>2. CASE FreeSlots = {}
  <2>1. PICK d : d = Fail(c)
    OBVIOUS
  <2>2. cli' = [cli EXCEPT ![p] = d] /\ cliReq' = cliReq
    BY <1>2, <2>1 DEF Send
  <2>3. CommandSound(d, m)
    BY <2>1, FailSound
  <2>4. QED
    BY <1>1, <2>2, <2>3, GuestHint
<1>3. CASE FreeSlots # {}
  <2>1. PICK r : r = CliRequest(p, kind, c)
    OBVIOUS
  <2>2. PICK s \in Slots : /\ cliReq[s].st = "free"
                           /\ cli' = [cli EXCEPT ![p] = c]
                           /\ cliReq' = [cliReq EXCEPT ![s] = r]
    BY <1>3, <2>1 DEF Send, FreeSlots
  <2>3. /\ r.st = "lane" /\ r.kind = kind /\ r.by = p /\ r.gen = vm
        /\ r.alias = c.mark.alias /\ r.ord = c.mark.ord
    BY <2>1 DEF CliRequest, Free
  <2>4. c.pc = "reveal" =>
          MarkOf(r) = c.mark /\ m = c.mark /\ InTurn(c.mark) /\ row.gen = vm /\ c.mark.gen = vm
    <3>1. c.pc = "reveal" => m = c.mark /\ InTurn(c.mark) /\ row.gen = vm /\ c.mark.gen = vm
      BY DEF CommandSound, MarkSteps
    <3>2. c.pc = "reveal" => c.mark \in RealMarks
      BY DEF Invocations, MarkSteps
    <3>3. c.pc = "reveal" => MarkOf(r) = c.mark
      BY <2>3, <3>1, <3>2 DEF MarkOf, RealMarks
    <3>4. QED
      BY <3>1, <3>3
  <2>5. vm \in Int
    BY DEF HintInv, CliInv, CliShapes, OneLearner, RunCliConstants
  <2>6. RequestTurn(r, s, m)
    BY <2>3, <2>4, <2>5 DEF RequestTurn
  <2>7. \A x \in Slots : cliReq'[x] = IF x = s THEN r ELSE cliReq[x]
    BY <2>2 DEF HintInv, CliInv, CliShapes
  <2>8. \A x \in Slots : RequestTurn(cliReq'[x], x, m)
    BY <2>6, <2>7
  <2>9. AskedBy(r, c)
    BY <2>3, <2>4 DEF AskedBy
  <2>10. \A x \in Slots : cliReq'[x].by = p => x = s /\ cliReq'[x] = r
    BY <1>1, <2>7
  <2>11. \A x \in Slots : cliReq'[x].by = p => AskedBy(cliReq'[x], c)
    BY <2>9, <2>10
  <2>12. \A x, t \in Slots : cliReq'[x].by = p /\ cliReq'[t].by = p => x = t
    BY <2>10
  <2>13. \A x \in Slots : RequestTurn(cliReq'[x], x, pending')
    BY <2>8
  <2>14. QED
    BY <2>2, <2>11, <2>12, <2>13, GuestHint
<1>4. QED
  BY <1>2, <1>3

LEMMA HintFacts ==
  ASSUME OneLearner, HintInv
  PROVE  /\ RunCliConstants /\ CliInv /\ vm \in Int /\ vm # 0 /\ row.gen \in Int
         /\ row.revealed \in Reveals /\ \A a \in Aliases : row.revealed[a] \in 0..MaxHints
         /\ NoMark.gen = 0
BY DEF OneLearner, HintInv, CliInv, CliShapes, Rows, Reveals, RunCliConstants, NoMark

LEMMA StartHinted ==
  ASSUME OneLearner, HintInv, CliInv', NEW p \in Procs,
         \/ \E a \in Aliases : StartHint(p, a)
         \/ \E k \in {"status", "sync", "solution"} : StartOther(p, k)
         \/ Confirm(p)
  PROVE  HintInv'
<1>1. UNCHANGED <<row, vm, shownHints, lane, pending>> /\ ~Waiting(p)
  BY DEF StartHint, StartOther, Confirm, GuestOnly, Waiting
<1>2. /\ MarkerSound(pending) /\ \A s \in Slots : RequestTurn(cliReq[s], s, pending)
      /\ CommandSound(cli[p], pending) /\ cli[p] \in Invocations
  BY DEF HintInv, CliInv, CliShapes
<1>m. PICK m : m = pending
  OBVIOUS
<1>3. ASSUME NEW a \in Aliases, StartHint(p, a)
      PROVE  HintInv'
  <2>1. PICK c : c = [IdleCli EXCEPT !.pc = "status", !.alias = a]
    OBVIOUS
  <2>2. c \in Invocations /\ c.pc = "status"
    BY <2>1 DEF IdleCli, Invocations, CliSteps, MarkSteps
  <2>3. Send(p, "status", c)
    BY <1>3, <2>1 DEF StartHint
  <2>4. CommandSound(c, m)
    BY <2>2 DEF CommandSound, MarkSteps
  <2>5. QED
    BY <1>1, <1>2, <1>m, <2>2, <2>3, <2>4, SendHint
<1>4. ASSUME NEW k \in {"status", "sync", "solution"}, StartOther(p, k)
      PROVE  HintInv'
  <2>1. PICK c : c = [IdleCli EXCEPT !.pc = "view"]
    OBVIOUS
  <2>2. c \in Invocations /\ c.pc = "view"
    BY <2>1 DEF IdleCli, Invocations, CliSteps, MarkSteps
  <2>3. Send(p, k, c)
    BY <1>4, <2>1 DEF StartOther
  <2>4. CommandSound(c, m)
    BY <2>2 DEF CommandSound, MarkSteps
  <2>5. QED
    BY <1>1, <1>2, <1>m, <2>2, <2>3, <2>4, SendHint
<1>5. CASE Confirm(p)
  <2>1. PICK c : c = [cli[p] EXCEPT !.pc = "confirm"]
    OBVIOUS
  <2>2. cli[p].pc = "ask"
    BY <1>5 DEF Confirm
  <2>3. /\ c \in Invocations /\ c.pc = "confirm" /\ c.mark = cli[p].mark /\ c.err = cli[p].err
    BY <1>2, <2>1, <2>2 DEF Invocations, CliSteps, MarkSteps
  <2>4. Send(p, "status", c)
    BY <1>5, <2>1 DEF Confirm
  <2>5. CommandSound(c, m)
    BY <1>2, <1>m, <2>2, <2>3 DEF CommandSound, MarkSteps
  <2>6. QED
    BY <1>1, <1>2, <1>m, <2>3, <2>4, <2>5, SendHint
<1>6. QED
  BY <1>3, <1>4, <1>5

LEMMA LoadHinted ==
  ASSUME OneLearner, HintInv, CliInv', NEW p \in Procs, Load(p)
  PROVE  HintInv'
<1> DEFINE c == cli[p]
           next == [gen |-> vm, alias |-> c.alias, ord |-> c.view[c.alias] + 1]
<1>1. PICK mark : mark = IF pending # NoMark /\ pending.gen # vm THEN NoMark ELSE pending
  OBVIOUS
<1>2. /\ c \in Invocations /\ c.pc = "load" /\ c.alias \in Aliases /\ c.view \in Reveals
      /\ CommandSound(c, pending) /\ ~Waiting(p) /\ pending' = mark
      /\ UNCHANGED <<row, vm, shownHints, lane>>
  BY <1>1 DEF Load, HintInv, CliInv, CliShapes, Invocations, Waiting, GuestOnly
<1>3. row.gen = vm /\ AtMost(c.view, row.revealed)
  BY <1>2 DEF CommandSound
<1>4. \A s \in Slots : RequestTurn(cliReq[s], s, mark)
  BY <1>1, TurnsKept
<1>5. MarkerSound(mark) /\ (mark = NoMark => \A a \in Aliases : Given(a, row.revealed[a]))
  <2>1. CASE mark = pending
    <3>1. MarkerSound(mark)
      BY <2>1 DEF HintInv
    <3>2. NoMark.gen # vm
      BY HintFacts
    <3>3. QED
      BY <1>3, <3>1, <3>2 DEF MarkerSound
  <2>2. CASE mark = NoMark /\ pending.gen # vm
    <3>1. \A a \in Aliases : Given(a, row.revealed[a])
      BY <1>3, <2>2 DEF HintInv, MarkerSound
    <3>2. QED
      BY <2>2, <3>1 DEF MarkerSound
  <2>3. QED
    BY <1>1, <2>1, <2>2
<1>6. mark # NoMark => mark.gen = vm /\ InTurn(mark) /\ mark \in RealMarks
  BY <1>1, <1>5 DEF MarkerSound, HintInv, CliInv, CliShapes
<1>7. CASE /\ mark # NoMark
           /\ Send(p, "hint", [c EXCEPT !.mark = mark, !.pc = "reveal"])
  <2>1. PICK d : d = [c EXCEPT !.mark = mark, !.pc = "reveal"]
    OBVIOUS
  <2>2. d \in Invocations /\ d.pc = "reveal" /\ d.mark = mark
    BY <1>2, <1>6, <1>7, <2>1 DEF Invocations, CliSteps, MarkSteps
  <2>3. CommandSound(d, mark)
    BY <1>3, <1>6, <1>7, <2>2 DEF CommandSound, MarkSteps
  <2>4. QED
    BY <1>2, <1>4, <1>5, <1>7, <2>1, <2>2, <2>3, SendHint
<1>8. CASE /\ cli' = [cli EXCEPT ![p] =
                        CASE mark # NoMark /\ mark.alias = c.alias /\ IsRevealed(c.view, mark)
                               -> [c EXCEPT !.mark = mark, !.pc = "print"]
                          [] mark = NoMark /\ c.view[c.alias] < MaxHints
                               -> [c EXCEPT !.mark = next, !.pc = "persist"]
                          [] OTHER -> IdleCli]
           /\ UNCHANGED cliReq
  <2>1. PICK d : /\ cli' = [cli EXCEPT ![p] = d]
                 /\ \/ mark # NoMark /\ mark.alias = c.alias /\ IsRevealed(c.view, mark)
                        /\ d = [c EXCEPT !.mark = mark, !.pc = "print"]
                    \/ mark = NoMark /\ d = [c EXCEPT !.mark = next, !.pc = "persist"]
                    \/ d = IdleCli
    <3> HIDE DEF next, c
    <3> QED
      BY <1>8
  <2>2. CommandSound(d, mark)
    <3>1. CASE d = IdleCli
      BY <3>1 DEF CommandSound, IdleCli, MarkSteps
    <3>2. CASE mark # NoMark /\ mark.alias = c.alias /\ IsRevealed(c.view, mark)
                 /\ d = [c EXCEPT !.mark = mark, !.pc = "print"]
      <4>1. d.pc = "print" /\ d.mark = mark
        BY <1>2, <3>2 DEF Invocations
      <4>2. mark.ord <= row.revealed[mark.alias]
        <5>1. mark.ord \in Int /\ mark.alias \in Aliases
          BY <1>6, <3>2 DEF RealMarks, OneLearner, RunCliConstants
        <5>2. c.view[mark.alias] \in Int /\ row.revealed[mark.alias] \in Int
              /\ c.view[mark.alias] <= row.revealed[mark.alias]
          BY <1>2, <1>3, <5>1, HintFacts DEF AtMost, Reveals, RunCliConstants
        <5>3. QED
          BY <3>2, <5>1, <5>2 DEF IsRevealed
      <4>3. QED
        BY <1>3, <1>6, <3>2, <4>1, <4>2 DEF CommandSound, MarkSteps
    <3>3. CASE mark = NoMark /\ d = [c EXCEPT !.mark = next, !.pc = "persist"]
      <4>1. d.pc = "persist" /\ d.mark = next
        BY <1>2, <3>3 DEF Invocations
      <4>2. next.gen = vm /\ next.alias = c.alias /\ next.ord - 1 = c.view[c.alias]
            /\ next.ord <= row.revealed[next.alias] + 1
        BY <1>2, <1>3, HintFacts DEF AtMost, Reveals, RunCliConstants
      <4>3. Given(c.alias, c.view[c.alias])
        <5>1. Given(c.alias, row.revealed[c.alias])
          BY <1>2, <1>5, <3>3
        <5>2. /\ c.view[c.alias] <= row.revealed[c.alias]
              /\ c.view[c.alias] \in Int /\ row.revealed[c.alias] \in Int
          BY <1>2, <1>3, HintFacts DEF AtMost, Reveals, RunCliConstants
        <5>3. QED
          BY <5>1, <5>2 DEF Given
      <4> HIDE DEF next
      <4>4. InTurn(next)
        BY <4>2, <4>3 DEF InTurn
      <4>5. QED
        BY <1>3, <3>3, <4>1, <4>2, <4>4 DEF CommandSound, MarkSteps
    <3>4. QED
      BY <2>1, <3>1, <3>2, <3>3
  <2>3. \A s \in Slots : cliReq'[s].by # p
    BY <1>2, <1>8 DEF HintInv, AskedBy, Waiting
  <2>4. QED
    BY <1>2, <1>4, <1>5, <1>8, <2>1, <2>2, <2>3, GuestHint
<1>9. QED
  BY <1>1, <1>7, <1>8 DEF Load

LEMMA PersistHinted ==
  ASSUME OneLearner, HintInv, CliInv', NEW p \in Procs, NEW ok \in BOOLEAN, Persist(p, ok)
  PROVE  HintInv'
<1>1. /\ cli[p] \in Invocations /\ cli[p].pc = "persist" /\ cli[p].mark \in RealMarks
      /\ CommandSound(cli[p], pending) /\ ~Waiting(p)
      /\ UNCHANGED <<row, vm, shownHints, lane>>
  BY DEF Persist, HintInv, CliInv, CliShapes, Invocations, MarkSteps, Waiting, GuestOnly
<1>2. pending = NoMark /\ row.gen = vm /\ cli[p].mark.gen = vm /\ InTurn(cli[p].mark)
  BY <1>1 DEF CommandSound, MarkSteps
<1>3. CASE ok
  <2>1. PICK c : c = [cli[p] EXCEPT !.pc = "reveal"]
    OBVIOUS
  <2>2. c \in Invocations /\ c.pc = "reveal" /\ c.mark = cli[p].mark
    BY <1>1, <2>1 DEF Invocations, CliSteps, MarkSteps
  <2>3. PICK m : m = cli[p].mark
    OBVIOUS
  <2>4. pending' = m /\ Send(p, "hint", c)
    BY <1>3, <2>1, <2>3 DEF Persist
  <2>5. CommandSound(c, m)
    BY <1>2, <2>2, <2>3 DEF CommandSound, MarkSteps
  <2>6. \A s \in Slots : RequestTurn(cliReq[s], s, m)
    BY <1>2, TurnsKept, HintFacts
  <2>7. MarkerSound(m)
    <3>1. \A a \in Aliases : Given(a, row.revealed[a])
      BY <1>2, HintFacts DEF HintInv, MarkerSound
    <3>2. m.gen <= vm
      BY <1>2, <2>3, HintFacts
    <3>3. QED
      BY <1>2, <2>3, <3>1, <3>2 DEF MarkerSound
  <2>8. QED
    BY <1>1, <2>2, <2>4, <2>5, <2>6, <2>7, SendHint
<1>4. CASE ~ok
  <2>1. PICK d : d = IdleCli
    OBVIOUS
  <2>2. cli' = [cli EXCEPT ![p] = d] /\ UNCHANGED <<pending, cliReq>>
    BY <1>4, <2>1 DEF Persist
  <2>3. CommandSound(d, pending)
    BY <2>1 DEF CommandSound, IdleCli, MarkSteps
  <2>4. \A s \in Slots : cliReq'[s].by # p
    BY <1>1, <2>2 DEF HintInv, AskedBy, Waiting
  <2>5. QED
    BY <1>1, <2>2, <2>3, <2>4, GuestHint DEF HintInv
<1>5. QED
  BY <1>3, <1>4

(* The marker goes only when the hint it names was given. *)
LEMMA ClearHinted ==
  ASSUME OneLearner, HintInv, CliInv', NEW p \in Procs, Drop(p) \/ Clear(p)
  PROVE  HintInv'
<1>1. /\ cli[p] \in Invocations /\ cli[p].pc \in {"drop", "clear"} /\ ~Waiting(p)
      /\ CommandSound(cli[p], pending)
      /\ UNCHANGED <<row, vm, shownHints, lane, cliReq>>
      /\ pending' = ClearIfMatches(cli[p].mark) /\ cli' = [cli EXCEPT ![p] = IdleCli]
  BY DEF Drop, Clear, HintInv, CliInv, CliShapes, Waiting, GuestOnly
<1>2. row.gen = vm /\ pending = cli[p].mark /\ Told(pending) /\ pending' = NoMark
  BY <1>1 DEF CommandSound, MarkSteps, ClearIfMatches
<1>3. PICK d, m : d = IdleCli /\ m = NoMark
  OBVIOUS
<1>4. CommandSound(d, m)
  BY <1>3 DEF CommandSound, IdleCli, MarkSteps
<1>5. \A s \in Slots : RequestTurn(cliReq[s], s, m)
  BY <1>2, TurnsKept DEF Told
<1>6. MarkerSound(m)
  <2>1. \A a \in Aliases : Given(a, row.revealed[a])
    <3> SUFFICES ASSUME NEW a \in Aliases PROVE Given(a, row.revealed[a])
      OBVIOUS
    <3>1. CASE pending = [gen |-> vm, alias |-> a, ord |-> row.revealed[a]]
      <4>1. pending.alias = a /\ pending.ord = row.revealed[a]
        BY <3>1
      <4>2. Given(pending.alias, pending.ord)
        BY <1>2 DEF Told
      <4>3. QED
        BY <4>1, <4>2
    <3>2. QED
      BY <1>2, <3>1 DEF HintInv, MarkerSound
  <2>2. QED
    BY <1>3, <2>1 DEF MarkerSound
<1>7. \A s \in Slots : cliReq'[s].by # p
  BY <1>1 DEF HintInv, AskedBy, Waiting
<1>8. QED
  BY <1>1, <1>2, <1>3, <1>4, <1>5, <1>6, <1>7, GuestHint

LEMMA GiveUpHinted ==
  ASSUME OneLearner, HintInv, CliInv', NEW p \in Procs, TimeOut(p) \/ Interrupt(p)
  PROVE  HintInv'
<1>1. PICK d : /\ cli' = [cli EXCEPT ![p] = d]
               /\ d = Fail(cli[p]) \/ d = IdleCli
  BY DEF TimeOut, Interrupt
<1>2. UNCHANGED <<row, vm, shownHints, lane, pending>> /\ cliReq' = Abandoned(p)
  BY DEF TimeOut, Interrupt, GuestOnly
<1>3. CommandSound(d, pending)
  <2>1. CommandSound(IdleCli, pending)
    BY DEF CommandSound, IdleCli, MarkSteps
  <2>2. PICK c, m : c = cli[p] /\ m = pending
    OBVIOUS
  <2>3. c \in Invocations /\ CommandSound(c, m)
    BY <2>2 DEF HintInv, CliInv, CliShapes
  <2>4. CommandSound(Fail(c), m)
    BY <2>3, FailSound
  <2>5. QED
    BY <1>1, <2>1, <2>2, <2>4
<1>4. ASSUME NEW s \in Slots
      PROVE  cliReq'[s].by # p /\ RequestTurn(cliReq'[s], s, pending)
  <2>1. cliReq[s] \in CliRequests /\ RequestTurn(cliReq[s], s, pending) /\ NoClient # p
    BY DEF HintInv, CliInv, CliShapes, OneLearner, RunCliConstants
  <2>2. PICK r : r = [cliReq[s] EXCEPT !.by = NoClient]
    OBVIOUS
  <2>3. r.by = NoClient /\ RequestTurn(r, s, pending)
    BY <2>1, <2>2 DEF CliRequests, RequestTurn, MarkOf
  <2>4. cliReq'[s] = IF cliReq[s].by = p THEN r ELSE cliReq[s]
    BY <1>2, <2>2 DEF Abandoned
  <2>5. QED
    BY <2>1, <2>3, <2>4
<1>5. QED
  BY <1>1, <1>2, <1>3, <1>4, GuestHint DEF HintInv

(* Within a generation the reveals and what was given only grow. *)
RunGrows ==
  /\ row' \in Rows /\ row'.gen = row.gen /\ vm' = vm /\ pending' = pending
  /\ \A a \in Aliases : /\ row.revealed[a] <= row'.revealed[a]
                        /\ shownHints[a] \subseteq shownHints'[a]

LEMMA MarksGrow ==
  ASSUME OneLearner, HintInv, RunGrows, NEW m, m.alias \in Aliases, m.ord \in Int
  PROVE  /\ InTurn(m) => InTurn(m)'
         /\ Told(m) => Told(m)'
         /\ Given(m.alias, m.ord) => Given(m.alias, m.ord)'
<1>1. row.revealed[m.alias] \in Int /\ row'.revealed[m.alias] \in Int
  BY HintFacts DEF RunGrows, Rows, Reveals, OneLearner, RunCliConstants
<1>2. QED
  BY <1>1 DEF InTurn, Told, Given, RunGrows

LEMMA RequestGrows ==
  ASSUME OneLearner, HintInv, RunGrows, NEW s \in Slots, NEW r \in CliRequests,
         RequestSound(r, row, early), RequestTurn(r, s, pending), lane' = lane,
         r.kind = "hint" /\ r.st \in {"decide", "update"} /\ r.gen = vm
           /\ r.ord <= row'.revealed[r.alias] => Given(r.alias, r.ord)'
  PROVE  RequestTurn(r, s, pending)'
<1>1. CASE r.kind = "hint"
  <2>1. r.alias \in Aliases /\ r.ord \in Int
    BY <1>1 DEF RequestSound, CliRequests, OneLearner, RunCliConstants
  <2>2. /\ row.revealed[r.alias] \in Int /\ row'.revealed[r.alias] \in Int
        /\ row.revealed[r.alias] <= row'.revealed[r.alias]
    BY <2>1, HintFacts DEF RunGrows, Rows, Reveals, OneLearner, RunCliConstants
  <2>3. PICK m : m = MarkOf(r)
    OBVIOUS
  <2>4. m.alias = r.alias /\ m.ord = r.ord
    BY <2>3 DEF MarkOf
  <2>5. (InTurn(m) => InTurn(m)') /\ (Told(m) => Told(m)')
    BY <2>1, <2>4, MarksGrow
  <2>6. (InTurn(MarkOf(r)) => InTurn(MarkOf(r))') /\ (Told(MarkOf(r)) => Told(MarkOf(r))')
    BY <2>3, <2>5 DEF MarkOf, InTurn, Told, Given
  <2>7. InTurn(MarkOf(r)) => r.ord <= row.revealed[r.alias] + 1
    BY DEF InTurn, MarkOf
  <2>8. r.st = "update" => r.seen[r.alias] <= row'.revealed[r.alias]
    <3>1. r.st = "update" => r.seen \in Reveals
      BY <1>1 DEF RequestSound
    <3>2. r.st = "update" => r.seen[r.alias] \in Int
      BY <2>1, <3>1 DEF Reveals, OneLearner, RunCliConstants
    <3>3. QED
      BY <1>1, <2>2, <3>2 DEF RequestTurn
  <2>9. r.st \in {"lane", "fence", "read", "decide", "update"} /\ r.gen = vm
          /\ r.ord = row'.revealed[r.alias] + 1 => pending' = MarkOf(r)
    BY <1>1, <2>1, <2>2, <2>7 DEF RequestTurn, RunGrows
  <2>10. QED
    BY <1>1, <2>6, <2>8, <2>9 DEF RequestTurn, RunGrows, MarkOf
<1>2. CASE r.kind # "hint"
  BY <1>2 DEF RequestTurn, RunGrows
<1>3. QED
  BY <1>1, <1>2

LEMMA CommandGrows ==
  ASSUME OneLearner, HintInv, RunGrows, NEW c \in Invocations, CommandSound(c, pending)
  PROVE  CommandSound(c, pending)'
<1>1. c.pc = "load" => AtMost(c.view, row'.revealed)
  BY HintFacts DEF CommandSound, Invocations, AtMost, Reveals, RunGrows, Rows, RunCliConstants
<1>2. PICK m : m = c.mark
  OBVIOUS
<1>3. CASE c.pc \in MarkSteps
  <2>1. m.alias \in Aliases /\ m.ord \in Int
    BY <1>2, <1>3 DEF Invocations, RealMarks, OneLearner, RunCliConstants
  <2>2. (InTurn(m) => InTurn(m)') /\ (Told(m) => Told(m)')
    BY <2>1, MarksGrow
  <2>3. (InTurn(c.mark) => InTurn(c.mark)') /\ (Told(c.mark) => Told(c.mark)')
    BY <1>2, <2>2 DEF InTurn, Told, Given
  <2>4. m.ord <= row.revealed[m.alias] => m.ord <= row'.revealed[m.alias]
    BY <2>1, HintFacts DEF RunGrows, Rows, Reveals, RunCliConstants
  <2>5. QED
    BY <1>1, <1>2, <1>3, <2>3, <2>4 DEF CommandSound, RunGrows, MarkSteps
<1>4. CASE c.pc \notin MarkSteps
  BY <1>1, <1>4 DEF CommandSound, RunGrows, MarkSteps
<1>5. QED
  BY <1>3, <1>4

(* The text reaches the learner, or a broken pipe keeps the marker. *)
LEMMA ShowHinted ==
  ASSUME OneLearner, HintInv, CliInv', NEW p \in Procs, NEW ok \in BOOLEAN, Show(p, ok)
  PROVE  HintInv'
<1>1. /\ cli[p] \in Invocations /\ cli[p].pc = "print" /\ cli[p].mark \in RealMarks
      /\ CommandSound(cli[p], pending) /\ ~Waiting(p)
      /\ UNCHANGED <<row, vm, lane, pending, cliReq, early>>
      /\ cli' = [cli EXCEPT ![p] = AfterWrite(cli[p], ok)]
  BY DEF Show, HintInv, CliInv, CliShapes, Invocations, MarkSteps, Waiting, GuestOnly
<1>2. PICK m : m = cli[p].mark
  OBVIOUS
<1>3. /\ row.gen = vm /\ m.gen = vm /\ InTurn(m) /\ m.ord <= row.revealed[m.alias] /\ pending = m
  BY <1>1, <1>2 DEF CommandSound, MarkSteps
<1>4. m.alias \in Aliases /\ m.ord \in 1..row.revealed[m.alias] /\ m.ord \in Int
  BY <1>1, <1>2, <1>3, HintFacts DEF RealMarks, RunCliConstants
<1>5. shownHints' = IF ok THEN [shownHints EXCEPT ![m.alias] = @ \cup {m.ord}] ELSE shownHints
  BY <1>2 DEF Show
<1>6. /\ shownHints' \in [Aliases -> SUBSET Nat]
      /\ \A a \in Aliases : shownHints'[a] \subseteq 1..row'.revealed[a]
      /\ \A a \in Aliases : shownHints[a] \subseteq shownHints'[a]
  <2>1. shownHints \in [Aliases -> SUBSET Nat] /\ m.ord \in Nat
        /\ \A a \in Aliases : shownHints[a] \subseteq 1..row.revealed[a]
    BY <1>4 DEF HintInv
  <2>2. QED
    BY <1>1, <1>4, <1>5, <2>1
<1>7. RunGrows
  BY <1>1, <1>6, HintFacts DEF RunGrows, HintInv, CliInv, CliShapes
<1>8. \A s \in Slots : RequestTurn(cliReq[s], s, pending)'
  <2> SUFFICES ASSUME NEW s \in Slots PROVE RequestTurn(cliReq[s], s, pending)'
    OBVIOUS
  <2>1. PICK r : r = cliReq[s]
    OBVIOUS
  <2>2. r \in CliRequests /\ RequestSound(r, row, early) /\ RequestTurn(r, s, pending)
    BY <2>1 DEF HintInv, CliInv, CliShapes
  <2>3. r.kind = "hint" /\ r.st \in {"decide", "update"} /\ r.gen = vm
           /\ r.ord <= row'.revealed[r.alias] => Given(r.alias, r.ord)'
    BY <1>1, <1>6, <2>2 DEF RequestTurn, Given, RequestSound
  <2>4. RequestTurn(r, s, pending)'
    BY <1>1, <1>7, <2>2, <2>3, RequestGrows
  <2>5. r = cliReq'[s]
    BY <1>1, <2>1
  <2>6. QED
    BY <2>4, <2>5 DEF RequestTurn, InTurn, Told, Given, MarkOf
<1>9. NoHintSkipped' /\ MarkerSound(pending)'
  <2>1. \A a \in Aliases : \A n \in Int : Given(a, n) => Given(a, n)'
    BY <1>6 DEF Given
  <2>2. InTurn(m)'
    BY <1>3, <1>4, <1>7, MarksGrow
  <2>3. InTurn(pending)'
    BY <1>1, <1>3, <2>2 DEF InTurn, Given
  <2>4. \A a \in Aliases : row.revealed[a] \in Int
    BY HintFacts
  <2>5. QED
    BY <1>1, <1>6, <2>1, <2>3, <2>4 DEF HintInv, NoHintSkipped, MarkerSound, Given
<1>10. PICK d : d = AfterWrite(cli[p], ok)
  OBVIOUS
<1>11. CommandSound(d, pending)'
  <2>1. CASE ok
    <3>1. d.pc = "clear" /\ d.mark = m
      BY <1>1, <1>2, <1>10, <2>1 DEF AfterWrite, Invocations
    <3>2. InTurn(m)'
      BY <1>3, <1>4, <1>7, MarksGrow
    <3>3. m.ord \in shownHints'[m.alias]
      BY <1>4, <1>5, <2>1 DEF HintInv
    <3>4. Told(m)'
      BY <1>1, <1>3, <1>4, <3>2, <3>3 DEF Told, InTurn, Given
    <3>5. InTurn(d.mark)' /\ Told(d.mark)'
      BY <3>1, <3>2, <3>4 DEF InTurn, Told, Given
    <3>6. QED
      BY <1>1, <1>3, <3>1, <3>5 DEF CommandSound, MarkSteps
  <2>2. CASE ~ok
    BY <1>10, <2>2 DEF AfterWrite, CommandSound, IdleCli, MarkSteps
  <2>3. QED
    BY <2>1, <2>2
<1>12. cli'[p] = d /\ \A q \in Procs : q = p
  BY <1>1, <1>10 DEF OneLearner, HintInv, CliInv, CliShapes
<1>13. \A q \in Procs : CommandSound(cli[q], pending)'
  BY <1>11, <1>12 DEF CommandSound, InTurn, Told, Given, AtMost
<1>14. \A s \in Slots : cliReq'[s].by \notin Procs
  BY <1>1, <1>12 DEF HintInv, AskedBy, Waiting
<1>15. QED
  BY <1>6, <1>8, <1>9, <1>13, <1>14 DEF HintInv

(* Steps of a worker of the control plane on one request. *)
LEMMA WorkerHint ==
  ASSUME OneLearner, HintInv, CliInv', NEW s \in Slots, NEW r,
         cliReq' = [cliReq EXCEPT ![s] = r],
         UNCHANGED <<row, vm, pending, cli, lane, shownHints>>,
         r.by = cliReq[s].by, r.gen = cliReq[s].gen, r.kind = cliReq[s].kind,
         r.alias = cliReq[s].alias, r.ord = cliReq[s].ord, RequestTurn(r, s, pending)
  PROVE  HintInv'
<1>1. \A x \in Slots : cliReq'[x] = IF x = s THEN r ELSE cliReq[x]
  BY DEF HintInv, CliInv, CliShapes
<1>2. \A x \in Slots : RequestTurn(cliReq'[x], x, pending)
  BY <1>1 DEF HintInv
<1>3. \A x \in Slots : RequestTurn(cliReq[x], x, pending)'
  BY <1>2 DEF RequestTurn, InTurn, Told, Given
<1>4. \A x \in Slots : cliReq'[x].by = cliReq[x].by /\ cliReq'[x].gen = cliReq[x].gen
        /\ cliReq'[x].kind = cliReq[x].kind /\ MarkOf(cliReq'[x]) = MarkOf(cliReq[x])
  BY <1>1 DEF MarkOf
<1>5. \A x \in Slots : cliReq'[x].by \in Procs => AskedBy(cliReq[x], cli[cliReq[x].by])'
  BY <1>4 DEF HintInv, AskedBy
<1>6. \A x, t \in Slots : cliReq'[x].by \in Procs /\ cliReq'[x].by = cliReq'[t].by => x = t
  BY <1>4 DEF HintInv
<1>7. NoHintSkipped' /\ MarkerSound(pending)'
  BY DEF HintInv, NoHintSkipped, MarkerSound, InTurn, Given
<1>8. \A p \in Procs : CommandSound(cli[p], pending)'
  BY DEF HintInv, CommandSound, InTurn, Told, Given, AtMost
<1>9. QED
  BY <1>3, <1>5, <1>6, <1>7, <1>8 DEF HintInv

LEMMA FreeTurn ==
  ASSUME OneLearner, HintInv, NEW s PROVE RequestTurn(Free, s, pending)
<1>1. Free.st = "free" /\ Free.kind = "status" /\ Free.gen = 0
  BY DEF Free
<1>2. QED
  BY <1>1, CliConsts DEF RequestTurn, HintInv, CliInv, CliShapes, OneLearner, RunCliConstants

(* A request leaves the broker, and its invocation goes on with the result. *)
LEMMA FreeHint ==
  ASSUME OneLearner, HintInv, CliInv', NEW s \in Slots,
         cliReq' = [cliReq EXCEPT ![s] = Free],
         UNCHANGED <<row, vm, pending, shownHints>>,
         lane' = IF lane = s THEN 0 ELSE lane,
         \/ cliReq[s].by = NoClient /\ cli' = cli
         \/ cliReq[s].by \in Procs /\ \E d : /\ cli' = [cli EXCEPT ![cliReq[s].by] = d]
                                             /\ CommandSound(d, pending)
  PROVE  HintInv'
<1>1. \A x \in Slots : cliReq'[x] = IF x = s THEN Free ELSE cliReq[x]
  BY DEF HintInv, CliInv, CliShapes
<1>2. ASSUME NEW x \in Slots PROVE RequestTurn(cliReq[x], x, pending)'
  <2>1. PICK q : q = cliReq'[x]
    OBVIOUS
  <2>2. RequestTurn(q, x, pending)
    BY <1>1, <2>1, FreeTurn DEF HintInv
  <2>3. q.gen = vm /\ q.st \notin {"free", "lane"} => lane' = x
    <3>1. Free.st = "free"
      BY DEF Free
    <3>2. QED
      BY <1>1, <2>1, <2>2, <3>1 DEF RequestTurn
  <2>4. RequestTurn(q, x, pending)'
    BY <2>2, <2>3 DEF RequestTurn, InTurn, Told, Given, MarkOf
  <2>5. QED
    BY <2>1, <2>4 DEF RequestTurn, InTurn, Told, Given, MarkOf
<1>3. Free.by = NoClient /\ NoClient \notin Procs
  BY DEF Free, OneLearner, RunCliConstants
<1>4. NoHintSkipped' /\ MarkerSound(pending)'
  BY DEF HintInv, NoHintSkipped, MarkerSound, InTurn, Given
<1>5. CASE cliReq[s].by = NoClient /\ cli' = cli
  <2>1. \A x \in Slots : cliReq'[x].by \in Procs => x # s /\ cliReq'[x] = cliReq[x]
    BY <1>1, <1>3
  <2>2. \A x \in Slots : cliReq'[x].by \in Procs => AskedBy(cliReq[x], cli[cliReq[x].by])'
    BY <1>5, <2>1 DEF HintInv, AskedBy
  <2>3. \A x, t \in Slots : cliReq'[x].by \in Procs /\ cliReq'[x].by = cliReq'[t].by => x = t
    BY <1>3, <2>1 DEF HintInv
  <2>4. \A p \in Procs : CommandSound(cli[p], pending)'
    BY <1>5 DEF HintInv, CommandSound, InTurn, Told, Given, AtMost
  <2>5. QED
    BY <1>2, <1>4, <2>2, <2>3, <2>4 DEF HintInv
<1>6. CASE cliReq[s].by \in Procs /\ \E d : /\ cli' = [cli EXCEPT ![cliReq[s].by] = d]
                                            /\ CommandSound(d, pending)
  <2>1. PICK d : cli' = [cli EXCEPT ![cliReq[s].by] = d] /\ CommandSound(d, pending)
    BY <1>6
  <2>2. \A p \in Procs : p = cliReq[s].by /\ cli'[p] = d
    BY <1>6, <2>1 DEF OneLearner, HintInv, CliInv, CliShapes
  <2>3. \A x \in Slots : cliReq'[x].by \notin Procs
    BY <1>1, <1>3, <1>6, <2>2 DEF HintInv
  <2>4. CommandSound(d, pending)'
    BY <2>1 DEF CommandSound, InTurn, Told, Given, AtMost
  <2>5. \A p \in Procs : CommandSound(cli[p], pending)'
    BY <2>2, <2>4 DEF CommandSound, InTurn, Told, Given, AtMost
  <2>6. QED
    BY <1>2, <1>4, <2>3, <2>5 DEF HintInv
<1>7. QED
  BY <1>5, <1>6

(* The run, the marker, the commands and their requests are left alone. *)
LEMMA HintSame ==
  ASSUME OneLearner, HintInv, CliInv',
         UNCHANGED <<row, vm, pending, cli, cliReq, lane, shownHints>>
  PROVE  HintInv'
<1>1. NoHintSkipped' /\ MarkerSound(pending)'
  BY DEF HintInv, NoHintSkipped, MarkerSound, InTurn, Given
<1>2. \A p \in Procs : CommandSound(cli[p], pending)'
  BY DEF HintInv, CommandSound, InTurn, Told, Given, AtMost
<1>3. \A x \in Slots : RequestTurn(cliReq[x], x, pending)'
  BY DEF HintInv, RequestTurn, InTurn, Told, Given
<1>4. \A x \in Slots : cliReq'[x].by \in Procs => AskedBy(cliReq[x], cli[cliReq[x].by])'
  BY DEF HintInv, AskedBy
<1>5. QED
  BY <1>1, <1>2, <1>3, <1>4 DEF HintInv

(* What an answer makes of the invocation that waits for it. *)
LEMMA ViewedSound ==
  ASSUME OneLearner, HintInv, NEW c \in Invocations, CommandSound(c, pending),
         NEW v \in Reveals, AtMost(v, row.revealed), row.gen = vm
  PROVE  CommandSound(Viewed(c, v), pending)
<1>1. CommandSound(IdleCli, pending)
  BY DEF CommandSound, IdleCli, MarkSteps
<1>2. CASE c.pc = "status"
  <2>1. CommandSound([c EXCEPT !.pc = "load", !.view = v], pending)
    BY <1>2 DEF CommandSound, Invocations, MarkSteps
  <2>2. QED
    BY <1>2, <2>1 DEF Viewed
<1>3. CASE c.pc \in {"reveal", "confirm"} /\ IsRevealed(v, c.mark)
  <2>1. c.mark.ord \in Int /\ c.mark.alias \in Aliases
    BY <1>3 DEF Invocations, MarkSteps, RealMarks, OneLearner, RunCliConstants
  <2>2. c.mark.ord <= row.revealed[c.mark.alias]
    BY <1>3, <2>1, HintFacts DEF IsRevealed, AtMost, Reveals, RunCliConstants
  <2>3. CommandSound([c EXCEPT !.pc = "print"], pending)
    BY <1>3, <2>2 DEF CommandSound, Invocations, MarkSteps
  <2>4. Viewed(c, v) = [c EXCEPT !.pc = "print"]
    BY <1>3 DEF Viewed
  <2>5. QED
    BY <2>3, <2>4
<1>4. CASE c.pc = "confirm" /\ c.err /\ ~IsRevealed(v, c.mark)
  <2>1. CommandSound([c EXCEPT !.pc = "drop"], pending)
    BY <1>4 DEF CommandSound, Invocations, MarkSteps
  <2>2. QED
    BY <1>4, <2>1 DEF Viewed
<1>5. QED
  BY <1>1, <1>2, <1>3, <1>4 DEF Viewed

LEMMA ReplyHinted ==
  ASSUME OneLearner, HintInv, CliInv', NEW s \in Slots, Reply(s)
  PROVE  HintInv'
<1>1. PICK r : r = cliReq[s]
  OBVIOUS
<1>2. /\ r \in CliRequests /\ r.st = "reply" /\ RequestTurn(r, s, pending)
      /\ RequestSound(r, row, early)
  BY <1>1 DEF Reply, HintInv, CliInv, CliShapes
<1>3. /\ cliReq' = [cliReq EXCEPT ![s] = Free] /\ UNCHANGED <<row, vm, pending, shownHints>>
      /\ lane' = IF lane = s THEN 0 ELSE lane
  BY DEF Reply
<1>4. CASE r.by = NoClient
  BY <1>1, <1>3, <1>4, FreeHint DEF Reply
<1>5. CASE r.by # NoClient
  <2>1. PICK c : c = cli[r.by]
    OBVIOUS
  <2>2. r.by \in Procs /\ c \in Invocations /\ CommandSound(c, pending) /\ AskedBy(r, c)
    BY <1>1, <1>2, <1>5, <2>1 DEF CliRequests, HintInv, CliInv, CliShapes
  <2>3. PICK d : d = IF r.out = "view" THEN Viewed(c, r.seen) ELSE Refused(c)
    OBVIOUS
  <2>4. cli' = [cli EXCEPT ![r.by] = d]
    BY <1>1, <1>5, <2>1, <2>3 DEF Reply
  <2>5. CASE r.out = "view"
    <3>1. r.seen \in Reveals /\ AtMost(r.seen, row.revealed)
      BY <1>2, <2>5 DEF RequestSound
    <3>2. row.gen = vm
      BY <1>2, <2>2, <2>5, HintFacts DEF RequestTurn, AskedBy, HintInv, CliInv, CliShapes
    <3>3. CommandSound(d, pending)
      BY <2>2, <2>3, <2>5, <3>1, <3>2, ViewedSound
    <3>4. QED
      BY <1>1, <1>3, <2>2, <2>4, <3>3, FreeHint
  <2>6. CASE r.out # "view"
    <3>1. CASE c.pc = "reveal"
      <4>1. r.kind = "hint" /\ MarkOf(r) = c.mark /\ r.gen = vm
        BY <2>2, <3>1 DEF AskedBy
      <4>3. Told(c.mark)
        BY <1>2, <2>6, <4>1 DEF RequestTurn
      <4>4. d = [c EXCEPT !.pc = "ask", !.err = TRUE]
        BY <2>3, <2>6, <3>1 DEF Refused
      <4>5. CommandSound(d, pending)
        BY <2>2, <3>1, <4>3, <4>4 DEF CommandSound, Invocations, MarkSteps
      <4>6. QED
        BY <1>1, <1>3, <2>2, <2>4, <4>5, FreeHint
    <3>2. CASE c.pc # "reveal"
      <4>1. d = Fail(c)
        BY <2>3, <2>6, <3>2 DEF Refused
      <4>2. CommandSound(Fail(c), pending)
        BY <2>2, FailSound
      <4>3. QED
        BY <1>1, <1>3, <2>2, <2>4, <4>1, <4>2, FreeHint
    <3>3. QED
      BY <3>1, <3>2
  <2>7. QED
    BY <2>5, <2>6
<1>6. QED
  BY <1>4, <1>5

LEMMA LostHinted ==
  ASSUME OneLearner, HintInv, CliInv', NEW s \in Slots, Lost(s)
  PROVE  HintInv'
<1>1. PICK r : r = cliReq[s]
  OBVIOUS
<1>2. /\ r \in CliRequests /\ lane = s /\ r.st \in {"fence", "reply"} /\ lane' = 0
      /\ UNCHANGED <<row, vm, pending, shownHints>>
  BY <1>1 DEF Lost, HintInv, CliInv, CliShapes, OneLearner
<1>3. cliReq' = [cliReq EXCEPT ![s] = Free]
  BY <1>1, <1>2 DEF Lost, HintInv, CliInv, CliShapes
<1>4. CASE r.by = NoClient
  BY <1>1, <1>2, <1>3, <1>4, FreeHint DEF Lost
<1>5. CASE r.by # NoClient
  <2>1. PICK c : c = cli[r.by]
    OBVIOUS
  <2>2. r.by \in Procs /\ c \in Invocations /\ CommandSound(c, pending)
    BY <1>1, <1>2, <1>5, <2>1 DEF CliRequests, HintInv, CliInv, CliShapes
  <2>3. PICK d : d = Fail(c)
    OBVIOUS
  <2>4. cli' = [cli EXCEPT ![r.by] = d]
    BY <1>1, <1>5, <2>1, <2>3 DEF Lost
  <2>5. CommandSound(d, pending)
    BY <2>2, <2>3, FailSound
  <2>6. QED
    BY <1>1, <1>2, <1>3, <2>2, <2>4, <2>5, FreeHint
<1>6. QED
  BY <1>4, <1>5

(* A request keeps what it asks for; the stage it is at changes. *)
LEMMA ControlHinted ==
  ASSUME OneLearner, HintInv, CliInv', NEW s \in Slots,
         \/ Fence(s) \/ Read(s) \/ Decide(s) \/ Recheck(s)
         \/ \E ok \in BOOLEAN : ReadAnswer(s, ok)
  PROVE  HintInv'
<1>1. PICK q : q = cliReq[s]
  OBVIOUS
<1>2. /\ q \in CliRequests /\ RequestTurn(q, s, pending) /\ RequestSound(q, row, early)
      /\ cliReq \in [Slots -> CliRequests]
  BY <1>1 DEF HintInv, CliInv, CliShapes
<1>3. UNCHANGED <<row, vm, pending, cli, lane, shownHints>>
  BY DEF Fence, Read, Decide, Recheck, ReadAnswer, Remote
<1>4. /\ row.gen \in Int /\ vm \in Int /\ row.gen <= vm /\ q.gen \in Int /\ q.gen <= vm
      /\ q.ord \in Int /\ (q.kind = "hint" => q.alias \in Aliases /\ row.revealed[q.alias] \in Int)
  BY <1>2, HintFacts DEF HintInv, CliInv, CliShapes, CliRequests, RequestSound, RequestTurn,
     RunCliConstants
<1>5. ASSUME NEW r, r.by = q.by, r.gen = q.gen, r.kind = q.kind, r.alias = q.alias, r.ord = q.ord,
             RequestTurn(r, s, pending), cliReq' = [cliReq EXCEPT ![s] = r]
      PROVE  HintInv'
  BY <1>1, <1>3, <1>5, WorkerHint
<1>6. ASSUME NEW st \in {"read", "decide", "answer"}, Goto(s, st), q.st \in {"fence", "read"},
             st = "read" => q.st = "fence",
             st = "decide" /\ q.kind = "hint" => q.ord = row.revealed[q.alias] + 1
      PROVE  HintInv'
  <2>1. PICK r : r = [q EXCEPT !.st = st]
    OBVIOUS
  <2>2. r.by = q.by /\ r.gen = q.gen /\ r.kind = q.kind /\ r.alias = q.alias /\ r.ord = q.ord
        /\ r.st = st /\ MarkOf(r) = MarkOf(q)
    BY <1>2, <2>1 DEF CliRequests, MarkOf
  <2>3. RequestTurn(r, s, pending)
    BY <1>2, <1>4, <1>6, <2>2 DEF RequestTurn
  <2>4. cliReq' = [cliReq EXCEPT ![s] = r]
    BY <1>1, <1>2, <1>6, <2>1 DEF Goto, CliRequests
  <2>5. QED
    BY <1>5, <2>2, <2>3, <2>4
<1>7. ASSUME NEW out \in {"view", "error"}, Answer(s, out), q.st \notin {"free", "lane"},
             out = "view" => q.gen <= row.gen,
             out = "error" /\ q.kind = "hint" /\ q.gen = vm => Told(MarkOf(q))
      PROVE  HintInv'
  <2>1. PICK r : r = [q EXCEPT !.st = "reply", !.out = out]
    OBVIOUS
  <2>2. r.by = q.by /\ r.gen = q.gen /\ r.kind = q.kind /\ r.alias = q.alias /\ r.ord = q.ord
        /\ r.st = "reply" /\ r.out = out /\ MarkOf(r) = MarkOf(q)
    BY <1>2, <2>1 DEF CliRequests, MarkOf
  <2>3. RequestTurn(r, s, pending)
    BY <1>2, <1>4, <1>7, <2>2 DEF RequestTurn
  <2>4. cliReq' = [cliReq EXCEPT ![s] = r]
    BY <1>1, <1>2, <1>7, <2>1 DEF Answer, CliRequests
  <2>5. QED
    BY <1>5, <2>2, <2>3, <2>4
<1>8. q.kind = "hint" /\ q.st \in {"fence", "read", "decide"} /\ q.gen = vm =>
        /\ row.gen = vm /\ q.ord <= row.revealed[q.alias] + 1
        /\ q.st = "decide" /\ q.ord # row.revealed[q.alias] + 1 => Told(MarkOf(q))
  <2>1. q.kind = "hint" /\ q.st \in {"fence", "read", "decide"} /\ q.gen = vm =>
        /\ row.gen = vm /\ InTurn(MarkOf(q))
    BY <1>2 DEF RequestTurn
  <2>2. MarkOf(q).ord = q.ord /\ MarkOf(q).alias = q.alias
    BY DEF MarkOf
  <2>3. q.kind = "hint" /\ q.st \in {"fence", "read", "decide"} /\ q.gen = vm =>
          q.ord <= row.revealed[q.alias] + 1
    BY <2>1, <2>2 DEF InTurn
  <2>4. q.kind = "hint" /\ q.st = "decide" /\ q.gen = vm /\ q.ord <= row.revealed[q.alias]
          => Told(MarkOf(q))
    BY <1>2, <2>2 DEF RequestTurn, Told
  <2>5. QED
    BY <1>4, <2>1, <2>3, <2>4
<1>9. CASE Fence(s)
  BY <1>1, <1>4, <1>6, <1>7, <1>8, <1>9 DEF Fence
<1>10. CASE Read(s)
  <2>1. q.st = "read"
    BY <1>1, <1>10 DEF Read
  <2>2. CASE q.kind = "hint" /\ q.ord > row.revealed[q.alias] + 1
    <3>1. Answer(s, "error")
      BY <1>1, <1>4, <1>10, <2>2 DEF Read
    <3>2. QED
      BY <1>4, <1>7, <1>8, <2>1, <2>2, <3>1
  <2>3. CASE q.kind = "hint" /\ q.ord = row.revealed[q.alias] + 1
    <3>1. Goto(s, "decide")
      BY <1>1, <1>4, <1>10, <2>3 DEF Read
    <3>2. QED
      BY <1>6, <2>1, <2>3, <3>1
  <2>4. CASE q.kind = "hint" /\ q.ord < row.revealed[q.alias] + 1
    <3>1. Goto(s, "answer")
      BY <1>1, <1>4, <1>10, <2>4 DEF Read
    <3>2. QED
      BY <1>6, <2>1, <3>1
  <2>5. CASE q.kind # "hint"
    <3>1. Goto(s, "decide") \/ Goto(s, "answer")
      BY <1>1, <1>10, <2>5 DEF Read
    <3>2. QED
      BY <1>6, <2>1, <2>5, <3>1
  <2>6. QED
    BY <1>4, <2>2, <2>3, <2>4, <2>5
<1>11. CASE Decide(s)
  <2>1. q.st = "decide"
    BY <1>1, <1>11 DEF Decide
  <2>2. CASE q.kind = "hint" /\ q.ord # row.revealed[q.alias] + 1
    <3>1. Answer(s, "error")
      BY <1>1, <1>11, <2>2 DEF Decide
    <3>2. QED
      BY <1>7, <1>8, <2>1, <2>2, <3>1
  <2>3. CASE ~(q.kind = "hint" /\ q.ord # row.revealed[q.alias] + 1)
    <3>1. PICK r : r = [q EXCEPT !.st = "update", !.seen = row.revealed,
                                 !.solved = row.solved, !.assisted = row.assisted]
      OBVIOUS
    <3>2. r.by = q.by /\ r.gen = q.gen /\ r.kind = q.kind /\ r.alias = q.alias /\ r.ord = q.ord
          /\ r.st = "update" /\ r.seen = row.revealed /\ MarkOf(r) = MarkOf(q)
      BY <1>2, <3>1 DEF CliRequests, MarkOf
    <3>3. RequestTurn(r, s, pending)
      BY <1>2, <1>4, <2>1, <2>3, <3>2 DEF RequestTurn
    <3>4. cliReq' = [cliReq EXCEPT ![s] = r]
      BY <1>1, <1>2, <1>11, <2>3, <3>1 DEF Decide, CliRequests
    <3>5. QED
      BY <1>5, <3>2, <3>3, <3>4
  <2>4. QED
    BY <2>2, <2>3
<1>12. CASE Recheck(s)
  <2>1. q.st = "recheck" /\ q.gen <= row.gen
    BY <1>1, <1>2, <1>12 DEF Recheck, RequestSound
  <2>2. Answer(s, IF q.gen = row.gen THEN "view" ELSE "error")
    BY <1>1, <1>12 DEF Recheck
  <2>3. CASE q.gen = row.gen
    BY <1>7, <2>1, <2>2, <2>3
  <2>4. CASE q.gen # row.gen
    BY <1>4, <1>7, <2>1, <2>2, <2>4
  <2>5. QED
    BY <2>3, <2>4
<1>13. ASSUME NEW ok \in BOOLEAN, ReadAnswer(s, ok)
       PROVE  HintInv'
  <2>1. PICK r : r = [q EXCEPT !.st = "recheck", !.seen = row.revealed, !.at = row.gen]
    OBVIOUS
  <2>2. r.by = q.by /\ r.gen = q.gen /\ r.kind = q.kind /\ r.alias = q.alias /\ r.ord = q.ord
        /\ r.st = "recheck" /\ q.st = "answer"
    BY <1>1, <1>2, <1>13, <2>1 DEF CliRequests, ReadAnswer
  <2>3. RequestTurn(r, s, pending)
    BY <1>2, <2>2 DEF RequestTurn
  <2>4. cliReq' = [cliReq EXCEPT ![s] = r]
    BY <1>1, <1>2, <1>13, <2>1 DEF ReadAnswer, CliRequests, OneLearner
  <2>5. QED
    BY <1>5, <2>2, <2>3, <2>4
<1>14. QED
  BY <1>9, <1>10, <1>11, <1>12, <1>13

LEMMA AcquireHinted ==
  ASSUME OneLearner, HintInv, CliInv', NEW s \in Slots, Acquire(s)
  PROVE  HintInv'
<1>1. PICK q : q = cliReq[s]
  OBVIOUS
<1>2. /\ q \in CliRequests /\ RequestTurn(q, s, pending) /\ q.st = "lane" /\ lane = 0
      /\ cliReq \in [Slots -> CliRequests] /\ 0 \notin Slots
      /\ UNCHANGED <<row, vm, pending, cli, shownHints>>
  BY <1>1 DEF HintInv, CliInv, CliShapes, Acquire, OneLearner, RunCliConstants
<1>3. CASE q.by = NoClient /\ ~Mutates(q.kind)
  <2>1. cliReq' = [cliReq EXCEPT ![s] = Free] /\ lane' = lane
    BY <1>1, <1>3 DEF Acquire
  <2>2. lane' = IF lane = s THEN 0 ELSE lane
    BY <1>2, <2>1
  <2>3. QED
    BY <1>1, <1>2, <1>3, <2>1, <2>2, FreeHint
<1>4. CASE lane' = s /\ Goto(s, "fence")
  <2>1. PICK r : r = [q EXCEPT !.st = "fence"]
    OBVIOUS
  <2>2. r.by = q.by /\ r.gen = q.gen /\ r.kind = q.kind /\ r.alias = q.alias /\ r.ord = q.ord
        /\ r.st = "fence" /\ MarkOf(r) = MarkOf(q)
    BY <1>2, <2>1 DEF CliRequests, MarkOf
  <2>3. cliReq' = [cliReq EXCEPT ![s] = r]
    BY <1>1, <1>2, <1>4, <2>1 DEF Goto, CliRequests
  <2>4. \A x \in Slots : cliReq'[x] = IF x = s THEN r ELSE cliReq[x]
    BY <1>2, <2>3
  <2>5. RequestTurn(r, s, pending)'
    BY <1>2, <1>4, <2>2 DEF RequestTurn, InTurn, Told, Given, MarkOf
  <2>6. ASSUME NEW x \in Slots PROVE RequestTurn(cliReq[x], x, pending)'
    <3>1. PICK y : y = cliReq[x]
      OBVIOUS
    <3>2. RequestTurn(y, x, pending)
      BY <3>1 DEF HintInv
    <3>3. y.gen = vm => y.st \in {"free", "lane"}
      BY <1>2, <3>2 DEF RequestTurn
    <3>4. RequestTurn(y, x, pending)'
      BY <1>2, <3>2, <3>3 DEF RequestTurn, InTurn, Told, Given, MarkOf
    <3>5. PICK z : z = cliReq'[x]
      OBVIOUS
    <3>6. RequestTurn(z, x, pending)'
      BY <2>4, <2>5, <3>1, <3>4, <3>5 DEF RequestTurn, InTurn, Told, Given, MarkOf
    <3>7. QED
      BY <3>5, <3>6 DEF RequestTurn, InTurn, Told, Given, MarkOf
  <2>7. \A x \in Slots : cliReq'[x].by = cliReq[x].by /\ cliReq'[x].gen = cliReq[x].gen
        /\ cliReq'[x].kind = cliReq[x].kind /\ MarkOf(cliReq'[x]) = MarkOf(cliReq[x])
    BY <1>1, <2>2, <2>4
  <2>8. \A x \in Slots : cliReq'[x].by \in Procs => AskedBy(cliReq[x], cli[cliReq[x].by])'
    BY <1>2, <2>7 DEF HintInv, AskedBy
  <2>9. \A x, t \in Slots : cliReq'[x].by \in Procs /\ cliReq'[x].by = cliReq'[t].by => x = t
    BY <2>7 DEF HintInv
  <2>10. NoHintSkipped' /\ MarkerSound(pending)'
    BY <1>2 DEF HintInv, NoHintSkipped, MarkerSound, InTurn, Given
  <2>11. \A p \in Procs : CommandSound(cli[p], pending)'
    BY <1>2 DEF HintInv, CommandSound, InTurn, Told, Given, AtMost
  <2>12. QED
    BY <1>2, <2>6, <2>8, <2>9, <2>10, <2>11 DEF HintInv
<1>5. QED
  BY <1>1, <1>3, <1>4 DEF Acquire

(* The run moves on; commands and what their requests ask for stay. *)
LEMMA RunHint ==
  ASSUME OneLearner, HintInv, CliInv', RunGrows, UNCHANGED <<cli, lane>>,
         shownHints' \in [Aliases -> SUBSET Nat],
         \A a \in Aliases : shownHints'[a] \subseteq 1..row'.revealed[a],
         NoHintSkipped', MarkerSound(pending)',
         \A x \in Slots : RequestTurn(cliReq[x], x, pending)',
         \A x \in Slots : /\ cliReq'[x].by = cliReq[x].by /\ cliReq'[x].gen = cliReq[x].gen
                          /\ cliReq'[x].kind = cliReq[x].kind
                          /\ MarkOf(cliReq'[x]) = MarkOf(cliReq[x])
  PROVE  HintInv'
<1>1. \A x \in Slots : cliReq'[x].by \in Procs => AskedBy(cliReq[x], cli[cliReq[x].by])'
  BY DEF HintInv, AskedBy, RunGrows
<1>2. \A x, t \in Slots : cliReq'[x].by \in Procs /\ cliReq'[x].by = cliReq'[t].by => x = t
  BY DEF HintInv
<1>3. ASSUME NEW p \in Procs PROVE CommandSound(cli[p], pending)'
  <2>1. PICK c : c = cli[p]
    OBVIOUS
  <2>2. c \in Invocations /\ CommandSound(c, pending)
    BY <2>1 DEF HintInv, CliInv, CliShapes
  <2>3. CommandSound(c, pending)'
    BY <2>2, CommandGrows
  <2>4. QED
    BY <2>1, <2>3 DEF CommandSound, InTurn, Told, Given, AtMost
<1>4. QED
  BY <1>1, <1>2, <1>3 DEF HintInv

(* The marker of the current generation stays in turn. *)
LEMMA MarkerGrows ==
  ASSUME OneLearner, HintInv, RunGrows,
         row.gen = vm => \A a \in Aliases : Given(a, row.revealed[a])'
           \/ pending = [gen |-> vm, alias |-> a, ord |-> row'.revealed[a]]
  PROVE  MarkerSound(pending)'
<1>1. CASE pending # NoMark /\ pending.gen = vm
  <2>1. PICK m : m = pending
    OBVIOUS
  <2>2. m.alias \in Aliases /\ m.ord \in Int /\ InTurn(m) /\ row.gen = vm
    BY <1>1, <2>1 DEF HintInv, MarkerSound, CliInv, CliShapes, RealMarks, OneLearner, RunCliConstants
  <2>3. InTurn(m)'
    BY <2>2, MarksGrow
  <2>4. InTurn(pending)'
    BY <2>1, <2>3 DEF InTurn, Given, RunGrows
  <2>5. QED
    BY <1>1, <2>4 DEF MarkerSound, HintInv, RunGrows, Given
<1>2. CASE ~(pending # NoMark /\ pending.gen = vm)
  BY <1>2 DEF MarkerSound, HintInv, RunGrows, Given
<1>3. QED
  BY <1>1, <1>2

LEMMA OthersGrow ==
  ASSUME OneLearner, HintInv, RunGrows, lane' = lane, NEW x \in Slots, cliReq'[x] = cliReq[x],
         cliReq[x].kind = "hint" /\ cliReq[x].st \in {"decide", "update"} /\ cliReq[x].gen = vm
           /\ cliReq[x].ord <= row'.revealed[cliReq[x].alias]
           => Given(cliReq[x].alias, cliReq[x].ord) \/ lane # x
              \/ shownHints'[cliReq[x].alias] = 1..row'.revealed[cliReq[x].alias]
  PROVE  RequestTurn(cliReq[x], x, pending)'
<1>1. PICK r : r = cliReq[x]
  OBVIOUS
<1>2. r \in CliRequests /\ RequestSound(r, row, early) /\ RequestTurn(r, x, pending)
  BY <1>1 DEF HintInv, CliInv, CliShapes
<1>3. ASSUME r.kind = "hint", r.st \in {"decide", "update"}, r.gen = vm,
             r.ord <= row'.revealed[r.alias]
      PROVE  Given(r.alias, r.ord)'
  <2>1. r.alias \in Aliases /\ r.ord \in Int /\ lane = x
    BY <1>2, <1>3 DEF RequestSound, RequestTurn, CliRequests, OneLearner, RunCliConstants
  <2>2. CASE Given(r.alias, r.ord)
    BY <2>1, <2>2 DEF Given, RunGrows
  <2>3. CASE shownHints'[r.alias] = 1..row'.revealed[r.alias]
    <3>1. row'.revealed[r.alias] \in Int
      BY <2>1 DEF RunGrows, Rows, Reveals, OneLearner, RunCliConstants
    <3>2. QED
      BY <1>3, <2>1, <2>3, <3>1 DEF Given
  <2>4. QED
    BY <1>1, <1>3, <2>1, <2>2, <2>3
<1>4. RequestTurn(r, x, pending)'
  BY <1>2, <1>3, RequestGrows
<1>5. r = cliReq'[x]
  BY <1>1
<1>6. QED
  BY <1>4, <1>5 DEF RequestTurn, InTurn, Told, Given, MarkOf

LEMMA UpdateHinted ==
  ASSUME OneLearner, HintInv, CliInv', NEW s \in Slots, Update(s)
  PROVE  HintInv'
<1>1. PICK q : q = cliReq[s]
  OBVIOUS
<1>2. /\ q \in CliRequests /\ RequestTurn(q, s, pending) /\ RequestSound(q, row, early)
      /\ q.st = "update" /\ cliReq \in [Slots -> CliRequests] /\ row \in Rows
      /\ row' \in Rows
  BY <1>1 DEF HintInv, CliInv, CliShapes, Update
<1>3. UNCHANGED <<vm, pending, cli, lane, shownHints>>
  BY DEF Update, Remote
<1>4. /\ row.gen \in Int /\ vm \in Int /\ row.gen <= vm /\ q.gen \in Int /\ q.gen <= vm
      /\ q.ord \in Int
  BY <1>2, HintFacts DEF HintInv, CliInv, CliShapes, CliRequests, RequestTurn, RunCliConstants
<1>5. q.kind = "hint" =>
        /\ q.alias \in Aliases /\ row.revealed[q.alias] \in Int /\ q.seen[q.alias] \in Int
        /\ q.seen \in Reveals /\ q.seen[q.alias] + 1 = q.ord
        /\ q.seen[q.alias] <= row.revealed[q.alias]
  <2>1. q.kind = "hint" => q.alias \in Aliases /\ q.seen \in Reveals /\ q.seen[q.alias] + 1 = q.ord
    BY <1>2 DEF RequestSound
  <2>2. QED
    BY <1>2, <2>1, HintFacts DEF RequestTurn, Reveals, RunCliConstants
<1>6. CASE ~Guard(q)
  <2>1. Answer(s, "error") /\ row' = row
    BY <1>1, <1>6 DEF Update
  <2>2. PICK r : r = [q EXCEPT !.st = "reply", !.out = "error"]
    OBVIOUS
  <2>3. r.by = q.by /\ r.gen = q.gen /\ r.kind = q.kind /\ r.alias = q.alias /\ r.ord = q.ord
        /\ r.st = "reply" /\ r.out = "error" /\ MarkOf(r) = MarkOf(q)
    BY <1>2, <2>2 DEF CliRequests, MarkOf
  <2>4. ASSUME q.kind = "hint", q.gen = vm PROVE Told(MarkOf(q))
    <3>1. row.gen = vm
      BY <1>2, <2>4 DEF RequestTurn
    <3>2. row.revealed # q.seen
      BY <1>6, <2>4, <3>1 DEF Guard
    <3>3. \A a \in Aliases : a = q.alias
      BY <1>5, <2>4 DEF OneLearner
    <3>4. row.revealed[q.alias] # q.seen[q.alias]
      BY <1>5, <2>4, <3>2, <3>3, HintFacts DEF Reveals
    <3>5. q.ord <= row.revealed[q.alias]
      BY <1>5, <2>4, <3>4
    <3>6. Given(q.alias, q.ord)
      BY <1>2, <2>4, <3>5 DEF RequestTurn
    <3>7. MarkOf(q).alias = q.alias /\ MarkOf(q).ord = q.ord
      BY DEF MarkOf
    <3>8. QED
      BY <3>5, <3>6, <3>7 DEF Told
  <2>5. RequestTurn(r, s, pending)
    BY <1>2, <2>3, <2>4 DEF RequestTurn
  <2>6. cliReq' = [cliReq EXCEPT ![s] = r]
    BY <1>1, <1>2, <2>1, <2>2 DEF Answer, CliRequests
  <2>7. QED
    BY <1>1, <1>3, <2>1, <2>3, <2>5, <2>6, WorkerHint
<1>7. CASE Guard(q)
  <2>1. Goto(s, "answer") /\ q.gen = row.gen
    BY <1>1, <1>7 DEF Update, Guard
  <2>2. PICK r : r = [q EXCEPT !.st = "answer"]
    OBVIOUS
  <2>3. r.by = q.by /\ r.gen = q.gen /\ r.kind = q.kind /\ r.alias = q.alias /\ r.ord = q.ord
        /\ r.st = "answer" /\ MarkOf(r) = MarkOf(q)
    BY <1>2, <2>2 DEF CliRequests, MarkOf
  <2>4. cliReq' = [cliReq EXCEPT ![s] = r]
    BY <1>1, <1>2, <2>1, <2>2 DEF Goto, CliRequests
  <2>5. \A x \in Slots : cliReq'[x] = IF x = s THEN r ELSE cliReq[x]
    BY <1>2, <2>4
  <2>6. \A x \in Slots : /\ cliReq'[x].by = cliReq[x].by /\ cliReq'[x].gen = cliReq[x].gen
                         /\ cliReq'[x].kind = cliReq[x].kind
                         /\ MarkOf(cliReq'[x]) = MarkOf(cliReq[x])
    BY <1>1, <2>3, <2>5
  <2>7. /\ row'.gen = row.gen
        /\ \A a \in Aliases : row'.revealed[a] =
             IF q.kind = "hint" /\ a = q.alias THEN row.revealed[a] + 1 ELSE row.revealed[a]
    <3>1. CASE q.kind = "hint"
      <4>1. row' = [row EXCEPT !.revealed[q.alias] = @ + 1]
        BY <1>1, <1>7, <3>1 DEF Update
      <4>2. QED
        BY <1>2, <1>5, <3>1, <4>1 DEF Rows, Reveals
    <3>2. CASE q.kind # "hint"
      <4>1. row' = [row EXCEPT !.solution = TRUE, !.assisted = Assisted(q)]
        BY <1>1, <1>7, <3>2 DEF Update
      <4>2. QED
        BY <1>2, <3>2, <4>1 DEF Rows
    <3>3. QED
      BY <3>1, <3>2
  <2>8. \A a \in Aliases : row.revealed[a] \in Int /\ row.revealed[a] <= row'.revealed[a]
    BY <2>7, HintFacts
  <2>9. RunGrows
    BY <1>2, <1>3, <2>7, <2>8 DEF RunGrows
  <2>10. \A a \in Aliases : shownHints'[a] \subseteq 1..row'.revealed[a]
    BY <1>3, <2>7, <2>8 DEF HintInv
  <2>11. q.kind = "hint" => /\ Given(q.alias, row.revealed[q.alias])
                            /\ q.ord = row.revealed[q.alias] + 1
                            /\ row.gen = vm => pending = MarkOf(q)
    <3>1. q.kind = "hint" => row.revealed = q.seen
      BY <1>7 DEF Guard
    <3>2. q.kind = "hint" => InTurn(MarkOf(q)) /\ q.ord = row.revealed[q.alias] + 1
      BY <1>2, <1>5, <2>1, <3>1 DEF RequestTurn
    <3>3. MarkOf(q).alias = q.alias /\ MarkOf(q).ord = q.ord
      BY DEF MarkOf
    <3>4. q.kind = "hint" => Given(q.alias, q.ord - 1) /\ q.ord - 1 = row.revealed[q.alias]
      BY <1>5, <3>2, <3>3 DEF InTurn
    <3>5. QED
      BY <1>2, <2>1, <3>2, <3>4 DEF RequestTurn
  <2>12. NoHintSkipped'
    <3> SUFFICES ASSUME NEW a \in Aliases
                 PROVE  1..(row'.revealed[a] - 1) \subseteq shownHints[a]
      BY <1>3 DEF NoHintSkipped
    <3>1. 1..(row.revealed[a] - 1) \subseteq shownHints[a]
      BY DEF HintInv, NoHintSkipped
    <3>2. CASE q.kind = "hint" /\ a = q.alias
      <4>1. row'.revealed[a] - 1 = row.revealed[a]
        BY <2>7, <2>8, <3>2
      <4>2. QED
        BY <2>11, <3>2, <4>1 DEF Given
    <3>3. QED
      BY <2>7, <3>1, <3>2
  <2>13. MarkerSound(pending)'
    <3>1. ASSUME row.gen = vm, NEW a \in Aliases
          PROVE  Given(a, row.revealed[a])'
                   \/ pending = [gen |-> vm, alias |-> a, ord |-> row'.revealed[a]]
      <4>1. CASE q.kind = "hint"
        <5>1. a = q.alias
          BY <1>5, <4>1 DEF OneLearner
        <5>2. q.gen = vm /\ q.ord = row'.revealed[a]
          BY <2>1, <2>7, <2>11, <3>1, <4>1, <5>1
        <5>3. QED
          BY <2>11, <3>1, <4>1, <5>1, <5>2 DEF MarkOf
      <4>2. CASE q.kind # "hint"
        BY <1>3, <2>7, <3>1, <4>2 DEF HintInv, MarkerSound, Given
      <4>3. QED
        BY <4>1, <4>2
    <3>2. QED
      BY <2>9, <3>1, MarkerGrows
  <2>14. ASSUME NEW x \in Slots PROVE RequestTurn(cliReq[x], x, pending)'
    <3>1. CASE x = s
      <4>1. RequestTurn(r, s, pending)'
        BY <1>2, <1>3, <2>3 DEF RequestTurn
      <4>2. r = cliReq'[x]
        BY <2>5, <3>1
      <4>3. QED
        BY <3>1, <4>1, <4>2 DEF RequestTurn, InTurn, Told, Given, MarkOf
    <3>2. CASE x # s
      <4>1. cliReq'[x] = cliReq[x]
        BY <2>5, <3>2
      <4>2. ASSUME cliReq[x].kind = "hint", cliReq[x].st \in {"decide", "update"},
                   cliReq[x].gen = vm
            PROVE  FALSE
        <5>1. RequestTurn(cliReq[x], x, pending)
          BY DEF HintInv
        <5>2. lane = x /\ row.gen = vm
          BY <4>2, <5>1 DEF RequestTurn
        <5>3. lane = s
          BY <1>2, <2>1, <5>2 DEF RequestTurn
        <5>4. QED
          BY <3>2, <5>2, <5>3
      <4>3. QED
        BY <1>3, <2>9, <4>1, <4>2, OthersGrow
    <3>3. QED
      BY <3>1, <3>2
  <2>15. shownHints' \in [Aliases -> SUBSET Nat]
    BY <1>3 DEF HintInv
  <2>16. QED
    BY <1>3, <2>6, <2>9, <2>10, <2>12, <2>13, <2>14, <2>15, RunHint
<1>8. QED
  BY <1>6, <1>7

(* The browser shows what it reveals; the run is solved. *)
LEMMA BrowserHinted ==
  ASSUME OneLearner, HintInv, CliInv', Solve \/ \E a \in Aliases : BrowserHint(a)
  PROVE  HintInv'
<1>1. UNCHANGED <<vm, pending, cli, cliReq, lane>>
  BY DEF Solve, BrowserHint
<1>2. row \in Rows /\ row' \in Rows /\ shownHints \in [Aliases -> SUBSET Nat]
      /\ \A a \in Aliases : shownHints[a] \subseteq 1..row.revealed[a]
  BY DEF HintInv, CliInv, CliShapes
<1>3. \A a \in Aliases : row.revealed[a] \in Int /\ row'.revealed[a] \in Int
  BY <1>2 DEF Rows, Reveals, OneLearner, RunCliConstants
<1>4. \A x \in Slots : /\ cliReq'[x].by = cliReq[x].by /\ cliReq'[x].gen = cliReq[x].gen
                       /\ cliReq'[x].kind = cliReq[x].kind
                       /\ MarkOf(cliReq'[x]) = MarkOf(cliReq[x])
  BY <1>1
<1>5. CASE Solve
  <2>1. row'.revealed = row.revealed /\ row'.gen = row.gen /\ shownHints' = shownHints
    BY <1>2, <1>5 DEF Solve, Rows
  <2>2. RunGrows
    BY <1>1, <1>2, <1>3, <2>1 DEF RunGrows
  <2>3. NoHintSkipped' /\ MarkerSound(pending)'
    BY <1>1, <2>1 DEF HintInv, NoHintSkipped, MarkerSound, InTurn, Given
  <2>4. ASSUME NEW x \in Slots PROVE RequestTurn(cliReq[x], x, pending)'
    <3>1. RequestTurn(cliReq[x], x, pending)
      BY DEF HintInv
    <3>2. cliReq[x].kind = "hint" /\ cliReq[x].st \in {"decide", "update"} /\ cliReq[x].gen = vm
           /\ cliReq[x].ord <= row'.revealed[cliReq[x].alias]
           => Given(cliReq[x].alias, cliReq[x].ord)
      BY <2>1, <3>1 DEF RequestTurn
    <3>3. QED
      BY <1>1, <2>2, <3>2, OthersGrow
  <2>5. QED
    BY <1>1, <1>2, <1>4, <2>1, <2>2, <2>3, <2>4, RunHint
<1>6. ASSUME NEW a \in Aliases, BrowserHint(a)
      PROVE  HintInv'
  <2>1. \A b \in Aliases : b = a
    BY DEF OneLearner
  <2>2. row'.gen = row.gen /\ row'.revealed[a] = row.revealed[a] + 1
    BY <1>2, <1>6 DEF BrowserHint, Rows, Reveals
  <2>3. shownHints'[a] = 1..row'.revealed[a] /\ shownHints' \in [Aliases -> SUBSET Nat]
    <3>1. shownHints' = [shownHints EXCEPT ![a] = 1..(row.revealed[a] + 1)]
      BY <1>6 DEF BrowserHint
    <3>2. 1..(row.revealed[a] + 1) \in SUBSET Nat
      BY <1>3
    <3>3. QED
      BY <1>2, <2>2, <3>1, <3>2
  <2>4. RunGrows
    BY <1>1, <1>2, <1>3, <2>1, <2>2, <2>3 DEF RunGrows
  <2>5. \A b \in Aliases : Given(b, row.revealed[b])'
    BY <2>1, <2>3 DEF Given
  <2>6. NoHintSkipped'
    BY <1>3, <2>1, <2>3 DEF NoHintSkipped
  <2>7. MarkerSound(pending)'
    BY <2>4, <2>5, MarkerGrows
  <2>8. ASSUME NEW x \in Slots PROVE RequestTurn(cliReq[x], x, pending)'
    <3>1. cliReq[x].kind = "hint" => cliReq[x].alias = a
      BY <2>1 DEF HintInv, CliInv, RequestSound
    <3>2. QED
      BY <1>1, <2>3, <2>4, <3>1, OthersGrow
  <2>9. \A b \in Aliases : shownHints'[b] \subseteq 1..row'.revealed[b]
    BY <2>1, <2>3
  <2>10. QED
    BY <1>1, <1>4, <2>3, <2>4, <2>6, <2>7, <2>8, <2>9, RunHint
<1>7. QED
  BY <1>5, <1>6

(* The run names the new generation: nothing of that generation was asked  *)
(* for yet, and what the old one was owed is gone with it.                 *)
LEMMA ReportHinted ==
  ASSUME OneLearner, HintInv, CliInv', Report
  PROVE  HintInv'
<1>1. /\ row.gen < vm /\ row' = [row EXCEPT !.gen = vm]
      /\ shownHints' = [a \in Aliases |-> 1..row.revealed[a]]
      /\ UNCHANGED <<vm, pending, cli, cliReq, lane>>
  BY DEF Report
<1>2. row.gen \in Int /\ vm \in Int /\ row.gen # vm
      /\ \A a \in Aliases : row.revealed[a] \in Int
  BY <1>1, HintFacts
<1>3. row'.gen = vm /\ row'.revealed = row.revealed
  BY <1>1 DEF HintInv, CliInv, CliShapes, Rows
<1>4. \A a \in Aliases : shownHints'[a] = 1..row'.revealed[a]
  BY <1>1, <1>3
<1>5. shownHints' \in [Aliases -> SUBSET Nat]
  <2>1. \A a \in Aliases : 1..row.revealed[a] \in SUBSET Nat
    BY <1>2
  <2>2. QED
    BY <1>1, <2>1
<1>6. NoHintSkipped'
  BY <1>2, <1>3, <1>4 DEF NoHintSkipped
<1>7. MarkerSound(pending)'
  <2>1. pending # NoMark => pending.gen <= vm /\ pending.gen # vm
    BY <1>2 DEF HintInv, MarkerSound
  <2>2. \A a \in Aliases : Given(a, row.revealed[a])'
    BY <1>4 DEF Given
  <2>3. QED
    BY <1>1, <2>1, <2>2 DEF MarkerSound, Given
<1>8. ASSUME NEW x \in Slots PROVE RequestTurn(cliReq[x], x, pending)'
  <2>1. PICK r : r = cliReq[x]
    OBVIOUS
  <2>2. r \in CliRequests /\ RequestTurn(r, x, pending) /\ RequestSound(r, row, early)
    BY <2>1 DEF HintInv, CliInv, CliShapes
  <2>3. r.kind = "hint" => r.alias \in Aliases /\ r.ord \in Int
    BY <2>2 DEF RequestSound, CliRequests, OneLearner, RunCliConstants
  <2>4. r.kind = "hint" /\ Told(MarkOf(r)) => Told(MarkOf(r))'
    BY <1>2, <1>3, <1>4, <2>3 DEF Told, MarkOf, Given
  <2>5. r.gen \in Int
    BY <2>2 DEF CliRequests, OneLearner, RunCliConstants
  <2>6. RequestTurn(r, x, pending)'
    BY <1>1, <1>2, <1>3, <2>2, <2>4, <2>5 DEF RequestTurn, MarkOf
  <2>7. r = cliReq'[x]
    BY <1>1, <2>1
  <2>8. QED
    BY <2>6, <2>7 DEF RequestTurn, InTurn, Told, Given, MarkOf
<1>9. \A p \in Procs : CommandSound(cli[p], pending)'
  <2>1. \A p \in Procs : cli[p].pc # "load" /\ cli[p].pc \notin MarkSteps
    BY <1>2 DEF HintInv, CommandSound
  <2>2. QED
    BY <1>1, <2>1 DEF CommandSound, MarkSteps
<1>10. \A x \in Slots : cliReq'[x].by \in Procs => AskedBy(cliReq[x], cli[cliReq[x].by])'
  BY <1>1 DEF HintInv, AskedBy
<1>11. \A x, t \in Slots : cliReq'[x].by \in Procs /\ cliReq'[x].by = cliReq'[t].by => x = t
  BY <1>1 DEF HintInv
<1>12. QED
  BY <1>4, <1>5, <1>6, <1>7, <1>8, <1>9, <1>10, <1>11 DEF HintInv

(* A new VM: every command and every request is of an older generation. *)
LEMMA ReplaceHinted ==
  ASSUME OneLearner, HintInv, CliInv', NEW home \in BOOLEAN, Replace(home)
  PROVE  HintInv'
<1>1. /\ vm' = vm + 1 /\ row.gen = vm /\ pending' = (IF home THEN pending ELSE NoMark)
      /\ cli' = [p \in Procs |-> IdleCli] /\ lane' = 0 /\ UNCHANGED <<row, shownHints>>
      /\ cliReq' = [s \in Slots |-> IF cliReq[s].st \in {"free", "lane"} THEN Free
                                    ELSE [cliReq[s] EXCEPT !.by = NoClient]]
  BY DEF Replace
<1>2. vm \in Int /\ row.gen \in Int /\ NoMark.gen = 0
  BY HintFacts
<1>3. NoHintSkipped'
  BY <1>1 DEF HintInv, NoHintSkipped
<1>4. MarkerSound(pending)'
  <2>1. pending' # NoMark => pending' = pending /\ pending.gen \in Int /\ pending.gen <= vm
    BY <1>1 DEF HintInv, MarkerSound, CliInv, CliShapes, RealMarks, OneLearner, RunCliConstants
  <2>2. PICK m : m = pending'
    OBVIOUS
  <2>3. m # NoMark => m.gen <= vm' /\ m.gen # vm'
    BY <1>1, <1>2, <2>1, <2>2
  <2>4. row'.gen # vm'
    BY <1>1, <1>2
  <2>5. QED
    BY <2>2, <2>3, <2>4 DEF MarkerSound
<1>5. ASSUME NEW x \in Slots
      PROVE  cliReq'[x].by = NoClient /\ RequestTurn(cliReq[x], x, pending)'
  <2>1. PICK y : y = cliReq'[x]
    OBVIOUS
  <2>2. cliReq[x] \in CliRequests /\ RequestTurn(cliReq[x], x, pending)
    BY DEF HintInv, CliInv, CliShapes
  <2>3. CASE y = Free
    <3>1. y.st = "free" /\ y.kind = "status" /\ y.gen = 0 /\ y.by = NoClient
      BY <2>3 DEF Free
    <3>2. 0 <= vm'
      BY <1>1, <1>2 DEF HintInv, CliInv, CliShapes, OneLearner, RunCliConstants
    <3>3. RequestTurn(y, x, pending)'
      BY <3>1, <3>2 DEF RequestTurn
    <3>4. QED
      BY <2>1, <3>1, <3>3 DEF RequestTurn, InTurn, Told, Given, MarkOf
  <2>4. CASE y = [cliReq[x] EXCEPT !.by = NoClient]
    <3>1. PICK q : q = cliReq[x]
      OBVIOUS
    <3>2. /\ y.by = NoClient /\ y.st = q.st /\ y.kind = q.kind /\ y.gen = q.gen
          /\ y.alias = q.alias /\ y.ord = q.ord /\ y.seen = q.seen /\ y.out = q.out
          /\ MarkOf(y) = MarkOf(q) /\ q.gen \in Int
      BY <2>2, <2>4, <3>1 DEF CliRequests, MarkOf, OneLearner, RunCliConstants
    <3>3. q.gen <= vm' /\ q.gen # vm'
      BY <1>1, <1>2, <2>2, <3>1, <3>2 DEF RequestTurn
    <3>4. InTurn(MarkOf(q)) => InTurn(MarkOf(y))'
      BY <1>1, <3>2 DEF InTurn, Given, MarkOf
    <3>5. RequestTurn(q, x, pending)
      BY <2>2, <3>1
    <3>6. RequestTurn(y, x, pending)'
      BY <1>1, <3>2, <3>3, <3>4, <3>5 DEF RequestTurn
    <3>7. QED
      BY <2>1, <3>2, <3>6 DEF RequestTurn, InTurn, Told, Given, MarkOf
  <2>5. QED
    BY <1>1, <2>1, <2>3, <2>4
<1>6. \A p \in Procs : CommandSound(cli[p], pending)'
  <2>1. \A p \in Procs : cli'[p].pc = "idle"
    BY <1>1 DEF IdleCli
  <2>2. QED
    BY <2>1 DEF CommandSound, MarkSteps
<1>7. \A x \in Slots : cliReq'[x].by \notin Procs
  BY <1>5 DEF OneLearner, RunCliConstants
<1>8. shownHints' \in [Aliases -> SUBSET Nat]
      /\ \A a \in Aliases : shownHints'[a] \subseteq 1..row'.revealed[a]
  BY <1>1 DEF HintInv
<1>9. QED
  BY <1>3, <1>4, <1>5, <1>6, <1>7, <1>8 DEF HintInv

LEMMA HintStart == ASSUME OneLearner, CliInit PROVE HintInv
<1>1. CliInv
  BY CliStart DEF OneLearner
<1>2. /\ vm = 1 /\ pending = NoMark /\ cli = [p \in Procs |-> IdleCli]
      /\ cliReq = [s \in Slots |-> Free] /\ shownHints = [a \in Aliases |-> {}]
      /\ \A a \in Aliases : row.revealed[a] = 0
  BY DEF CliInit
<1>3. NoHintSkipped /\ shownHints \in [Aliases -> SUBSET Nat]
      /\ \A a \in Aliases : shownHints[a] \subseteq 1..row.revealed[a]
  BY <1>2 DEF NoHintSkipped
<1>4. MarkerSound(pending)
  BY <1>2 DEF MarkerSound, Given
<1>5. \A s \in Slots : cliReq[s].by \notin Procs /\ RequestTurn(cliReq[s], s, pending)
  BY <1>2 DEF RequestTurn, Free, OneLearner, RunCliConstants
<1>6. \A p \in Procs : CommandSound(cli[p], pending)
  BY <1>2 DEF CommandSound, IdleCli, MarkSteps
<1>7. QED
  BY <1>1, <1>3, <1>4, <1>5, <1>6 DEF HintInv

LEMMA HintStep ==
  ASSUME OneLearner, HintInv, [CliNext]_cliVars PROVE HintInv'
<1>1. CliInv'
  BY CliStep DEF OneLearner, HintInv
<1>2. CASE \E p \in Procs : \/ Guest(p) \/ TimeOut(p) \/ Interrupt(p)
                            \/ \E a \in Aliases : StartHint(p, a)
                            \/ \E k \in {"status", "sync", "solution"} : StartOther(p, k)
  BY <1>1, <1>2, StartHinted, LoadHinted, PersistHinted, ClearHinted, ShowHinted, GiveUpHinted
  DEF Guest
<1>3. CASE \E s \in Slots : Worker(s) \/ Lost(s)
  BY <1>1, <1>3, AcquireHinted, ControlHinted, UpdateHinted, ReplyHinted, LostHinted DEF Worker
<1>4. CASE RefreshStart \/ RefreshRead \/ RefreshApply \/ RefreshFails \/ CacheExpires
             \/ UNCHANGED cliVars
  <2>1. UNCHANGED <<row, vm, pending, cli, cliReq, lane, shownHints>>
    BY <1>4 DEF RefreshStart, RefreshRead, RefreshApply, RefreshFails, CacheExpires, Others, cliVars
  <2>2. QED
    BY <1>1, <2>1, HintSame
<1>5. QED
  BY <1>1, <1>2, <1>3, <1>4, BrowserHinted, ReportHinted, ReplaceHinted DEF CliNext

(* The learner's command, its broker and the handler, with any number of   *)
(* commands, hint groups, requests and VM generations, any exchange lost   *)
(* and reveals that fail after they were done: an answer that is delivered *)
(* was read under the generation that asked (handleAgentRunCliRequest),    *)
(* completion is never behind the last answer passed on                    *)
(* (replace_aliases_if_revision), and a run whose solution was opened      *)
(* before it was solved stays assisted (solutionAssisted).                 *)
THEOREM CliCorrect ==
  ASSUME RunCliConstants
  PROVE  CliSpec => [](CliTypes /\ DeliveredIsCurrent /\ CompletionNotStale /\ AssistedIsKept)
<1>1. CliInit => CliInv
  BY CliStart
<1>2. CliInv /\ [CliNext]_cliVars => CliInv'
  BY CliStep
<1>3. CliInv => CliTypes /\ DeliveredIsCurrent /\ CompletionNotStale /\ AssistedIsKept
  BY CliInvProperties
<1>4. QED
  BY <1>1, <1>2, <1>3, PTL DEF CliSpec

(* One learner with one group of hints and no error after a reveal was     *)
(* done, whatever exchange is lost, interrupted, timed out or overtaken by *)
(* the browser or by a new VM: no hint of the ladder is passed over        *)
(* unread. The marker of run_cli_pending.rs names the one revealed hint    *)
(* that was not given, and a reveal that can still take place has it.      *)
THEOREM HintsCorrect == ASSUME OneLearner PROVE CliSpec => []HintsKept
<1>1. CliInit => HintInv
  BY HintStart
<1>2. HintInv /\ [CliNext]_cliVars => HintInv'
  BY HintStep
<1>3. HintInv => HintsKept
  BY CliInvProperties DEF HintInv, HintsKept, OneLearner
<1>4. QED
  BY <1>1, <1>2, <1>3, PTL DEF CliSpec
=============================================================================
