------------------------------ MODULE Jailerd ------------------------------
(***************************************************************************)
(* The lifecycle core of the root daemon that runs the VMs of a host       *)
(* (crates/intar-jailerd): CPU admission, detached launches, boot sealing, *)
(* inspection, stop, destroy, run networks, containment of what cannot be  *)
(* trusted, and recovery after the daemon restarts.                        *)
(*                                                                         *)
(* A request is handled under the lifecycle lock and is one action; the    *)
(* body of a launch, and the check of a repeated one, run outside the lock *)
(* and are one action per call, with a crash possible between any two.     *)
(* Units, namespaces, nftables rules and the jail store outlive the        *)
(* daemon; the rest is rebuilt by Restart.                                 *)
(***************************************************************************)
EXTENDS Naturals, FiniteSets, FiniteSetsExt

CONSTANTS
    VMs,       \* logical VMs: a run id and a VM id
    Runs, RunOf,
    Quota,     \* declared cpu_millis of each VM
    Cap,       \* total_cpu_millis less cpu_reserved_millis
    Uids,      \* uid_gid_start .. uid_gid_end
    MaxGen,    \* bound on launches
    MaxFail,   \* bound on failing host calls and identity drifts
    MaxCrash   \* bound on daemon restarts

JailerdConstants ==
    /\ RunOf \in [VMs -> Runs] /\ Quota \in [VMs -> Nat] /\ Uids \subseteq Nat
    /\ {Cap, MaxGen, MaxFail, MaxCrash} \subseteq Nat

VARIABLES
    up, ready,    \* the daemon runs; its self test attestation still stands
    records,      \* committed generations
    pending,      \* pending_cpu_reservations
    inflight,     \* inflight_launches
    unresolved,   \* unresolved_recoveries
    allocated,    \* allocated_identities
    nets,         \* run_networks, and the runs the network manager tracks
    attached,     \* generations with a TAP attachment, memory only
    pc,           \* where a generation's launch stands
    check,        \* where the check of a repeated launch stands
    of, uid,      \* the VM and the identity of a generation
    gens,         \* generations handed out
    dir,          \* jail store: none, bare, intent, full, sealed or quarantine
    reserved,     \* generations with a durable identity reservation
    unit,         \* systemd: none, live or dead
    drifted,      \* live units whose identity no longer matches
    netns,        \* run namespaces in the kernel
    ingress,      \* generations with an SSH DNAT rule in the kernel
    released,     \* VMs the agent's cleanup by selector reported gone
    fails, crashes

core == <<ready, records, pending, inflight, unresolved, allocated, nets, attached>>
tasks == <<pc, check, of, uid, gens>>
host == <<dir, reserved, unit, drifted, netns, ingress>>
vars == <<up, core, tasks, host, released, fails, crashes>>

Gens == 1..MaxGen
CpuOf == [g \in 1..gens |-> Quota[of[g]]]
CommittedCpu == SumFunctionOnSet(CpuOf, records) + SumFunctionOnSet(CpuOf, pending)
Fail == fails < MaxFail /\ fails' = fails + 1
Goto(g, at) == pc' = [pc EXCEPT ![g] = at]
OfRun(r) == {g \in 1..gens : RunOf[of[g]] = r}
Stages == {"validate", "identity", "jail", "network", "intent", "start", "grant"}

Init ==
    /\ up = TRUE /\ ready = TRUE
    /\ records = {} /\ pending = {} /\ inflight = {} /\ unresolved = {}
    /\ allocated = {} /\ nets = {} /\ attached = {}
    /\ pc = [g \in Gens |-> "none"] /\ check = pc /\ dir = pc /\ unit = pc
    /\ of = [g \in Gens |-> "none"] /\ uid = [g \in Gens |-> 0] /\ gens = 0
    /\ reserved = {} /\ drifted = {} /\ netns = {} /\ ingress = {} /\ released = {}
    /\ fails = 0 /\ crashes = 0

(***************************************************************************)
(* Host calls.                                                             *)
(***************************************************************************)
\* destroy_vm_network: an attachment the network manager knows loses its TAP
\* and its rules; of any other generation it knows nothing and returns Ok.
DetachKeepsRule(g) == attached' = attached \ {g} /\ UNCHANGED ingress
Detach(g) ==
    /\ attached' = attached \ {g}
    /\ ingress' = IF g \in attached THEN ingress \ {g} ELSE ingress

Stored(g) == dir[g] \in {"bare", "intent", "full", "sealed"}
Quarantine(g) == dir' = [dir EXCEPT ![g] = IF Stored(g) THEN "quarantine" ELSE @]

\* stop_unit, destroy_unit, then the network and the jail once the drain is
\* proven: everything worked, something after the drain failed, or the unit
\* could not be drained and everything it uses is preserved.
Contain(g, how) ==
    /\ IF how = "undrained"
         THEN unit[g] = "live" /\ UNCHANGED <<unit, drifted, attached, ingress, dir>>
         ELSE /\ unit' = [unit EXCEPT ![g] = "none"]
              /\ drifted' = drifted \ {g}
              /\ \/ Detach(g) /\ Quarantine(g)
                 \/ how = "dirty" /\ Detach(g) /\ UNCHANGED dir
                 \/ how = "dirty" /\ UNCHANGED <<attached, ingress>> /\ Quarantine(g)
    /\ IF how = "clean" THEN UNCHANGED fails ELSE Fail

ForgetHold(g, how) ==
    /\ pending' = pending \ {g}
    /\ unresolved' = IF how = "clean" THEN unresolved \ {g} ELSE unresolved \cup {g}
Outcomes == {"clean", "dirty", "undrained"}
Hold(g, how) ==
    /\ pending' = IF how = "undrained" THEN pending \cup {g} ELSE pending \ {g}
    /\ unresolved' = IF how = "clean" THEN unresolved \ {g} ELSE unresolved \cup {g}

(***************************************************************************)
(* Run networks.                                                           *)
(***************************************************************************)
\* A new run is constructed, or adopted from an earlier daemon, and its rules
\* rendered for no attachment.
EnsureRunNetwork(r) ==
    /\ up /\ r \notin nets
    /\ nets' = nets \cup {r} /\ netns' = netns \cup {r}
    /\ ingress' = ingress \ OfRun(r)
    /\ UNCHANGED <<up, ready, records, pending, inflight, unresolved, allocated, attached,
                   tasks, dir, reserved, unit, drifted, released, fails, crashes>>

DestroyBusyNetwork(r) ==
    /\ up /\ r \in nets
    /\ OfRun(r) \cap records = {}
    /\ nets' = nets \ {r} /\ netns' = netns \ {r}
    /\ ingress' = ingress \ OfRun(r)
    /\ UNCHANGED <<up, ready, records, pending, inflight, unresolved, allocated, attached,
                   tasks, dir, reserved, unit, drifted, released, fails, crashes>>
DestroyHalfNetwork(r) ==
    /\ up /\ r \in nets
    /\ OfRun(r) \cap (records \cup attached) = {}
    /\ netns' = netns \ {r} /\ ingress' = ingress \ OfRun(r)
    /\ UNCHANGED <<up, core, tasks, dir, reserved, unit, drifted, released, fails, crashes>>
DestroyRunNetwork(r) ==
    /\ up /\ r \in nets
    /\ OfRun(r) \cap records = {}
    /\ OfRun(r) \cap attached = {}
    /\ nets' = nets \ {r} /\ netns' = netns \ {r}
    /\ ingress' = ingress \ OfRun(r)
    /\ UNCHANGED <<up, ready, records, pending, inflight, unresolved, allocated, attached,
                   tasks, dir, reserved, unit, drifted, released, fails, crashes>>

(***************************************************************************)
(* A launch: reserved under the lock, executed outside it, committed under *)
(* it again.                                                               *)
(***************************************************************************)
BeginLaunch(v) ==
    LET g == gens + 1
        free == Uids \ allocated
    IN  /\ up /\ ready /\ g \in Gens /\ v \notin released
        /\ \A h \in records \cup inflight : of[h] # v
        /\ RunOf[v] \in nets
        /\ CommittedCpu + Quota[v] <= Cap
        /\ free # {}
        /\ gens' = g
        /\ of' = [of EXCEPT ![g] = v]
        /\ uid' = [uid EXCEPT ![g] = Min(free)]
        /\ allocated' = allocated \cup {Min(free)}
        /\ pending' = pending \cup {g}
        /\ inflight' = inflight \cup {g}
        /\ Goto(g, "validate")
        /\ UNCHANGED <<up, ready, records, unresolved, nets, attached, check, host, released,
                       fails, crashes>>

InLaunch(g, at) == up /\ pc[g] = at

ValidateTemplate(g) ==
    /\ InLaunch(g, "validate") /\ Goto(g, "identity")
    /\ UNCHANGED <<up, core, check, of, uid, gens, host, released, fails, crashes>>

ReserveIdentity(g) ==
    /\ InLaunch(g, "identity") /\ Goto(g, "jail")
    /\ reserved' = reserved \cup {g}
    /\ UNCHANGED <<up, core, check, of, uid, gens, dir, unit, drifted, netns, ingress, released,
                   fails, crashes>>

PrepareJail(g) ==
    /\ InLaunch(g, "jail") /\ Goto(g, "network")
    /\ dir' = [dir EXCEPT ![g] = "bare"]
    /\ UNCHANGED <<up, core, check, of, uid, gens, reserved, unit, drifted, netns, ingress,
                   released, fails, crashes>>

\* ensure_vm: the run is still tracked and no other attachment has the VM's
\* TAP, address or port.
EnsureVmNetwork(g) ==
    /\ InLaunch(g, "network")
    /\ RunOf[of[g]] \in nets
    /\ \A h \in attached : of[h] # of[g]
    /\ attached' = attached \cup {g}
    /\ Goto(g, "intent")
    /\ UNCHANGED <<up, ready, records, pending, inflight, unresolved, allocated, nets, check, of,
                   uid, gens, host, released, fails, crashes>>

RefuseVmNetwork(g) ==
    /\ InLaunch(g, "network")
    /\ \/ RunOf[of[g]] \notin nets
       \/ \E h \in attached : of[h] = of[g]
    /\ Goto(g, "undo")
    /\ UNCHANGED <<up, core, check, of, uid, gens, host, released, fails, crashes>>

PersistIntent(g) ==
    /\ InLaunch(g, "intent") /\ Goto(g, "start")
    /\ dir' = [dir EXCEPT ![g] = "intent"]
    /\ UNCHANGED <<up, core, check, of, uid, gens, reserved, unit, drifted, netns, ingress,
                   released, fails, crashes>>

StartUnit(g) ==
    /\ InLaunch(g, "start") /\ Goto(g, "grant")
    /\ unit' = [unit EXCEPT ![g] = "live"]
    /\ UNCHANGED <<up, core, check, of, uid, gens, dir, reserved, drifted, netns, ingress,
                   released, fails, crashes>>

PersistIdentity(g) ==
    /\ InLaunch(g, "grant") /\ Goto(g, "done")
    /\ dir' = [dir EXCEPT ![g] = "full"]
    /\ UNCHANGED <<up, core, check, of, uid, gens, reserved, unit, drifted, netns, ingress,
                   released, fails, crashes>>

\* A call of the launch fails, with or without its effect on the host.
LaunchFails(g) ==
    /\ up /\ pc[g] \in Stages /\ Fail
    /\ Goto(g, CASE pc[g] = "validate" -> "undo-nothing"
                 [] pc[g] = "identity" -> "undo-identity"
                 [] OTHER -> "undo")
    /\ reserved' \in IF pc[g] = "identity" THEN {reserved, reserved \cup {g}} ELSE {reserved}
    /\ dir' \in IF pc[g] = "jail" THEN {dir, [dir EXCEPT ![g] = "bare"]} ELSE {dir}
    /\ unit' \in IF pc[g] = "start" THEN {unit, [unit EXCEPT ![g] = "live"]} ELSE {unit}
    /\ UNCHANGED <<up, core, check, of, uid, gens, drifted, netns, ingress, released, crashes>>

\* cleanup_detached_launch when no jail was attempted: the reservation, if
\* any, is given back.
UndoEarly(g) ==
    /\ up /\ pc[g] \in {"undo-nothing", "undo-identity"}
    /\ \/ /\ Goto(g, "freed") /\ reserved' = reserved \ {g}
          /\ UNCHANGED fails
       \/ /\ pc[g] = "undo-identity" /\ Fail
          /\ Goto(g, "dirty") /\ UNCHANGED reserved
    /\ UNCHANGED <<up, core, check, of, uid, gens, dir, unit, drifted, netns, ingress, released,
                   crashes>>

UndoLaunch(g) ==
    /\ InLaunch(g, "undo")
    /\ \E how \in Outcomes : Contain(g, how) /\ Goto(g, how)
    /\ UNCHANGED <<up, ready, records, pending, inflight, unresolved, allocated, nets, check, of,
                   uid, gens, reserved, netns, released, crashes>>

\* complete_detached_launch_vm_v2, success.
CommitLaunch(g) ==
    /\ InLaunch(g, "done") /\ g \in inflight /\ g \in pending
    /\ records' = records \cup {g}
    /\ pending' = pending \ {g}
    /\ inflight' = inflight \ {g}
    /\ unresolved' = unresolved \ {g}
    /\ Goto(g, "told")
    /\ UNCHANGED <<up, ready, allocated, nets, attached, check, of, uid, gens, host, released,
                   fails, crashes>>

StayReadyOnFailure(g) ==
    /\ up /\ pc[g] \in {"freed"} \cup Outcomes /\ g \in inflight /\ g \in pending
    /\ inflight' = inflight \ {g}
    /\ Hold(g, IF pc[g] = "freed" THEN "clean" ELSE pc[g])
    /\ allocated' = allocated \ {uid[g]}
    /\ Goto(g, "none")
    /\ UNCHANGED <<up, ready, records, nets, attached, check, of, uid, gens, host, released, fails,
                   crashes>>
DropUnresolved(g) ==
    /\ up /\ pc[g] \in {"freed"} \cup Outcomes /\ g \in inflight /\ g \in pending
    /\ inflight' = inflight \ {g}
    /\ pending' = IF pc[g] = "undrained" THEN pending ELSE pending \ {g}
    /\ allocated' = IF pc[g] = "freed" THEN allocated \ {uid[g]} ELSE allocated
    /\ ready' = (ready /\ pc[g] \in {"freed", "clean"})
    /\ Goto(g, "none")
    /\ UNCHANGED <<up, records, unresolved, nets, attached, check, of, uid, gens, host, released,
                   fails, crashes>>
\* complete_detached_launch_vm_v2, failure.
CommitFailure(g) ==
    /\ up /\ pc[g] \in {"freed"} \cup Outcomes /\ g \in inflight /\ g \in pending
    /\ inflight' = inflight \ {g}
    /\ Hold(g, IF pc[g] = "freed" THEN "clean" ELSE pc[g])
    /\ allocated' = IF pc[g] = "freed" THEN allocated \ {uid[g]} ELSE allocated
    /\ ready' = (ready /\ pc[g] \in {"freed", "clean"})
    /\ Goto(g, "none")
    /\ UNCHANGED <<up, records, nets, attached, check, of, uid, gens, host, released, fails,
                   crashes>>

(***************************************************************************)
(* A repeated launch of a committed VM: its unit is inspected outside the  *)
(* lock, and contained when it is not the one that was launched.           *)
(***************************************************************************)
BeginExisting(g) ==
    /\ up /\ ready /\ g \in records /\ check[g] = "none"
    /\ check' = [check EXCEPT ![g] = "inspect"]
    /\ UNCHANGED <<up, core, pc, of, uid, gens, host, released, fails, crashes>>

\* set_vm_ssh_forwarding(false), which may fail and leaves the rule then.
CloseIngress(g) ==
    \/ ingress' = (IF g \in attached THEN ingress \ {g} ELSE ingress) /\ UNCHANGED fails
    \/ g \in ingress \cap attached /\ UNCHANGED ingress /\ Fail

CheckExisting(g) ==
    /\ up /\ check[g] = "inspect"
    /\ LET bad == unit[g] = "live" /\ g \in drifted
       IN  /\ check' = [check EXCEPT ![g] = IF bad THEN "contain" ELSE "none"]
           /\ IF bad THEN CloseIngress(g) ELSE UNCHANGED <<ingress, fails>>
    /\ UNCHANGED <<up, core, pc, of, uid, gens, dir, reserved, unit, drifted, netns, released,
                   crashes>>

ContainExisting(g) ==
    /\ up /\ check[g] = "contain"
    /\ \E how \in Outcomes :
        /\ Contain(g, how)
        /\ check' = [check EXCEPT ![g] = how]
    /\ reserved' = reserved \cup {g}
    /\ UNCHANGED <<up, ready, records, pending, inflight, unresolved, allocated, nets, pc, of, uid,
                   gens, netns, released, crashes>>

\* complete_detached_existing_launch, IdentityMismatch.  Revoking the ingress
\* again fails when the containment has taken the attachment away.
CommitMismatch(g) ==
    /\ up /\ check[g] \in Outcomes
    /\ check' = [check EXCEPT ![g] = "none"]
    /\ ready' = FALSE
    /\ IF g \in records
         THEN /\ records' = records \ {g}
              /\ CloseIngress(g)
              /\ LET revoked == g \in attached /\ g \notin ingress'
                 IN  Hold(g, IF check[g] = "clean" /\ ~revoked THEN "dirty" ELSE check[g])
         ELSE UNCHANGED <<records, ingress, pending, unresolved, fails>>
    /\ UNCHANGED <<up, inflight, allocated, nets, attached, pc, of, uid, gens, dir, reserved, unit,
                   drifted, netns, released, crashes>>

(***************************************************************************)
(* Requests about a committed VM.                                          *)
(***************************************************************************)
\* finalize_vm_boot: the quota of the live unit is verified and persisted,
\* then the DNAT rule is installed and persisted.
FinalizeVmBoot(g) ==
    /\ up /\ g \in records /\ unit[g] = "live" /\ g \in attached
    /\ ingress' = ingress \cup {g}
    /\ dir' = [dir EXCEPT ![g] = IF Stored(g) THEN "sealed" ELSE @]
    /\ UNCHANGED <<up, core, tasks, reserved, unit, drifted, netns, released, fails, crashes>>

\* contain_failed_boot_seal: the quota of a unit that is gone, or that cannot
\* be read, is not verified.  The record goes only when containment is whole.
FinalizeFails(g) ==
    /\ up /\ g \in records
    /\ ready' = FALSE
    /\ \E how \in Outcomes :
        /\ how # "clean" \/ unit[g] # "live"
        /\ Contain(g, how)
        /\ records' = IF how = "clean" THEN records \ {g} ELSE records
    /\ UNCHANGED <<up, pending, inflight, unresolved, allocated, nets, tasks, reserved, netns,
                   released, crashes>>

\* inspect_vm of a unit that is not the one that was launched, or whose API
\* does not answer: stopped, unlinked and quarantined; the record stays.
InspectMismatch(g) ==
    /\ up /\ g \in records /\ unit[g] = "live" /\ g \in drifted
    /\ \E how \in {"clean", "undrained"} : Contain(g, how)
    /\ UNCHANGED <<up, ready, records, pending, inflight, unresolved, allocated, nets, tasks,
                   reserved, netns, released, crashes>>

StopVm(g) ==
    /\ up /\ g \in records /\ unit[g] = "live"
    /\ unit' = [unit EXCEPT ![g] = "dead"]
    /\ drifted' = drifted \ {g}
    /\ UNCHANGED <<up, core, tasks, dir, reserved, netns, ingress, released, fails, crashes>>

\* destroy_vm refuses a live unit.  The reservation outlives the files, and
\* the identity is free once the reservation is gone.
DestroyVm(g) ==
    /\ up /\ g \in records /\ unit[g] # "live"
    /\ unit' = [unit EXCEPT ![g] = "none"]
    /\ Detach(g)
    /\ dir' = [dir EXCEPT ![g] = IF Stored(g) THEN "none" ELSE @]
    /\ records' = records \ {g}
    /\ reserved' = reserved \ {g}
    /\ allocated' = allocated \ {uid[g]}
    /\ UNCHANGED <<up, ready, pending, inflight, unresolved, nets, tasks, drifted, netns, released,
                   fails, crashes>>

\* destroy_vm of a generation the agent was told and the daemon contained.
DestroyUnknown(g) ==
    /\ up /\ pc[g] = "told" /\ g \notin records /\ unit[g] # "live"
    /\ unit' = [unit EXCEPT ![g] = "none"]
    /\ dir' = [dir EXCEPT ![g] = IF Stored(g) THEN "none" ELSE @]
    /\ UNCHANGED <<up, core, tasks, reserved, drifted, netns, ingress, released, fails, crashes>>

\* The agent's cleanup of a launch whose generation it never learned: stop
\* and destroy by run and VM id, answered not_found when no record has them,
\* which counts as done.
CleanupBySelector(v) ==
    /\ up /\ v \notin released
    /\ \E g \in 1..gens : of[g] = v
    /\ \A g \in records : of[g] # v
    /\ released' = released \cup {v}
    /\ UNCHANGED <<up, core, tasks, host, fails, crashes>>

(***************************************************************************)
(* The host: a VM exits; a unit stops being the one that was launched.     *)
(***************************************************************************)
VmExits(g) ==
    /\ unit[g] = "live"
    /\ unit' = [unit EXCEPT ![g] = "dead"]
    /\ drifted' = drifted \ {g}
    /\ UNCHANGED <<up, core, tasks, dir, reserved, netns, ingress, released, fails, crashes>>

Drift(g) ==
    /\ unit[g] = "live" /\ g \notin drifted /\ Fail
    /\ drifted' = drifted \cup {g}
    /\ UNCHANGED <<up, core, tasks, dir, reserved, unit, netns, ingress, released, crashes>>

(***************************************************************************)
(* The recovery thread, and the recovery after a restart.                  *)
(***************************************************************************)
RetryUnresolved(g) ==
    /\ up /\ g \in unresolved
    /\ reserved' = reserved \cup {g}
    /\ \E how \in Outcomes :
        /\ Contain(g, how)
        /\ pending' = IF how = "undrained" THEN pending ELSE pending \ {g}
        /\ unresolved' = IF how = "clean" THEN unresolved \ {g} ELSE unresolved
    /\ UNCHANGED <<up, ready, records, inflight, allocated, nets, tasks, netns, released, crashes>>

\* The daemon dies, alone or inside finalize_vm_boot after the DNAT rule or
\* inside destroy_vm after the files.
Crash ==
    /\ up /\ crashes < MaxCrash
    /\ crashes' = crashes + 1 /\ up' = FALSE
    /\ \/ UNCHANGED <<ingress, dir, unit>>
       \/ \E g \in records \cap attached :
            /\ unit[g] = "live" /\ ingress' = ingress \cup {g}
            /\ UNCHANGED <<dir, unit>>
       \/ \E g \in records :
            /\ unit[g] # "live" /\ Stored(g)
            /\ unit' = [unit EXCEPT ![g] = "none"]
            /\ dir' = [dir EXCEPT ![g] = "none"]
            /\ ingress' = IF g \in attached THEN ingress \ {g} ELSE ingress
    /\ records' = {} /\ pending' = {} /\ inflight' = {} /\ unresolved' = {}
    /\ allocated' = {} /\ nets' = {} /\ attached' = {}
    /\ pc' = [g \in Gens |-> IF pc[g] \in {"told", "done"} THEN "told" ELSE "none"]
    /\ check' = [g \in Gens |-> "none"]
    /\ UNCHANGED <<ready, of, uid, gens, reserved, drifted, netns, released, fails>>

\* recover and new_with_readiness.  A directory without metadata is drained
\* and quarantined; a record is adopted, or contained with its charge held
\* until the drain is proven.  The run of an adopted record, or of one that
\* fails late, is ensured, which renders its rules for the adopted records
\* that were sealed.
Persisted == {g \in Gens : dir[g] \in {"intent", "full", "sealed"}}
MayAdopt(g) == dir[g] \in {"full", "sealed"} /\ unit[g] # "none" /\ g \notin drifted

\* construct_run refuses to replace a namespace that is gone.
NamespaceKept(runs) == runs \subseteq netns

\* recover_vm attaches without ingress; set_vm_ssh_forwarding restores it.
RestoredRules(adopt, runs) ==
    {g \in ingress : RunOf[of[g]] \notin runs} \cup {g \in adopt : dir[g] = "sealed"}

\* contain_or_retain_recovered_record, for the records not adopted, and
\* stop_orphan_generation for directories without metadata.
ContainAll(gone, kept) ==
    /\ unit' = [g \in Gens |-> IF g \in gone THEN "none" ELSE unit[g]]
    /\ drifted' = drifted \ gone
    /\ dir' = [g \in Gens |-> IF g \in gone \ kept THEN "quarantine" ELSE dir[g]]

Restart ==
    \E how \in [Persisted -> {"adopt"} \cup Outcomes], late \in SUBSET Persisted :
        LET adopt == {g \in Persisted : how[g] = "adopt"}
            held == {g \in Persisted : how[g] = "undrained"}
            open == {g \in Persisted : how[g] \in {"dirty", "undrained"}}
            faulty == {g \in Persisted : MayAdopt(g) /\ g \notin adopt} \cup open
            bare == {g \in Gens : dir[g] = "bare"}
            runs == {RunOf[of[g]] : g \in adopt \cup late}
        IN  /\ ~up
            /\ \A g, h \in reserved : uid[g] = uid[h] => g = h
            /\ \A g \in adopt : MayAdopt(g)
            /\ \A g \in held : unit[g] = "live"
            /\ late \subseteq faulty \ adopt
            /\ NamespaceKept(runs)
            /\ fails + Cardinality(faulty) <= MaxFail
            /\ fails' = fails + Cardinality(faulty)
            /\ up' = TRUE
            /\ ready' = (adopt = Persisted)
            /\ records' = adopt /\ pending' = held /\ unresolved' = open /\ inflight' = {}
            /\ nets' = runs /\ attached' = adopt
            /\ reserved' = reserved \cup bare \cup (Persisted \ adopt)
            /\ allocated' = {uid[g] : g \in reserved'}
            /\ ContainAll(bare \cup (Persisted \ (adopt \cup held)), open)
            /\ ingress' = RestoredRules(adopt, runs)
            /\ UNCHANGED <<tasks, netns, released, crashes>>

LaunchStep(g) ==
    \/ ValidateTemplate(g) \/ ReserveIdentity(g) \/ PrepareJail(g) \/ EnsureVmNetwork(g)
    \/ RefuseVmNetwork(g) \/ PersistIntent(g) \/ StartUnit(g) \/ PersistIdentity(g)
    \/ UndoEarly(g) \/ UndoLaunch(g) \/ CommitLaunch(g) \/ CommitFailure(g)
CheckStep(g) == CheckExisting(g) \/ ContainExisting(g) \/ CommitMismatch(g)
Request(g) ==
    \/ BeginExisting(g) \/ FinalizeVmBoot(g) \/ FinalizeFails(g) \/ InspectMismatch(g)
    \/ StopVm(g) \/ DestroyVm(g) \/ DestroyUnknown(g)

Next ==
    \/ \E r \in Runs : EnsureRunNetwork(r) \/ DestroyRunNetwork(r)
    \/ \E v \in VMs : BeginLaunch(v) \/ CleanupBySelector(v)
    \/ \E g \in Gens : LaunchStep(g) \/ LaunchFails(g) \/ CheckStep(g) \/ Request(g)
                       \/ VmExits(g) \/ Drift(g) \/ RetryUnresolved(g)
    \/ Crash \/ Restart

Spec == Init /\ [][Next]_vars

\* A launch is a thread, the recovery worker loops every second, and systemd
\* starts the daemon again.
Fairness ==
    /\ \A g \in Gens : WF_vars(LaunchStep(g)) /\ WF_vars(CheckStep(g))
                       /\ WF_vars(RetryUnresolved(g))
    /\ WF_vars(Restart)
FairSpec == Spec /\ Fairness

(***************************************************************************)
(* Properties.                                                             *)
(***************************************************************************)
TypeOK ==
    /\ {up, ready} \subseteq BOOLEAN
    /\ \A S \in {records, pending, inflight, unresolved, attached, reserved, drifted, ingress} :
        S \subseteq 1..gens
    /\ allocated \subseteq Uids /\ nets \subseteq netns /\ netns \subseteq Runs
    /\ \A g \in 1..gens : of[g] \in VMs /\ uid[g] \in Uids
    /\ \A g \in Gens : unit[g] \in {"none", "live", "dead"}

\* What CpuLedger sees of the jailer.  While the daemon is down, the metadata
\* on disk of the units that are not gone is what may be charged again.
Job(g) == <<g, of[g]>>
Holding == IF up THEN records \cup pending ELSE {g \in Persisted : unit[g] # "none"}
Charged == {Job(g) : g \in Holding}
Live == {g \in Gens : unit[g] = "live"}
Ledger == INSTANCE CpuLedger WITH
    Jobs <- Gens \X VMs, Cost <- [j \in Gens \X VMs |-> Quota[j[2]]], Capacity <- Cap,
    charged <- Charged, running <- {Job(g) : g \in Live}

\* Jailerd implements the CPU promise of CpuLedger (README: "charges the exact
\* cpu_millis value before launch", "retains reservations until cgroup drain
\* is proven"), through failed launches, containment and restarts.
LedgerKept == Ledger!LedgerSpec

\* Two live units never share a uid, and no logical VM has two.
LiveApart ==
    \A g, h \in Live : g # h => uid[g] # uid[h] /\ of[g] # of[h]

\* The namespace of a run is there while a unit that is launched into it, or
\* committed, is live.
NamespaceUnderUnit ==
    \A g \in Live : up /\ g \in records \cup inflight => RunOf[of[g]] \in netns

\* The units of a host stay apart, through failed launches, containment and
\* restarts: what is charged has an identity and a VM of its own, and a run's
\* network goes only with nothing committed or attached to it.
UnitsApart == LiveApart /\ NamespaceUnderUnit

\* An SSH rule in the kernel belongs to a VM the daemon still answers for:
\* the commit of a containment revokes what a concurrent finalizer opened.
IngressHasOwner ==
    up => \A g \in ingress : g \in records \cup unresolved

\* recover_reserved_identities refuses two reservations of one uid, and the
\* daemon then does not start.
ReservationsDistinct ==
    \A g, h \in reserved : uid[g] = uid[h] => g = h

\* "preserve quarantined VM identity reservation": files in quarantine keep
\* their owner to themselves.
QuarantineKeepsUid ==
    \A g, h \in Gens : dir[g] = "quarantine" /\ unit[h] = "live" => g = h \/ uid[g] # uid[h]

\* The agent's cleanup of a launch it did not hear back from drains it
\* "before considering the shared run network".
SelectorDrains ==
    \A g \in Live : of[g] \notin released

\* Capacity held for a launch that failed is given back once calls work.
CapacityReturns ==
    \A g \in Gens : (g \in pending) ~> (g \notin pending)
============================================================================
