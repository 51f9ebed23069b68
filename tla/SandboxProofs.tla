--------------------------- MODULE SandboxProofs ---------------------------
(***************************************************************************)
(* The sandboxes of a host, for any number of VMs, generations, failures   *)
(* and restarts.                                                           *)
(*                                                                         *)
(* Jailerd implements CpuLedger: every unit that is not gone is charged,   *)
(* so that a charge goes only with a proven drain, and together the        *)
(* charges fit the host.  And the VM manager of the agent, which asks      *)
(* jailerd for sandboxes and run networks, keeps a network under every VM  *)
(* and a row behind every sandbox.  Last, the image cache a launch takes   *)
(* its tools disk and its image from.                                      *)
(***************************************************************************)
EXTENDS Jailerd, AgentVm, ImageCache, CpuSums

(* Where a launch stands while it holds its reservation, and before it has *)
(* a unit, or after its unit is known to be gone.                          *)
Active == Stages \cup Outcomes \cup {"done", "undo-nothing", "undo-identity", "undo", "freed"}
NoUnit == {"validate", "identity", "jail", "network", "intent", "start", "undo-nothing",
           "undo-identity", "freed", "clean", "dirty"}
Kept == {"intent", "full", "sealed"}

JailTypes ==
    /\ MaxGen \in Nat /\ gens \in Nat /\ gens <= MaxGen
    /\ records \subseteq 1..gens /\ pending \subseteq 1..gens /\ unresolved \subseteq 1..gens
    /\ DOMAIN of = Gens /\ \A g \in Gens : g <= gens => of[g] \in VMs
    /\ DOMAIN pc = Gens /\ DOMAIN check = Gens /\ DOMAIN dir = Gens /\ DOMAIN unit = Gens

(* A unit that is not gone has metadata on disk and is charged; a launch   *)
(* under way is pending and nobody else's; no unit comes back.             *)
GenSound(g) ==
    /\ {unit[g], dir[g], pc[g], check[g]} # {"none"} => g <= gens
    /\ unit[g] # "none" => dir[g] \in Kept
    /\ unit[g] # "none" /\ up => g \in records \cup pending
    /\ pc[g] \in Active => /\ up /\ g \in pending /\ g \notin records /\ g \notin unresolved
                           /\ check[g] = "none"
    /\ pc[g] \in NoUnit => unit[g] = "none"
    /\ pc[g] = "start" => dir[g] = "intent"
    /\ check[g] \in {"clean", "dirty"} => unit[g] = "none"

JailInv == JailTypes /\ \A g \in Gens : GenSound(g)

(* What a step may do to the ledger: refund and stop, or start one unit    *)
(* that is charged.                                                        *)
Settles == UNCHANGED <<of, gens>> /\ Holding' \subseteq Holding /\ Live' \subseteq Live
Starts == /\ UNCHANGED <<of, gens>> /\ Holding' = Holding
          /\ \E g \in Holding : g \notin Live /\ Live' = Live \cup {g}

-----------------------------------------------------------------------------
(* A step about one generation leaves what is known of the others alone. *)
Apart(h) ==
    /\ unit'[h] = unit[h] /\ dir'[h] = dir[h] /\ pc'[h] = pc[h] /\ check'[h] = check[h]
    /\ (h \in records') = (h \in records) /\ (h \in pending') = (h \in pending)
    /\ (h \in unresolved') = (h \in unresolved)

OnlyAbout(g) == up' = up /\ of' = of /\ gens' = gens /\ \A h \in Gens : h # g => Apart(h)

LEMMA InitInv == ASSUME JailerdConstants, Init PROVE JailInv
<1>1. /\ gens = 0 /\ records = {} /\ pending = {} /\ unresolved = {} /\ MaxGen \in Nat
      /\ of = [g \in Gens |-> "none"] /\ pc = [g \in Gens |-> "none"]
      /\ check = [g \in Gens |-> "none"] /\ dir = [g \in Gens |-> "none"]
      /\ unit = [g \in Gens |-> "none"]
  BY DEF JailerdConstants, Init
<1>2. JailTypes
  BY <1>1 DEF JailTypes, Gens
<1>3. \A g \in Gens : GenSound(g)
  BY <1>1 DEF GenSound, Active, NoUnit, Kept, Stages, Outcomes
<1>4. QED
  BY <1>2, <1>3 DEF JailInv

LEMMA OneGeneration ==
  ASSUME JailInv, NEW g \in Gens, OnlyAbout(g), JailTypes', GenSound(g)',
         g \in Holding' => g \in Holding, g \in Live' => g \in Live
  PROVE  JailInv' /\ Settles
<1>1. ASSUME NEW h \in Gens, h # g PROVE GenSound(h)'
  <2>1. GenSound(h) /\ Apart(h) /\ up' = up /\ gens' = gens
    BY <1>1 DEF JailInv, OnlyAbout
  <2>2. QED
    BY <2>1 DEF GenSound, Apart
<1>2. \A h \in Gens : GenSound(h)'
  BY <1>1
<1>3. Holding \subseteq Gens /\ Holding' \subseteq Gens
  <2>1. JailTypes => records \cup pending \subseteq Gens
    BY DEF JailTypes, Gens
  <2>2. JailTypes' => records' \cup pending' \subseteq Gens
    BY DEF JailTypes, Gens
  <2>3. Persisted \subseteq Gens /\ Persisted' \subseteq Gens
    BY DEF Persisted
  <2>4. QED
    BY <2>1, <2>2, <2>3 DEF JailInv, Holding
<1>4. ASSUME NEW h \in Gens, h # g
      PROVE  (h \in Holding' => h \in Holding) /\ (h \in Live' => h \in Live)
  <2>1. Apart(h) /\ up' = up
    BY <1>4 DEF OnlyAbout
  <2>2. QED
    BY <2>1 DEF Apart, Holding, Persisted, Live
<1>5. Holding' \subseteq Holding
  BY <1>3, <1>4
<1>6. Live' \subseteq Live
  BY <1>4 DEF Live
<1>7. QED
  BY <1>2, <1>5, <1>6 DEF JailInv, Settles, OnlyAbout

(* Steps that touch neither the charges nor a unit. *)
LEMMA CalmStep ==
  ASSUME JailerdConstants, JailInv, NEW g \in Gens,
         \/ ValidateTemplate(g) \/ ReserveIdentity(g) \/ PrepareJail(g) \/ EnsureVmNetwork(g)
         \/ RefuseVmNetwork(g) \/ PersistIntent(g) \/ PersistIdentity(g) \/ UndoEarly(g)
  PROVE  JailInv' /\ Settles /\ OnlyAbout(g)
<1> DEFINE at == pc'[g]
<1>1. /\ UNCHANGED <<up, of, gens, records, pending, unresolved, unit, check>>
      /\ pc[g] \in Active
      /\ pc' = [pc EXCEPT ![g] = at] /\ at \in Active
      /\ at \in NoUnit => pc[g] \in NoUnit
      /\ at = "start" => dir'[g] = "intent"
      /\ \/ dir' = dir
         \/ dir' = [dir EXCEPT ![g] = "bare"] /\ pc[g] \in NoUnit
         \/ dir' = [dir EXCEPT ![g] = "intent"] \/ dir' = [dir EXCEPT ![g] = "full"]
  <2> USE DEF InLaunch, Goto, core, host, tasks, JailInv, JailTypes
  <2>1. CASE ValidateTemplate(g)
    BY <2>1 DEF ValidateTemplate, Active, NoUnit, Stages
  <2>2. CASE ReserveIdentity(g)
    BY <2>2 DEF ReserveIdentity, Active, NoUnit, Stages
  <2>3. CASE PrepareJail(g)
    BY <2>3 DEF PrepareJail, Active, NoUnit, Stages
  <2>4. CASE EnsureVmNetwork(g)
    BY <2>4 DEF EnsureVmNetwork, Active, NoUnit, Stages
  <2>5. CASE RefuseVmNetwork(g)
    BY <2>5 DEF RefuseVmNetwork, Active, NoUnit, Stages
  <2>6. CASE PersistIntent(g)
    BY <2>6 DEF PersistIntent, Active, NoUnit, Stages
  <2>7. CASE PersistIdentity(g)
    BY <2>7 DEF PersistIdentity, Active, NoUnit, Stages
  <2>8. CASE UndoEarly(g)
    BY <2>8 DEF UndoEarly, Active, NoUnit, Stages, Outcomes
  <2>9. QED
    BY <2>1, <2>2, <2>3, <2>4, <2>5, <2>6, <2>7, <2>8
<1>2. JailTypes /\ GenSound(g) /\ g \in 1..gens
  BY <1>1 DEF JailInv, JailTypes, GenSound
<1>3. JailTypes'
  BY <1>1, <1>2 DEF JailTypes, Active, Stages, Outcomes
<1>4. GenSound(g)'
  BY <1>1, <1>2 DEF JailTypes, GenSound, Kept
<1>5. OnlyAbout(g)
  BY <1>1, <1>2 DEF JailTypes, OnlyAbout, Apart
<1>6. (g \in Holding' => g \in Holding) /\ (g \in Live' => g \in Live)
  BY <1>1, <1>2 DEF GenSound, Holding, Live, Persisted
<1>7. QED
  BY <1>3, <1>4, <1>5, <1>6, OneGeneration

(* Containment: the unit is gone, or everything is as it was. *)
Contained(g, how) ==
    /\ DOMAIN unit' = Gens /\ DOMAIN dir' = Gens
    /\ \A h \in Gens : h # g => unit'[h] = unit[h] /\ dir'[h] = dir[h]
    /\ how # "undrained" => unit'[g] = "none"
    /\ how = "undrained" => unit'[g] = unit[g] /\ dir'[g] = dir[g]

LEMMA ContainGone ==
  ASSUME JailTypes, NEW g \in Gens, NEW how, Contain(g, how)
  PROVE  Contained(g, how)
<1>1. CASE how = "undrained"
  BY <1>1 DEF Contain, Contained, JailTypes
<1>2. CASE how # "undrained"
  <2>1. unit' = [unit EXCEPT ![g] = "none"]
        /\ (dir' = dir \/ \E d : dir' = [dir EXCEPT ![g] = d])
    BY <1>2 DEF Contain, Quarantine
  <2>2. QED
    BY <1>2, <2>1 DEF Contained, JailTypes
<1>3. QED
  BY <1>1, <1>2

(* The steps of a launch that contain it or commit its outcome. *)
LEMMA UndoStep ==
  ASSUME JailInv, NEW g \in Gens, UndoLaunch(g)
  PROVE  JailInv' /\ Settles /\ OnlyAbout(g)
<1>1. PICK how \in Outcomes : Contain(g, how) /\ Goto(g, how)
  BY DEF UndoLaunch
<1>2. UNCHANGED <<up, of, gens, records, pending, unresolved, check>> /\ pc[g] = "undo"
  BY DEF UndoLaunch, InLaunch
<1>3. JailTypes /\ GenSound(g) /\ Contained(g, how)
  BY <1>1, ContainGone DEF JailInv
<1>4. pc' = [pc EXCEPT ![g] = how]
  BY <1>1 DEF Goto
<1>5. JailTypes'
  BY <1>2, <1>3, <1>4 DEF JailTypes, Contained
<1>6. GenSound(g)'
  BY <1>1, <1>2, <1>3, <1>4 DEF JailTypes, GenSound, Contained, Active, NoUnit, Outcomes, Stages
<1>7. OnlyAbout(g)
  BY <1>2, <1>3, <1>4 DEF JailTypes, OnlyAbout, Apart, Contained
<1>8. (g \in Holding' => g \in Holding) /\ (g \in Live' => g \in Live)
  BY <1>2, <1>3 DEF GenSound, Contained, Holding, Live, Persisted
<1>9. QED
  BY <1>3, <1>5, <1>6, <1>7, <1>8, OneGeneration

LEMMA CommitStep ==
  ASSUME JailInv, NEW g \in Gens, CommitLaunch(g) \/ CommitFailure(g)
  PROVE  JailInv' /\ Settles /\ OnlyAbout(g)
<1> DEFINE at == pc'[g]
<1>1. /\ UNCHANGED <<up, of, gens, unit, dir, check>> /\ up
      /\ pc[g] \in {"done", "freed"} \cup Outcomes /\ g \in pending
      /\ pc' = [pc EXCEPT ![g] = at] /\ at \in {"told", "none"}
      /\ \/ records' = records \cup {g} /\ pending' = pending \ {g}
         \/ records' = records /\ pending' = pending
         \/ records' = records /\ pending' = pending \ {g} /\ pc[g] \in {"freed", "clean", "dirty"}
      /\ unresolved' = unresolved \ {g} \/ unresolved' = unresolved \cup {g}
  <2> USE DEF InLaunch, Goto, core, host, tasks, JailInv, JailTypes
  <2>1. CASE CommitLaunch(g)
    BY <2>1 DEF CommitLaunch
  <2>2. CASE CommitFailure(g)
    <3>1. UNCHANGED <<up, of, gens, unit, dir, check, records>> /\ up /\ g \in pending
          /\ pc[g] \in {"freed"} \cup Outcomes /\ pc' = [pc EXCEPT ![g] = "none"]
      BY <2>2 DEF CommitFailure
    <3>2. Hold(g, IF pc[g] = "freed" THEN "clean" ELSE pc[g])
      BY <2>2 DEF CommitFailure
    <3>3. pending' = pending \/ (pending' = pending \ {g} /\ pc[g] \in {"freed", "clean", "dirty"})
      BY <3>1, <3>2 DEF Hold, Outcomes
    <3>4. unresolved' = unresolved \ {g} \/ unresolved' = unresolved \cup {g}
      BY <3>2 DEF Hold
    <3>5. QED
      BY <3>1, <3>3, <3>4
  <2>3. QED
    BY <2>1, <2>2
<1>2. JailTypes /\ GenSound(g) /\ g \in 1..gens
  BY <1>1 DEF JailInv, JailTypes
<1>3. JailTypes'
  BY <1>1, <1>2 DEF JailTypes
<1>4. GenSound(g)'
  BY <1>1, <1>2 DEF JailTypes, GenSound, Active, NoUnit, Outcomes, Stages
<1>5. OnlyAbout(g)
  BY <1>1, <1>2 DEF JailTypes, OnlyAbout, Apart
<1>6. (g \in Holding' => g \in Holding) /\ (g \in Live' => g \in Live)
  BY <1>1, <1>2 DEF Holding, Live
<1>7. QED
  BY <1>3, <1>4, <1>5, <1>6, OneGeneration

(* The check of a repeated launch. *)
LEMMA CheckingStep ==
  ASSUME JailInv, NEW g \in Gens, BeginExisting(g) \/ CheckExisting(g)
  PROVE  JailInv' /\ Settles /\ OnlyAbout(g)
<1> DEFINE at == check'[g]
<1>1. /\ UNCHANGED <<up, of, gens, unit, dir, pc, records, pending, unresolved>>
      /\ check' = [check EXCEPT ![g] = at] /\ at \in {"inspect", "contain", "none"}
      /\ g \in records \/ check[g] # "none"
  <2> USE DEF core, host, tasks, JailInv, JailTypes
  <2>1. CASE BeginExisting(g)
    BY <2>1 DEF BeginExisting
  <2>2. CASE CheckExisting(g)
    <3>1. UNCHANGED <<up, of, gens, unit, dir, pc, records, pending, unresolved>>
          /\ check[g] = "inspect"
      BY <2>2 DEF CheckExisting
    <3>2. \E c \in {"contain", "none"} : check' = [check EXCEPT ![g] = c]
      BY <2>2 DEF CheckExisting
    <3>3. QED
      BY <3>1, <3>2
  <2>3. QED
    BY <2>1, <2>2
<1>2. JailTypes /\ GenSound(g) /\ g \in 1..gens
  BY <1>1 DEF JailInv, JailTypes, GenSound, Gens
<1>3. JailTypes'
  BY <1>1, <1>2 DEF JailTypes
<1>4. GenSound(g)'
  BY <1>1, <1>2 DEF JailTypes, GenSound
<1>5. OnlyAbout(g)
  BY <1>1, <1>2 DEF JailTypes, OnlyAbout, Apart
<1>6. (g \in Holding' => g \in Holding) /\ (g \in Live' => g \in Live)
  BY <1>1 DEF Holding, Live, Persisted
<1>7. QED
  BY <1>3, <1>4, <1>5, <1>6, OneGeneration

(* Containment of a committed or unresolved generation: the charge goes    *)
(* only when the unit is gone.                                             *)
LEMMA ContainmentStep ==
  ASSUME JailInv, NEW g \in Gens,
         \/ ContainExisting(g) \/ FinalizeFails(g) \/ InspectMismatch(g) \/ RetryUnresolved(g)
  PROVE  JailInv' /\ Settles /\ OnlyAbout(g)
<1>1. \E how \in Outcomes :
        /\ Contain(g, how) /\ UNCHANGED <<up, of, gens, pc>> /\ up
        /\ records' = records \/ (records' = records \ {g} /\ how # "undrained")
        /\ pending' = pending \/ (pending' = pending \ {g} /\ how # "undrained")
        /\ unresolved' = unresolved \/ unresolved' = unresolved \ {g}
        /\ \/ check' = check /\ g \in records \cup unresolved
           \/ check' = [check EXCEPT ![g] = how] /\ check[g] = "contain"
  <2> USE DEF core, host, tasks
  <2>1. CASE ContainExisting(g)
    BY <2>1 DEF ContainExisting
  <2>2. CASE FinalizeFails(g)
    BY <2>2 DEF FinalizeFails
  <2>3. CASE InspectMismatch(g)
    BY <2>3 DEF InspectMismatch, Outcomes
  <2>4. CASE RetryUnresolved(g)
    BY <2>4 DEF RetryUnresolved
  <2>5. QED
    BY <2>1, <2>2, <2>3, <2>4
<1>2. PICK how \in Outcomes :
        /\ Contain(g, how) /\ UNCHANGED <<up, of, gens, pc>> /\ up
        /\ records' = records \/ (records' = records \ {g} /\ how # "undrained")
        /\ pending' = pending \/ (pending' = pending \ {g} /\ how # "undrained")
        /\ unresolved' = unresolved \/ unresolved' = unresolved \ {g}
        /\ \/ check' = check /\ g \in records \cup unresolved
           \/ check' = [check EXCEPT ![g] = how] /\ check[g] = "contain"
  BY <1>1
<1>3. JailTypes /\ GenSound(g) /\ Contained(g, how) /\ g \in 1..gens
  <2>1. JailTypes /\ GenSound(g) /\ Contained(g, how)
    BY <1>2, ContainGone DEF JailInv
  <2>2. QED
    BY <1>2, <2>1 DEF JailTypes, GenSound, Gens
<1>4. pc[g] \notin Active /\ pc[g] # "start"
  <2>1. "start" \in Active
    BY DEF Active, Stages
  <2>2. QED
    BY <1>2, <1>3, <2>1 DEF GenSound
<1>5. /\ DOMAIN check' = Gens /\ (check'[g] = check[g] \/ (check'[g] = how /\ check[g] = "contain"))
      /\ \A h \in Gens : h # g => check'[h] = check[h]
  BY <1>2, <1>3 DEF JailTypes
<1>6. JailTypes'
  BY <1>2, <1>3, <1>5 DEF JailTypes, Contained
<1>7. GenSound(g)'
  <2>1. CASE how = "undrained"
    BY <1>2, <1>3, <1>4, <1>5, <2>1 DEF GenSound, Contained
  <2>2. CASE how # "undrained"
    BY <1>2, <1>3, <1>4, <1>5, <2>2 DEF JailTypes, GenSound, Contained, Gens
  <2>3. QED
    BY <2>1, <2>2
<1>8. OnlyAbout(g)
  <2>1. \A h \in Gens : h # g =>
          /\ (h \in records') = (h \in records) /\ (h \in pending') = (h \in pending)
          /\ (h \in unresolved') = (h \in unresolved)
    BY <1>2
  <2>2. QED
    BY <1>2, <1>3, <1>5, <2>1 DEF OnlyAbout, Apart, Contained
<1>9. (g \in Holding' => g \in Holding) /\ (g \in Live' => g \in Live)
  BY <1>2, <1>3 DEF Contained, Holding, Live
<1>10. QED
  BY <1>6, <1>7, <1>8, <1>9, OneGeneration

LEMMA MismatchStep ==
  ASSUME JailInv, NEW g \in Gens, CommitMismatch(g)
  PROVE  JailInv' /\ Settles /\ OnlyAbout(g)
<1>1. /\ UNCHANGED <<up, of, gens, unit, dir, pc>> /\ up
      /\ check[g] \in Outcomes /\ check' = [check EXCEPT ![g] = "none"]
  BY DEF CommitMismatch
<1>2. \/ UNCHANGED <<records, pending, unresolved>>
      \/ /\ records' = records \ {g} /\ g \in records
         /\ pending' = pending \cup {g} \/ (pending' = pending \ {g} /\ check[g] # "undrained")
         /\ unresolved' = unresolved \ {g} \/ unresolved' = unresolved \cup {g}
  <2>1. CASE g \notin records
    BY <2>1 DEF CommitMismatch
  <2>2. CASE g \in records
    <3>1. records' = records \ {g} /\ \E how : Hold(g, how) /\ (how = check[g] \/ how = "dirty")
                                              /\ (how = "dirty" => check[g] # "undrained")
      BY <2>2 DEF CommitMismatch
    <3>2. PICK how : Hold(g, how) /\ (how = check[g] \/ how = "dirty")
                     /\ (how = "dirty" => check[g] # "undrained")
      BY <3>1
    <3>3. QED
      BY <2>2, <3>1, <3>2 DEF Hold
  <2>3. QED
    BY <2>1, <2>2
<1>3. JailTypes /\ GenSound(g) /\ g \in 1..gens
  BY <1>1 DEF JailInv, JailTypes, GenSound, Gens, Outcomes
<1>4. JailTypes'
  BY <1>1, <1>2, <1>3 DEF JailTypes
<1>5. GenSound(g)'
  BY <1>1, <1>2, <1>3 DEF JailTypes, GenSound, Outcomes
<1>6. OnlyAbout(g)
  BY <1>1, <1>2, <1>3 DEF JailTypes, OnlyAbout, Apart
<1>7. (g \in Holding' => g \in Holding) /\ (g \in Live' => g \in Live)
  BY <1>1, <1>2 DEF Holding, Live
<1>8. QED
  BY <1>4, <1>5, <1>6, <1>7, OneGeneration

(* The remaining requests about one generation, and the exit of a VM. *)
LEMMA RequestStep ==
  ASSUME JailInv, NEW g \in Gens,
         \/ FinalizeVmBoot(g) \/ StopVm(g) \/ DestroyVm(g) \/ DestroyUnknown(g)
         \/ VmExits(g) \/ Drift(g)
  PROVE  JailInv' /\ Settles /\ OnlyAbout(g)
<1>1. /\ UNCHANGED <<up, of, gens, pc, check, pending, unresolved>>
      /\ pc[g] = "told" \/ g \in records \/ unit[g] = "live"
      /\ \/ UNCHANGED <<unit, records>> /\ (dir' = dir \/ \E d : dir' = [dir EXCEPT ![g] = d] /\ (d \in Kept \/ d = dir[g]) /\ g \in records)
         \/ UNCHANGED <<dir, records>> /\ unit' = [unit EXCEPT ![g] = "dead"] /\ unit[g] = "live"
         \/ /\ unit' = [unit EXCEPT ![g] = "none"] /\ \E d : dir' = [dir EXCEPT ![g] = d]
            /\ records' = records \/ (records' = records \ {g} /\ g \in records)
            /\ pc[g] = "told" \/ g \in records
  <2> USE DEF core, host, tasks, Stored
  <2>1. CASE FinalizeVmBoot(g)
    BY <2>1 DEF FinalizeVmBoot, Kept
  <2>2. CASE StopVm(g)
    BY <2>2 DEF StopVm
  <2>3. CASE DestroyVm(g)
    BY <2>3 DEF DestroyVm
  <2>4. CASE DestroyUnknown(g)
    BY <2>4 DEF DestroyUnknown
  <2>5. CASE VmExits(g)
    BY <2>5 DEF VmExits
  <2>6. CASE Drift(g)
    BY <2>6 DEF Drift
  <2>7. QED
    BY <2>1, <2>2, <2>3, <2>4, <2>5, <2>6
<1>2. JailTypes /\ GenSound(g)
  BY DEF JailInv
<1>3. JailTypes'
  BY <1>1, <1>2 DEF JailTypes
<1>4. GenSound(g)'
  <2>1. pc[g] = "told" => pc[g] \notin Active /\ pc[g] \notin NoUnit /\ pc[g] # "start"
    BY DEF Active, NoUnit, Stages, Outcomes
  <2>2. pc[g] = "start" => pc[g] \in Active
    BY DEF Active, Stages
  <2>0. g <= gens
    <3>1. CASE pc[g] = "told" \/ unit[g] = "live"
      <4>1. {unit[g], dir[g], pc[g], check[g]} # {"none"}
        BY <3>1
      <4>2. QED
        BY <1>2, <4>1 DEF GenSound
    <3>2. CASE g \in records
      BY <1>2, <3>2 DEF JailTypes
    <3>3. QED
      BY <1>1, <3>1, <3>2
  <2>3. CASE UNCHANGED <<unit, records>>
    BY <1>1, <1>2, <2>0, <2>1, <2>2, <2>3 DEF JailTypes, GenSound
  <2>4. CASE UNCHANGED <<dir, records>> /\ unit' = [unit EXCEPT ![g] = "dead"] /\ unit[g] = "live"
    BY <1>1, <1>2, <2>4 DEF JailTypes, GenSound
  <2>5. CASE unit' = [unit EXCEPT ![g] = "none"] /\ (pc[g] = "told" \/ g \in records)
             /\ (records' = records \/ (records' = records \ {g} /\ g \in records))
    BY <1>1, <1>2, <2>0, <2>1, <2>2, <2>5 DEF JailTypes, GenSound
  <2>6. QED
    BY <1>1, <2>3, <2>4, <2>5
<1>5. OnlyAbout(g)
  BY <1>1, <1>2 DEF JailTypes, OnlyAbout, Apart
<1>6. (g \in Holding' => g \in Holding) /\ (g \in Live' => g \in Live)
  BY <1>1, <1>2 DEF JailTypes, GenSound, Holding, Live, Persisted, Kept
<1>7. QED
  BY <1>3, <1>4, <1>5, <1>6, OneGeneration

(* A unit starts, at the end of a launch call that works or fails. *)
LEMMA LaunchUnit ==
  ASSUME JailInv, NEW g \in Gens, StartUnit(g) \/ LaunchFails(g)
  PROVE  JailInv' /\ (Settles \/ Starts) /\ OnlyAbout(g)
<1> DEFINE at == pc'[g]
<1>1. /\ UNCHANGED <<up, of, gens, records, pending, unresolved, check>>
      /\ pc[g] \in Stages
      /\ pc' = [pc EXCEPT ![g] = at] /\ at \in Active /\ at # "start"
      /\ at \in NoUnit => unit' = unit /\ pc[g] \in NoUnit
      /\ \/ unit' = unit
         \/ unit' = [unit EXCEPT ![g] = "live"] /\ dir' = dir /\ pc[g] = "start"
      /\ dir' = dir \/ (dir' = [dir EXCEPT ![g] = "bare"] /\ pc[g] = "jail")
  <2> USE DEF InLaunch, Goto, core, host, tasks, JailInv, JailTypes
  <2>1. CASE StartUnit(g)
    BY <2>1 DEF StartUnit, Active, NoUnit, Stages
  <2>2. CASE LaunchFails(g)
    <3>1. /\ UNCHANGED <<up, of, gens, records, pending, unresolved, check>> /\ pc[g] \in Stages
          /\ \E to \in {"undo-nothing", "undo-identity", "undo"} :
               /\ pc' = [pc EXCEPT ![g] = to]
               /\ to # "undo" => pc[g] \in {"validate", "identity"}
      BY <2>2 DEF LaunchFails, Stages
    <3>2. /\ dir' = dir \/ (dir' = [dir EXCEPT ![g] = "bare"] /\ pc[g] = "jail")
          /\ unit' = unit \/ (unit' = [unit EXCEPT ![g] = "live"] /\ pc[g] = "start")
      BY <2>2 DEF LaunchFails
    <3>3. at \in {"undo-nothing", "undo-identity", "undo"} /\ pc' = [pc EXCEPT ![g] = at]
          /\ (at # "undo" => pc[g] \in {"validate", "identity"})
      BY <3>1
    <3>4. at \in Active /\ at # "start" /\ (at \in NoUnit => at # "undo")
      BY <3>3 DEF Active, NoUnit
    <3>5. pc[g] \in {"validate", "identity"} => pc[g] \in NoUnit
      BY DEF NoUnit
    <3>6. QED
      BY <3>1, <3>2, <3>3, <3>4, <3>5
  <2>3. QED
    BY <2>1, <2>2
<1>2. JailTypes /\ GenSound(g) /\ pc[g] \in Active /\ (pc[g] \in {"start", "jail"} => pc[g] \in NoUnit)
  BY <1>1 DEF JailInv, Active, NoUnit
<1>3. g \in pending /\ g \in 1..gens /\ up
  BY <1>2 DEF JailTypes, GenSound
<1>4. JailTypes'
  BY <1>1, <1>2 DEF JailTypes
<1>5. GenSound(g)'
  BY <1>1, <1>2, <1>3 DEF JailTypes, GenSound, Kept
<1>6. OnlyAbout(g)
  BY <1>1, <1>2 DEF JailTypes, OnlyAbout, Apart
<1>7. CASE unit' = unit
  <2>1. (g \in Holding' => g \in Holding) /\ (g \in Live' => g \in Live)
    BY <1>1, <1>3, <1>7 DEF Holding, Live
  <2>2. QED
    BY <1>4, <1>5, <1>6, <2>1, OneGeneration
<1>8. CASE unit' = [unit EXCEPT ![g] = "live"] /\ pc[g] = "start"
  <2>1. unit[g] = "none"
    BY <1>2, <1>8 DEF GenSound
  <2>2. Live' = Live \cup {g} /\ g \notin Live
    BY <1>2, <1>8, <2>1 DEF JailTypes, Live
  <2>3. Holding' = Holding /\ g \in Holding
    BY <1>1, <1>3 DEF Holding
  <2>4. \A h \in Gens : GenSound(h)'
    <3>1. ASSUME NEW h \in Gens, h # g PROVE GenSound(h)'
      <4>1. GenSound(h) /\ Apart(h) /\ up' = up /\ gens' = gens
        BY <1>6, <3>1 DEF JailInv, OnlyAbout
      <4>2. QED
        BY <4>1 DEF GenSound, Apart
    <3>2. QED
      BY <1>5, <3>1
  <2>5. QED
    BY <1>1, <1>4, <1>6, <2>2, <2>3, <2>4 DEF JailInv, Starts
<1>9. QED
  BY <1>1, <1>6, <1>7, <1>8

(* Networks, and the agent's answer about a selector, are no matter of CPU. *)
LEMMA OtherStep ==
  ASSUME JailInv,
         \/ \E r \in Runs : EnsureRunNetwork(r) \/ DestroyRunNetwork(r)
         \/ \E v \in VMs : CleanupBySelector(v)
         \/ UNCHANGED vars
  PROVE  JailInv' /\ Settles
<1>1. UNCHANGED <<up, of, gens, records, pending, unresolved, pc, check, unit, dir>>
  BY DEF EnsureRunNetwork, DestroyRunNetwork, CleanupBySelector, core, host, tasks, vars
<1>2. QED
  BY <1>1 DEF JailInv, JailTypes, GenSound, Settles, Holding, Live, Persisted

(* The daemon dies: what was charged without a unit is forgotten, what has *)
(* a unit has metadata and stays charged.                                  *)
LEMMA CrashStep ==
  ASSUME JailInv, Crash
  PROVE  JailInv' /\ Settles
<1>1. /\ up /\ up' = FALSE /\ UNCHANGED <<of, gens>>
      /\ records' = {} /\ pending' = {} /\ unresolved' = {}
      /\ pc' = [g \in Gens |-> IF pc[g] \in {"told", "done"} THEN "told" ELSE "none"]
      /\ check' = [g \in Gens |-> "none"]
  BY DEF Crash
<1>2. \/ UNCHANGED <<unit, dir>>
      \/ \E g \in records : /\ unit' = [unit EXCEPT ![g] = "none"]
                            /\ dir' = [dir EXCEPT ![g] = "none"]
  BY DEF Crash
<1>3. JailTypes /\ \A g \in Gens : GenSound(g)
  BY DEF JailInv
<1>4. /\ DOMAIN unit' = Gens /\ DOMAIN dir' = Gens
      /\ \A g \in Gens : \/ unit'[g] = unit[g] /\ dir'[g] = dir[g]
                         \/ unit'[g] = "none" /\ dir'[g] = "none"
  BY <1>2, <1>3 DEF JailTypes, Gens
<1>5. JailTypes'
  BY <1>1, <1>3, <1>4 DEF JailTypes
<1>6. ASSUME NEW g \in Gens PROVE GenSound(g)'
  <2>1. pc'[g] \in {"told", "none"} /\ (pc'[g] # "none" => pc[g] # "none") /\ check'[g] = "none"
    BY <1>1
  <2>2. pc'[g] \notin Active /\ pc'[g] \notin NoUnit /\ pc'[g] # "start"
    BY <2>1 DEF Active, NoUnit, Stages, Outcomes
  <2>3. GenSound(g)
    BY <1>3
  <2>4. QED
    BY <1>1, <1>4, <2>1, <2>2, <2>3 DEF GenSound
<1>7. Holding' \subseteq Holding
  <2>1. ASSUME NEW g \in Gens, unit'[g] # "none" PROVE g \in records \cup pending
    BY <1>1, <1>3, <1>4, <2>1 DEF GenSound
  <2>2. QED
    BY <1>1, <2>1 DEF Holding, Persisted
<1>8. Live' \subseteq Live
  BY <1>4 DEF Live
<1>9. QED
  BY <1>1, <1>5, <1>6, <1>7, <1>8 DEF JailInv, Settles

(* Recovery: whatever has a unit is adopted, or drained, or keeps its      *)
(* charge.                                                                 *)
LEMMA RestartStep ==
  ASSUME JailInv, Restart
  PROVE  JailInv' /\ Settles
<1>1. PICK how \in [Persisted -> {"adopt"} \cup Outcomes], late \in SUBSET Persisted :
        LET adopt == {g \in Persisted : how[g] = "adopt"}
            held == {g \in Persisted : how[g] = "undrained"}
            open == {g \in Persisted : how[g] \in {"dirty", "undrained"}}
            bare == {g \in Gens : dir[g] = "bare"}
        IN  /\ ~up /\ up' = TRUE
            /\ \A g \in adopt : MayAdopt(g)
            /\ \A g \in held : unit[g] = "live"
            /\ records' = adopt /\ pending' = held /\ unresolved' = open
            /\ ContainAll(bare \cup (Persisted \ (adopt \cup held)), open)
            /\ UNCHANGED tasks
  BY DEF Restart
<1> DEFINE adopt == {g \in Persisted : how[g] = "adopt"}
           held == {g \in Persisted : how[g] = "undrained"}
           open == {g \in Persisted : how[g] \in {"dirty", "undrained"}}
           bare == {g \in Gens : dir[g] = "bare"}
           gone == bare \cup (Persisted \ (adopt \cup held))
<1>2. /\ ~up /\ up' = TRUE /\ UNCHANGED <<of, gens, pc, check>>
      /\ records' = adopt /\ pending' = held /\ unresolved' = open
      /\ \A g \in adopt : unit[g] # "none"
      /\ \A g \in held : unit[g] = "live"
      /\ unit' = [g \in Gens |-> IF g \in gone THEN "none" ELSE unit[g]]
      /\ dir' = [g \in Gens |-> IF g \in gone \ open THEN "quarantine" ELSE dir[g]]
  BY <1>1 DEF MayAdopt, ContainAll, tasks
<1>3. JailTypes /\ \A g \in Gens : GenSound(g)
  BY DEF JailInv
<1>4. \A g \in Gens : dir[g] \in Kept <=> g \in Persisted
  BY DEF Persisted, Kept
<1>5. /\ adopt \subseteq Persisted /\ held \subseteq Persisted /\ open \subseteq Persisted
      /\ Persisted \subseteq Gens
      /\ \A g \in Persisted : g \notin gone => g \in adopt \cup held
      /\ \A g \in gone : dir[g] = "bare" \/ g \in Persisted
  BY DEF Persisted
<1> HIDE DEF adopt, held, open, bare, gone
<1>6. \A g \in Persisted : g \in 1..gens
  BY <1>3, <1>4, <1>5 DEF GenSound, Kept, JailTypes, Gens
<1>7. \A g \in Gens : unit'[g] # "none" =>
        unit'[g] = unit[g] /\ dir'[g] = dir[g] /\ g \in Persisted /\ g \in adopt \cup held
  BY <1>2, <1>3, <1>4, <1>5 DEF GenSound
<1>8. JailTypes'
  BY <1>2, <1>3, <1>5, <1>6 DEF JailTypes
<1>9. ASSUME NEW g \in Gens PROVE GenSound(g)'
  <2>1. GenSound(g) /\ pc'[g] = pc[g] /\ check'[g] = check[g] /\ pc[g] \notin Active
    BY <1>2, <1>3 DEF GenSound
  <2>2. pc[g] \notin NoUnit /\ pc[g] # "start"
    BY <2>1 DEF Active, NoUnit, Stages, Outcomes
  <2>3. dir'[g] # "none" => dir[g] # "none"
    BY <1>2, <1>4, <1>5 DEF Kept
  <2>4. {unit[g], dir[g], pc[g], check[g]} # {"none"} => g <= gens
    BY <2>1 DEF GenSound
  <2>5. {unit[g], dir[g], pc[g], check[g]}' # {"none"} => g <= gens'
    BY <1>2, <1>7, <2>1, <2>3, <2>4
  <2>6. QED
    BY <1>2, <1>7, <2>1, <2>2, <2>5 DEF GenSound
<1>10. Holding' \subseteq Holding
  BY <1>2, <1>5 DEF Holding
<1>11. Live' \subseteq Live
  BY <1>7 DEF Live
<1>12. QED
  BY <1>2, <1>8, <1>9, <1>10, <1>11 DEF JailInv, Settles

-----------------------------------------------------------------------------
(* The charge of a launch. *)
Charges ==
    \E v \in VMs :
        /\ up /\ gens' = gens + 1 /\ of' = [of EXCEPT ![gens + 1] = v] /\ gens + 1 \in Gens
        /\ Holding' = Holding \cup {gens + 1} /\ Live' = Live
        /\ CommittedCpu + Quota[v] <= Cap

LEMMA BeginStep ==
  ASSUME JailInv, NEW v \in VMs, BeginLaunch(v)
  PROVE  JailInv' /\ Charges
<1> DEFINE g == gens + 1
<1>1. /\ up /\ g \in Gens /\ gens' = g /\ of' = [of EXCEPT ![g] = v]
      /\ pending' = pending \cup {g} /\ pc' = [pc EXCEPT ![g] = "validate"]
      /\ CommittedCpu + Quota[v] <= Cap
      /\ UNCHANGED <<up, records, unresolved, check, unit, dir>>
  BY DEF BeginLaunch, Goto, host
<1>2. JailTypes /\ \A h \in Gens : GenSound(h)
  BY DEF JailInv
<1>3. g \notin 1..gens /\ g \notin records /\ g \notin pending /\ g \notin unresolved
      /\ g \in Nat /\ gens \in Nat /\ ~(g <= gens)
  BY <1>2 DEF JailTypes
<1>4. unit[g] = "none" /\ check[g] = "none" /\ dir[g] = "none"
  BY <1>1, <1>2, <1>3 DEF GenSound
<1> HIDE DEF g
<1>5. JailTypes'
  <2>1. \A h \in Gens : h <= g => h <= gens \/ h = g
    BY <1>2 DEF g, JailTypes, Gens
  <2>2. 1..gens \subseteq 1..g /\ g \in 1..g /\ g <= MaxGen
    BY <1>1, <1>2 DEF g, JailTypes, Gens
  <2>3. \A h \in Gens : h <= gens' => of'[h] \in VMs
    BY <1>1, <1>2, <2>1 DEF JailTypes
  <2>4. QED
    BY <1>1, <1>2, <1>3, <2>2, <2>3 DEF JailTypes
<1>6. ASSUME NEW h \in Gens PROVE GenSound(h)'
  <2>1. CASE h = g
    <3>1. pc'[g] = "validate"
      BY <1>1, <1>2 DEF JailTypes
    <3>2. QED
      BY <1>1, <1>3, <1>4, <2>1, <3>1 DEF GenSound
  <2>2. CASE h # g
    <3>1. GenSound(h) /\ pc'[h] = pc[h] /\ (h <= gens => h <= gens')
      BY <1>1, <1>2, <2>2 DEF g, JailTypes, Gens
    <3>2. QED
      BY <1>1, <2>2, <3>1 DEF GenSound
  <2>3. QED
    BY <2>1, <2>2
<1>7. Holding' = Holding \cup {g} /\ Live' = Live
  BY <1>1 DEF Holding, Live
<1>8. QED
  BY <1>1, <1>5, <1>6, <1>7 DEF JailInv, Charges, g

(* Every step keeps the invariant and is a refund, a start or a charge. *)
LEMMA JailStep ==
  ASSUME JailerdConstants, JailInv, [Next]_vars
  PROVE  JailInv' /\ (Settles \/ Starts \/ Charges)
<1>1. CASE \E g \in Gens : LaunchStep(g) \/ LaunchFails(g) \/ CheckStep(g) \/ Request(g)
                           \/ VmExits(g) \/ Drift(g) \/ RetryUnresolved(g)
  BY <1>1, CalmStep, UndoStep, CommitStep, LaunchUnit, CheckingStep, ContainmentStep,
     MismatchStep, RequestStep DEF LaunchStep, CheckStep, Request
<1>2. CASE \E v \in VMs : BeginLaunch(v)
  BY <1>2, BeginStep
<1>3. CASE Crash \/ Restart
  BY <1>3, CrashStep, RestartStep
<1>4. QED
  BY <1>1, <1>2, <1>3, OtherStep DEF Next

-----------------------------------------------------------------------------
(* Cost of the jobs of the ledger. *)
JobCpu == [j \in Gens \X VMs |-> Quota[j[2]]]

LEMMA CoresAreSums == \A S : Ledger!Cores(S) = SumFunctionOnSet(JobCpu, S)
BY Zenon DEF Ledger!Cores, JobCpu, Ledger!SumFunctionOnSet, Ledger!FoldFunctionOnSet,
   Ledger!MapThenFoldSet, SumFunctionOnSet, FoldFunctionOnSet, MapThenFoldSet

(* The jobs of a set of generations cost what the generations cost. *)
Assigned(o, n) == \A g \in 1..n : o[g] \in VMs
GenCpu(o, n) == [g \in 1..n |-> Quota[o[g]]]
JobsOf(o, H) == {<<g, o[g]>> : g \in H}

LEMMA JobsCost ==
  ASSUME JailerdConstants, NEW n \in Nat, n <= MaxGen, NEW o, Assigned(o, n),
         NEW H, H \subseteq 1..n
  PROVE  SumFunctionOnSet(GenCpu(o, n), H) = SumFunctionOnSet(JobCpu, JobsOf(o, H))
<1> DEFINE jobs == {<<g, o[g]>> : g \in H}
           h == [g \in H |-> <<g, o[g]>>]
           w == [g \in 1..n |-> Quota[o[g]]]
<1>1. MaxGen \in Nat /\ \A v \in VMs : Quota[v] \in Nat
  BY DEF JailerdConstants
<1>2. IsFiniteSet(1..n)
  BY FS_Interval
<1>3. IsFiniteSet(H)
  BY <1>2, FS_Subset
<1>4. h \in Bijection(H, jobs)
  BY DEF Bijection, Injection, Surjection, IsInjective
<1>5. ASSUME NEW g \in H PROVE w[g] \in Nat /\ JobCpu[h[g]] = w[g]
  <2>1. g \in 1..n /\ o[g] \in VMs /\ g \in Gens
    <3>1. g \in 1..n
      OBVIOUS
    <3>2. o[g] \in VMs
      BY <3>1 DEF Assigned
    <3>3. g \in Gens
      BY <1>1, <3>1 DEF Gens
    <3>4. QED
      BY <3>1, <3>2, <3>3
  <2>2. h[g] = <<g, o[g]>> /\ w[g] = Quota[o[g]]
    BY <2>1
  <2>3. JobCpu[<<g, o[g]>>] = Quota[o[g]]
    BY <2>1 DEF JobCpu
  <2>4. QED
    BY <1>1, <2>1, <2>2, <2>3
<1> HIDE DEF h, jobs, w
<1>6. SumFunctionOnSet(w, H) = SumFunctionOnSet(JobCpu, jobs)
  <2>1. SameCost(w, h, JobCpu, H)
    BY <1>5 DEF SameCost
  <2>2. QED
    BY <1>3, <1>4, <2>1, SumReindexed
<1>7. QED
  BY <1>6 DEF w, jobs, GenCpu, JobsOf

(* The charged generations are finite in number and have a cost. *)
LEMMA HoldingCost ==
  ASSUME JailerdConstants, JailInv
  PROVE  /\ Holding \subseteq 1..gens /\ IsFiniteSet(Holding) /\ IsFiniteSet(1..gens)
         /\ \A g \in 1..gens : CpuOf[g] \in Nat
         /\ Live \subseteq Holding
<1>1. JailTypes /\ (\A g \in Gens : GenSound(g)) /\ (\A v \in VMs : Quota[v] \in Nat)
  BY DEF JailInv, JailerdConstants
<1>2. \A g \in Gens : unit[g] # "none" => g \in 1..gens /\ dir[g] \in Kept
                                          /\ (up => g \in records \cup pending)
  BY <1>1 DEF GenSound, JailTypes, Gens
<1>3. records \cup pending \subseteq 1..gens
  BY <1>1 DEF JailTypes
<1>4. Holding \subseteq 1..gens
  BY <1>2, <1>3 DEF Holding, Persisted
<1>5. Live \subseteq Holding
  BY <1>2 DEF Holding, Persisted, Live, Kept
<1>6. IsFiniteSet(1..gens)
  BY <1>1, FS_Interval DEF JailTypes
<1>7. \A g \in 1..gens : CpuOf[g] \in Nat
  BY <1>1 DEF CpuOf, JailTypes, Gens
<1>8. QED
  BY <1>4, <1>5, <1>6, <1>7, FS_Subset

(* A launch that was admitted leaves the charges within the capacity. *)
LEMMA ChargeFits ==
  ASSUME JailerdConstants, JailInv, JailInv', NEW v \in VMs, up,
         gens' = gens + 1, of' = [of EXCEPT ![gens + 1] = v], gens + 1 \in Gens,
         Holding' = Holding \cup {gens + 1}, CommittedCpu + Quota[v] <= Cap
  PROVE  SumFunctionOnSet(CpuOf', Holding') <= Cap
<1> DEFINE g == gens + 1
           old == CpuOf
           new == CpuOf'
<1>1. /\ Holding \subseteq 1..gens /\ IsFiniteSet(Holding) /\ IsFiniteSet(1..gens)
      /\ \A h \in 1..gens : old[h] \in Nat
  BY HoldingCost
<1>2. gens \in Nat /\ g \notin Holding /\ Cap \in Nat /\ Quota[v] \in Nat
  BY <1>1 DEF JailInv, JailTypes, JailerdConstants
<1>3. new[g] = Quota[v] /\ \A h \in 1..gens : new[h] = old[h]
  BY <1>2 DEF CpuOf, JailInv, JailTypes, Gens
<1>4. records \cup pending = Holding
  BY DEF Holding
<1>5. /\ SumFunctionOnSet(old, records \cup pending)
           <= SumFunctionOnSet(old, records) + SumFunctionOnSet(old, pending)
      /\ SumFunctionOnSet(old, records) \in Nat /\ SumFunctionOnSet(old, pending) \in Nat
      /\ SumFunctionOnSet(old, records \cup pending) \in Nat
  <2>1. \A h \in Holding : old[h] \in Nat
    BY <1>1
  <2>2. records \in SUBSET Holding /\ pending \in SUBSET Holding
    BY <1>4
  <2> HIDE DEF old
  <2>3. QED
    BY <1>1, <1>4, <2>1, <2>2, SumProperties
<1>6. SumFunctionOnSet(new, Holding) = SumFunctionOnSet(old, Holding)
  <2>1. \A h \in Holding : old[h] \in Nat /\ new[h] = old[h]
    BY <1>1, <1>3
  <2> HIDE DEF old, new
  <2>2. QED
    BY <1>1, <2>1, SumSame
<1>7. SumFunctionOnSet(new, Holding \cup {g}) = new[g] + SumFunctionOnSet(new, Holding)
  <2>1. \A h \in Holding \cup {g} : new[h] \in Nat
    BY <1>1, <1>2, <1>3
  <2>2. IsFiniteSet(Holding \cup {g}) /\ (Holding \cup {g}) \ {g} = Holding
    BY <1>1, <1>2, FS_AddElement
  <2> HIDE DEF g, new
  <2>3. QED
    BY <2>1, <2>2, SumProperties
<1>8. SumFunctionOnSet(old, records) + SumFunctionOnSet(old, pending) + Quota[v] <= Cap
  BY DEF CommittedCpu
<1> HIDE DEF old, new
<1>9. SumFunctionOnSet(new, Holding \cup {g}) <= Cap
  <2>1. \A a, b, c, q \in Nat : c <= a + b /\ a + b + q <= Cap => q + c <= Cap
    BY <1>2
  <2>2. Quota[v] + SumFunctionOnSet(old, Holding) <= Cap
    BY <1>2, <1>4, <1>5, <1>8, <2>1
  <2>3. QED
    BY <1>3, <1>6, <1>7, <2>2
<1>10. QED
  BY <1>9 DEF new, g

(* The host is never oversold: what is charged, up or down, fits Cap. *)
Fits == SumFunctionOnSet(CpuOf, Holding) <= Cap

LEMMA FitsStep ==
  ASSUME JailerdConstants, JailInv, Fits, [Next]_vars
  PROVE  JailInv' /\ Fits'
<1>1. JailInv' /\ (Settles \/ Starts \/ Charges)
  BY JailStep
<1>2. CASE Settles \/ Starts
  <2>1. CpuOf' = CpuOf /\ Holding' \subseteq Holding
    BY <1>2 DEF CpuOf, Settles, Starts
  <2>2. /\ IsFiniteSet(Holding) /\ (\A g \in Holding : CpuOf[g] \in Nat)
        /\ Holding' \in SUBSET Holding /\ Cap \in Nat
    BY <2>1, HoldingCost DEF JailerdConstants
  <2>3. /\ SumFunctionOnSet(CpuOf, Holding') \in Nat /\ SumFunctionOnSet(CpuOf, Holding) \in Nat
        /\ SumFunctionOnSet(CpuOf, Holding') <= SumFunctionOnSet(CpuOf, Holding)
    BY <2>2, SumProperties
  <2>4. QED
    BY <1>1, <2>1, <2>2, <2>3 DEF Fits
<1>3. CASE Charges
  BY <1>1, <1>3, ChargeFits DEF Charges, Fits
<1>4. QED
  BY <1>1, <1>2, <1>3

-----------------------------------------------------------------------------
(* Every step of Jailerd is a step of CpuLedger, or leaves it unchanged. *)
LEMMA LedgerStep ==
  ASSUME JailerdConstants, JailInv, [Next]_vars
  PROVE  Ledger!LedgerNext \/ UNCHANGED Ledger!ledger
<1>1. JailInv' /\ (Settles \/ Starts \/ Charges)
  BY JailStep
<1>2. Holding \subseteq 1..gens /\ Live \subseteq Holding
  BY HoldingCost
<1>3. Holding' \subseteq 1..gens' /\ Live' \subseteq Holding'
  <2>1. JailTypes' /\ (\A g \in Gens : GenSound(g)')
    BY <1>1 DEF JailInv
  <2>2. \A g \in Gens : unit'[g] # "none" => g \in 1..gens' /\ dir'[g] \in Kept
                                            /\ (up' => g \in records' \cup pending')
    BY <2>1 DEF GenSound, JailTypes, Gens
  <2>3. records' \cup pending' \subseteq 1..gens'
    BY <2>1 DEF JailTypes
  <2>4. Holding' \subseteq 1..gens'
    BY <2>2, <2>3 DEF Holding, Persisted
  <2>5. Live' \subseteq Holding'
    BY <2>2 DEF Holding, Persisted, Live, Kept
  <2>6. QED
    BY <2>4, <2>5
<1> DEFINE running == {Job(g) : g \in Live}
<1>4. CASE Settles
  <2>1. /\ Charged = {<<g, of[g]>> : g \in Holding} /\ Charged' = {<<g, of[g]>> : g \in Holding'}
        /\ running = {<<g, of[g]>> : g \in Live} /\ running' = {<<g, of[g]>> : g \in Live'}
    BY <1>4 DEF Charged, Job, Settles
  <2>2. Holding' \subseteq Holding /\ Live' \subseteq Live
    BY <1>4 DEF Settles
  <2>3. Charged' \subseteq Charged /\ running' \subseteq running /\ running' \subseteq Charged'
    BY <1>3, <2>1, <2>2
  <2> HIDE DEF running
  <2> DEFINE stopped == running \ running'
             refunded == Charged \ Charged'
  <2>4. /\ stopped \in SUBSET running /\ refunded \in SUBSET Charged
        /\ running' = running \ stopped /\ Charged' = Charged \ refunded
    BY <2>3
  <2> HIDE DEF stopped, refunded
  <2>5. Ledger!Settle(stopped, refunded)
    BY <2>3, <2>4 DEF Ledger!Settle, running
  <2>6. QED
    BY <2>4, <2>5 DEF Ledger!LedgerNext, running
<1>5. CASE Starts
  <2>1. PICK g \in Holding : g \notin Live /\ Live' = Live \cup {g}
    BY <1>5 DEF Starts
  <2>2. /\ Charged' = Charged /\ Job(g) \in Charged
        /\ running' = running \cup {Job(g)} /\ Job(g) \notin running
    BY <1>5, <2>1 DEF Charged, Job, Starts
  <2>3. Job(g) \in Gens \X VMs
    BY <1>2 DEF Job, JailInv, JailTypes, Gens
  <2>4. Ledger!Run(Job(g))
    BY <2>2 DEF Ledger!Run
  <2>5. QED
    BY <2>3, <2>4 DEF Ledger!LedgerNext
<1>6. CASE Charges
  <2>1. PICK v \in VMs :
          /\ up /\ gens' = gens + 1 /\ of' = [of EXCEPT ![gens + 1] = v] /\ gens + 1 \in Gens
          /\ Holding' = Holding \cup {gens + 1} /\ Live' = Live
          /\ CommittedCpu + Quota[v] <= Cap
    BY <1>6 DEF Charges
  <2> DEFINE g == gens + 1
  <2>2. gens \in Nat /\ DOMAIN of = Gens /\ 1..gens \subseteq Gens /\ g \notin 1..gens
    BY DEF JailInv, JailTypes, Gens
  <2>3. of'[g] = v /\ \A h \in 1..gens : of'[h] = of[h]
    BY <2>1, <2>2
  <2> HIDE DEF g
  <2>4. /\ Charged' = Charged \cup {<<g, v>>} /\ <<g, v>> \notin Charged
        /\ running' = running
    BY <1>2, <2>1, <2>2, <2>3 DEF Charged, Job, g
  <2>5. SumFunctionOnSet(CpuOf', Holding') <= Cap
    BY <1>1, <2>1, ChargeFits
  <2>6. SumFunctionOnSet(CpuOf', Holding') = SumFunctionOnSet(JobCpu, Charged')
    <3>1. gens' \in Nat /\ gens' <= MaxGen /\ Assigned(of', gens')
      BY <1>1 DEF JailInv, JailTypes, Gens, Assigned
    <3>2. CpuOf' = GenCpu(of', gens') /\ Charged' = JobsOf(of', Holding')
      BY DEF CpuOf, Charged, Job, GenCpu, JobsOf
    <3>3. QED
      BY <1>3, <3>1, <3>2, JobsCost
  <2>7. Ledger!Cores(Charged') <= Cap
    BY <2>5, <2>6, CoresAreSums
  <2>8. Ledger!Charge(<<g, v>>)
    BY <2>4, <2>7 DEF Ledger!Charge
  <2>9. <<g, v>> \in Gens \X VMs
    BY <2>1 DEF g
  <2>10. QED
    BY <2>8, <2>9 DEF Ledger!LedgerNext
<1>7. QED
  BY <1>1, <1>4, <1>5, <1>6

(* Every step of the jailer is a step of CpuLedger under the mapping of     *)
(* Jailerd, or changes nothing there: a launch is charged before its unit  *)
(* starts, within the capacity, and refunded only when the unit is gone.   *)
THEOREM JailerdImplementsLedger ==
  ASSUME JailerdConstants
  PROVE  Spec => LedgerKept
<1>1. Init => JailInv /\ Ledger!LedgerInit
  <2>1. SUFFICES ASSUME Init PROVE JailInv /\ Ledger!LedgerInit
    OBVIOUS
  <2>2. Holding = {} /\ Live = {}
    BY <2>1 DEF Init, Holding, Live
  <2>3. Ledger!LedgerInit
    BY <2>2 DEF Ledger!LedgerInit, Charged
  <2>4. QED
    BY <2>1, <2>3, InitInv
<1>2. JailInv /\ [Next]_vars => JailInv'
  BY JailStep
<1>3. JailInv /\ [Next]_vars => [Ledger!LedgerNext]_Ledger!ledger
  BY LedgerStep
<1>4. QED
  BY <1>1, <1>2, <1>3, PTL DEF Spec, LedgerKept, Ledger!LedgerSpec


(* No job is charged beyond the capacity and none runs uncharged. *)
THEOREM NeverOversold ==
  ASSUME JailerdConstants
  PROVE  Spec => [](Fits /\ Live \subseteq Holding)
<1>1. Init => JailInv /\ Fits
  <2>1. SUFFICES ASSUME Init PROVE JailInv /\ Fits
    OBVIOUS
  <2>2. Holding = {} /\ Cap \in Nat
    BY <2>1 DEF Init, Holding, JailerdConstants
  <2>3. SumFunctionOnSet(CpuOf, {}) = 0
    <3>1. IsFiniteSet({}) /\ Cardinality({}) = 0
      BY FS_EmptySet
    <3>2. Units(CpuOf, {}) = {}
      BY DEF Units
    <3>3. QED
      BY <3>1, <3>2, SumIsUnits
  <2>4. Fits
    BY <2>2, <2>3 DEF Fits
  <2>5. QED
    BY <2>1, <2>4, InitInv
<1>2. JailInv /\ Fits /\ [Next]_vars => JailInv' /\ Fits'
  BY FitsStep
<1>3. JailInv => Live \subseteq Holding
  BY HoldingCost
<1>4. QED
  BY <1>1, <1>2, <1>3, PTL DEF Spec

-----------------------------------------------------------------------------
(* Identities and networks.  Whatever is charged has an identity and a VM  *)
(* of its own: a launch takes an identity that is not allocated, and the   *)
(* identities of what is charged are; it is refused while its VM is        *)
(* committed or in flight, and with the attestation standing nothing else  *)
(* is charged.  A unit that is not gone has its reservation on disk, which *)
(* is what recovery allocates again.                                       *)
HeldApart == \A g, h \in Holding : g # h => uid[g] # uid[h] /\ of[g] # of[h]

WithIdentity(g) ==
    /\ up /\ g \in records \cup pending => uid[g] \in allocated
    /\ g \in records => g \notin pending
    /\ up /\ ready /\ g \in pending => g \in inflight
    /\ unit[g] # "none" => g \in reserved
    /\ pc[g] \in {"jail", "network", "intent", "start", "grant"} => g \in reserved

(* The namespace of a run is tracked while a VM of it is committed or      *)
(* attached, and a unit of a launch under way is attached.                 *)
WithNetwork(g) ==
    /\ g \in records \cup attached => RunOf[of[g]] \in nets
    /\ g \in inflight => pc[g] \in Active
    /\ g \in inflight /\ unit[g] # "none" => g \in attached
    /\ pc[g] \in {"intent", "start", "grant", "done"} => g \in attached

ApartInv ==
    /\ HeldApart
    /\ nets \subseteq netns /\ attached \subseteq 1..gens /\ inflight \subseteq 1..gens
    /\ DOMAIN uid = Gens
    /\ \A g \in Gens : WithIdentity(g) /\ WithNetwork(g)

LEMMA HeldStaysApart ==
  ASSUME HeldApart, Holding' \subseteq Holding, uid' = uid, of' = of
  PROVE  HeldApart'
BY DEF HeldApart

(* A step about one generation. *)
ElseKept(g) ==
    /\ uid' = uid /\ nets' = nets /\ netns' = netns /\ (ready' => ready)
    /\ inflight' \subseteq 1..gens /\ attached' \subseteq 1..gens
    /\ \A h \in Gens : h # g => /\ (h \in inflight') = (h \in inflight)
                                /\ (h \in attached') = (h \in attached)
                                /\ (h \in reserved') = (h \in reserved)
    /\ \A h \in records' \cup pending' : h # g /\ uid[h] \in allocated => uid[h] \in allocated'

LEMMA ApartFrame ==
  ASSUME ApartInv, NEW g \in Gens, OnlyAbout(g), Settles \/ Starts, ElseKept(g),
         WithIdentity(g)', WithNetwork(g)'
  PROVE  ApartInv'
<1>1. of' = of /\ gens' = gens /\ up' = up /\ Holding' \subseteq Holding
  BY DEF OnlyAbout, Settles, Starts
<1>2. HeldApart'
  BY <1>1, HeldStaysApart DEF ApartInv, ElseKept
<1>3. ASSUME NEW h \in Gens, h # g PROVE WithIdentity(h)' /\ WithNetwork(h)'
  <2>1. Apart(h) /\ WithIdentity(h) /\ WithNetwork(h)
    BY <1>3 DEF OnlyAbout, ApartInv
  <2>2. WithIdentity(h)'
    BY <1>1, <1>3, <2>1 DEF Apart, ElseKept, WithIdentity
  <2>3. WithNetwork(h)'
    BY <1>1, <1>3, <2>1 DEF Apart, ElseKept, WithNetwork
  <2>4. QED
    BY <2>2, <2>3
<1>4. \A h \in Gens : WithIdentity(h)' /\ WithNetwork(h)'
  BY <1>3
<1>5. QED
  BY <1>1, <1>2, <1>4 DEF ApartInv, ElseKept

LEMMA CalmApart ==
  ASSUME JailerdConstants, JailInv, ApartInv, NEW g \in Gens,
         \/ ValidateTemplate(g) \/ ReserveIdentity(g) \/ PrepareJail(g) \/ EnsureVmNetwork(g)
         \/ RefuseVmNetwork(g) \/ PersistIntent(g) \/ PersistIdentity(g) \/ UndoEarly(g)
         \/ StartUnit(g) \/ LaunchFails(g)
  PROVE  ApartInv'
<1>1. OnlyAbout(g) /\ (Settles \/ Starts) /\ JailInv'
  BY CalmStep, LaunchUnit
<1> DEFINE at == pc'[g]
<1>2. /\ UNCHANGED <<up, of, uid, gens, records, pending, nets, netns, ready, inflight, allocated>>
      /\ pc[g] \in Active /\ pc' = [pc EXCEPT ![g] = at] /\ at \in Active
      /\ unit' = unit \/ (pc[g] = "start" /\ unit' = [unit EXCEPT ![g] = "live"])
      /\ \/ attached' = attached
         \/ pc[g] = "network" /\ attached' = attached \cup {g} /\ RunOf[of[g]] \in nets
      /\ \/ reserved' = reserved \/ reserved' = reserved \cup {g}
         \/ reserved' = reserved \ {g} /\ pc[g] \in NoUnit /\ unit' = unit /\ at = "freed"
      /\ at \in {"jail", "network", "intent", "start", "grant"} =>
           \/ pc[g] \in {"jail", "network", "intent", "start", "grant"} /\ reserved' = reserved
           \/ g \in reserved'
      /\ at \in {"intent", "start", "grant", "done"} =>
           \/ pc[g] \in {"intent", "start", "grant", "done"} /\ attached' = attached
           \/ g \in attached'
  <2> USE DEF InLaunch, Goto, core, host, tasks, JailInv, JailTypes
  <2>1. CASE ValidateTemplate(g)
    BY <2>1 DEF ValidateTemplate, Active, Stages
  <2>2. CASE ReserveIdentity(g)
    BY <2>2 DEF ReserveIdentity, Active, Stages
  <2>3. CASE PrepareJail(g)
    BY <2>3 DEF PrepareJail, Active, Stages
  <2>4. CASE EnsureVmNetwork(g)
    BY <2>4 DEF EnsureVmNetwork, Active, Stages
  <2>5. CASE RefuseVmNetwork(g)
    BY <2>5 DEF RefuseVmNetwork, Active, Stages
  <2>6. CASE PersistIntent(g)
    BY <2>6 DEF PersistIntent, Active, Stages
  <2>7. CASE PersistIdentity(g)
    BY <2>7 DEF PersistIdentity, Active, Stages
  <2>8. CASE UndoEarly(g)
    BY <2>8 DEF UndoEarly, Active, NoUnit, Stages, Outcomes
  <2>9. CASE StartUnit(g)
    BY <2>9 DEF StartUnit, Active, Stages
  <2>10. CASE LaunchFails(g)
    <3>1. /\ UNCHANGED <<up, of, uid, gens, records, pending, nets, netns, ready, inflight,
                         allocated, attached>> /\ pc[g] \in Stages
          /\ \E to \in {"undo-nothing", "undo-identity", "undo"} : pc' = [pc EXCEPT ![g] = to]
      BY <2>10 DEF LaunchFails, Stages
    <3>2. /\ unit' = unit \/ (pc[g] = "start" /\ unit' = [unit EXCEPT ![g] = "live"])
          /\ reserved' = reserved \/ reserved' = reserved \cup {g}
      BY <2>10 DEF LaunchFails
    <3>3. at \in {"undo-nothing", "undo-identity", "undo"} /\ pc' = [pc EXCEPT ![g] = at]
      BY <3>1
    <3>4. QED
      BY <3>1, <3>2, <3>3 DEF Active
  <2>11. QED
    BY <2>1, <2>2, <2>3, <2>4, <2>5, <2>6, <2>7, <2>8, <2>9, <2>10
<1>3. WithIdentity(g) /\ WithNetwork(g) /\ GenSound(g) /\ JailTypes
  BY DEF ApartInv, JailInv
<1>4. g \in 1..gens /\ (pc[g] \in NoUnit => unit[g] = "none")
  BY <1>2, <1>3 DEF GenSound, JailTypes
<1>5. ElseKept(g)
  <2>1. inflight \subseteq 1..gens /\ attached \subseteq 1..gens
    BY DEF ApartInv
  <2>2. inflight' \subseteq 1..gens /\ attached' \subseteq 1..gens
    BY <1>2, <1>4, <2>1
  <2>3. \A h \in Gens : h # g => /\ (h \in inflight') = (h \in inflight)
                                 /\ (h \in attached') = (h \in attached)
    BY <1>2
  <2>4. \A h \in Gens : h # g => (h \in reserved') = (h \in reserved)
    BY <1>2
  <2>5. QED
    BY <1>2, <2>2, <2>3, <2>4 DEF ElseKept
<1>6. WithIdentity(g)'
  <2>1. unit'[g] # "none" => g \in reserved'
    BY <1>2, <1>3, <1>4 DEF WithIdentity, JailTypes
  <2>2. QED
    BY <1>2, <1>3, <2>1 DEF WithIdentity
<1>7. WithNetwork(g)'
  <2>1. unit'[g] # "none" => unit[g] # "none" \/ pc[g] = "start"
    BY <1>2, <1>3 DEF JailTypes
  <2>2. QED
    BY <1>2, <1>3, <2>1 DEF WithNetwork
<1>8. QED
  BY <1>1, <1>5, <1>6, <1>7, ApartFrame

(* A containment that leaves the unit alone leaves the attachment alone.   *)
LEMMA ContainAttached ==
  ASSUME NEW g \in Gens, NEW how, Contain(g, how)
  PROVE  /\ attached' = attached \/ attached' = attached \ {g}
         /\ how = "undrained" => attached' = attached
BY DEF Contain, Detach

LEMMA UndoApart ==
  ASSUME JailInv, ApartInv, NEW g \in Gens, UndoLaunch(g)
  PROVE  ApartInv'
<1>1. OnlyAbout(g) /\ Settles
  BY UndoStep
<1>2. PICK how \in Outcomes : Contain(g, how) /\ Goto(g, how)
  BY DEF UndoLaunch
<1>3. /\ UNCHANGED <<up, of, uid, gens, records, pending, nets, netns, ready, inflight, allocated,
                     reserved>>
      /\ pc[g] = "undo" /\ pc' = [pc EXCEPT ![g] = how]
  BY <1>2 DEF UndoLaunch, InLaunch, Goto
<1>4. WithIdentity(g) /\ WithNetwork(g) /\ GenSound(g) /\ JailTypes
  BY DEF ApartInv, JailInv
<1>5. Contained(g, how) /\ (attached' = attached \/ attached' = attached \ {g})
      /\ (how = "undrained" => attached' = attached)
  BY <1>2, <1>4, ContainGone, ContainAttached
<1>6. ElseKept(g)
  <2>1. inflight' \subseteq 1..gens /\ attached' \subseteq 1..gens
    BY <1>3, <1>5 DEF ApartInv
  <2>2. \A h \in Gens : h # g => (h \in attached') = (h \in attached)
    BY <1>5
  <2>3. QED
    BY <1>3, <2>1, <2>2 DEF ElseKept
<1>7. pc'[g] = how /\ how \in Active /\ how \notin Stages /\ how # "done"
  BY <1>2, <1>3, <1>4 DEF JailTypes, Outcomes, Active, Stages
<1>8. WithIdentity(g)'
  BY <1>3, <1>4, <1>5, <1>7 DEF WithIdentity, Contained, Stages
<1>9. WithNetwork(g)'
  BY <1>3, <1>4, <1>5, <1>7 DEF WithNetwork, Contained, Stages
<1>10. QED
  BY <1>1, <1>6, <1>8, <1>9, ApartFrame

(* The end of a launch: an identity is free again only with nothing left   *)
(* of the launch.                                                          *)
LEMMA CommitApart ==
  ASSUME JailInv, ApartInv, NEW g \in Gens, CommitLaunch(g) \/ CommitFailure(g)
  PROVE  ApartInv'
<1>1. OnlyAbout(g) /\ Settles /\ JailInv'
  BY CommitStep
<1>2. WithIdentity(g) /\ WithNetwork(g) /\ GenSound(g) /\ JailTypes
  BY DEF ApartInv, JailInv
<1>3. /\ UNCHANGED <<up, of, uid, gens, nets, netns, unit, attached, reserved>> /\ up
      /\ pc[g] \in {"done", "freed"} \cup Outcomes /\ pc'[g] \in {"told", "none"}
      /\ g \in pending /\ inflight' = inflight \ {g} /\ (ready' => ready)
  <2>1. CASE CommitLaunch(g)
    BY <1>2, <2>1 DEF CommitLaunch, InLaunch, Goto, host, JailTypes
  <2>2. CASE CommitFailure(g)
    BY <1>2, <2>2 DEF CommitFailure, Goto, host, JailTypes
  <2>3. QED
    BY <2>1, <2>2
<1>4. \/ /\ records' = records \cup {g} /\ pending' = pending \ {g} /\ allocated' = allocated
         /\ pc[g] = "done"
      \/ /\ records' = records /\ allocated' = allocated
         /\ (pending' = pending /\ ~ready') \/ pending' = pending \ {g}
      \/ records' = records /\ allocated' = allocated \ {uid[g]} /\ pending' = pending \ {g}
  <2>1. CASE CommitLaunch(g)
    BY <2>1 DEF CommitLaunch, InLaunch
  <2>2. CASE CommitFailure(g)
    <3>1. /\ records' = records
          /\ Hold(g, IF pc[g] = "freed" THEN "clean" ELSE pc[g])
          /\ allocated' = IF pc[g] = "freed" THEN allocated \ {uid[g]} ELSE allocated
          /\ ready' => pc[g] \in {"freed", "clean"}
      BY <2>2 DEF CommitFailure
    <3>2. CASE pc[g] = "freed"
      BY <1>3, <3>1, <3>2 DEF Hold
    <3>3. CASE pc[g] # "freed"
      BY <1>3, <3>1, <3>3 DEF Hold
    <3>4. QED
      BY <3>2, <3>3
  <2>3. QED
    BY <2>1, <2>2
<1>5. \A h \in records' \cup pending' : h # g => uid[h] # uid[g]
  <2>1. Holding = records \cup pending
    BY <1>3 DEF Holding
  <2>2. QED
    BY <1>3, <1>4, <2>1 DEF ApartInv, HeldApart
<1>6. ElseKept(g)
  <2>1. \A h \in records' \cup pending' : h # g /\ uid[h] \in allocated => uid[h] \in allocated'
    BY <1>4, <1>5
  <2>2. QED
    <3>1. inflight' \subseteq 1..gens /\ attached' \subseteq 1..gens
      BY <1>3 DEF ApartInv
    <3>2. \A h \in Gens : h # g => /\ (h \in inflight') = (h \in inflight)
                                   /\ (h \in attached') = (h \in attached)
                                   /\ (h \in reserved') = (h \in reserved)
      BY <1>3
    <3>3. QED
      BY <1>3, <2>1, <3>1, <3>2 DEF ElseKept
<1>7. g \notin records /\ unit'[g] = unit[g]
  BY <1>2, <1>3 DEF GenSound, Active
<1>8. WithIdentity(g)'
  <2>1. pc'[g] \notin {"jail", "network", "intent", "start", "grant"}
    BY <1>3
  <2>2. QED
    BY <1>2, <1>3, <1>4, <1>7, <2>1 DEF WithIdentity
<1>9. WithNetwork(g)'
  <2>1. pc'[g] \notin {"intent", "start", "grant", "done"} /\ g \notin inflight'
    BY <1>3
  <2>2. g \in records' \cup attached' => RunOf[of[g]] \in nets
    BY <1>2, <1>3, <1>4, <1>7 DEF WithNetwork
  <2>3. QED
    BY <1>3, <2>1, <2>2 DEF WithNetwork
<1>10. QED
  BY <1>1, <1>6, <1>8, <1>9, ApartFrame

(* A check, or a request that keeps every hold: no identity is freed.      *)
LEMMA CheckingApart ==
  ASSUME JailInv, ApartInv, NEW g \in Gens, BeginExisting(g) \/ CheckExisting(g)
  PROVE  ApartInv'
<1>1. OnlyAbout(g) /\ Settles
  BY CheckingStep
<1>2. UNCHANGED <<up, of, uid, gens, records, pending, nets, netns, ready, inflight, allocated,
                  reserved, attached, unit, pc>>
  BY DEF BeginExisting, CheckExisting, core, host, tasks
<1>3. WithIdentity(g)' /\ WithNetwork(g)'
  BY <1>2 DEF ApartInv, WithIdentity, WithNetwork
<1>4. ElseKept(g)
  BY <1>2 DEF ApartInv, ElseKept
<1>5. QED
  BY <1>1, <1>3, <1>4, ApartFrame

LEMMA ContainmentApart ==
  ASSUME JailInv, ApartInv, NEW g \in Gens,
         \/ ContainExisting(g) \/ FinalizeFails(g) \/ InspectMismatch(g) \/ RetryUnresolved(g)
  PROVE  ApartInv'
<1>1. OnlyAbout(g) /\ Settles
  BY ContainmentStep
<1>2. WithIdentity(g) /\ WithNetwork(g) /\ GenSound(g) /\ JailTypes
  BY DEF ApartInv, JailInv
<1>3. \E how \in Outcomes :
        /\ Contain(g, how)
        /\ UNCHANGED <<up, of, uid, gens, pc, nets, netns, inflight, allocated>> /\ up
        /\ (ready' => ready) /\ records' \subseteq records /\ pending' \subseteq pending
        /\ reserved' = reserved \/ reserved' = reserved \cup {g}
        /\ g \in records \cup unresolved \/ check[g] = "contain"
  <2> USE DEF core, host, tasks
  <2>1. CASE ContainExisting(g)
    BY <2>1 DEF ContainExisting
  <2>2. CASE FinalizeFails(g)
    <3>1. /\ UNCHANGED <<up, of, uid, gens, pc, nets, netns, inflight, allocated, pending, reserved>>
          /\ up /\ g \in records /\ ready' = FALSE
      BY <2>2 DEF FinalizeFails
    <3>2. \E how \in Outcomes : Contain(g, how) /\ records' \subseteq records
      BY <2>2 DEF FinalizeFails
    <3>3. QED
      BY <3>1, <3>2
  <2>3. CASE InspectMismatch(g)
    BY <2>3 DEF InspectMismatch, Outcomes
  <2>4. CASE RetryUnresolved(g)
    <3>1. /\ UNCHANGED <<up, of, uid, gens, pc, nets, netns, inflight, allocated, records, ready>>
          /\ up /\ g \in unresolved /\ reserved' = reserved \cup {g}
      BY <2>4 DEF RetryUnresolved
    <3>2. \E how \in Outcomes : Contain(g, how) /\ pending' \subseteq pending
      BY <2>4 DEF RetryUnresolved
    <3>3. QED
      BY <3>1, <3>2
  <2>5. QED
    BY <2>1, <2>2, <2>3, <2>4
<1>4. PICK how \in Outcomes :
        /\ Contain(g, how)
        /\ UNCHANGED <<up, of, uid, gens, pc, nets, netns, inflight, allocated>> /\ up
        /\ (ready' => ready) /\ records' \subseteq records /\ pending' \subseteq pending
        /\ reserved' = reserved \/ reserved' = reserved \cup {g}
        /\ g \in records \cup unresolved \/ check[g] = "contain"
  BY <1>3
<1>5. pc[g] \notin Active /\ g \notin inflight
  BY <1>2, <1>4 DEF GenSound, WithNetwork
<1>6. Contained(g, how) /\ (attached' = attached \/ attached' = attached \ {g})
  BY <1>2, <1>4, ContainGone, ContainAttached
<1>7. unit'[g] # "none" => unit[g] # "none"
  BY <1>6 DEF Contained
<1>8. ElseKept(g)
  <2>1. inflight' \subseteq 1..gens /\ attached' \subseteq 1..gens
    BY <1>4, <1>6 DEF ApartInv
  <2>2. \A h \in Gens : h # g => /\ (h \in attached') = (h \in attached)
                                 /\ (h \in reserved') = (h \in reserved)
    BY <1>4, <1>6
  <2>3. QED
    BY <1>4, <2>1, <2>2 DEF ElseKept
<1>9. pc[g] \notin {"jail", "network", "intent", "start", "grant", "done"}
  BY <1>5 DEF Active, Stages
<1>10. WithIdentity(g)'
  BY <1>2, <1>4, <1>7, <1>9 DEF WithIdentity
<1>11. WithNetwork(g)'
  BY <1>2, <1>4, <1>5, <1>6, <1>9 DEF WithNetwork
<1>12. QED
  BY <1>1, <1>8, <1>10, <1>11, ApartFrame

(* A contained VM may be held on with its attestation revoked. *)
LEMMA MismatchApart ==
  ASSUME JailInv, ApartInv, NEW g \in Gens, CommitMismatch(g)
  PROVE  ApartInv'
<1>1. OnlyAbout(g) /\ Settles /\ JailInv'
  BY MismatchStep
<1>2. WithIdentity(g) /\ WithNetwork(g) /\ GenSound(g) /\ JailTypes
  BY DEF ApartInv, JailInv
<1>3. /\ UNCHANGED <<up, of, uid, gens, nets, netns, unit, attached, reserved, allocated, inflight, pc>>
      /\ up /\ check[g] \in Outcomes /\ ready' = FALSE
  BY DEF CommitMismatch
<1>4. \/ UNCHANGED <<records, pending>>
      \/ /\ records' = records \ {g} /\ g \in records
         /\ pending' = pending \cup {g} \/ pending' = pending \ {g}
  <2>1. CASE g \notin records
    BY <2>1 DEF CommitMismatch
  <2>2. CASE g \in records
    <3>1. records' = records \ {g} /\ \E how : Hold(g, how)
      BY <2>2 DEF CommitMismatch
    <3>2. QED
      BY <2>2, <3>1 DEF Hold
  <2>3. QED
    BY <2>1, <2>2
<1>5. WithIdentity(g)'
  BY <1>2, <1>3, <1>4 DEF WithIdentity
<1>6. WithNetwork(g)'
  BY <1>2, <1>3, <1>4 DEF WithNetwork
<1>7. ElseKept(g)
  <2>1. inflight' \subseteq 1..gens /\ attached' \subseteq 1..gens
    BY <1>3 DEF ApartInv
  <2>2. QED
    BY <1>3, <2>1 DEF ElseKept
<1>8. QED
  BY <1>1, <1>5, <1>6, <1>7, ApartFrame

(* Requests: only destroy_vm frees an identity, and of nothing that is     *)
(* still held.                                                             *)
LEMMA RequestApart ==
  ASSUME JailInv, ApartInv, NEW g \in Gens,
         \/ FinalizeVmBoot(g) \/ StopVm(g) \/ DestroyUnknown(g) \/ VmExits(g) \/ Drift(g)
  PROVE  ApartInv'
<1>1. OnlyAbout(g) /\ Settles
  BY RequestStep
<1>2. WithIdentity(g) /\ WithNetwork(g) /\ JailTypes
  BY DEF ApartInv, JailInv
<1>3. /\ UNCHANGED <<up, of, uid, gens, nets, netns, attached, reserved, allocated, inflight, pc,
                     records, pending, ready>>
      /\ unit' = unit \/ (unit[g] = "live" /\ unit' = [unit EXCEPT ![g] = "dead"])
         \/ unit' = [unit EXCEPT ![g] = "none"]
  BY DEF FinalizeVmBoot, StopVm, DestroyUnknown, VmExits, Drift, core, host, tasks
<1>4. unit'[g] # "none" => unit[g] # "none"
  BY <1>2, <1>3 DEF JailTypes
<1>5. WithIdentity(g)'
  BY <1>2, <1>3, <1>4 DEF WithIdentity
<1>6. WithNetwork(g)'
  BY <1>2, <1>3, <1>4 DEF WithNetwork
<1>7. ElseKept(g)
  BY <1>3 DEF ApartInv, ElseKept
<1>8. QED
  BY <1>1, <1>5, <1>6, <1>7, ApartFrame

LEMMA DestroyApart ==
  ASSUME JailInv, ApartInv, NEW g \in Gens, DestroyVm(g)
  PROVE  ApartInv'
<1>1. OnlyAbout(g) /\ Settles
  BY RequestStep
<1>2. WithIdentity(g) /\ WithNetwork(g) /\ GenSound(g) /\ JailTypes
  BY DEF ApartInv, JailInv
<1>3. /\ UNCHANGED <<up, of, uid, gens, nets, netns, inflight, pc, pending, ready>> /\ up
      /\ g \in records /\ records' = records \ {g} /\ unit' = [unit EXCEPT ![g] = "none"]
      /\ reserved' = reserved \ {g} /\ allocated' = allocated \ {uid[g]}
      /\ attached' = attached \ {g}
  BY DEF DestroyVm, Detach, tasks
<1>4. g \notin pending /\ pc[g] \notin Active /\ g \notin inflight /\ unit'[g] = "none"
  BY <1>2, <1>3 DEF WithIdentity, GenSound, WithNetwork, JailTypes
<1>5. pc[g] \notin {"jail", "network", "intent", "start", "grant", "done"}
  BY <1>4 DEF Active, Stages
<1>6. \A h \in records' \cup pending' : h # g => uid[h] # uid[g]
  <2>1. Holding = records \cup pending
    BY <1>3 DEF Holding
  <2>2. QED
    BY <1>3, <2>1 DEF ApartInv, HeldApart
<1>7. WithIdentity(g)'
  BY <1>2, <1>3, <1>4, <1>5 DEF WithIdentity
<1>8. WithNetwork(g)'
  BY <1>2, <1>3, <1>4, <1>5 DEF WithNetwork
<1>9. ElseKept(g)
  <2>1. inflight' \subseteq 1..gens /\ attached' \subseteq 1..gens
    BY <1>3 DEF ApartInv
  <2>2. \A h \in records' \cup pending' : h # g /\ uid[h] \in allocated => uid[h] \in allocated'
    BY <1>3, <1>6
  <2>3. \A h \in Gens : h # g => /\ (h \in inflight') = (h \in inflight)
                                 /\ (h \in attached') = (h \in attached)
                                 /\ (h \in reserved') = (h \in reserved)
    BY <1>3
  <2>4. QED
    BY <1>3, <2>1, <2>2, <2>3 DEF ElseKept
<1>10. QED
  BY <1>1, <1>7, <1>8, <1>9, ApartFrame

(* A network is destroyed only with nothing committed or attached to it. *)
LEMMA NetworkApart ==
  ASSUME JailerdConstants, JailInv, ApartInv, NEW r \in Runs,
         EnsureRunNetwork(r) \/ DestroyRunNetwork(r)
  PROVE  ApartInv'
<1>1. /\ UNCHANGED <<up, of, uid, gens, ready, records, pending, inflight, allocated, attached,
                     reserved, unit, pc, dir>>
      /\ \/ nets' = nets \cup {r} /\ netns' = netns \cup {r}
         \/ /\ nets' = nets \ {r} /\ netns' = netns \ {r}
            /\ OfRun(r) \cap records = {} /\ OfRun(r) \cap attached = {}
  BY DEF EnsureRunNetwork, DestroyRunNetwork, tasks
<1>2. HeldApart'
  BY <1>1 DEF ApartInv, HeldApart, Holding, Persisted
<1>3. \A g \in Gens : g \in records \cup attached => RunOf[of[g]] \in nets'
  <2>1. SUFFICES ASSUME NEW g \in Gens, g \in records \cup attached
                 PROVE  RunOf[of[g]] \in nets'
    OBVIOUS
  <2>2. g \in 1..gens /\ RunOf[of[g]] \in nets
    BY <2>1 DEF ApartInv, WithNetwork, JailInv, JailTypes
  <2>3. QED
    BY <1>1, <2>1, <2>2 DEF OfRun
<1>4. \A g \in Gens : WithIdentity(g)'
  BY <1>1 DEF ApartInv, WithIdentity
<1>5. \A g \in Gens : WithNetwork(g)'
  BY <1>1, <1>3 DEF ApartInv, WithNetwork
<1>6. nets' \subseteq netns'
  BY <1>1 DEF ApartInv
<1>7. QED
  BY <1>1, <1>2, <1>4, <1>5, <1>6 DEF ApartInv

LEMMA IdleApart ==
  ASSUME ApartInv, UNCHANGED vars \/ \E v \in VMs : CleanupBySelector(v)
  PROVE  ApartInv'
<1>1. UNCHANGED <<up, of, uid, gens, ready, records, pending, inflight, allocated, attached,
                  reserved, unit, pc, dir, nets, netns>>
  BY DEF CleanupBySelector, core, host, tasks, vars
<1>2. QED
  BY <1>1 DEF ApartInv, HeldApart, Holding, Persisted, WithIdentity, WithNetwork

LEMMA CrashApart ==
  ASSUME JailInv, ApartInv, Crash
  PROVE  ApartInv'
<1>1. /\ up' = FALSE /\ UNCHANGED <<of, uid, gens, reserved, netns>>
      /\ records' = {} /\ pending' = {} /\ inflight' = {} /\ nets' = {} /\ attached' = {}
      /\ pc' = [g \in Gens |-> IF pc[g] \in {"told", "done"} THEN "told" ELSE "none"]
  BY DEF Crash
<1>2. unit' = unit \/ \E g \in records : unit' = [unit EXCEPT ![g] = "none"]
  BY DEF Crash
<1>3. \A g \in Gens : unit'[g] # "none" => unit[g] # "none"
  BY <1>2 DEF JailInv, JailTypes
<1>4. HeldApart'
  BY <1>1, CrashStep, HeldStaysApart DEF Settles, ApartInv
<1>5. \A g \in Gens : pc'[g] \in {"told", "none"}
  BY <1>1
<1>6. \A g \in Gens : WithIdentity(g)'
  BY <1>1, <1>3, <1>5 DEF ApartInv, WithIdentity
<1>7. \A g \in Gens : WithNetwork(g)'
  BY <1>1, <1>5 DEF WithNetwork
<1>8. QED
  BY <1>1, <1>4, <1>6, <1>7 DEF ApartInv

(* Recovery allocates every reservation again, and keeps the attestation   *)
(* only when it adopted everything, so that nothing is then pending.       *)
LEMMA RestartApart ==
  ASSUME JailInv, ApartInv, Restart
  PROVE  ApartInv'
<1>1. PICK how \in [Persisted -> {"adopt"} \cup Outcomes], late \in SUBSET Persisted :
        LET adopt == {g \in Persisted : how[g] = "adopt"}
            held == {g \in Persisted : how[g] = "undrained"}
            open == {g \in Persisted : how[g] \in {"dirty", "undrained"}}
            bare == {g \in Gens : dir[g] = "bare"}
            runs == {RunOf[of[g]] : g \in adopt \cup late}
        IN  /\ ~up /\ up' = TRUE /\ ready' = (adopt = Persisted)
            /\ \A g \in adopt : MayAdopt(g)
            /\ \A g \in held : unit[g] = "live"
            /\ NamespaceKept(runs)
            /\ records' = adopt /\ pending' = held /\ inflight' = {}
            /\ nets' = runs /\ attached' = adopt
            /\ reserved' = reserved \cup bare \cup (Persisted \ adopt)
            /\ allocated' = {uid[g] : g \in reserved'}
            /\ ContainAll(bare \cup (Persisted \ (adopt \cup held)), open)
            /\ UNCHANGED <<tasks, netns>>
  BY DEF Restart
<1> DEFINE adopt == {g \in Persisted : how[g] = "adopt"}
           held == {g \in Persisted : how[g] = "undrained"}
           runs == {RunOf[of[g]] : g \in adopt \cup late}
<1>2. /\ ~up /\ up' = TRUE /\ UNCHANGED <<of, uid, gens, pc, netns>>
      /\ records' = adopt /\ pending' = held /\ inflight' = {} /\ attached' = adopt
      /\ nets' = runs /\ runs \subseteq netns
      /\ \A g \in adopt : unit[g] # "none"
      /\ \A g \in held : unit[g] = "live"
      /\ reserved \subseteq reserved' /\ allocated' = {uid[g] : g \in reserved'}
  BY <1>1 DEF MayAdopt, NamespaceKept, tasks
<1>3. \A g \in Gens : unit'[g] # "none" => unit[g] # "none"
  BY <1>1 DEF ContainAll
<1>4. /\ adopt \subseteq Gens /\ held \subseteq Gens
      /\ \A g \in adopt : g \notin held /\ RunOf[of[g]] \in runs
  BY DEF Persisted
<1>5. ready' => held = {}
  <2>1. ready' = (adopt = Persisted)
    BY <1>1
  <2>2. QED
    BY <2>1
<1> HIDE DEF adopt, held, runs
<1>6. JailInv' /\ HeldApart'
  BY <1>2, RestartStep, HeldStaysApart DEF Settles, ApartInv
<1>7. \A g \in Gens : pc[g] \notin Active /\ GenSound(g) /\ WithIdentity(g)
  BY <1>2 DEF JailInv, GenSound, ApartInv
<1>8. \A g \in Gens : pc[g] \notin {"jail", "network", "intent", "start", "grant", "done"}
  BY <1>7 DEF Active, Stages
<1>9. \A g \in adopt \cup held : g \in reserved'
  BY <1>2, <1>4, <1>7 DEF WithIdentity
<1>10. \A g \in Gens : WithIdentity(g)'
  BY <1>2, <1>3, <1>4, <1>5, <1>7, <1>8, <1>9 DEF WithIdentity
<1>11. \A g \in Gens : WithNetwork(g)'
  BY <1>2, <1>4, <1>8 DEF WithNetwork
<1>12. attached' \subseteq 1..gens'
  BY <1>2, <1>6 DEF JailInv, JailTypes
<1>13. QED
  BY <1>2, <1>6, <1>10, <1>11, <1>12 DEF ApartInv

LEMMA LeastFree ==
  ASSUME NEW S, S \subseteq Nat, S # {}
  PROVE  Min(S) \in S
<1>1. PICK n \in S : TRUE
  OBVIOUS
<1> DEFINE B == 0..n
           F == {T \in SUBSET B : \E m \in S : T = 0..m}
<1>2. IsFiniteSet(B)
  <2>1. 0 \in Int /\ n \in Int
    BY <1>1
  <2>2. QED
    BY <2>1, FS_Interval
<1>3. F \subseteq SUBSET B /\ B \in F
  BY <1>1
<1>4. PICK T \in F : \A U \in F : U \subseteq T => U = T
  <2> HIDE DEF B, F
  <2>1. QED
    BY <1>2, <1>3, MinimalSubset
<1>5. PICK m \in S : T = 0..m
  OBVIOUS
<1>6. ASSUME NEW k \in S, ~(m <= k) PROVE FALSE
  <2>1. 0..k \subseteq T /\ T \subseteq B /\ m \in T /\ m \notin 0..k
    BY <1>5, <1>6
  <2>2. 0..k \in F
    BY <2>1
  <2>3. QED
    BY <1>4, <2>1, <2>2
<1>7. QED
  BY <1>5, <1>6 DEF Min

(* A launch takes the least identity that is not allocated, for a VM that  *)
(* has no record and no launch in flight.                                  *)
LEMMA BeginApart ==
  ASSUME JailerdConstants, JailInv, ApartInv, NEW v \in VMs, BeginLaunch(v)
  PROVE  ApartInv'
<1> DEFINE g == gens + 1
           id == Min(Uids \ allocated)
<1>1. /\ up /\ ready /\ g \in Gens /\ gens' = g /\ RunOf[v] \in nets
      /\ of' = [of EXCEPT ![g] = v] /\ uid' = [uid EXCEPT ![g] = id]
      /\ pending' = pending \cup {g} /\ inflight' = inflight \cup {g}
      /\ allocated' = allocated \cup {id} /\ pc' = [pc EXCEPT ![g] = "validate"]
      /\ \A h \in records \cup inflight : of[h] # v
      /\ UNCHANGED <<up, ready, records, nets, attached, unit, reserved, netns>>
  BY DEF BeginLaunch, Goto, host
<1>2. id \notin allocated
  <2>1. Uids \ allocated # {} /\ Uids \ allocated \subseteq Nat
    BY DEF BeginLaunch, JailerdConstants
  <2>2. QED
    BY <2>1, LeastFree
<1>3. JailTypes /\ GenSound(g)
  BY <1>1 DEF JailInv
<1>4. /\ g \notin 1..gens /\ 1..gens \subseteq 1..g /\ g \in 1..g
      /\ 1..gens \subseteq Gens /\ ~(g <= gens)
  BY <1>3 DEF JailTypes, Gens
<1>5. /\ g \notin records /\ g \notin pending /\ g \notin attached /\ g \notin inflight
      /\ unit[g] = "none" /\ unit'[g] = "none"
  BY <1>1, <1>3, <1>4 DEF JailTypes, ApartInv, GenSound
<1> HIDE DEF g, id
<1>6. /\ \A h \in Gens : h # g => uid'[h] = uid[h] /\ of'[h] = of[h] /\ pc'[h] = pc[h]
      /\ uid'[g] = id /\ of'[g] = v /\ pc'[g] = "validate" /\ DOMAIN uid' = Gens
  BY <1>1, <1>3 DEF JailTypes, ApartInv
<1>7. \A h \in records \cup pending : h \in Gens /\ h # g /\ uid[h] # id /\ of[h] # v
  <2>1. SUFFICES ASSUME NEW h \in records \cup pending PROVE uid[h] # id /\ of[h] # v
    BY <1>3, <1>4, <1>5 DEF JailTypes
  <2>2. h \in Gens /\ WithIdentity(h)
    BY <1>3, <1>4 DEF JailTypes, ApartInv
  <2>3. QED
    BY <1>1, <1>2, <2>2 DEF WithIdentity
<1>8. HeldApart'
  <2>1. Holding = records \cup pending /\ Holding' = records \cup pending \cup {g}
    BY <1>1 DEF Holding
  <2>2. QED
    BY <1>6, <1>7, <2>1 DEF HeldApart, ApartInv
<1>9. ASSUME NEW h \in Gens PROVE WithIdentity(h)' /\ WithNetwork(h)'
  <2>1. CASE h = g
    BY <1>1, <1>5, <1>6, <2>1 DEF WithIdentity, WithNetwork, Active, Stages
  <2>2. CASE h # g
    <3>1. WithIdentity(h) /\ WithNetwork(h) /\ uid'[h] = uid[h] /\ of'[h] = of[h]
          /\ pc'[h] = pc[h]
      BY <1>6, <2>2 DEF ApartInv
    <3>2. WithIdentity(h)'
      BY <1>1, <2>2, <3>1 DEF WithIdentity
    <3>3. WithNetwork(h)'
      BY <1>1, <2>2, <3>1 DEF WithNetwork
    <3>4. QED
      BY <3>2, <3>3
  <2>3. QED
    BY <2>1, <2>2
<1>10. attached' \subseteq 1..gens' /\ inflight' \subseteq 1..gens' /\ nets' \subseteq netns'
  BY <1>1, <1>4 DEF ApartInv
<1>11. \A h \in Gens : WithIdentity(h)' /\ WithNetwork(h)'
  BY <1>9
<1>12. QED
  BY <1>6, <1>8, <1>10, <1>11 DEF ApartInv

LEMMA ApartStep ==
  ASSUME JailerdConstants, JailInv, ApartInv, [Next]_vars
  PROVE  ApartInv'
<1>1. CASE \E g \in Gens : LaunchStep(g) \/ LaunchFails(g)
  BY <1>1, CalmApart, UndoApart, CommitApart DEF LaunchStep
<1>2. CASE \E g \in Gens : CheckStep(g) \/ Request(g) \/ VmExits(g) \/ Drift(g)
                           \/ RetryUnresolved(g)
  BY <1>2, CheckingApart, ContainmentApart, MismatchApart, RequestApart, DestroyApart
     DEF CheckStep, Request
<1>3. CASE \E v \in VMs : BeginLaunch(v)
  BY <1>3, BeginApart
<1>4. CASE \E r \in Runs : EnsureRunNetwork(r) \/ DestroyRunNetwork(r)
  BY <1>4, NetworkApart
<1>5. QED
  BY <1>1, <1>2, <1>3, <1>4, CrashApart, RestartApart, IdleApart DEF Next

(* What the invariant says of the units: each that is not gone is charged, *)
(* what is charged is apart, and what is committed or attached has its     *)
(* run's namespace.                                                        *)
LEMMA ApartUnits ==
  ASSUME JailInv, ApartInv
  PROVE  LiveApart /\ NamespaceUnderUnit
<1>1. \A g \in Live : g \in Gens /\ unit[g] # "none" /\ g \in Holding
  BY DEF Live, JailInv, GenSound, Kept, Holding, Persisted
<1>2. LiveApart
  BY <1>1 DEF ApartInv, HeldApart, LiveApart
<1>3. NamespaceUnderUnit
  <2>1. SUFFICES ASSUME NEW g \in Live, g \in records \cup inflight
                 PROVE  RunOf[of[g]] \in netns
    BY DEF NamespaceUnderUnit
  <2>2. g \in Gens /\ WithNetwork(g) /\ nets \subseteq netns
    BY <1>1 DEF ApartInv
  <2>3. QED
    BY <1>1, <2>1, <2>2 DEF WithNetwork
<1>4. QED
  BY <1>2, <1>3

(* Two live units never share a uid or a VM, and the namespace of a run    *)
(* outlives the units launched into it or committed, for any number of     *)
(* VMs, launches, failing calls and restarts of the daemon.                *)
THEOREM UnitsApartCorrect ==
  ASSUME JailerdConstants
  PROVE  Spec => []UnitsApart
<1>1. Init => JailInv /\ ApartInv
  <2>1. SUFFICES ASSUME Init PROVE JailInv /\ ApartInv
    OBVIOUS
  <2>2. /\ records = {} /\ pending = {} /\ inflight = {} /\ nets = {} /\ attached = {}
        /\ pc = [g \in Gens |-> "none"] /\ unit = [g \in Gens |-> "none"] /\ up = TRUE
        /\ uid = [g \in Gens |-> 0] /\ Holding = {}
    BY <2>1 DEF Init, Holding
  <2>3. \A g \in Gens : pc[g] = "none" /\ unit[g] = "none"
    BY <2>2
  <2>4. \A g \in Gens : WithIdentity(g) /\ WithNetwork(g)
    BY <2>2, <2>3 DEF WithIdentity, WithNetwork
  <2>5. QED
    BY <2>1, <2>2, <2>4, InitInv DEF ApartInv, HeldApart
<1>2. JailInv /\ ApartInv /\ [Next]_vars => JailInv' /\ ApartInv'
  BY JailStep, ApartStep
<1>3. JailInv /\ ApartInv => UnitsApart
  BY ApartUnits DEF UnitsApart
<1>4. QED
  BY <1>1, <1>2, <1>3, PTL DEF Spec

(***************************************************************************)
(* The VM manager of the agent.                                            *)
(***************************************************************************)
(* Places of a create task before its launch is recorded, those at which it *)
(* holds the lock of the run, and those of a cleanup after the release.     *)
Preparing == {"queued", "lock", "image", "disks", "launch", "persist"}
Locking == {"image", "disks", "launch", "persist"}
Leaving == {"released", "queue", "remove"}

(* What the agent knows of one VM. *)
VmSound(v) ==
  /\ Tracked(v) <=> row[v] # NoRow
  /\ task[v] \in Preparing => clean[v] = "idle" /\ mem[v].st \in Creating
  /\ v \in recon => task[v] = "idle" /\ clean[v] = "idle"
  /\ v \in delReq \cup recon \/ clean[v] # "idle" => Tracked(v)
  /\ clean[v] \in Leaving \cup {"last"} => jail[v] = "none"
  /\ jail[v] # "none" => row[v] # NoRow

(* A launch and a release hold the lock of the run. *)
LockHeld(v) ==
  /\ task[v] \in Locking => lock[RunOfVm[v]] = <<v, "create">>
  /\ clean[v] \in Leaving \cup {"last"} => lock[RunOfVm[v]] = <<v, "clean">>

(* What the holder of the lock knows of the network. *)
NetworkKnown(v) ==
  /\ task[v] \in {"launch", "persist"} => RunOfVm[v] \in net
  /\ clean[v] = "last" => \A w \in ManagedVms : RunOfVm[w] = RunOfVm[v] => jail[w] = "none"
  /\ clean[v] \in Leaving => RunOfVm[v] \notin net \/ OtherTracked(v)

ManagerInv ==
  /\ ManagerTypes /\ NetworkUnderVm /\ LastOutTakesNetwork
  /\ \A v \in ManagedVms : VmSound(v) /\ LockHeld(v) /\ NetworkKnown(v)

(* What a step says of a VM it leaves alone. *)
SameVm(w) ==
  /\ mem'[w] = mem[w] /\ row'[w] = row[w] /\ jail'[w] = jail[w]
  /\ task'[w] = task[w] /\ clean'[w] = clean[w]
  /\ (w \in recon' => w \in recon) /\ (w \in delReq' => w \in delReq)

Running(v) == jail[v] \in {"created", "up"}

(* A step of v touches no lock of another VM, ... *)
OnlyOf(v) ==
  /\ \A w \in ManagedVms \ {v} : SameVm(w)
  /\ \A r \in ManagedRuns :
       lock'[r] = lock[r] \/ {lock[r], lock'[r]} \subseteq {Free, <<v, "create">>, <<v, "clean">>}

(* ... changes the network of its run only as the holder of the lock, ... *)
NetworkOf(v) ==
  /\ net' \subseteq net \cup {RunOfVm[v]} /\ net \subseteq net' \cup {RunOfVm[v]}
  /\ RunOfVm[v] \in net' => RunOfVm[v] \in net \/
       (lock[RunOfVm[v]] = <<v, "create">> /\ Tracked(v)')
  /\ RunOfVm[v] \in net => RunOfVm[v] \in net' \/ clean[v] = "last"

(* ... and launches or forgets v only where the task or the cleanup does. *)
LifeOf(v) ==
  /\ Tracked(v) => Tracked(v)' \/ clean[v] = "remove"
  /\ jail'[v] # "none" => jail[v] # "none" \/ task[v] = "launch"
  /\ Running(v)' => Running(v) \/ task[v] = "launch"

-----------------------------------------------------------------------------
(* Nothing is tracked, launched or locked. *)
LEMMA InitManager == ASSUME AgentVmConstants PROVE ManagerInit => ManagerInv
<1> SUFFICES ASSUME ManagerInit PROVE ManagerInv
  OBVIOUS
<1> USE DEF AgentVmConstants, ManagerInit
<1>1. ManagerTypes
  BY DEF ManagerTypes, Row, TaskSteps, CleanSteps, Free
<1>2. NetworkUnderVm /\ LastOutTakesNetwork
  BY DEF NetworkUnderVm, LastOutTakesNetwork
<1>3. \A v \in ManagedVms : VmSound(v) /\ LockHeld(v) /\ NetworkKnown(v)
  BY DEF VmSound, LockHeld, NetworkKnown, Tracked, Preparing, Locking, Leaving
<1>4. QED
  BY <1>1, <1>2, <1>3 DEF ManagerInv

(* The holder of a lock is one VM, in one role. *)
LEMMA Holders ==
  ASSUME NEW v \in ManagedVms, NEW w \in ManagedVms, v # w
  PROVE  /\ <<w, "create">> \notin {Free, <<v, "create">>, <<v, "clean">>}
         /\ <<w, "clean">> \notin {Free, <<v, "create">>, <<v, "clean">>}
         /\ <<v, "create">> # <<v, "clean">> /\ Free \notin {<<v, "create">>, <<v, "clean">>}
BY DEF Free

(* A step of one VM takes no lock, network or sandbox from another one.     *)
LEMMA VmStep ==
  ASSUME AgentVmConstants, ManagerInv, NEW v \in ManagedVms, ManagerTypes',
         OnlyOf(v), NetworkOf(v), LifeOf(v),
         VmSound(v)', LockHeld(v)', NetworkKnown(v)'
  PROVE  ManagerInv'
<1> USE DEF AgentVmConstants, OnlyOf, NetworkOf, LifeOf
<1> \A w \in ManagedVms : VmSound(w) /\ LockHeld(w) /\ NetworkKnown(w)
  BY DEF ManagerInv
<1>1. ASSUME NEW w \in ManagedVms, w # v PROVE VmSound(w)'
  BY <1>1 DEF VmSound, SameVm, Tracked
<1>2. ASSUME NEW w \in ManagedVms, w # v PROVE LockHeld(w)'
  <2>1. task[w] \in Locking => lock'[RunOfVm[w]] = <<w, "create">>
    BY <1>2, Holders DEF LockHeld
  <2>2. clean[w] \in Leaving \cup {"last"} => lock'[RunOfVm[w]] = <<w, "clean">>
    BY <1>2, Holders DEF LockHeld
  <2>3. QED
    BY <1>2, <2>1, <2>2 DEF LockHeld, SameVm
<1>3. ASSUME NEW w \in ManagedVms, w # v, RunOfVm[w] = RunOfVm[v], task[w] \in Locking
      PROVE  lock[RunOfVm[v]] # <<v, "create">> /\ clean[v] \notin Leaving \cup {"last"}
  BY <1>3, Holders DEF LockHeld
<1>4. ASSUME NEW w \in ManagedVms, w # v, RunOfVm[w] = RunOfVm[v],
             clean[w] \in Leaving \cup {"last"}
      PROVE  /\ lock[RunOfVm[v]] # <<v, "create">> /\ task[v] \notin Locking
             /\ clean[v] \notin Leaving \cup {"last"}
  BY <1>4, Holders DEF LockHeld
<1>5. NetworkUnderVm'
  <2> SUFFICES ASSUME NEW w \in ManagedVms, jail'[w] \in {"created", "up"}
               PROVE  RunOfVm[w] \in net'
    BY DEF NetworkUnderVm
  <2>1. CASE w # v
    <3>1. jail[w] = jail'[w] /\ RunOfVm[w] \in net
      BY <2>1 DEF SameVm, ManagerInv, NetworkUnderVm
    <3>2. RunOfVm[w] = RunOfVm[v] => clean[v] # "last"
      BY <3>1 DEF NetworkKnown
    <3>3. QED
      BY <3>1, <3>2
  <2>2. CASE w = v
    <3>1. CASE Running(v)
      <4>1. RunOfVm[v] \in net
        BY <3>1 DEF ManagerInv, NetworkUnderVm, Running
      <4>2. clean[v] # "last"
        BY <3>1 DEF NetworkKnown, Running
      <4>3. QED
        BY <2>2, <4>1, <4>2
    <3>2. CASE task[v] = "launch"
      BY <2>2, <3>2 DEF NetworkKnown, VmSound, Preparing
    <3>3. QED
      BY <2>2, <3>1, <3>2 DEF Running
  <2>3. QED
    BY <2>1, <2>2
<1>6. LastOutTakesNetwork'
  <2> SUFFICES ASSUME NEW r \in net'
               PROVE  \E x \in ManagedVms : RunOfVm[x] = r /\ Tracked(x)'
    BY DEF LastOutTakesNetwork
  <2>1. CASE r \in net
    <3>1. PICK x \in ManagedVms : RunOfVm[x] = r /\ (Tracked(x) \/ row[x] # NoRow)
      BY <2>1 DEF ManagerInv, LastOutTakesNetwork
    <3>2. Tracked(x)
      BY <3>1 DEF VmSound
    <3>3. CASE x # v
      BY <3>1, <3>2, <3>3 DEF SameVm, Tracked
    <3>4. CASE x = v /\ Tracked(v)'
      BY <3>1, <3>4
    <3>5. CASE x = v /\ clean[v] = "remove"
      <4>1. OtherTracked(v)
        BY <2>1, <3>1, <3>5 DEF NetworkKnown, Leaving
      <4>2. PICK w \in ManagedVms \ {v} : RunOfVm[w] = RunOfVm[v] /\ Tracked(w)
        BY <4>1 DEF OtherTracked
      <4>3. Tracked(w)'
        BY <4>2 DEF SameVm, Tracked
      <4>4. QED
        BY <3>1, <3>5, <4>2, <4>3
    <3>6. QED
      BY <3>2, <3>3, <3>4, <3>5
  <2>2. CASE r \notin net
    BY <2>2
  <2>3. QED
    BY <2>1, <2>2
<1>7. ASSUME NEW w \in ManagedVms, w # v PROVE NetworkKnown(w)'
  <2>0. task'[w] = task[w] /\ clean'[w] = clean[w]
    BY <1>7 DEF SameVm
  <2>1. task[w] \in {"launch", "persist"} => RunOfVm[w] \in net'
    <3>1. task[w] \in {"launch", "persist"} =>
            RunOfVm[w] \in net /\ (RunOfVm[w] = RunOfVm[v] => clean[v] # "last")
      BY <1>7, <1>3 DEF NetworkKnown, Locking
    <3>2. QED
      BY <3>1
  <2>2. ASSUME clean[w] = "last", NEW x \in ManagedVms, RunOfVm[x] = RunOfVm[w]
        PROVE  jail'[x] = "none"
    <3>1. jail[x] = "none"
      BY <2>2 DEF NetworkKnown
    <3>2. CASE x # v
      BY <3>1, <3>2 DEF SameVm
    <3>3. CASE x = v
      <4>1. task[v] # "launch"
        BY <1>7, <1>4, <2>2, <3>3 DEF Locking
      <4>2. QED
        BY <3>1, <3>3, <4>1
    <3>4. QED
      BY <3>2, <3>3
  <2>3. ASSUME clean[w] \in Leaving PROVE RunOfVm[w] \notin net' \/ OtherTracked(w)'
    <3>1. CASE RunOfVm[w] \notin net
      <4>1. RunOfVm[w] = RunOfVm[v] => lock[RunOfVm[v]] # <<v, "create">>
        BY <1>7, <1>4, <2>3
      <4>2. QED
        BY <3>1, <4>1
    <3>2. CASE OtherTracked(w)
      <4>1. PICK x \in ManagedVms \ {w} : RunOfVm[x] = RunOfVm[w] /\ Tracked(x)
        BY <3>2 DEF OtherTracked
      <4>2. CASE x # v
        <5>1. Tracked(x)'
          BY <4>1, <4>2 DEF SameVm, Tracked
        <5>2. QED
          BY <4>1, <5>1 DEF OtherTracked
      <4>3. CASE x = v
        <5>1. clean[v] # "remove"
          BY <1>7, <1>4, <2>3, <4>1, <4>3 DEF Leaving
        <5>2. Tracked(v)'
          BY <4>1, <4>3, <5>1
        <5>3. QED
          BY <4>1, <4>3, <5>2 DEF OtherTracked
      <4>4. QED
        BY <4>2, <4>3
    <3>3. QED
      BY <2>3, <3>1, <3>2 DEF NetworkKnown
  <2>4. QED
    BY <2>0, <2>1, <2>2, <2>3 DEF NetworkKnown
<1>8. QED
  BY <1>1, <1>2, <1>5, <1>6, <1>7 DEF ManagerInv

(* A change of state keeps a VM tracked, and an untracked one as it is. *)
LEMMA StateSet ==
  ASSUME ManagerTypes, NEW v \in ManagedVms, NEW s \in States, SetState(v, s)
  PROVE  /\ mem' \in [ManagedVms -> Row] /\ row' \in [ManagedVms -> Row]
         /\ \A w \in ManagedVms \ {v} : mem'[w] = mem[w] /\ row'[w] = row[w]
         /\ Tracked(v) => /\ Tracked(v)' /\ mem'[v].st = s /\ mem'[v].gen = mem[v].gen
                          /\ row'[v] \in {row[v], mem'[v]}
         /\ ~Tracked(v) => mem' = mem /\ row' = row
<1> DEFINE new == [mem[v] EXCEPT !.st = s]
<1>1. CASE Tracked(v)
  <2>1. mem[v] \in [st : States, gen : BOOLEAN] /\ mem' = [mem EXCEPT ![v] = new]
    BY <1>1 DEF ManagerTypes, Row, SetState, Tracked
  <2>2. new \in [st : States, gen : BOOLEAN] /\ new.st = s /\ new.gen = mem[v].gen
    BY <2>1
  <2>3. "none" \notin States
    BY DEF States, Creating
  <2>4. new # NoRow /\ new \in Row
    BY <2>2, <2>3 DEF NoRow, Row
  <2> HIDE DEF new
  <2>5. row' = [row EXCEPT ![v] = mem'[v]] \/ row' = row
    BY <1>1 DEF SetState
  <2>6. QED
    BY <1>1, <2>1, <2>2, <2>4, <2>5 DEF ManagerTypes, Tracked
<1>2. CASE ~Tracked(v)
  BY <1>2 DEF SetState, ManagerTypes
<1>3. QED
  BY <1>1, <1>2

(* An untracked VM has no state. *)
LEMMA CreatingTracked ==
  ASSUME NEW v \in ManagedVms, mem[v].st \in Creating PROVE Tracked(v)
BY DEF Tracked, NoRow, Creating

(* A step that leaves the locks, the networks and the cleanups, and that    *)
(* launches and forgets nothing.                                            *)
LEMMA TaskStep ==
  ASSUME AgentVmConstants, ManagerInv, NEW v \in ManagedVms, ManagerTypes',
         \A w \in ManagedVms \ {v} : SameVm(w),
         lock' = lock, net' = net, clean' = clean,
         task'[v] \in Preparing => task'[v] = task[v] /\ mem'[v].st \in Creating,
         v \in recon' => v \in recon /\ task'[v] = "idle",
         v \in delReq' => v \in delReq \/ Tracked(v),
         Tracked(v)' <=> Tracked(v), Tracked(v)' <=> row'[v] # NoRow,
         jail'[v] # "none" => jail[v] # "none", Running(v)' => Running(v)
  PROVE  ManagerInv'
<1> USE DEF AgentVmConstants
<1>0. VmSound(v) /\ LockHeld(v) /\ NetworkKnown(v)
  BY DEF ManagerInv
<1>1. OnlyOf(v)
  BY DEF OnlyOf
<1>2. NetworkOf(v) /\ LifeOf(v)
  BY DEF NetworkOf, LifeOf
<1>3. VmSound(v)'
  BY <1>0 DEF VmSound
<1>4. LockHeld(v)'
  BY <1>0 DEF LockHeld, Locking, Preparing
<1>5. NetworkKnown(v)'
  <2>1. ASSUME clean[v] = "last", NEW w \in ManagedVms, RunOfVm[w] = RunOfVm[v]
        PROVE  jail'[w] = "none"
    BY <1>0, <2>1 DEF NetworkKnown, SameVm
  <2>2. OtherTracked(v) => OtherTracked(v)'
    BY DEF OtherTracked, SameVm, Tracked
  <2>3. QED
    BY <1>0, <2>1, <2>2 DEF NetworkKnown, Preparing
<1>6. QED
  BY <1>1, <1>2, <1>3, <1>4, <1>5, VmStep

(* A cleanup that does not go past the release, or that ends.               *)
LEMMA CleanStepKept ==
  ASSUME AgentVmConstants, ManagerInv, NEW v \in ManagedVms, ManagerTypes', OnlyOf(v),
         net' = net, clean'[v] \in {"idle", "enter", "capture", "release"},
         task'[v] \notin Preparing, v \notin recon',
         clean'[v] # "idle" \/ v \in delReq' => Tracked(v)',
         Tracked(v) => Tracked(v)' \/ clean[v] = "remove", Tracked(v)' <=> row'[v] # NoRow,
         jail'[v] # "none" => jail[v] # "none", Running(v)' => Running(v),
         jail'[v] # "none" => row'[v] # NoRow
  PROVE  ManagerInv'
<1> USE DEF AgentVmConstants
<1>1. NetworkOf(v) /\ LifeOf(v)
  BY DEF NetworkOf, LifeOf
<1>2. VmSound(v)'
  BY DEF VmSound, Leaving
<1>3. LockHeld(v)' /\ NetworkKnown(v)'
  BY DEF LockHeld, NetworkKnown, Locking, Preparing, Leaving
<1>4. QED
  BY <1>1, <1>2, <1>3, VmStep

-----------------------------------------------------------------------------
(* The create task takes the lock of its run, and keeps it until its launch *)
(* is recorded.                                                             *)
LEMMA PrepareManager ==
  ASSUME AgentVmConstants, ManagerInv, NEW v \in ManagedVms,
         BeginCaching(v) \/ TakeRunLock(v) \/ ImageFails(v) \/ ImageReady(v) \/ DisksReady(v)
  PROVE  ManagerInv'
<1> USE DEF AgentVmConstants
<1>0. ManagerTypes /\ VmSound(v) /\ LockHeld(v) /\ NetworkKnown(v)
  BY DEF ManagerInv
<1>1. ASSUME BeginCaching(v) PROVE ManagerInv'
  <2>1. /\ task[v] = "queued" /\ SetState(v, "CachingImage") /\ "CachingImage" \in States
        /\ "CachingImage" \in Creating /\ task' = [task EXCEPT ![v] = "lock"]
        /\ UNCHANGED <<jail, net, lock, clean, recon, delReq, mode, spool>>
    BY <1>1 DEF BeginCaching, TaskAt, task0, States, Creating
  <2>2. Tracked(v) /\ clean[v] = "idle" /\ task'[v] = "lock"
    BY <1>0, <2>1, CreatingTracked DEF VmSound, Preparing, ManagerTypes
  <2>3. ManagerTypes'
    BY <1>0, <1>1, <2>1, StateSet DEF ManagerTypes, TaskSteps, BeginCaching, task0
  <2>4. OnlyOf(v) /\ NetworkOf(v) /\ LifeOf(v)
    BY <1>0, <2>1, <2>2, StateSet DEF OnlyOf, NetworkOf, SameVm, ManagerTypes, LifeOf, Running
  <2>5. VmSound(v)'
    BY <1>0, <2>1, <2>2, StateSet DEF VmSound, Preparing, Leaving, Tracked
  <2>6. LockHeld(v)' /\ NetworkKnown(v)'
    BY <2>1, <2>2 DEF LockHeld, NetworkKnown, Locking, Leaving
  <2>7. QED
    BY <2>3, <2>4, <2>5, <2>6, VmStep
<1>2. ASSUME TakeRunLock(v) PROVE ManagerInv'
  <2>1. /\ task[v] = "lock" /\ UNCHANGED <<mem, row, jail, net, clean, recon, delReq, mode, spool>>
        /\ \/ task' = [task EXCEPT ![v] = "endErr"] /\ lock' = lock
           \/ /\ task' = [task EXCEPT ![v] = "image"] /\ lock[RunOfVm[v]] = Free
              /\ lock' = [lock EXCEPT ![RunOfVm[v]] = <<v, "create">>]
    BY <1>2 DEF TakeRunLock, TaskAt, task0, Lock
  <2>2. Tracked(v) /\ clean[v] = "idle" /\ task'[v] \in {"endErr", "image"}
    BY <1>0, <2>1, CreatingTracked DEF VmSound, Preparing, ManagerTypes
  <2>3. ManagerTypes'
    <3>1. lock' \in [ManagedRuns -> {Free} \cup (ManagedVms \X {"create", "clean"})]
      <4>1. <<v, "create">> \in ManagedVms \X {"create", "clean"}
        OBVIOUS
      <4>2. lock' = lock \/ lock' = [lock EXCEPT ![RunOfVm[v]] = <<v, "create">>]
        BY <2>1
      <4>3. QED
        BY <1>0, <4>1, <4>2 DEF ManagerTypes
    <3>2. task' \in [ManagedVms -> TaskSteps]
      BY <1>0, <2>1 DEF ManagerTypes, TaskSteps
    <3>3. UNCHANGED <<delReq, job, saved, desired, served, owed, resumed, inline>>
      BY <1>2 DEF TakeRunLock, task0
    <3>4. QED
      BY <1>0, <2>1, <3>1, <3>2, <3>3 DEF ManagerTypes
  <2>4. OnlyOf(v) /\ NetworkOf(v) /\ LifeOf(v)
    BY <1>0, <2>1, <2>2 DEF OnlyOf, NetworkOf, SameVm, ManagerTypes, LifeOf, Running, Tracked
  <2>5. VmSound(v)'
    BY <1>0, <2>1, <2>2 DEF VmSound, Preparing, Leaving, Tracked
  <2>6. LockHeld(v)' /\ NetworkKnown(v)'
    BY <1>0, <2>1, <2>2 DEF LockHeld, NetworkKnown, Locking, Leaving, ManagerTypes
  <2>7. QED
    BY <2>3, <2>4, <2>5, <2>6, VmStep
<1>3. ASSUME ImageFails(v) PROVE ManagerInv'
  <2>1. /\ task[v] = "image" /\ UNCHANGED <<mem, row, jail, clean, recon, delReq, mode, spool>>
        /\ net' \in {net, net \cup {RunOfVm[v]}}
        /\ task' = [task EXCEPT ![v] = "endErr"]
        /\ lock' = [r \in ManagedRuns |-> IF lock[r] = <<v, "create">> THEN Free ELSE lock[r]]
    BY <1>3 DEF ImageFails, TaskAt, Unlock
  <2>2. /\ Tracked(v) /\ clean[v] = "idle" /\ task'[v] = "endErr"
        /\ lock[RunOfVm[v]] = <<v, "create">>
    BY <1>0, <2>1, CreatingTracked DEF VmSound, LockHeld, Preparing, Locking, ManagerTypes
  <2>3. ManagerTypes'
    BY <1>0, <1>3, <2>1 DEF ManagerTypes, TaskSteps, ImageFails
  <2>4. OnlyOf(v) /\ NetworkOf(v) /\ LifeOf(v)
    BY <1>0, <2>1, <2>2 DEF OnlyOf, NetworkOf, SameVm, ManagerTypes, LifeOf, Running, Tracked
  <2>5. VmSound(v)'
    BY <1>0, <2>1, <2>2 DEF VmSound, Preparing, Leaving, Tracked
  <2>6. LockHeld(v)' /\ NetworkKnown(v)'
    BY <1>0, <2>1, <2>2 DEF LockHeld, NetworkKnown, Locking, Leaving, ManagerTypes
  <2>7. QED
    BY <2>3, <2>4, <2>5, <2>6, VmStep
<1>4. ASSUME ImageReady(v) PROVE ManagerInv'
  <2>1. /\ task[v] = "image" /\ SetState(v, "PreparingDisks") /\ "PreparingDisks" \in States
        /\ "PreparingDisks" \in Creating /\ task' = [task EXCEPT ![v] = "disks"]
        /\ UNCHANGED <<jail, net, lock, clean, recon, delReq, mode, spool>>
    BY <1>4 DEF ImageReady, TaskAt, task0, States, Creating
  <2>2. /\ Tracked(v) /\ clean[v] = "idle" /\ task'[v] = "disks"
        /\ lock[RunOfVm[v]] = <<v, "create">>
    BY <1>0, <2>1, CreatingTracked DEF VmSound, LockHeld, Preparing, Locking, ManagerTypes
  <2>3. ManagerTypes'
    BY <1>0, <1>4, <2>1, StateSet DEF ManagerTypes, TaskSteps, ImageReady, task0
  <2>4. OnlyOf(v) /\ NetworkOf(v) /\ LifeOf(v)
    BY <1>0, <2>1, <2>2, StateSet DEF OnlyOf, NetworkOf, SameVm, ManagerTypes, LifeOf, Running
  <2>5. VmSound(v)'
    BY <1>0, <2>1, <2>2, StateSet DEF VmSound, Preparing, Leaving, Tracked
  <2>6. LockHeld(v)' /\ NetworkKnown(v)'
    BY <2>1, <2>2 DEF LockHeld, NetworkKnown, Locking, Leaving
  <2>7. QED
    BY <2>3, <2>4, <2>5, <2>6, VmStep
<1>5. ASSUME DisksReady(v) PROVE ManagerInv'
  <2>1. /\ task[v] = "disks" /\ net' = net \cup {RunOfVm[v]}
        /\ UNCHANGED <<jail, clean, recon, delReq, mode, spool>>
    BY <1>5 DEF DisksReady
  <2>2. /\ Tracked(v) /\ clean[v] = "idle" /\ lock[RunOfVm[v]] = <<v, "create">>
        /\ mem[v].st \in Creating
    BY <1>0, <2>1, CreatingTracked DEF VmSound, LockHeld, Preparing, Locking, ManagerTypes
  <2>3. CASE v \in delReq
    <3>1. /\ task' = [task EXCEPT ![v] = "endErr"] /\ UNCHANGED <<mem, row>>
          /\ lock' = [r \in ManagedRuns |-> IF lock[r] = <<v, "create">> THEN Free ELSE lock[r]]
      BY <1>5, <2>3 DEF DisksReady, TaskAt, Unlock
    <3>2. ManagerTypes' /\ task'[v] = "endErr"
      BY <1>0, <1>5, <2>1, <3>1 DEF ManagerTypes, TaskSteps, DisksReady
    <3>3. OnlyOf(v) /\ NetworkOf(v) /\ LifeOf(v)
      BY <1>0, <2>1, <2>2, <3>1
      DEF OnlyOf, NetworkOf, SameVm, ManagerTypes, LifeOf, Running, Tracked
    <3>4. VmSound(v)'
      BY <1>0, <2>1, <2>2, <3>1, <3>2 DEF VmSound, Preparing, Leaving, Tracked
    <3>5. LockHeld(v)' /\ NetworkKnown(v)'
      BY <2>1, <2>2, <3>2 DEF LockHeld, NetworkKnown, Locking, Leaving
    <3>6. QED
      BY <3>2, <3>3, <3>4, <3>5, VmStep
  <2>4. CASE v \notin delReq
    <3>1. /\ task' = [task EXCEPT ![v] = "launch"] /\ SetState(v, "CreatingVm") /\ lock' = lock
          /\ "CreatingVm" \in States /\ "CreatingVm" \in Creating
      BY <1>5, <2>4 DEF DisksReady, TaskAt, States, Creating
    <3>2. ManagerTypes' /\ task'[v] = "launch"
      BY <1>0, <1>5, <2>1, <3>1, StateSet DEF ManagerTypes, TaskSteps, DisksReady
    <3>3. OnlyOf(v) /\ NetworkOf(v) /\ LifeOf(v)
      BY <1>0, <2>1, <2>2, <3>1, StateSet
      DEF OnlyOf, NetworkOf, SameVm, ManagerTypes, LifeOf, Running
    <3>4. VmSound(v)'
      BY <1>0, <2>1, <2>2, <3>1, <3>2, StateSet DEF VmSound, Preparing, Leaving, Tracked
    <3>5. LockHeld(v)' /\ NetworkKnown(v)'
      BY <2>1, <2>2, <3>1, <3>2 DEF LockHeld, NetworkKnown, Locking, Leaving
    <3>6. QED
      BY <3>2, <3>3, <3>4, <3>5, VmStep
  <2>5. QED
    BY <2>3, <2>4
<1>6. QED
  BY <1>1, <1>2, <1>3, <1>4, <1>5

(* The launch is made under the lock, with the network there. *)
LEMMA LaunchManager ==
  ASSUME AgentVmConstants, ManagerInv, NEW v \in ManagedVms, Launch(v) \/ PersistLaunch(v)
  PROVE  ManagerInv'
<1> USE DEF AgentVmConstants
<1>0. ManagerTypes /\ VmSound(v) /\ LockHeld(v) /\ NetworkKnown(v)
  BY DEF ManagerInv
<1>1. ASSUME Launch(v) PROVE ManagerInv'
  <2>1. /\ task[v] = "launch" /\ UNCHANGED <<mem, row, net, clean, recon, delReq, mode, spool>>
        /\ jail' \in {jail, [jail EXCEPT ![v] = "created"]}
        /\ \/ task' = [task EXCEPT ![v] = "persist"] /\ lock' = lock
           \/ /\ task' = [task EXCEPT ![v] = "endErr"]
              /\ lock' = [r \in ManagedRuns |-> IF lock[r] = <<v, "create">> THEN Free ELSE lock[r]]
    BY <1>1 DEF Launch, TaskAt, Unlock
  <2>2. /\ Tracked(v) /\ clean[v] = "idle" /\ lock[RunOfVm[v]] = <<v, "create">>
        /\ task'[v] \in {"persist", "endErr"} /\ RunOfVm[v] \in net
        /\ jail'[v] \in {jail[v], "created"}
    BY <1>0, <2>1, CreatingTracked
    DEF VmSound, LockHeld, NetworkKnown, Preparing, Locking, ManagerTypes
  <2>3. ManagerTypes'
    BY <1>0, <1>1, <2>1 DEF ManagerTypes, TaskSteps, Launch
  <2>4. OnlyOf(v) /\ NetworkOf(v) /\ LifeOf(v)
    BY <1>0, <2>1, <2>2 DEF OnlyOf, NetworkOf, SameVm, ManagerTypes, LifeOf, Running, Tracked
  <2>5. VmSound(v)'
    BY <1>0, <2>1, <2>2 DEF VmSound, Preparing, Leaving, Tracked
  <2>6. LockHeld(v)' /\ NetworkKnown(v)'
    BY <1>0, <2>1, <2>2 DEF LockHeld, NetworkKnown, Locking, Leaving, ManagerTypes
  <2>7. QED
    BY <2>3, <2>4, <2>5, <2>6, VmStep
<1>2. ASSUME PersistLaunch(v) PROVE ManagerInv'
  <2> DEFINE new == [mem[v] EXCEPT !.gen = TRUE]
  <2>1. /\ task[v] = "persist" /\ UNCHANGED <<jail, net, clean, recon, delReq, mode, spool>>
        /\ mem' = [mem EXCEPT ![v] = new]
        /\ row' = row \/ row' = [row EXCEPT ![v] = mem'[v]]
        /\ task' = [task EXCEPT ![v] = "boot"] \/ task' = [task EXCEPT ![v] = "endErr"]
        /\ lock' = [r \in ManagedRuns |-> IF lock[r] = <<v, "create">> THEN Free ELSE lock[r]]
    BY <1>2 DEF PersistLaunch, TaskAt, Unlock, task0
  <2>2. /\ Tracked(v) /\ clean[v] = "idle" /\ lock[RunOfVm[v]] = <<v, "create">>
        /\ task'[v] \in {"boot", "endErr"}
    BY <1>0, <2>1, CreatingTracked DEF VmSound, LockHeld, Preparing, Locking, ManagerTypes
  <2>3. mem[v] \in [st : States, gen : BOOLEAN]
    BY <1>0, <2>2 DEF ManagerTypes, Row, Tracked
  <2>4. new \in Row /\ new # NoRow
    BY <2>3 DEF Row, NoRow
  <2> HIDE DEF new
  <2>5. mem'[v] = new /\ Tracked(v)' /\ row'[v] \in {row[v], new}
    BY <1>0, <2>1, <2>4 DEF ManagerTypes, Tracked
  <2>6. ManagerTypes'
    BY <1>0, <1>2, <2>1, <2>4, <2>5 DEF ManagerTypes, TaskSteps, PersistLaunch, task0
  <2>7. OnlyOf(v) /\ NetworkOf(v) /\ LifeOf(v)
    BY <1>0, <2>1, <2>2, <2>5 DEF OnlyOf, NetworkOf, SameVm, ManagerTypes, LifeOf, Running
  <2>8. VmSound(v)'
    BY <1>0, <2>1, <2>2, <2>4, <2>5 DEF VmSound, Preparing, Leaving, Tracked
  <2>9. LockHeld(v)' /\ NetworkKnown(v)'
    BY <2>1, <2>2 DEF LockHeld, NetworkKnown, Locking, Leaving
  <2>10. QED
    BY <2>6, <2>7, <2>8, <2>9, VmStep
<1>3. QED
  BY <1>1, <1>2

(* A drain takes no other sandbox and starts none. *)
LEMMA DrainKept ==
  ASSUME ManagerTypes, NEW v \in ManagedVms, jail' = Drained(v)
  PROVE  /\ jail' \in [ManagedVms -> {"none", "created", "up", "down"}]
         /\ \A w \in ManagedVms \ {v} : jail'[w] = jail[w]
         /\ jail'[v] # "none" => jail[v] # "none"
         /\ Running(v)' => Running(v)
         /\ Exported(v) \in [ManagedVms -> {"none", "dir", "export"}]
BY DEF ManagerTypes, Drained, Running, Exported

(* After the launch the task holds no lock and forgets no VM, although a    *)
(* delete may have forgotten it meanwhile.                                  *)
LEMMA ReadyManager ==
  ASSUME AgentVmConstants, ManagerInv, NEW v \in ManagedVms,
         \/ Boot(v) \/ ReadyFails(v) \/ ReadySeen(v) \/ CommitReady(v) \/ PublishReady(v)
         \/ EndOk(v) \/ EndErr(v) \/ MarkFailed(v)
  PROVE  ManagerInv'
<1> USE DEF AgentVmConstants
<1>0. ManagerTypes /\ VmSound(v)
  BY DEF ManagerInv
<1>1. ASSUME Boot(v) PROVE ManagerInv'
  <2>1. /\ task[v] = "boot" /\ UNCHANGED <<lock, net, clean, recon, delReq, mode, spool>>
        /\ \/ /\ SetState(v, "BootingVm") /\ "BootingVm" \in States /\ jail[v] = "created"
              /\ jail' = [jail EXCEPT ![v] = "up"]
           \/ UNCHANGED <<mem, row, jail>>
        /\ task' \in {[task EXCEPT ![v] = "ready"], [task EXCEPT ![v] = "endErr"]}
    BY <1>1 DEF Boot, TaskAt, States, Creating
  <2>2. task'[v] \in {"ready", "endErr"} /\ v \notin recon
    BY <1>0, <2>1 DEF VmSound, ManagerTypes
  <2>3. ManagerTypes'
    BY <1>0, <1>1, <2>1, StateSet DEF ManagerTypes, TaskSteps, Boot
  <2>4. /\ \A w \in ManagedVms \ {v} : SameVm(w)
        /\ Tracked(v)' <=> Tracked(v)
        /\ Tracked(v)' <=> row'[v] # NoRow
    BY <1>0, <2>1, StateSet DEF SameVm, VmSound, ManagerTypes, Tracked
  <2>5. jail'[v] # "none" => jail[v] # "none"
    BY <1>0, <2>1 DEF ManagerTypes
  <2>6. Running(v)' => Running(v)
    BY <1>0, <2>1 DEF ManagerTypes, Running
  <2>7. QED
    BY <2>1, <2>2, <2>3, <2>4, <2>5, <2>6, TaskStep DEF Preparing
<1>2. ASSUME ReadyFails(v) \/ ReadySeen(v) PROVE ManagerInv'
  <2>1. /\ task[v] = "ready" /\ UNCHANGED <<mem, row, jail, lock, net, clean, recon, mode, spool>>
        /\ task' \in {[task EXCEPT ![v] = "commit"], [task EXCEPT ![v] = "endErr"]}
        /\ UNCHANGED <<delReq, job, saved, desired, served, owed, resumed, inline>>
    BY <1>2 DEF ReadyFails, ReadySeen, TaskAt, task0
  <2>2. task'[v] \in {"commit", "endErr"} /\ v \notin recon
    BY <1>0, <2>1 DEF VmSound, ManagerTypes
  <2>3. ManagerTypes'
    BY <1>0, <2>1 DEF ManagerTypes, TaskSteps
  <2>4. /\ \A w \in ManagedVms \ {v} : SameVm(w)
        /\ Tracked(v)' <=> Tracked(v)
        /\ Tracked(v)' <=> row'[v] # NoRow
        /\ Running(v)' => Running(v)
    BY <1>0, <2>1 DEF SameVm, VmSound, ManagerTypes, Tracked, Running
  <2>5. QED
    BY <2>1, <2>2, <2>3, <2>4, TaskStep DEF Preparing
<1>3. ASSUME CommitReady(v) PROVE ManagerInv'
  <2> DEFINE new == [mem[v] EXCEPT !.st = "Running"]
  <2>1. /\ task[v] = "commit" /\ UNCHANGED <<jail, lock, net, clean, recon, mode, spool>>
        /\ \/ mem[v].gen /\ mem' = [mem EXCEPT ![v] = new] /\ row' = [row EXCEPT ![v] = mem'[v]]
           \/ UNCHANGED <<mem, row>>
        /\ task' \in {[task EXCEPT ![v] = "publish"], [task EXCEPT ![v] = "endErr"]}
        /\ UNCHANGED <<delReq, job, saved, desired, served, owed, resumed, inline>>
    BY <1>3 DEF CommitReady, TaskAt, task0
  <2>2. task'[v] \in {"publish", "endErr"} /\ v \notin recon
    BY <1>0, <2>1 DEF VmSound, ManagerTypes
  <2>3. mem[v].gen => Tracked(v) /\ mem[v] \in [st : States, gen : BOOLEAN]
    BY <1>0 DEF ManagerTypes, Row, NoRow, Tracked
  <2>4. mem[v].gen => new \in Row /\ new # NoRow
    BY <2>3 DEF Row, NoRow, States, Creating
  <2> HIDE DEF new
  <2>5. ManagerTypes'
    BY <1>0, <2>1, <2>4 DEF ManagerTypes, TaskSteps
  <2>6. /\ \A w \in ManagedVms \ {v} : SameVm(w)
        /\ Tracked(v)' <=> Tracked(v)
        /\ Tracked(v)' <=> row'[v] # NoRow
        /\ Running(v)' => Running(v)
    BY <1>0, <2>1, <2>3, <2>4 DEF SameVm, VmSound, ManagerTypes, Tracked, Running
  <2>7. QED
    BY <2>1, <2>2, <2>5, <2>6, TaskStep DEF Preparing
<1>4. ASSUME PublishReady(v) \/ EndOk(v) PROVE ManagerInv'
  <2>1. /\ task[v] \in {"publish", "endOk"}
        /\ UNCHANGED <<mem, row, jail, lock, net, clean, recon, mode, spool>>
        /\ task' \in {[task EXCEPT ![v] = "endOk"], [task EXCEPT ![v] = "endErr"],
                      [task EXCEPT ![v] = "idle"]}
        /\ UNCHANGED <<delReq, job, saved, desired, owed, inline>>
        /\ served' \subseteq served \cup {v} /\ resumed' \subseteq resumed
    BY <1>4 DEF PublishReady, EndOk, TaskAt, durable
  <2>2. task'[v] \in {"endOk", "endErr", "idle"} /\ v \notin recon
    BY <1>0, <2>1 DEF VmSound, ManagerTypes
  <2>3. ManagerTypes'
    BY <1>0, <2>1 DEF ManagerTypes, TaskSteps
  <2>4. /\ \A w \in ManagedVms \ {v} : SameVm(w)
        /\ Tracked(v)' <=> Tracked(v)
        /\ Tracked(v)' <=> row'[v] # NoRow
        /\ Running(v)' => Running(v)
    BY <1>0, <2>1 DEF SameVm, VmSound, ManagerTypes, Tracked, Running
  <2>5. QED
    BY <2>1, <2>2, <2>3, <2>4, TaskStep DEF Preparing
<1>5. ASSUME EndErr(v) PROVE ManagerInv'
  <2>1. /\ task[v] = "endErr" /\ UNCHANGED <<mem, row, lock, net, clean, recon, mode>>
        /\ jail' = Drained(v) /\ spool' = Exported(v)
        /\ task' = [task EXCEPT ![v] = "abort"]
        /\ UNCHANGED <<delReq, job, saved, desired, served, owed, resumed, inline>>
    BY <1>5 DEF EndErr, TaskAt
  <2>2. task'[v] = "abort" /\ v \notin recon
    BY <1>0, <2>1 DEF VmSound, ManagerTypes
  <2>3. ManagerTypes'
    BY <1>0, <2>1, DrainKept DEF ManagerTypes, TaskSteps
  <2>4. /\ \A w \in ManagedVms \ {v} : SameVm(w)
        /\ Tracked(v)' <=> Tracked(v)
        /\ Tracked(v)' <=> row'[v] # NoRow
    BY <1>0, <2>1, DrainKept DEF SameVm, VmSound, ManagerTypes, Tracked
  <2>5. QED
    BY <1>0, <2>1, <2>2, <2>3, <2>4, DrainKept, TaskStep DEF Preparing
<1>6. ASSUME MarkFailed(v) PROVE ManagerInv'
  <2>1. /\ task[v] = "abort" /\ UNCHANGED <<lock, net, clean, recon, delReq, mode, spool>>
        /\ jail' \in {jail, [jail EXCEPT ![v] = "none"]}
        /\ SetState(v, "Failed") /\ "Failed" \in States
        /\ task' = [task EXCEPT ![v] = "idle"] /\ resumed' = resumed \ {v}
        /\ UNCHANGED <<delReq, job, saved, desired, served, owed, inline>>
    BY <1>6 DEF MarkFailed, TaskAt, States
  <2>2. task'[v] = "idle" /\ v \notin recon
    BY <1>0, <2>1 DEF VmSound, ManagerTypes
  <2>3. ManagerTypes'
    BY <1>0, <2>1, StateSet DEF ManagerTypes, TaskSteps
  <2>4. /\ \A w \in ManagedVms \ {v} : SameVm(w)
        /\ Tracked(v)' <=> Tracked(v)
        /\ Tracked(v)' <=> row'[v] # NoRow
    BY <1>0, <2>1, StateSet DEF SameVm, VmSound, ManagerTypes, Tracked
  <2>5. jail'[v] \in {jail[v], "none"}
    BY <1>0, <2>1 DEF ManagerTypes
  <2>6. QED
    BY <2>1, <2>2, <2>3, <2>4, <2>5, TaskStep DEF Preparing, Running
<1>7. QED
  BY <1>1, <1>2, <1>3, <1>4, <1>5, <1>6

-----------------------------------------------------------------------------
(* A create reserves a name of which nothing is left. *)
LEMMA QueueManager ==
  ASSUME AgentVmConstants, ManagerInv, NEW v \in ManagedVms, QueueVmCreate(v)
  PROVE  ManagerInv'
<1> USE DEF AgentVmConstants
<1>0. ManagerTypes /\ VmSound(v) /\ LockHeld(v) /\ NetworkKnown(v)
  BY DEF ManagerInv
<1> DEFINE new == [st |-> "Queued", gen |-> FALSE]
<1>1. /\ mem[v] = NoRow /\ mem' = [mem EXCEPT ![v] = new] /\ row' = [row EXCEPT ![v] = mem'[v]]
      /\ spool' = [spool EXCEPT ![v] = "dir"] /\ task' = [task EXCEPT ![v] = "queued"]
      /\ UNCHANGED <<jail, net, lock, clean, recon, delReq, mode>> /\ recon = {}
      /\ UNCHANGED <<job, desired, resumed, inline>>
      /\ saved' \subseteq saved /\ served' \subseteq served /\ owed' \subseteq owed
  BY DEF QueueVmCreate, TaskAt
<1>2. new \in Row /\ new # NoRow /\ new.st \in Creating
  BY DEF Row, NoRow, States, Creating
<1> HIDE DEF new
<1>3. clean[v] = "idle" /\ mem'[v] = new /\ row'[v] = new /\ task'[v] = "queued"
  BY <1>0, <1>1 DEF VmSound, Tracked, ManagerTypes
<1>4. ManagerTypes'
  BY <1>0, <1>1, <1>2 DEF ManagerTypes, TaskSteps
<1>5. OnlyOf(v) /\ NetworkOf(v) /\ LifeOf(v)
  BY <1>0, <1>1, <1>2, <1>3
  DEF OnlyOf, NetworkOf, SameVm, ManagerTypes, LifeOf, Running, Tracked
<1>6. VmSound(v)'
  BY <1>0, <1>1, <1>2, <1>3 DEF VmSound, Preparing, Leaving, Tracked
<1>7. LockHeld(v)' /\ NetworkKnown(v)'
  BY <1>1, <1>3 DEF LockHeld, NetworkKnown, Locking, Leaving
<1>8. QED
  BY <1>4, <1>5, <1>6, <1>7, VmStep

(* A cleanup begins: of a VM that no create task prepares, and that is not  *)
(* left to the startup reconcile.                                           *)
LEMMA BeginsManager ==
  ASSUME AgentVmConstants, ManagerInv, NEW v \in ManagedVms,
         TakeDeleteRequest(v) \/ DeleteVm(v) \/ SweepVm(v) \/ ReconcileCleanup(v)
  PROVE  ManagerInv'
<1> USE DEF AgentVmConstants
<1>0. ManagerTypes /\ VmSound(v)
  BY DEF ManagerInv
<1>1. ASSUME TakeDeleteRequest(v) PROVE ManagerInv'
  <2>1. /\ task[v] \in {"endOk", "endErr"} /\ v \in delReq
        /\ UNCHANGED <<mem, row, net, lock, recon>>
        /\ jail' = Drained(v) /\ spool' = Exported(v)
        /\ task' = [task EXCEPT ![v] = "idle"] /\ clean' = [clean EXCEPT ![v] = "enter"]
        /\ mode' = [mode EXCEPT ![v] = "archive"]
        /\ delReq' = delReq \ {v} /\ resumed' = resumed \ {v} /\ inline' = inline \cup {v}
        /\ UNCHANGED <<job, saved, desired, served, owed>>
    BY <1>1 DEF TakeDeleteRequest, TaskAt
  <2>2. Tracked(v) /\ v \notin recon /\ task'[v] = "idle" /\ clean'[v] = "enter"
    BY <1>0, <2>1 DEF VmSound, ManagerTypes
  <2>3. ManagerTypes'
    BY <1>0, <2>1, DrainKept DEF ManagerTypes, TaskSteps, CleanSteps
  <2>4. OnlyOf(v)
    BY <1>0, <2>1, DrainKept DEF OnlyOf, SameVm, ManagerTypes
  <2>5. QED
    BY <1>0, <2>1, <2>2, <2>3, <2>4, DrainKept, CleanStepKept DEF VmSound, Tracked, Preparing
<1>2. ASSUME DeleteVm(v), mem[v].st \in Creating PROVE ManagerInv'
  <2>1. /\ UNCHANGED <<mem, row, net, lock, recon, task, clean, mode>>
        /\ jail' = Drained(v) /\ spool' = Exported(v)
        /\ delReq' = delReq \cup {v}
        /\ UNCHANGED <<job, saved, desired, served, owed, resumed, inline>>
    BY <1>2 DEF DeleteVm, clean0, Creating
  <2>2. ManagerTypes'
    BY <1>0, <2>1, DrainKept DEF ManagerTypes
  <2>3. \A w \in ManagedVms \ {v} : SameVm(w)
    BY <1>0, <2>1, DrainKept DEF SameVm
  <2>4. QED
    BY <1>0, <1>2, <2>1, <2>2, <2>3, DrainKept, TaskStep, CreatingTracked DEF VmSound, Tracked
<1>3. ASSUME DeleteVm(v), mem[v].st \notin Creating PROVE ManagerInv'
  <2>1. /\ recon = {} /\ Tracked(v) /\ SetState(v, "DeletingVm") /\ "DeletingVm" \in States
        /\ UNCHANGED <<net, lock, recon, task, jail, spool, delReq>>
        /\ clean' = [clean EXCEPT ![v] = "enter"] /\ mode' = [mode EXCEPT ![v] = "archive"]
        /\ inline' \subseteq inline /\ owed' \subseteq owed \cup {v}
        /\ UNCHANGED <<job, saved, desired, served, resumed>>
    BY <1>3 DEF DeleteVm, clean0, States
  <2>2. ManagerTypes' /\ clean'[v] = "enter"
    BY <1>0, <2>1, StateSet DEF ManagerTypes, CleanSteps
  <2>3. OnlyOf(v)
    BY <1>0, <2>1, StateSet DEF OnlyOf, SameVm, ManagerTypes
  <2>4. Tracked(v)' /\ row'[v] # NoRow
    BY <1>0, <2>1, StateSet DEF VmSound, Tracked
  <2>5. task[v] \notin Preparing
    BY <1>0, <1>3 DEF VmSound
  <2>6. QED
    BY <1>0, <2>1, <2>2, <2>3, <2>4, <2>5, CleanStepKept DEF Running
<1>4. ASSUME SweepVm(v) PROVE ManagerInv'
  <2>1. /\ recon = {} /\ Tracked(v) /\ mem[v].st \notin Creating
        /\ UNCHANGED <<mem, row, net, lock, recon, task, jail, spool, delReq>>
        /\ clean' = [clean EXCEPT ![v] = "enter"] /\ mode' = [mode EXCEPT ![v] = "archive"]
        /\ inline' \subseteq inline
        /\ UNCHANGED <<job, saved, desired, served, owed, resumed>>
    BY <1>4 DEF SweepVm, clean0, durable
  <2>2. ManagerTypes' /\ clean'[v] = "enter"
    BY <1>0, <2>1 DEF ManagerTypes, CleanSteps
  <2>3. OnlyOf(v)
    BY <1>0, <2>1 DEF OnlyOf, SameVm, ManagerTypes
  <2>4. Tracked(v)' /\ row'[v] # NoRow /\ task[v] \notin Preparing
    BY <1>0, <2>1 DEF VmSound, Tracked
  <2>5. QED
    BY <1>0, <2>1, <2>2, <2>3, <2>4, CleanStepKept DEF Running
<1>5. ASSUME ReconcileCleanup(v) PROVE ManagerInv'
  <2>1. /\ v \in recon /\ recon' = recon \ {v}
        /\ UNCHANGED <<mem, row, net, lock, task, jail, spool, delReq>>
        /\ clean' = [clean EXCEPT ![v] = "enter"]
        /\ mode' = [mode EXCEPT ![v] = StartupMode(mem[v].st)]
        /\ inline' \subseteq inline
        /\ UNCHANGED <<job, saved, desired, served, owed, resumed>>
    BY <1>5 DEF ReconcileCleanup, Visiting, durable
  <2>2. ManagerTypes' /\ clean'[v] = "enter"
    BY <1>0, <2>1 DEF ManagerTypes, CleanSteps, StartupMode
  <2>3. OnlyOf(v)
    BY <1>0, <2>1 DEF OnlyOf, SameVm, ManagerTypes
  <2>4. Tracked(v)' /\ row'[v] # NoRow /\ task[v] \notin Preparing
    BY <1>0, <2>1 DEF VmSound, Tracked, Preparing
  <2>5. QED
    BY <1>0, <2>1, <2>2, <2>3, <2>4, CleanStepKept DEF Running
<1>6. QED
  BY <1>1, <1>2, <1>3, <1>4, <1>5

(* A cleanup moves on, or ends with the VM kept or forgotten; the lock is   *)
(* held from the release on.                                                *)
LEMMA CleanManager ==
  ASSUME AgentVmConstants, ManagerInv, NEW v \in ManagedVms,
         CleanEnter(v) \/ Capture(v) \/ CleanupFails(v) \/ LocalCleanup(v)
  PROVE  ManagerInv'
<1> USE DEF AgentVmConstants
<1>0. ManagerTypes /\ VmSound(v)
  BY DEF ManagerInv
<1>1. clean[v] # "idle"
  BY DEF CleanEnter, Capture, CleanupFails, LocalCleanup
<1>2. Tracked(v) /\ row[v] # NoRow /\ v \notin recon /\ task[v] \notin Preparing
  BY <1>0, <1>1 DEF VmSound
<1>3. \A w \in ManagedVms : Unlock(w, "clean") =>
        /\ lock' \in [ManagedRuns -> {Free} \cup (ManagedVms \X {"create", "clean"})]
        /\ \A r \in ManagedRuns :
             \/ lock'[r] = lock[r]
             \/ {lock[r], lock'[r]} \subseteq {Free, <<w, "create">>, <<w, "clean">>}
  BY <1>0 DEF Unlock, ManagerTypes
<1>4. ASSUME CleanEnter(v) PROVE ManagerInv'
  <2>1. /\ UNCHANGED <<net, lock, recon, task, delReq, mode>>
        /\ UNCHANGED <<job, saved, desired, served, owed, resumed, inline>>
        /\ \/ /\ SetState(v, "DeletingVm") /\ "DeletingVm" \in States /\ UNCHANGED <<jail, spool>>
              /\ clean' = [clean EXCEPT ![v] = "capture"]
           \/ /\ jail' = Drained(v) /\ spool' = Exported(v) /\ UNCHANGED <<mem, row>>
              /\ clean' = [clean EXCEPT ![v] = "release"]
    BY <1>2, <1>4 DEF CleanEnter, clean0, States
  <2>2. ManagerTypes'
    BY <1>0, <2>1, StateSet, DrainKept DEF ManagerTypes, CleanSteps
  <2>3. clean'[v] \in {"capture", "release"}
    BY <1>0, <2>1 DEF ManagerTypes
  <2>4. OnlyOf(v)
    BY <1>0, <2>1, StateSet, DrainKept DEF OnlyOf, SameVm, ManagerTypes
  <2>5. Tracked(v)' /\ row'[v] # NoRow
    BY <1>0, <1>2, <2>1, StateSet DEF Tracked
  <2>6. (jail'[v] # "none" => jail[v] # "none") /\ (Running(v)' => Running(v))
    BY <1>0, <2>1, DrainKept DEF Running
  <2>7. QED
    BY <1>2, <2>1, <2>2, <2>3, <2>4, <2>5, <2>6, CleanStepKept
<1>5. ASSUME Capture(v) PROVE ManagerInv'
  <2>1. /\ UNCHANGED <<net, recon, task, delReq, mode>> /\ jail' = Drained(v)
        /\ UNCHANGED <<job, saved, desired, served, owed, resumed, inline>>
        /\ spool' = [spool EXCEPT ![v] = IF Exported(v)[v] = "none" THEN "dir" ELSE Exported(v)[v]]
        /\ \/ UNCHANGED <<mem, row, lock>> /\ clean' = [clean EXCEPT ![v] = "release"]
           \/ /\ Unlock(v, "clean") /\ clean' = [clean EXCEPT ![v] = "idle"]
              /\ \E s \in States : SetState(v, s)
    BY <1>5 DEF Capture, CleanFails, clean0, States
  <2>2. spool' \in [ManagedVms -> {"none", "dir", "export"}]
    BY <1>0, <2>1, DrainKept DEF ManagerTypes
  <2>3. /\ lock' \in [ManagedRuns -> {Free} \cup (ManagedVms \X {"create", "clean"})]
        /\ \A r \in ManagedRuns :
             \/ lock'[r] = lock[r]
             \/ {lock[r], lock'[r]} \subseteq {Free, <<v, "create">>, <<v, "clean">>}
    BY <1>0, <1>3, <2>1 DEF ManagerTypes
  <2>4. /\ mem' \in [ManagedVms -> Row] /\ row' \in [ManagedVms -> Row]
        /\ \A w \in ManagedVms \ {v} : mem'[w] = mem[w] /\ row'[w] = row[w]
        /\ Tracked(v)' /\ row'[v] # NoRow
    BY <1>0, <1>2, <2>1, StateSet DEF ManagerTypes, Tracked
  <2>5. /\ clean' \in [ManagedVms -> CleanSteps] /\ clean'[v] \in {"idle", "release"}
        /\ \A w \in ManagedVms \ {v} : clean'[w] = clean[w]
    BY <1>0, <2>1 DEF ManagerTypes, CleanSteps
  <2>6. ManagerTypes'
    BY <1>0, <2>1, <2>2, <2>3, <2>4, <2>5, DrainKept DEF ManagerTypes
  <2>7. OnlyOf(v)
    BY <1>0, <2>1, <2>3, <2>4, <2>5, DrainKept DEF OnlyOf, SameVm
  <2>8. (jail'[v] # "none" => jail[v] # "none") /\ (Running(v)' => Running(v))
    BY <1>0, <2>1, DrainKept
  <2>9. QED
    BY <1>2, <2>1, <2>4, <2>5, <2>6, <2>7, <2>8, CleanStepKept
<1>6. ASSUME CleanupFails(v) PROVE ManagerInv'
  <2> DEFINE new == [mem[v] EXCEPT !.st = IF v \in inline THEN "Failed" ELSE "DeleteFailed"]
  <2>1. /\ UNCHANGED <<net, recon, task, delReq, mode, jail, spool>>
        /\ UNCHANGED <<job, saved, desired, served, owed, resumed, inline>>
        /\ mem' = [mem EXCEPT ![v] = new] /\ row' = [row EXCEPT ![v] = mem'[v]]
        /\ Unlock(v, "clean") /\ clean' = [clean EXCEPT ![v] = "idle"]
    BY <1>6 DEF CleanupFails, clean0
  <2>2. mem[v] \in [st : States, gen : BOOLEAN]
    BY <1>0, <1>2 DEF ManagerTypes, Row, Tracked
  <2>3. new \in Row /\ new # NoRow
    BY <2>2 DEF Row, NoRow, States, Creating
  <2> HIDE DEF new
  <2>4. ManagerTypes' /\ clean'[v] = "idle"
    BY <1>0, <1>3, <2>1, <2>3 DEF ManagerTypes, CleanSteps
  <2>5. OnlyOf(v)
    BY <1>0, <1>3, <2>1 DEF OnlyOf, SameVm, ManagerTypes
  <2>6. Tracked(v)' /\ row'[v] # NoRow
    BY <1>0, <2>1, <2>3 DEF ManagerTypes, Tracked
  <2>7. QED
    BY <1>2, <2>1, <2>4, <2>5, <2>6, CleanStepKept DEF Running
<1>7. ASSUME LocalCleanup(v) PROVE ManagerInv'
  <2>1. /\ UNCHANGED <<net, recon, task, mode, jail>> /\ delReq' = delReq \ {v}
        /\ UNCHANGED <<job, saved, desired, served, owed, resumed, inline>>
        /\ spool' \in {spool, [spool EXCEPT ![v] = "none"]} /\ clean[v] = "remove"
        /\ mem' = [mem EXCEPT ![v] = NoRow] /\ row' = [row EXCEPT ![v] = NoRow]
        /\ Unlock(v, "clean") /\ clean' = [clean EXCEPT ![v] = "idle"]
    BY <1>7 DEF LocalCleanup, clean0
  <2>2. NoRow \in Row /\ jail[v] = "none"
    BY <1>0, <2>1 DEF Row, VmSound, Leaving
  <2>3. ManagerTypes' /\ clean'[v] = "idle" /\ ~Tracked(v)' /\ row'[v] = NoRow
    BY <1>0, <1>3, <2>1, <2>2 DEF ManagerTypes, CleanSteps, Tracked
  <2>4. OnlyOf(v)
    BY <1>0, <1>3, <2>1 DEF OnlyOf, SameVm, ManagerTypes
  <2>5. QED
    BY <1>2, <2>1, <2>2, <2>3, <2>4, CleanStepKept DEF Running
<1>8. QED
  BY <1>4, <1>5, <1>6, <1>7

(* The release decides under the lock; what it knows of the network stays   *)
(* true until the VM is forgotten, since no other VM of the run can launch. *)
LEMMA ReleaseManager ==
  ASSUME AgentVmConstants, ManagerInv, NEW v \in ManagedVms,
         Release(v) \/ RemoveRunNetwork(v) \/ SetArchiving(v) \/ QueueArchiveJob(v)
  PROVE  ManagerInv'
<1> USE DEF AgentVmConstants
<1>0. ManagerTypes /\ VmSound(v) /\ LockHeld(v) /\ NetworkKnown(v)
  BY DEF ManagerInv
<1>1. clean[v] # "idle"
  BY DEF Release, RemoveRunNetwork, SetArchiving, QueueArchiveJob
<1>2. Tracked(v) /\ row[v] # NoRow /\ v \notin recon /\ task[v] \notin Preparing
  BY <1>0, <1>1 DEF VmSound
<1>3. UNCHANGED <<task, recon, delReq, mode, saved, desired, served, owed, resumed, inline>>
  BY DEF Release, RemoveRunNetwork, SetArchiving, QueueArchiveJob, clean0
<1>4. ASSUME Release(v) PROVE ManagerInv'
  <2>1. /\ lock[RunOfVm[v]] = Free /\ lock' = [lock EXCEPT ![RunOfVm[v]] = <<v, "clean">>]
        /\ jail' = [jail EXCEPT ![v] = "none"] /\ spool' = Exported(v)
        /\ clean' = [clean EXCEPT ![v] = IF OtherTracked(v) THEN "released" ELSE "last"]
        /\ UNCHANGED <<mem, row, net, job>>
    BY <1>4 DEF Release, Lock
  <2>2. /\ lock' \in [ManagedRuns -> {Free} \cup (ManagedVms \X {"create", "clean"})]
        /\ lock'[RunOfVm[v]] = <<v, "clean">>
    <3>1. <<v, "clean">> \in ManagedVms \X {"create", "clean"}
      OBVIOUS
    <3>2. QED
      BY <1>0, <2>1, <3>1 DEF ManagerTypes
  <2>3. spool' \in [ManagedVms -> {"none", "dir", "export"}]
    BY <1>0, <2>1 DEF ManagerTypes, Exported
  <2>4. /\ clean' \in [ManagedVms -> CleanSteps] /\ jail'[v] = "none"
        /\ clean'[v] = IF OtherTracked(v) THEN "released" ELSE "last"
    BY <1>0, <2>1 DEF ManagerTypes, CleanSteps
  <2>5. ManagerTypes'
    BY <1>0, <1>3, <2>1, <2>2, <2>3, <2>4 DEF ManagerTypes
  <2>6. OnlyOf(v) /\ NetworkOf(v) /\ LifeOf(v)
    BY <1>0, <1>3, <2>1, <2>4 DEF OnlyOf, NetworkOf, LifeOf, SameVm, ManagerTypes, Running, Tracked
  <2>7. VmSound(v)'
    BY <1>2, <1>3, <2>1, <2>4 DEF VmSound, Tracked
  <2>8. LockHeld(v)'
    BY <1>2, <1>3, <2>2 DEF LockHeld, Locking, Preparing
  <2>9. NetworkKnown(v)'
    <3>1. task'[v] \notin {"launch", "persist"}
      BY <1>2, <1>3 DEF Preparing
    <3>2. ASSUME ~OtherTracked(v), NEW w \in ManagedVms, RunOfVm[w] = RunOfVm[v]
          PROVE  jail'[w] = "none"
      <4>1. w # v => row[w] = NoRow /\ jail[w] = "none"
        BY <3>2 DEF OtherTracked, ManagerInv, VmSound
      <4>2. QED
        BY <1>0, <2>1, <4>1 DEF ManagerTypes
    <3>3. OtherTracked(v)' <=> OtherTracked(v)
      BY <2>1 DEF OtherTracked, Tracked
    <3>4. QED
      BY <2>4, <3>1, <3>2, <3>3 DEF NetworkKnown, Leaving
  <2>10. QED
    BY <2>5, <2>6, <2>7, <2>8, <2>9, VmStep
<1>5. ASSUME RemoveRunNetwork(v) PROVE ManagerInv'
  <2>1. /\ clean[v] = "last" /\ net' = net \ {RunOfVm[v]}
        /\ clean' = [clean EXCEPT ![v] = "released"]
        /\ UNCHANGED <<mem, row, jail, spool, job, lock>>
    BY <1>5 DEF RemoveRunNetwork
  <2>2. ManagerTypes' /\ clean'[v] = "released"
    BY <1>0, <1>3, <2>1 DEF ManagerTypes, CleanSteps
  <2>3. OnlyOf(v) /\ NetworkOf(v) /\ LifeOf(v)
    BY <1>0, <1>3, <2>1 DEF OnlyOf, NetworkOf, LifeOf, SameVm, ManagerTypes, Running, Tracked
  <2>4. VmSound(v)'
    BY <1>0, <1>2, <1>3, <2>1, <2>2 DEF VmSound, Tracked, Leaving
  <2>5. LockHeld(v)' /\ NetworkKnown(v)'
    BY <1>0, <1>2, <1>3, <2>1, <2>2 DEF LockHeld, NetworkKnown, Locking, Preparing, Leaving
  <2>6. QED
    BY <2>2, <2>3, <2>4, <2>5, VmStep
<1>6. ASSUME SetArchiving(v) \/ QueueArchiveJob(v) PROVE ManagerInv'
  <2>1. /\ clean[v] \in Leaving /\ UNCHANGED <<jail, spool, net, lock>>
        /\ clean' \in {[clean EXCEPT ![v] = "queue"], [clean EXCEPT ![v] = "remove"]}
        /\ SetState(v, "ArchivingArtifacts") \/ UNCHANGED <<mem, row>>
        /\ job' \subseteq job \cup {v} /\ "ArchivingArtifacts" \in States
    BY <1>6 DEF SetArchiving, QueueArchiveJob, Leaving, States
  <2>2. /\ mem' \in [ManagedVms -> Row] /\ row' \in [ManagedVms -> Row]
        /\ \A w \in ManagedVms \ {v} : mem'[w] = mem[w] /\ row'[w] = row[w]
        /\ Tracked(v)' /\ row'[v] # NoRow
    BY <1>0, <1>2, <2>1, StateSet DEF ManagerTypes, Tracked
  <2>3. /\ clean' \in [ManagedVms -> CleanSteps] /\ clean'[v] \in Leaving
        /\ \A w \in ManagedVms \ {v} : clean'[w] = clean[w]
    BY <1>0, <2>1 DEF ManagerTypes, CleanSteps, Leaving
  <2>4. ManagerTypes'
    BY <1>0, <1>3, <2>1, <2>2, <2>3 DEF ManagerTypes
  <2>5. OnlyOf(v) /\ NetworkOf(v) /\ LifeOf(v)
    BY <1>0, <1>3, <2>1, <2>2, <2>3 DEF OnlyOf, NetworkOf, LifeOf, SameVm, Running
  <2>6. VmSound(v)'
    BY <1>0, <1>2, <1>3, <2>1, <2>2, <2>3 DEF VmSound
  <2>7. LockHeld(v)'
    BY <1>0, <1>2, <1>3, <2>1, <2>3 DEF LockHeld, Locking, Preparing
  <2>8. NetworkKnown(v)'
    <3>1. OtherTracked(v) => OtherTracked(v)'
      BY <2>2 DEF OtherTracked, Tracked
    <3>2. QED
      BY <1>0, <1>2, <1>3, <2>1, <2>3, <3>1 DEF NetworkKnown, Preparing, Leaving
  <2>9. QED
    BY <2>4, <2>5, <2>6, <2>7, <2>8, VmStep
<1>7. QED
  BY <1>4, <1>5, <1>6

-----------------------------------------------------------------------------
(* The control plane, the archive worker, a visit of the startup reconcile  *)
(* that leaves the VM, and a VM that dies: no lock, network or row changes. *)
LEMMA OtherManager ==
  ASSUME AgentVmConstants, ManagerInv, NEW v \in ManagedVms,
         \/ Want(v) \/ Unwant(v) \/ UploadArchive(v)
         \/ ReconcileLive(v) \/ ReconcileInconclusive(v) \/ VmDies(v)
  PROVE  ManagerInv'
<1> USE DEF AgentVmConstants
<1>0. ManagerTypes /\ VmSound(v)
  BY DEF ManagerInv
<1>1. ASSUME Want(v) \/ Unwant(v) \/ UploadArchive(v) \/ VmDies(v) PROVE ManagerInv'
  <2>1. /\ UNCHANGED <<mem, row, net, lock, task, clean, mode, recon, delReq, resumed, inline>>
        /\ UNCHANGED <<served, owed>>
        /\ desired' \subseteq desired \cup {v} /\ job' \subseteq job
        /\ saved' \subseteq saved \cup {v}
        /\ spool' = spool \/ spool' = [spool EXCEPT ![v] = "none"]
             \/ spool' = [spool EXCEPT ![v] = "export"]
        /\ jail' = jail \/ (jail[v] = "up" /\ jail' = [jail EXCEPT ![v] = "down"])
    BY <1>1 DEF Want, Unwant, UploadArchive, VmDies, agent, durable
  <2>2. ManagerTypes'
    <3>1. spool' \in [ManagedVms -> {"none", "dir", "export"}]
      BY <1>0, <2>1 DEF ManagerTypes
    <3>2. jail' \in [ManagedVms -> {"none", "created", "up", "down"}]
      BY <1>0, <2>1 DEF ManagerTypes
    <3>3. QED
      BY <1>0, <2>1, <3>1, <3>2 DEF ManagerTypes
  <2>3. \A w \in ManagedVms \ {v} : SameVm(w)
    BY <1>0, <2>1 DEF ManagerTypes, SameVm
  <2>4. (jail'[v] # "none" => jail[v] # "none") /\ (Running(v)' => Running(v))
    BY <1>0, <2>1 DEF ManagerTypes, Running
  <2>5. QED
    BY <1>0, <2>1, <2>2, <2>3, <2>4, TaskStep DEF VmSound, Tracked
<1>2. ASSUME ReconcileLive(v) PROVE ManagerInv'
  <2>1. /\ v \in recon /\ recon' = recon \ {v} /\ jail[v] \in {"created", "up"}
        /\ jail' = [jail EXCEPT ![v] = "up"] /\ task' = [task EXCEPT ![v] = "ready"]
        /\ UNCHANGED <<mem, row, net, spool, lock, clean, mode, delReq, inline>>
        /\ UNCHANGED <<job, saved, desired, served, owed>> /\ resumed' = resumed \cup {v}
    BY <1>2 DEF ReconcileLive, Visiting, TaskAt
  <2>2. ManagerTypes' /\ task'[v] = "ready"
    BY <1>0, <2>1 DEF ManagerTypes, TaskSteps
  <2>3. \A w \in ManagedVms \ {v} : SameVm(w)
    BY <1>0, <2>1 DEF ManagerTypes, SameVm
  <2>4. (jail'[v] # "none" => jail[v] # "none") /\ (Running(v)' => Running(v))
    BY <1>0, <2>1 DEF ManagerTypes, Running
  <2>5. QED
    BY <1>0, <2>1, <2>2, <2>3, <2>4, TaskStep DEF VmSound, Tracked, Preparing
<1>3. ASSUME ReconcileInconclusive(v) PROVE ManagerInv'
  <2>1. /\ v \in recon /\ recon' = recon \ {v} /\ SetState(v, "Failed") /\ "Failed" \in States
        /\ UNCHANGED <<jail, task, net, spool, lock, clean, mode, delReq, inline>>
        /\ UNCHANGED <<job, saved, desired, served, owed, resumed>>
    BY <1>3 DEF ReconcileInconclusive, Visiting, States
  <2>2. task[v] = "idle" /\ Tracked(v) /\ row[v] # NoRow
    BY <1>0, <2>1 DEF VmSound
  <2>3. ManagerTypes'
    BY <1>0, <2>1, StateSet DEF ManagerTypes
  <2>4. (\A w \in ManagedVms \ {v} : SameVm(w)) /\ Tracked(v)' /\ row'[v] # NoRow
    BY <1>0, <2>1, <2>2, StateSet DEF SameVm, Tracked
  <2>5. QED
    BY <2>1, <2>2, <2>3, <2>4, TaskStep DEF Preparing, Running
<1>4. QED
  BY <1>1, <1>2, <1>3

(* An agent that restarts tracks exactly the rows it left. *)
LEMMA RestartManager ==
  ASSUME AgentVmConstants, ManagerInv, ManagerRestart PROVE ManagerInv'
<1> USE DEF AgentVmConstants
<1>0. ManagerTypes /\ \A v \in ManagedVms : VmSound(v)
  BY DEF ManagerInv
<1>1. /\ mem' = row /\ UNCHANGED <<row, jail, net, spool, mode, job, saved, desired, served, owed>>
      /\ recon' = {v \in ManagedVms : row[v] # NoRow}
      /\ task' = [v \in ManagedVms |-> "idle"] /\ clean' = [v \in ManagedVms |-> "idle"]
      /\ lock' = [r \in ManagedRuns |-> Free] /\ delReq' = {} /\ resumed' = {} /\ inline' = {}
  BY DEF ManagerRestart, durable
<1>2. ManagerTypes'
  BY <1>0, <1>1 DEF ManagerTypes, TaskSteps, CleanSteps
<1>3. NetworkUnderVm'
  BY <1>1 DEF ManagerInv, NetworkUnderVm
<1>4. LastOutTakesNetwork'
  BY <1>0, <1>1 DEF ManagerInv, LastOutTakesNetwork, VmSound
<1>5. \A v \in ManagedVms : VmSound(v)'
  BY <1>0, <1>1 DEF VmSound, Tracked, Preparing, Leaving
<1>6. \A v \in ManagedVms : LockHeld(v)' /\ NetworkKnown(v)'
  BY <1>1 DEF LockHeld, NetworkKnown, Locking, Leaving
<1>7. QED
  BY <1>2, <1>3, <1>4, <1>5, <1>6 DEF ManagerInv

(* Every step keeps the invariant. *)
LEMMA NextManager ==
  ASSUME AgentVmConstants, ManagerInv, [ManagerNext]_managerVars PROVE ManagerInv'
<1>1. CASE UNCHANGED managerVars
  BY <1>1 DEF managerVars, agent, durable, ManagerInv, ManagerTypes, NetworkUnderVm,
     LastOutTakesNetwork, VmSound, LockHeld, NetworkKnown, Tracked, OtherTracked
<1>2. CASE ManagerRestart
  BY <1>2, RestartManager
<1>3. ASSUME NEW v \in ManagedVms,
             \/ Want(v) \/ Unwant(v) \/ QueueVmCreate(v)
             \/ CreateStep(v) \/ DeleteVm(v) \/ SweepVm(v)
             \/ CleanStep(v) \/ CleanupFails(v) \/ UploadArchive(v)
             \/ Reconcile(v) \/ ReconcileInconclusive(v) \/ VmDies(v)
      PROVE  ManagerInv'
  <2>1. CASE CreateStep(v)
    BY <2>1, PrepareManager, LaunchManager, ReadyManager, BeginsManager DEF CreateStep
  <2>2. CASE CleanStep(v)
    BY <2>2, CleanManager, ReleaseManager DEF CleanStep
  <2>3. CASE Reconcile(v)
    BY <2>3, OtherManager, BeginsManager DEF Reconcile
  <2>4. CASE Want(v) \/ Unwant(v) \/ UploadArchive(v) \/ ReconcileInconclusive(v) \/ VmDies(v)
    BY <2>4, OtherManager
  <2>5. CASE QueueVmCreate(v)
    BY <2>5, QueueManager
  <2>6. CASE DeleteVm(v) \/ SweepVm(v)
    BY <2>6, BeginsManager
  <2>7. CASE CleanupFails(v)
    BY <2>7, CleanManager
  <2>8. QED
    BY <1>3, <2>1, <2>2, <2>3, <2>4, <2>5, <2>6, <2>7
<1>4. QED
  BY <1>1, <1>2, <1>3 DEF ManagerNext

(* Creates, deletes, cleanups, failing calls and restarts of the agent      *)
(* interleave as they will: no VM in a sandbox loses the network of its     *)
(* run, the last VM out removes it, and every sandbox has a durable row.    *)
THEOREM RuntimesCorrect == ASSUME AgentVmConstants PROVE ManagerSpec => []RuntimesKept
<1>1. ManagerInit => ManagerInv
  BY InitManager
<1>2. ManagerInv /\ [ManagerNext]_managerVars => ManagerInv'
  BY NextManager
<1>3. ManagerInv => RuntimesKept
  BY DEF ManagerInv, RuntimesKept, NoOrphanJail, VmSound
<1>4. QED
  BY <1>1, <1>2, <1>3, PTL DEF ManagerSpec

-----------------------------------------------------------------------------
(* The image cache of the agent.  A matching record of the tools disk skips *)
(* the hash, so it must never outlive the content it was taken of.  The     *)
(* pass has one image in hand while it prepares it, and a round is left     *)
(* when it begins one.                                                      *)
DiskSound ==
  /\ content \in [Files -> {"absent", "good", "bad"}]
  /\ unused \subseteq {f \in Files : content[f] # "absent"}
  /\ verified \in [Files -> {"none", "young", "old"}]
  /\ toolsRec \in {"none", "current", "stale"}
  /\ toolsRec = "current" => content[Tools] = "good"

AskedSound ==
  /\ wanted.cached \subseteq Images /\ wanted.running \subseteq Vms
  /\ rows \subseteq Vms /\ launch \in [Vms -> LaunchPcs]
  /\ \A v \in Vms : InWindow(launch[v]) => v \in rows

StoreSound == templates \subseteq Images /\ aged \subseteq templates

PassFields(p) == {"pc", "pins", "todo", "rounds", "batch", "keep"} \subseteq DOMAIN p

PassSound(p) ==
  /\ PassFields(p) /\ p.pc \in PassPcs /\ p.rounds \in 0..Rounds
  /\ p.pins \subseteq Images /\ p.todo \subseteq Images /\ p.keep \subseteq Images
  /\ p.pc \in {"warmPark", "warm"} => p.rounds = 0
  /\ p.pc = "round" => p.rounds < Rounds
  /\ p.pc \in {"fetch", "import", "importing"} => \E i \in Images : p.batch = {i}

CacheInv == DiskSound /\ AskedSound /\ StoreSound /\ PassSound(pass)

LEMMA FilesIn ==
  ASSUME ImageCacheConstants, NEW i \in Images
  PROVE  /\ FilesOf(i) \subseteq Files /\ Ready(i) \in Files /\ Tools \in Files
         /\ Tools \notin FilesOf(i) /\ Ready(i) # Tools
BY DEF ImageCacheConstants, FilesOf, Files, Manifest, BootArtifacts, Chunk, Ready, Tools

LEMMA ToolsIn == Tools \in Files
BY DEF Files

LEMMA DiskKept == ASSUME DiskSound, UNCHANGED <<content, unused, verified, toolsRec>> PROVE DiskSound'
BY DEF DiskSound

LEMMA AskedKept == ASSUME AskedSound, UNCHANGED asked PROVE AskedSound'
BY DEF AskedSound, asked

LEMMA StoreKept == ASSUME StoreSound, UNCHANGED store PROVE StoreSound'
BY DEF StoreSound, store

(* The tools disk is handed out whole, or not at all. *)
LEMMA EnsureKept ==
  ASSUME DiskSound, NEW full \in BOOLEAN, NEW ok \in BOOLEAN, EnsureTools(full, ok)
  PROVE  /\ verified' = verified => DiskSound'
         /\ ok => content'[Tools] = "good"
         /\ \A f \in Files \ {Tools} : content'[f] = content[f]
<1>1. Probe(full) => content[Tools] = "good"
  BY DEF DiskSound, Probe, ProbeReuses
<1> HIDE DEF Tools, Files
<1>2. QED
  BY <1>1, ToolsIn DEF EnsureTools, DiskSound

(* A pass that keeps its place and what it has in hand. *)
LEMMA PlaceKept ==
  ASSUME NEW p, PassSound(p), NEW q, DOMAIN q = DOMAIN p, q.pc = p.pc, q.pins = p.pins, q.todo = p.todo,
         q.rounds = p.rounds, q.batch = p.batch, q.keep = p.keep
  PROVE  PassSound(q)
BY DEF PassSound, PassFields

(* A pass that goes on to a place where nothing is in hand and no round is promised. *)
LEMMA PlaceMoves ==
  ASSUME NEW p, PassSound(p), NEW q, DOMAIN q = DOMAIN p, q.pins = p.pins, q.keep = p.keep,
         q.todo \subseteq Images, q.rounds \in 0..Rounds,
         q.pc \in PassPcs \ {"warmPark", "warm", "round", "fetch", "import", "importing"}
  PROVE  PassSound(q)
BY DEF PassSound, PassFields

LEMMA IdleSound == ASSUME ImageCacheConstants PROVE PassSound(Idle)
<1>1. /\ Idle.pc = "idle" /\ Idle.pins = {} /\ Idle.todo = {} /\ Idle.rounds = 0 /\ Idle.keep = {}
      /\ PassFields(Idle)
  BY DEF Idle, PassFields
<1>2. QED
  BY <1>1 DEF PassSound, PassPcs, Parks, ImageCacheConstants

LEMMA WorldKept ==
  ASSUME ImageCacheConstants, CacheInv,
         \/ \E cached \in SUBSET Images, running \in SUBSET Vms : DesiredState(cached, running)
         \/ \E f \in Files : Corrupt(f)
         \/ Hours \/ AgentRestart
         \/ \E i \in Images : GcTemplate(i)
  PROVE  CacheInv'
<1>0. DiskSound /\ AskedSound /\ StoreSound /\ PassSound(pass)
  BY DEF CacheInv
<1>1. CASE \E cached \in SUBSET Images, running \in SUBSET Vms : DesiredState(cached, running)
  <2>1. AskedSound'
    BY <1>0, <1>1 DEF DesiredState, AskedSound
  <2>2. UNCHANGED <<content, unused, verified, toolsRec, pass, store>>
    BY <1>1 DEF DesiredState
  <2>3. QED
    BY <1>0, <2>1, <2>2, DiskKept, StoreKept DEF CacheInv
<1>2. ASSUME NEW f \in Files, Corrupt(f) PROVE CacheInv'
  <2>1. PassSound(pass')
    <3>1. PICK b : pass' = [pass EXCEPT !.changed = b]
      BY <1>2 DEF Corrupt, Disturbed
    <3>2. DOMAIN pass' = DOMAIN pass /\ pass'.pc = pass.pc /\ pass'.pins = pass.pins
          /\ pass'.todo = pass.todo /\ pass'.rounds = pass.rounds /\ pass'.batch = pass.batch
          /\ pass'.keep = pass.keep
      BY <1>0, <3>1 DEF PassSound, PassFields
    <3>3. QED
      BY <1>0, <3>2, PlaceKept
  <2>2. UNCHANGED <<unused, verified, asked, store>> /\ content' = [content EXCEPT ![f] = "bad"]
    BY <1>2 DEF Corrupt
  <2>3. toolsRec' \in {toolsRec, "stale"} /\ (toolsRec' = "current" => f # Tools)
    BY <1>2 DEF Corrupt, Disturbed
  <2> HIDE DEF Tools, Files
  <2>4. DiskSound'
    BY <1>0, <2>2, <2>3, ToolsIn DEF DiskSound
  <2>5. QED
    BY <1>0, <2>1, <2>2, <2>4, AskedKept, StoreKept DEF CacheInv
<1>3. CASE Hours
  <2>1. DiskSound' /\ StoreSound'
    BY <1>0, <1>3 DEF Hours, DiskSound, StoreSound
  <2>2. UNCHANGED <<asked, pass>>
    BY <1>3 DEF Hours, passVars
  <2>3. QED
    BY <1>0, <2>1, <2>2, AskedKept DEF CacheInv
<1>4. CASE AgentRestart
  <2>1. DiskSound' /\ AskedSound' /\ UNCHANGED store /\ pass' = Idle
    BY <1>0, <1>4 DEF AgentRestart, DiskSound, AskedSound, LaunchPcs, InWindow
  <2>2. QED
    BY <1>0, <2>1, IdleSound, StoreKept DEF CacheInv
<1>5. CASE \E i \in Images : GcTemplate(i)
  <2>1. StoreSound' /\ UNCHANGED <<content, unused, verified, toolsRec, asked, pass>>
    BY <1>0, <1>5 DEF GcTemplate, StoreSound, passVars
  <2>2. QED
    BY <1>0, <2>1, DiskKept, AskedKept DEF CacheInv
<1>6. QED
  BY <1>1, <1>2, <1>3, <1>4, <1>5

LEMMA DropMoves ==
  ASSUME PassSound(pass), NEW l, GuardDropped(l) PROVE PassSound(pass')
<1>1. PICK a, b : pass' = [pass EXCEPT !.woken = a, !.changed = b]
  BY DEF GuardDropped
<1>2. DOMAIN pass' = DOMAIN pass /\ pass'.pc = pass.pc /\ pass'.pins = pass.pins
      /\ pass'.todo = pass.todo /\ pass'.rounds = pass.rounds /\ pass'.batch = pass.batch
      /\ pass'.keep = pass.keep
  BY <1>1 DEF PassSound, PassFields
<1>3. QED
  BY <1>2, PlaceKept

LEMMA LaunchKept ==
  ASSUME ImageCacheConstants, CacheInv, NEW v \in Vms, LaunchSteps(v) \/ LaunchTools(v, FALSE)
  PROVE  CacheInv'
<1>0. DiskSound /\ AskedSound /\ StoreSound /\ PassSound(pass)
  BY DEF CacheInv
<1>1. ASSUME NEW at \in LaunchPcs, launch' = [launch EXCEPT ![v] = at], InWindow(at) => InWindow(launch[v]),
             UNCHANGED <<wanted, rows>>
      PROVE  AskedSound'
  BY <1>0, <1>1 DEF AskedSound
<1>2. CASE Create(v) \/ LaunchAsk(v) \/ LaunchReady(v) \/ Remove(v)
  <2>1. UNCHANGED <<content, unused, verified, toolsRec, store, pass>>
    BY <1>2 DEF Create, LaunchAsk, LaunchReady, Remove, passVars
  <2>2. AskedSound'
    BY <1>0, <1>2 DEF Create, LaunchAsk, LaunchReady, Remove, AskedSound, LaunchPcs, InWindow
  <2>3. QED
    BY <1>0, <2>1, <2>2, DiskKept, StoreKept DEF CacheInv
<1>3. CASE LaunchTimeout(v) \/ LaunchStage(v) \/ LaunchUp(v)
  <2>1. PassSound(pass')
    BY <1>0, <1>3, DropMoves DEF LaunchTimeout, LaunchStage, LaunchUp
  <2>2. UNCHANGED <<content, unused, verified, toolsRec, wanted, rows>>
    BY <1>3 DEF LaunchTimeout, LaunchStage, LaunchUp
  <2>3. AskedSound'
    BY <1>1, <1>3, <2>2 DEF LaunchTimeout, LaunchStage, LaunchUp, LaunchPcs, InWindow
  <2>4. StoreSound'
    BY <1>0, <1>3 DEF LaunchTimeout, LaunchStage, LaunchUp, StoreSound, store
  <2>5. QED
    BY <1>0, <2>1, <2>2, <2>3, <2>4, DiskKept DEF CacheInv
<1>4. ASSUME NEW ok \in BOOLEAN, LaunchTools(v, ok) PROVE CacheInv'
  <2>1. /\ PassSound(pass') /\ EnsureTools(FALSE, ok)
        /\ UNCHANGED <<verified, wanted, rows, store>>
    BY <1>0, <1>4, DropMoves DEF LaunchTools
  <2>2. AskedSound'
    BY <1>1, <1>4, <2>1 DEF LaunchTools, LaunchPcs, InWindow
  <2>3. DiskSound'
    BY <1>0, <2>1, EnsureKept
  <2>4. QED
    BY <1>0, <2>1, <2>2, <2>3, StoreKept DEF CacheInv
<1>5. QED
  BY <1>2, <1>3, <1>4 DEF LaunchSteps

(* The pass. *)
LEMMA ParkKept == ASSUME ImageCacheConstants, PassSound(pass), ParkRegister \/ ParkRead \/ ParkAwait
                  PROVE  PassSound(pass')
<1>1. ASSUME NEW p, NEW w, NEW k, p = [pass EXCEPT !.wait = w] \/ p = [pass EXCEPT !.wait = w, !.woken = k]
      PROVE  PassSound(p)
  <2>1. DOMAIN p = DOMAIN pass /\ p.pc = pass.pc /\ p.pins = pass.pins /\ p.todo = pass.todo
        /\ p.rounds = pass.rounds /\ p.batch = pass.batch /\ p.keep = pass.keep
    BY <1>1 DEF PassSound, PassFields
  <2>2. QED
    BY <2>1, PlaceKept
<1>2. CASE ParkRegister \/ ParkAwait \/ (ParkRead /\ Critical(launch))
  BY <1>1, <1>2 DEF ParkRegister, ParkAwait, ParkRead
<1>3. CASE ParkRead /\ ~Critical(launch)
  <2> DEFINE next == AfterPark(pass.pc)
  <2>1. PICK img \in IF next = "fetch" THEN pass.todo ELSE {"-"},
             f \in IF next = "hash" THEN pass.items ELSE {"-"} :
               pass' = [pass EXCEPT !.pc = next, !.wait = "start", !.woken = FALSE, !.changed = FALSE,
                          !.todo = @ \ {img},
                          !.batch = CASE next = "fetch" -> {img}
                                      [] next = "hash" -> {f}
                                      [] OTHER -> @]
    BY <1>3 DEF ParkRead
  <2>2. /\ pass.pc \in Parks /\ (next = "warm" => pass.pc = "warmPark")
        /\ next \in {"warm", "fetch", "hash"}
    BY <1>3 DEF ParkRead, Waiting, AfterPark, Parks
  <2> HIDE DEF next
  <2>3. /\ DOMAIN pass' = DOMAIN pass /\ pass'.pc = next /\ pass'.pins = pass.pins
        /\ pass'.rounds = pass.rounds /\ pass'.keep = pass.keep /\ pass'.todo = pass.todo \ {img}
        /\ next = "fetch" => pass'.batch = {img}
    BY <2>1 DEF PassSound, PassFields
  <2>4. next = "fetch" => img \in Images
    BY <2>1 DEF PassSound
  <2>5. QED
    BY <2>2, <2>3, <2>4 DEF PassSound, PassFields, PassPcs
<1>4. QED
  BY <1>2, <1>3 DEF ParkRead

LEMMA NextImageKept ==
  ASSUME ImageCacheConstants, PassSound(pass), NEW requeued, NextImage(requeued) PROVE PassSound(pass')
<1>1. /\ DOMAIN pass' = DOMAIN pass /\ pass'.pins = pass.pins /\ pass'.todo = pass.todo
      /\ pass'.rounds = pass.rounds /\ pass'.keep = pass.keep
      /\ pass'.pc \in {"imagePark", "after", "round"} /\ (pass'.pc = "round" => ~(pass.rounds >= Rounds))
  BY DEF NextImage, PassSound, PassFields
<1>2. QED
  BY <1>1 DEF PassSound, PassFields, PassPcs, Parks, ImageCacheConstants

LEMMA ImgIn ==
  ASSUME PassSound(pass), pass.pc \in {"fetch", "import", "importing"} PROVE Img \in Images
BY DEF PassSound, Img

LEMMA PassKept ==
  ASSUME ImageCacheConstants, CacheInv, PassStep \/ PassFails PROVE CacheInv'
<1>0. DiskSound /\ AskedSound /\ StoreSound /\ PassSound(pass) /\ PassFields(pass)
  BY DEF CacheInv, PassSound
<1>1. ASSUME PassOnly, PassSound(pass') PROVE CacheInv'
  BY <1>0, <1>1, DiskKept, AskedKept, StoreKept DEF PassOnly, CacheInv
<1>2. CASE ParkRegister \/ ParkRead \/ ParkAwait
  BY <1>0, <1>1, <1>2, ParkKept DEF ParkRegister, ParkRead, ParkAwait
<1>3. CASE PassRound
  <2>1. /\ DOMAIN pass' = DOMAIN pass /\ pass'.pins = pass.pins /\ pass'.keep = pass.keep
        /\ pass'.pc \in {"after", "imagePark"} /\ pass'.todo \in {pass.todo, Missing(pass.pins)}
        /\ pass'.rounds \in {pass.rounds, pass.rounds + 1} /\ pass.pc = "round"
    BY <1>0, <1>3 DEF PassRound, PassFields
  <2>2. pass'.todo \subseteq Images /\ pass'.rounds \in 0..Rounds
    BY <1>0, <2>1 DEF PassSound, Missing, ImageCacheConstants
  <2>3. QED
    BY <1>0, <1>1, <1>3, <2>1, <2>2, PlaceMoves DEF PassRound, PassPcs, Parks
<1>4. CASE PassAfter
  <2>1. /\ DOMAIN pass' = DOMAIN pass /\ pass'.pins = pass.pins /\ pass'.keep = pass.keep
        /\ pass'.pc \in {"plan", "evict"} /\ pass'.todo = pass.todo /\ pass'.rounds = 0
    BY <1>0, <1>4 DEF PassAfter, PassFields
  <2>2. pass'.todo \subseteq Images /\ pass'.rounds \in 0..Rounds
    BY <1>0, <2>1 DEF PassSound, ImageCacheConstants
  <2>3. QED
    BY <1>0, <1>1, <1>4, <2>1, <2>2, PlaceMoves DEF PassAfter, PassPcs
<1>5. CASE PassPlan
  <2>1. /\ DOMAIN pass' = DOMAIN pass /\ pass'.pins = pass.pins /\ pass'.keep = pass.keep
        /\ pass'.pc \in {"evict", "itemPark"} /\ pass'.todo = pass.todo /\ pass'.rounds = pass.rounds
    BY <1>0, <1>5 DEF PassPlan, PassFields
  <2>2. pass'.todo \subseteq Images /\ pass'.rounds \in 0..Rounds
    BY <1>0, <2>1 DEF PassSound
  <2>3. QED
    BY <1>0, <1>1, <1>5, <2>1, <2>2, PlaceMoves DEF PassPlan, PassPcs, Parks
<1>6. CASE PassDone
  BY <1>1, <1>6, IdleSound DEF PassDone
<1>7. CASE PassProtect
  <2>1. /\ DOMAIN pass' = DOMAIN pass /\ pass'.pins = pass.pins /\ pass'.pc = "drop"
        /\ pass'.todo = pass.todo /\ pass'.rounds = pass.rounds
        /\ pass'.keep = Pins(wanted) \union {ImageOf[v] : v \in rows}
    BY <1>0, <1>7 DEF PassProtect, PassFields
  <2>2. Pins(wanted) \subseteq Images /\ {ImageOf[v] : v \in rows} \subseteq Images
    BY <1>0 DEF Pins, AskedSound, ImageCacheConstants
  <2>3. PassSound(pass')
    BY <1>0, <2>1, <2>2 DEF PassSound, PassFields, PassPcs
  <2>4. QED
    BY <1>1, <1>7, <2>3 DEF PassProtect
<1>8. ASSUME NEW ok \in BOOLEAN, PassWarm(ok) PROVE CacheInv'
  <2>1. /\ DOMAIN pass' = DOMAIN pass /\ pass'.pins = pass.pins /\ pass'.keep = pass.keep
        /\ pass'.pc = "round" /\ pass'.todo = pass.todo /\ pass'.rounds = pass.rounds /\ pass.pc = "warm"
    BY <1>0, <1>8 DEF PassWarm, PassFields
  <2>2. PassSound(pass')
    BY <1>0, <2>1 DEF PassSound, PassFields, PassPcs, ImageCacheConstants
  <2>3. EnsureTools(FALSE, ok) /\ UNCHANGED <<verified, asked, store>>
    BY <1>8 DEF PassWarm
  <2>4. QED
    BY <1>0, <2>2, <2>3, EnsureKept, AskedKept, StoreKept DEF CacheInv
<1>9. ASSUME NEW done \in SUBSET Files, Fetched(done), PassSound(pass') PROVE CacheInv'
  <2>1. DiskSound'
    BY <1>0, <1>9, ToolsIn DEF Fetched, DiskSound
  <2>2. QED
    BY <1>0, <1>9, <2>1, AskedKept, StoreKept DEF Fetched, CacheInv
<1>10. CASE PassFetch \/ PassFetchFails
  <2>1. Img \in Images
    BY <1>0, <1>10, ImgIn DEF PassFetch, PassFetchFails
  <2>2. Lacking(Img) \subseteq Files
    BY <2>1, FilesIn DEF Lacking
  <2>3. CASE PassFetch
    <3>1. /\ DOMAIN pass' = DOMAIN pass /\ pass'.pins = pass.pins /\ pass'.keep = pass.keep
          /\ pass'.pc = "import" /\ pass'.todo = pass.todo /\ pass'.rounds = pass.rounds
          /\ pass'.batch = pass.batch /\ pass.pc = "fetch"
      BY <1>0, <2>3 DEF PassFetch, PassFields
    <3>2. PassSound(pass')
      BY <1>0, <3>1 DEF PassSound, PassFields, PassPcs
    <3>3. QED
      BY <1>9, <2>2, <2>3, <3>2 DEF PassFetch
  <2>4. CASE PassFetchFails
    <3>1. PassSound(pass')
      BY <1>0, <2>4, NextImageKept DEF PassFetchFails
    <3>2. QED
      BY <1>9, <2>2, <2>4, <3>1 DEF PassFetchFails
  <2>5. QED
    BY <1>10, <2>3, <2>4
<1>11. CASE PassImport \/ PassImported
  <2>1. Img \in Images
    BY <1>0, <1>11, ImgIn DEF PassImport, PassImported
  <2>2. PassSound(pass')
    <3>1. CASE \E requeued : NextImage(requeued)
      BY <1>0, <3>1, NextImageKept
    <3>2. CASE PassImport /\ pass' = [pass EXCEPT !.pc = "importing"]
      <4>1. /\ DOMAIN pass' = DOMAIN pass /\ pass'.pins = pass.pins /\ pass'.keep = pass.keep
            /\ pass'.pc = "importing" /\ pass'.todo = pass.todo /\ pass'.rounds = pass.rounds
            /\ pass'.batch = pass.batch /\ pass.pc = "import"
        BY <1>0, <3>2 DEF PassImport, PassFields
      <4>2. QED
        BY <1>0, <4>1 DEF PassSound, PassFields, PassPcs
    <3>3. QED
      BY <1>11, <3>1, <3>2 DEF PassImport, PassImported
  <2>3. /\ UNCHANGED <<verified, toolsRec, asked>> /\ (MarkReady(Img) \/ UNCHANGED <<content, unused, aged>>)
        /\ templates' \in {templates, templates \union {Img}}
    BY <1>11 DEF PassImport, PassImported
  <2>4. DiskSound'
    <3>1. Ready(Img) \in Files /\ Ready(Img) # Tools
      BY <2>1, FilesIn
    <3> HIDE DEF Tools, Files, Ready
    <3>2. QED
      BY <1>0, <2>3, <3>1, ToolsIn DEF MarkReady, DiskSound
  <2>5. StoreSound'
    BY <1>0, <2>1, <2>3 DEF MarkReady, StoreSound
  <2>6. QED
    BY <1>0, <2>2, <2>3, <2>4, <2>5, AskedKept DEF CacheInv
<1>12. CASE PassHash
  <2>1. /\ DOMAIN pass' = DOMAIN pass /\ pass'.pins = pass.pins /\ pass'.keep = pass.keep
        /\ pass'.pc \in {"repair", "plan", "itemPark"} /\ pass'.todo = pass.todo
        /\ pass'.rounds = pass.rounds
    BY <1>0, <1>12 DEF PassHash, Tried, NextItem, PassFields
  <2>2. pass'.todo \subseteq Images /\ pass'.rounds \in 0..Rounds
    BY <1>0, <2>1 DEF PassSound
  <2>3. PassSound(pass')
    BY <1>0, <2>1, <2>2, PlaceMoves DEF PassPcs, Parks
  <2>4. DiskSound'
    BY <1>0, <1>12 DEF PassHash, DiskSound
  <2>5. UNCHANGED <<asked, store>>
    BY <1>12 DEF PassHash
  <2>6. QED
    BY <1>0, <2>3, <2>4, <2>5, AskedKept, StoreKept DEF CacheInv
<1>13. ASSUME NEW ok \in BOOLEAN, PassRepair(ok) PROVE CacheInv'
  <2>1. /\ DOMAIN pass' = DOMAIN pass /\ pass'.pins = pass.pins /\ pass'.keep = pass.keep
        /\ pass'.pc \in {"plan", "itemPark"} /\ pass'.todo = pass.todo /\ pass'.rounds = pass.rounds
    BY <1>0, <1>13 DEF PassRepair, NextItem, PassFields
  <2>2. pass'.todo \subseteq Images /\ pass'.rounds \in 0..Rounds
    BY <1>0, <2>1 DEF PassSound
  <2>3. PassSound(pass') /\ UNCHANGED <<verified, asked, store>>
    BY <1>0, <1>13, <2>1, <2>2, PlaceMoves DEF PassPcs, Parks, PassRepair
  <2>4. CASE Item = Tools
    BY <1>0, <1>13, <2>3, <2>4, EnsureKept, AskedKept, StoreKept DEF PassRepair, CacheInv
  <2>5. CASE Item # Tools
    <3>1. PICK mended \in SUBSET Files : content' = [f \in Files |-> IF f \in mended THEN "good" ELSE content[f]]
      <4>1. content' = [f \in Files |->
                  IF \E i \in pass.pins : /\ Item \in FilesOf(i) /\ f \in FilesOf(i)
                                          /\ ImageId(i) = ExpectedSha(Item)
                  THEN "good" ELSE content[f]]
        BY <1>13, <2>5 DEF PassRepair
      <4> DEFINE mended == {f \in Files : \E i \in pass.pins :
                               Item \in FilesOf(i) /\ f \in FilesOf(i) /\ ImageId(i) = ExpectedSha(Item)}
      <4>2. content' = [f \in Files |-> IF f \in mended THEN "good" ELSE content[f]]
        BY <4>1
      <4>3. mended \in SUBSET Files
        OBVIOUS
      <4> HIDE DEF mended
      <4>4. QED
        BY <4>2, <4>3
    <3>2. UNCHANGED <<unused, toolsRec>>
      BY <1>13, <2>5 DEF PassRepair
    <3> HIDE DEF Tools, Files
    <3>3. DiskSound'
      BY <1>0, <2>3, <3>1, <3>2, ToolsIn DEF DiskSound
    <3>4. QED
      BY <1>0, <2>3, <3>3, AskedKept, StoreKept DEF CacheInv
  <2>6. QED
    BY <2>4, <2>5
<1>14. ASSUME NEW f \in Files, PassEvict(f) PROVE CacheInv'
  <2>1. /\ UNCHANGED <<verified, asked, store, pass>> /\ content' = [content EXCEPT ![f] = "absent"]
        /\ unused' = unused \ {f} /\ toolsRec' \in {toolsRec, "stale"}
        /\ toolsRec' = "current" => f # Tools
    BY <1>14 DEF PassEvict, passVars
  <2> HIDE DEF Tools, Files
  <2>2. DiskSound'
    BY <1>0, <2>1, ToolsIn DEF DiskSound
  <2>3. QED
    BY <1>0, <2>1, <2>2, AskedKept, StoreKept DEF CacheInv
<1>15. QED
  BY <1>2, <1>3, <1>4, <1>5, <1>6, <1>7, <1>8, <1>10, <1>11, <1>12, <1>13, <1>14 DEF PassStep, PassFails

LEMMA CacheStarts == ASSUME ImageCacheConstants, CacheInit PROVE CacheInv
<1>1. DiskSound /\ AskedSound /\ StoreSound
  BY DEF CacheInit, DiskSound, AskedSound, StoreSound, LaunchPcs, InWindow
<1>2. QED
  BY <1>1, IdleSound DEF CacheInit, CacheInv

LEMMA CacheStep ==
  ASSUME ImageCacheConstants, CacheInv, [CacheNext]_cacheVars PROVE CacheInv'
<1>0. DiskSound /\ AskedSound /\ StoreSound /\ PassSound(pass)
  BY DEF CacheInv
<1>1. CASE UNCHANGED cacheVars
  <2>1. UNCHANGED <<content, unused, verified, toolsRec, asked, store, pass>>
    BY <1>1 DEF cacheVars, asked, store
  <2>2. QED
    BY <1>0, <2>1, DiskKept, AskedKept, StoreKept DEF CacheInv
<1>2. ASSUME NEW scope \in Scopes, NEW listed \in BOOLEAN, PassStart(scope, listed) PROVE CacheInv'
  <2>1. Pins(wanted) \subseteq Images
    BY <1>0 DEF Pins, AskedSound, ImageCacheConstants
  <2>2. PassSound([Idle EXCEPT !.pc = "warmPark", !.scope = scope, !.pins = Pins(wanted)])
    <3> DEFINE p == [Idle EXCEPT !.pc = "warmPark", !.scope = scope, !.pins = Pins(wanted)]
    <3>1. /\ p.pc = "warmPark" /\ p.pins = Pins(wanted) /\ p.todo = {} /\ p.rounds = 0 /\ p.keep = {}
          /\ PassFields(p)
      BY DEF Idle, PassFields
    <3> HIDE DEF p
    <3>2. PassSound(p)
      BY <2>1, <3>1 DEF PassSound, PassPcs, Parks, ImageCacheConstants
    <3>3. QED
      BY <3>2 DEF p
  <2>3. UNCHANGED <<content, unused, verified, toolsRec, asked, store>> /\ PassSound(pass')
    BY <1>2, <2>2, IdleSound DEF PassStart
  <2>4. QED
    BY <1>0, <2>3, DiskKept, AskedKept, StoreKept DEF CacheInv
<1>3. QED
  BY <1>1, <1>2, WorldKept, LaunchKept, PassKept DEF CacheNext

(* What takes a file away: a failed download of the tools disk, or an eviction. *)
LEMMA WhoRemoves ==
  ASSUME ImageCacheConstants, CacheInv, CacheNext, pass.pc = "drop", NEW f \in Files \ {Tools},
         content[f] # "absent", content'[f] = "absent"
  PROVE  f \in Evictable
<1>1. CASE \/ \E cached \in SUBSET Images, running \in SUBSET Vms : DesiredState(cached, running)
           \/ Hours \/ AgentRestart
           \/ \E i \in Images : GcTemplate(i)
           \/ \E scope \in Scopes, listed \in BOOLEAN : PassStart(scope, listed)
  BY <1>1 DEF DesiredState, Hours, AgentRestart, GcTemplate, PassStart
<1>2. ASSUME NEW g \in Files, Corrupt(g) PROVE FALSE
  BY <1>2 DEF Corrupt, CacheInv, DiskSound, AskedSound, PassSound
<1>3. ASSUME NEW v \in Vms, LaunchSteps(v) \/ LaunchTools(v, FALSE) PROVE FALSE
  <2>1. CASE \E ok \in BOOLEAN : LaunchTools(v, ok)
    BY <2>1, EnsureKept DEF LaunchTools, CacheInv
  <2>2. CASE ~\E ok \in BOOLEAN : LaunchTools(v, ok)
    BY <1>3, <2>2 DEF LaunchSteps, Create, LaunchAsk, LaunchReady, LaunchTimeout, LaunchStage, LaunchUp, Remove
  <2>3. QED
    BY <2>1, <2>2
<1>4. CASE PassFails
  BY <1>4 DEF PassFails, PassWarm, PassRepair, PassFetchFails
<1>5. CASE PassStep
  <2>1. ~(ParkRegister \/ ParkRead \/ ParkAwait \/ PassWarm(TRUE) \/ PassRound \/ PassFetch
          \/ PassImport \/ PassImported \/ PassAfter \/ PassPlan \/ PassHash \/ PassRepair(TRUE)
          \/ PassProtect)
    BY DEF ParkRegister, ParkRead, ParkAwait, PassWarm, PassRound, PassFetch, PassImport, PassImported,
         PassAfter, PassPlan, PassHash, PassRepair, PassProtect, Waiting, Parks
  <2>2. ~PassDone
    BY DEF PassDone, PassOnly
  <2>3. PICK g \in Files : PassEvict(g)
    BY <1>5, <2>1, <2>2 DEF PassStep
  <2>4. f = g /\ g \in Evictable
    BY <2>3 DEF PassEvict, CacheInv, DiskSound, AskedSound, PassSound
  <2>5. QED
    BY <2>4
<1>6. QED
  BY <1>1, <1>2, <1>3, <1>4, <1>5 DEF CacheNext

(* ensure_cached_tools_disk hands a launch only the pinned tools disk, a verification is    *)
(* recorded only of a file that held its content, and an eviction spares what it protects. *)
THEOREM CacheCorrect ==
  ASSUME ImageCacheConstants
  PROVE  CacheSpec => []CacheTypes /\ ToolsServed /\ VerifiedIsWhole /\ EvictionSparesProtected
<1>1. CacheInit => CacheInv
  BY CacheStarts
<1>2. CacheInv /\ [CacheNext]_cacheVars => CacheInv'
  BY CacheStep
<1>3. CacheInv /\ [CacheNext]_cacheVars => [ToolsServedStep]_cacheVars
  <2> SUFFICES ASSUME CacheInv, CacheNext, NEW v \in Vms, launch[v] = "tools", launch'[v] = "staging"
               PROVE  content'[Tools] = "good"
    BY DEF ToolsServedStep
  <2>1. CASE \E w \in Vms : LaunchSteps(w) \/ LaunchTools(w, FALSE)
    <3>1. PICK w \in Vms : LaunchSteps(w) \/ LaunchTools(w, FALSE)
      BY <2>1
    <3>2. LaunchTools(w, TRUE)
      BY <3>1 DEF LaunchSteps, LaunchTools, Create, LaunchAsk, LaunchReady, LaunchTimeout, LaunchStage,
           LaunchUp, Remove, CacheInv, DiskSound, AskedSound
    <3>3. QED
      BY <3>2, EnsureKept DEF LaunchTools, CacheInv
  <2>2. CASE ~\E w \in Vms : LaunchSteps(w) \/ LaunchTools(w, FALSE)
    <3>1. UNCHANGED launch \/ AgentRestart
      BY <2>2 DEF CacheNext, DesiredState, Corrupt, Hours, GcTemplate, PassStart, PassStep, PassFails,
           ParkRegister, ParkRead, ParkAwait, PassWarm, PassRound, PassFetch, PassFetchFails, Fetched,
           PassImport, PassImported, PassAfter, PassPlan, PassHash, PassRepair, PassProtect, PassDone,
           PassEvict, PassOnly, asked
    <3>2. QED
      BY <3>1 DEF AgentRestart, CacheInv, DiskSound, AskedSound, PassSound, InWindow
  <2>3. QED
    BY <2>1, <2>2
<1>4. CacheInv /\ [CacheNext]_cacheVars => [VerifiedIsWholeStep]_cacheVars
  <2> SUFFICES ASSUME CacheInv, CacheNext, NEW f \in Files, verified[f] # "young", verified'[f] = "young"
               PROVE  content'[f] = "good"
    BY DEF VerifiedIsWholeStep
  <2>1. UNCHANGED verified \/ Hours \/ PassHash
    BY DEF CacheNext, DesiredState, Corrupt, AgentRestart, GcTemplate, PassStart, PassStep, PassFails,
         ParkRegister, ParkRead, ParkAwait, PassWarm, PassRound, PassFetch, PassFetchFails, Fetched,
         PassImport, PassImported, PassAfter, PassPlan, PassRepair, PassProtect, PassDone,
         PassEvict, PassOnly, LaunchSteps, LaunchTools, Create, LaunchAsk, LaunchReady, LaunchTimeout,
         LaunchStage, LaunchUp, Remove
  <2>2. CASE Hours
    BY <2>2 DEF Hours, CacheInv, DiskSound, AskedSound, PassSound
  <2>3. CASE PassHash
    BY <2>3 DEF PassHash, HashMatches, CacheInv, DiskSound, AskedSound, PassSound
  <2>4. QED
    BY <2>1, <2>2, <2>3
<1>5. CacheInv /\ [CacheNext]_cacheVars => [EvictionSparesProtectedStep]_cacheVars
  <2> SUFFICES ASSUME CacheInv, CacheNext, NEW i \in pass.keep, pass.pc = "drop", content[Ready(i)] = "good",
                      NEW f \in FilesOf(i) \union {Ready(i)}, content[f] # "absent"
               PROVE  content'[f] # "absent"
    BY DEF EvictionSparesProtectedStep
  <2>1. i \in Images /\ f \in Files \ {Tools}
    BY FilesIn DEF CacheInv, DiskSound, AskedSound, PassSound
  <2>2. f \notin Evictable
    BY DEF Evictable, ProtectedPaths
  <2>3. QED
    BY <2>1, <2>2, WhoRemoves
<1>6. CacheInv => CacheTypes
  BY DEF CacheInv, CacheTypes, DiskSound, AskedSound, StoreSound, PassSound
<1>7. QED
  BY <1>1, <1>2, <1>3, <1>4, <1>5, <1>6, PTL DEF CacheSpec, ToolsServed, VerifiedIsWhole, EvictionSparesProtected
=============================================================================
