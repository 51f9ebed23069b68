------------------------------- MODULE RunSuite -------------------------------
(***************************************************************************)
(* Instances of RunRecord for TLC. A behaviour is one instance, chosen at  *)
(* the start: `on` names the writers that race over the run row. The       *)
(* reports and the lease pass use the constants of the cfg; the other      *)
(* instances, on variables of their own, change some of them.              *)
(***************************************************************************)
EXTENDS RunRecord, TLC

CONSTANTS v1, v2, g1, g2, boot, goal, d1, d2

VARIABLES
  on,    \* the instance that runs
  otherRow, otherExec, otherSlot, otherDesired, otherRoutes, otherLedger,
  otherSealed, otherClock, otherSession, otherLeaseOver, otherRetired,
  otherProj, otherDestroy, otherLease, otherExpiry, otherArchive

otherVars == <<otherRow, otherExec, otherSlot, otherDesired, otherRoutes,
    otherLedger, otherSealed, otherClock, otherSession, otherLeaseOver,
    otherRetired, otherProj, otherDestroy, otherLease, otherExpiry,
    otherArchive>>

BootOf == (v1 :> {boot}) @@ (v2 :> {})
ScenarioOf == (v1 :> {goal}) @@ (v2 :> {})
OneBoot == v1 :> {boot}
OneScenario == v1 :> {goal}

(* A report of generation g at time t; sealed with a terminal, or not. *)
Report(phase, g, quota, checked, passed, t) ==
  [phase |-> phase, gen |-> g, cpu |-> IF g = NoGen THEN 0 ELSE 2,
   quota |-> quota, terminal |-> IF checked > 0 THEN "ready" ELSE "pending",
   terminalAt |-> t, checked |-> checked, hostKey |-> TRUE,
   probes |-> {boot, goal}, passed |-> passed, error |-> FALSE, at |-> t]

VmMessage(v, r) == [kind |-> "vm", vms |-> v :> r]
HostMessage(f) == [kind |-> "host", vms |-> f]

(* Two generations of v1, sealed and unsealed, on time and late, a launch  *)
(* failure without constraints, and inventories of both VMs.               *)
ProjectionReports ==
  { Report("booting", g1, 0, 0, {}, 1), Report("running", g1, 1, 1, {boot}, 2),
    Report("running", g1, 0, 0, {boot, goal}, 2),
    Report("booting", g2, 0, 0, {}, 2), Report("ready", g2, 2, 2, {boot}, 3),
    Report("stopping", g1, 1, 0, {}, 2), Report("failed", NoGen, 0, 0, {}, 2),
    [Report("failed", g1, 1, 0, {}, 2) EXCEPT !.terminal = "failed"],
    [Report("running", g2, 2, 2, {}, 3) EXCEPT !.error = TRUE, !.hostKey = FALSE] }

ProjectionMessages ==
  {VmMessage(v1, r) : r \in ProjectionReports}
    \cup {VmMessage(v2, Report("booting", g1, 0, 0, {}, 1)),
          HostMessage((v1 :> Report("ready", g2, 2, 2, {boot, goal}, 3))
                        @@ (v2 :> Report("stopped", g1, 0, 0, {}, 3))),
          HostMessage((v1 :> Report("absent", g2, 2, 0, {}, 3))
                        @@ (v2 :> Report("absent", g1, 0, 0, {}, 3)))}

TeardownMessages ==
  {VmMessage(v1, Report("running", g1, 1, 1, {boot}, 2)),
   VmMessage(v1, [Report("failed", g1, 1, 0, {}, 2) EXCEPT !.terminal = "failed"]),
   HostMessage(v1 :> Report("stopping", g1, 1, 0, {boot, goal}, 3)),
   HostMessage(v1 :> Report("absent", g1, 1, 0, {}, 3))}

-----------------------------------------------------------------------------
Teardown == INSTANCE RunRecord WITH
  VMs <- {v1}, BootProbes <- OneBoot, ScenarioProbes <- OneScenario,
  Messages <- TeardownMessages, Destroyers <- {d1},
  Enabled <- {"proj", "expiry"}, MaxRev <- 5, MaxSession <- 1,
  row <- otherRow, exec <- otherExec, slot <- otherSlot,
  desired <- otherDesired, routes <- otherRoutes, ledger <- otherLedger,
  sealed <- otherSealed, clock <- otherClock, session <- otherSession,
  leaseOver <- otherLeaseOver, retired <- otherRetired, proj <- otherProj,
  destroy <- otherDestroy, lease <- otherLease, expiry <- otherExpiry,
  archive <- otherArchive

Pair == INSTANCE RunRecord WITH
  VMs <- {v1}, BootProbes <- OneBoot, ScenarioProbes <- OneScenario,
  Messages <- {}, Destroyers <- {d1, d2}, Enabled <- {"expiry"}, MaxRev <- 6,
  MaxSession <- 1, row <- otherRow, exec <- otherExec, slot <- otherSlot,
  desired <- otherDesired, routes <- otherRoutes, ledger <- otherLedger,
  sealed <- otherSealed, clock <- otherClock, session <- otherSession,
  leaseOver <- otherLeaseOver, retired <- otherRetired, proj <- otherProj,
  destroy <- otherDestroy, lease <- otherLease, expiry <- otherExpiry,
  archive <- otherArchive

Artifacts == INSTANCE RunRecord WITH
  Messages <- {}, Enabled <- {"archive", "lease"}, MaxRev <- 4,
  MaxSession <- 1, row <- otherRow, exec <- otherExec, slot <- otherSlot,
  desired <- otherDesired, routes <- otherRoutes, ledger <- otherLedger,
  sealed <- otherSealed, clock <- otherClock, session <- otherSession,
  leaseOver <- otherLeaseOver, retired <- otherRetired, proj <- otherProj,
  destroy <- otherDestroy, lease <- otherLease, expiry <- otherExpiry,
  archive <- otherArchive

ArtifactRace == INSTANCE RunRecord WITH
  VMs <- {v1}, BootProbes <- OneBoot, ScenarioProbes <- OneScenario,
  Messages <- {}, Enabled <- {"archive", "lease", "expiry"}, MaxRev <- 4,
  MaxSession <- 1, row <- otherRow, exec <- otherExec, slot <- otherSlot,
  desired <- otherDesired, routes <- otherRoutes, ledger <- otherLedger,
  sealed <- otherSealed, clock <- otherClock, session <- otherSession,
  leaseOver <- otherLeaseOver, retired <- otherRetired, proj <- otherProj,
  destroy <- otherDestroy, lease <- otherLease, expiry <- otherExpiry,
  archive <- otherArchive

SuiteInit ==
  /\ on \in {"projection", "teardown", "pair", "artifacts", "race"}
  /\ Init
  /\ IF on = "pair" THEN Pair!Init
     ELSE IF on = "artifacts" THEN Artifacts!Init
     ELSE IF on = "race" THEN ArtifactRace!Init
     ELSE Teardown!Init

SuiteNext ==
  \/ on = "projection" /\ Next /\ UNCHANGED <<on, otherVars>>
  \/ on = "teardown" /\ Teardown!Next /\ UNCHANGED <<on, vars>>
  \/ on = "pair" /\ Pair!Next /\ UNCHANGED <<on, vars>>
  \/ on = "artifacts" /\ Artifacts!Next /\ UNCHANGED <<on, vars>>
  \/ on = "race" /\ ArtifactRace!Next /\ UNCHANGED <<on, vars>>

suiteVars == <<on, vars, otherVars>>

SuiteSpec == SuiteInit /\ [][SuiteNext]_suiteVars

-----------------------------------------------------------------------------
(* When requests to end the run, the expiry pass and the artifact endpoints*)
(* race, the row stays sound, the user's slot is held exactly while the run*)
(* has its active key, and a teardown that was accepted is whole; and      *)
(* racing writers take nothing back: an active key given up is not         *)
(* restored, a deletion request is not lost, and an archived execution     *)
(* stays archived.                                                         *)
RacingWritersKept ==
  /\ [](on = "teardown" => Teardown!SlotMatchesActiveKey)
  /\ [](on = "teardown" => Teardown!RunRowSound)
  /\ [](on = "pair" => Pair!RunRowSound)
  /\ [](on = "pair" => Pair!AcceptedTeardownIsWhole)
  /\ [](on = "artifacts" => Artifacts!RunRowSound)
  /\ [](on = "race" => ArtifactRace!RunRowSound)
  /\ [][on = "teardown" => Teardown!ActiveKeyNeverRestoredStep]_suiteVars
  /\ [][on = "teardown" => Teardown!DeleteRequestKeptStep]_suiteVars
  /\ [][on = "race" => ArtifactRace!ArchivedForGoodStep]_suiteVars

(* "Terminal outcomes keep their original scoring state": once a run ended *)
(* as completed or failed, no writer gives it another phase.               *)
TeardownOutcomeKept == [][on = "teardown" => Teardown!OutcomeKeptStep]_suiteVars
=============================================================================
