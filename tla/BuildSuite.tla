------------------------------ MODULE BuildSuite ------------------------------
(***************************************************************************)
(* Instances of the components that turn a commit into images, for TLC:    *)
(* the scenario source, the build scheduler, the builder and the           *)
(* promotion; and of the archive that takes the recordings of a run back.  *)
(* A behaviour is one instance, chosen at the start: `on` names it, the    *)
(* other components stay in their initial states.                          *)
(***************************************************************************)
EXTENDS ArchiveUpload, BuildScheduler, ScenarioSource, TLC

CONSTANTS None

VARIABLES
  on,    \* the instance that runs
  queueRow, queueDesired, queueConn, queuePass, queueOp, queueRec, queueTerm,
  queueJobs, queueUsed,
  builderDesired, builderJob, files, tree, session, worker, publisher, fresh,
  builderUsed,
  pushRepo, pushBind, pushCommits, pushStaged, pushArchive, pushBundle,
  pushBuild, pushCat, pushTried, pushTick, pushUpload, pushOrder, pushBld,
  pushCompile, pushLeft,
  gate, aged, promotionOp, rows, src, promotionRow, do, runs, ready,
  promotionTick, adm, promotionLeft

queueVars == <<queueRow, queueDesired, queueConn, queuePass, queueOp,
    queueRec, queueTerm, queueJobs, queueUsed>>
builderVars == <<builderDesired, builderJob, files, tree, session, worker,
    publisher, fresh, builderUsed>>
pushVars == <<pushRepo, pushBind, pushCommits, pushStaged, pushArchive,
    pushBundle, pushBuild, pushCat, pushTried, pushTick, pushUpload,
    pushOrder, pushBld, pushCompile, pushLeft>>
promotionVars == <<gate, aged, promotionOp, rows, src, promotionRow, do, runs,
    ready, promotionTick, adm, promotionLeft>>

\* two hashes of one scenario and architecture
OneFamily == [b \in {"a", "b"} |-> "F1"]

\* an empty log, a recording of two parts and a cast of one
PartCounts == ("log" :> 0) @@ ("raw" :> 2) @@ ("cast" :> 1)

-----------------------------------------------------------------------------
ASSUME SchedulerConstants

Reassign == INSTANCE BuildScheduler WITH
  NoBuild <- "none", Slots <- 1, MaxBundles <- 1, MaxOutages <- 1,
  MaxDamaged <- 0, MaxSilent <- 0, MaxRetries <- 0, MaxRetired <- 1,
  MaxDied <- 0, MaxLost <- 0, Builds <- {"a"}, Family <- "a" :> "F1",
  Hosts <- {"h1", "h2"}, Passes <- {"p1"}, row <- queueRow,
  desired <- queueDesired, conn <- queueConn, pass <- queuePass,
  op <- queueOp, rec <- queueRec, term <- queueTerm, jobs <- queueJobs,
  used <- queueUsed

ASSUME Reassign!SchedulerConstants

SlotRace == INSTANCE BuildScheduler WITH
  NoBuild <- "none", Slots <- 1, MaxBundles <- 2, MaxOutages <- 0,
  MaxDamaged <- 0, MaxSilent <- 0, MaxRetries <- 0, MaxRetired <- 0,
  MaxDied <- 0, MaxLost <- 0, Builds <- {"a", "c"},
  Family <- ("a" :> "F1") @@ ("c" :> "F2"), Hosts <- {"h1"},
  Passes <- {"p1", "p2"}, row <- queueRow, desired <- queueDesired,
  conn <- queueConn, pass <- queuePass, op <- queueOp, rec <- queueRec,
  term <- queueTerm, jobs <- queueJobs, used <- queueUsed

ASSUME SlotRace!SchedulerConstants

Faulty == INSTANCE BuildScheduler WITH
  NoBuild <- "none", Slots <- 1, MaxBundles <- 1, MaxOutages <- 1,
  MaxDamaged <- 1, MaxSilent <- 0, MaxRetries <- 0, MaxRetired <- 0,
  MaxDied <- 1, MaxLost <- 1, Builds <- {"a"}, Family <- "a" :> "F1",
  Hosts <- {"h1"}, Passes <- {"p1"}, row <- queueRow, desired <- queueDesired,
  conn <- queueConn, pass <- queuePass, op <- queueOp, rec <- queueRec,
  term <- queueTerm, jobs <- queueJobs, used <- queueUsed

ASSUME Faulty!SchedulerConstants

Bundles == INSTANCE BuilderDaemon WITH
  Builds <- {"b1", "b2"}, Workers <- {"w1", "w2"}, Publishers <- {"p1"},
  NoBuild <- "none", MaxAttempts <- 2, MaxSlots <- 1, MaxDesired <- 1,
  MaxCancels <- 1, MaxErrors <- 0, MaxGone <- 1, MaxCrashes <- 1,
  desired <- builderDesired, job <- builderJob, used <- builderUsed

Outputs == INSTANCE BuilderDaemon WITH
  Builds <- {"b1"}, Workers <- {"w1", "w2"}, Publishers <- {"p1"},
  NoBuild <- "none", MaxAttempts <- 2, MaxSlots <- 1, MaxDesired <- 1,
  MaxCancels <- 1, MaxErrors <- 2, MaxGone <- 0, MaxCrashes <- 1,
  desired <- builderDesired, job <- builderJob, used <- builderUsed

ASSUME ScenarioSourceConstants

Pushed == INSTANCE ScenarioSource WITH
  NoRev <- NoRev, Revs <- {"r1", "r2"}, BadRevs <- {"r2"},
  Modes <- {"pull", "push"}, MaxTries <- 1, MaxCompiles <- 2, MaxMoves <- 1,
  MaxUploads <- 1, MaxChanges <- 1, MaxSourceFaults <- 0,
  Changes <- {"mode", "purge", "disconnect"}, repo <- pushRepo,
  bind <- pushBind, commits <- pushCommits, staged <- pushStaged,
  archive <- pushArchive, bundle <- pushBundle, build <- pushBuild,
  cat <- pushCat, tried <- pushTried, tick <- pushTick, upload <- pushUpload,
  order <- pushOrder, bld <- pushBld, compile <- pushCompile, left <- pushLeft

ASSUME Pushed!ScenarioSourceConstants

Promoting == INSTANCE Promotion WITH
  Revs <- {"r1", "r2"}, ImgOf <- ("r1" :> "old") @@ ("r2" :> "new"),
  First <- "r1", Runs <- {"x1"}, Ticks <- {"t1", "t2"}, MaxAttempts <- 2,
  MaxHeads <- 1, MaxStarts <- 1, MaxAdmin <- 1, MaxFaults <- 0,
  op <- promotionOp, row <- promotionRow, tick <- promotionTick,
  left <- promotionLeft

ASSUME Promoting!PromotionConstants

ASSUME ArchiveConstants

Granting == INSTANCE ArchiveUpload WITH
  Acks <- {TRUE}

ASSUME Granting!ArchiveConstants

SuiteInit ==
  /\ on \in {"hashes", "reassign", "slots", "faults", "bundles", "outputs",
             "pull", "push", "promotion", "archive", "milestones"}
  /\ SchedulerInit
  /\ IF on = "slots" THEN SlotRace!SchedulerInit
     ELSE IF on = "faults" THEN Faulty!SchedulerInit
     ELSE Reassign!SchedulerInit
  /\ IF on = "outputs" THEN Outputs!Init
     ELSE Bundles!Init
  /\ SourceInit
  /\ (on # "pull" => repo = "r1")
  /\ Pushed!SourceInit
  /\ (on # "push" => pushRepo = "r1" /\ pushBind.mode = "pull")
  /\ Promoting!Init
  /\ IF on = "milestones" THEN Granting!ArchiveInit
     ELSE ArchiveInit

SuiteNext ==
  \/ on = "hashes" /\ SchedulerNext
     /\ UNCHANGED <<on, queueVars, builderVars, sourceVars, pushVars, promotionVars,
        archiveVars>>
  \/ on = "reassign" /\ Reassign!SchedulerNext
     /\ UNCHANGED <<on, schedulerVars, builderVars, sourceVars, pushVars,
        promotionVars, archiveVars>>
  \/ on = "slots" /\ SlotRace!SchedulerNext
     /\ UNCHANGED <<on, schedulerVars, builderVars, sourceVars, pushVars,
        promotionVars, archiveVars>>
  \/ on = "faults" /\ Faulty!SchedulerNext
     /\ UNCHANGED <<on, schedulerVars, builderVars, sourceVars, pushVars,
        promotionVars, archiveVars>>
  \/ on = "bundles" /\ Bundles!Next
     /\ UNCHANGED <<on, schedulerVars, queueVars, sourceVars, pushVars, promotionVars,
        archiveVars>>
  \/ on = "outputs" /\ Outputs!Next
     /\ UNCHANGED <<on, schedulerVars, queueVars, sourceVars, pushVars, promotionVars,
        archiveVars>>
  \/ on = "pull" /\ SourceNext
     /\ UNCHANGED <<on, schedulerVars, queueVars, builderVars, pushVars,
        promotionVars, archiveVars>>
  \/ on = "push" /\ Pushed!SourceNext
     /\ UNCHANGED <<on, schedulerVars, queueVars, builderVars, sourceVars,
        promotionVars, archiveVars>>
  \/ on = "promotion" /\ Promoting!Next
     /\ UNCHANGED <<on, schedulerVars, queueVars, builderVars, sourceVars, pushVars,
        archiveVars>>
  \/ on = "archive" /\ ArchiveNext
     /\ UNCHANGED <<on, schedulerVars, queueVars, builderVars, sourceVars, pushVars,
        promotionVars>>
  \/ on = "milestones" /\ Granting!ArchiveNext
     /\ UNCHANGED <<on, schedulerVars, queueVars, builderVars, sourceVars, pushVars,
        promotionVars>>

suiteVars == <<on, schedulerVars, queueVars, builderVars, sourceVars,
    pushVars, promotionVars, archiveVars>>

SuiteSpec == SuiteInit /\ [][SuiteNext]_suiteVars

-----------------------------------------------------------------------------
(* A builder that goes away past the deadline is left with no build of     *)
(* another, and passes that race give it no more builds than it has slots; *)
(* on the builder, through cancellations and restarts, the bundle of an    *)
(* unfinished build is not evicted and the files of a completed output stay*)
(* until its publication is done with them.                                *)
BuildersKept ==
  /\ on = "reassign" => Reassign!NoOrphanBuild
  /\ on = "slots" => SlotRace!SlotsKept
  /\ on = "bundles" => Bundles!TypeOK
  /\ on = "bundles" => Bundles!BundleInUse
  /\ on = "outputs" => Outputs!DurableOutput

(* A compile result is applied only to the claim it was made for, only a   *)
(* commit that was the head becomes the target, and the live catalog is    *)
(* swapped only while no run uses the image it replaces and while the      *)
(* attempt that swaps holds the starts.                                    *)
SourceFenced ==
  /\ ResultIsCurrent
  /\ Pushed!TargetWasHead
  /\ Promoting!SwapIsIdle
  /\ Promoting!SwapIsHeld

(* The learner sees every milestone in order: the rank never falls and the *)
(* seal follows the replay milestone, whatever stale reports arrive.       *)
MilestonesKept == [][on = "milestones" => Granting!MilestonesInOrderStep]_suiteVars
=============================================================================
