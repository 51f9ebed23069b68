------------------------------ MODULE LiveBuild -------------------------------
(***************************************************************************)
(* Small instances of the components that turn a commit into images, with  *)
(* the fairness their code justifies, for liveness. A behaviour is one     *)
(* instance, chosen at the start: `on` names it, the other components stay *)
(* in their initial states.                                                *)
(***************************************************************************)
EXTENDS Naturals, FiniteSets, TLC

CONSTANTS None, NoHost

VARIABLES
  on,    \* the instance that runs
  catalog, cand, snaps, builds, cache, stored, run, ops, locks, plan, opsLeft,
  prev,
  row, desired, conn, pass, op, rec, term, jobs, used,
  builderDesired, job, files, tree, session, worker, publisher, fresh,
  builderUsed,
  repo, bind, commits, staged, archive, bundle, build, cat, tried, tick,
  upload, order, bld, compile, left

catalogVars == <<catalog, cand, snaps, builds, cache, stored, run, ops, locks,
    plan, opsLeft, prev>>
schedulerVars == <<row, desired, conn, pass, op, rec, term, jobs, used>>
builderVars == <<builderDesired, job, files, tree, session, worker, publisher,
    fresh, builderUsed>>
sourceVars == <<repo, bind, commits, staged, archive, bundle, build, cat,
    tried, tick, upload, order, bld, compile, left>>

-----------------------------------------------------------------------------
Drain == INSTANCE Catalog WITH
  Scenarios <- {"s1"}, Revisions <- {"r1", "r2"}, BuildIds <- {"b1", "b2"},
  Images <- {"i0", "i1", "i2"}, Runs <- {"q1"}, Ops <- {"o1"},
  Expected <- ("r1" :> ("s1" :> "b1")) @@ ("r2" :> ("s1" :> "b2")),
  Outputs <- ("b1" :> {"i1"}) @@ ("b2" :> {"i2"}), FirstLive <- "s1" :> "i0",
  Kinds <- {"ingest", "candidate", "promote", "live"}, MaxOps <- 4,
  Nil <- None

ASSUME Drain!CatalogConstants

Scheduling == INSTANCE BuildScheduler WITH
  Builds <- {"a"}, Family <- "a" :> "F1", NoBuild <- "none", Hosts <- {"h1"},
  Passes <- {"p1"}, Slots <- 1, MaxBundles <- 1, MaxOutages <- 1,
  MaxDamaged <- 1, MaxSilent <- 0, MaxRetries <- 0, MaxRetired <- 0,
  MaxDied <- 1, MaxLost <- 1

ASSUME Scheduling!SchedulerConstants

Building == INSTANCE BuilderDaemon WITH
  Builds <- {"b1"}, Workers <- {"w1"}, Publishers <- {"p1"},
  NoBuild <- "none", MaxAttempts <- 2, MaxSlots <- 1, MaxDesired <- 1,
  MaxCancels <- 1, MaxErrors <- 2, MaxGone <- 0, MaxCrashes <- 1,
  desired <- builderDesired, used <- builderUsed

Following == INSTANCE ScenarioSource WITH
  Revs <- {"r1", "r2"}, BadRevs <- {"r2"}, Modes <- {"pull"}, MaxTries <- 1,
  MaxCompiles <- 1, MaxMoves <- 1, MaxUploads <- 0, MaxChanges <- 1,
  MaxSourceFaults <- 1, NoRev <- None, Changes <- {"pause"}

ASSUME Following!ScenarioSourceConstants

SuiteInit ==
  /\ on \in {"drain", "builds", "builder", "source"}
  /\ Drain!CatalogInit
  /\ Scheduling!SchedulerInit
  /\ Building!Init
  /\ Following!SourceInit
  /\ (on # "source" => repo = "r1")

SuiteNext ==
  \/ on = "drain" /\ Drain!CatalogNext
     /\ UNCHANGED <<on, schedulerVars, builderVars, sourceVars>>
  \/ on = "builds" /\ Scheduling!SchedulerNext
     /\ UNCHANGED <<on, catalogVars, builderVars, sourceVars>>
  \/ on = "builder" /\ Building!Next
     /\ UNCHANGED <<on, catalogVars, schedulerVars, sourceVars>>
  \/ on = "source" /\ Following!SourceNext
     /\ UNCHANGED <<on, catalogVars, schedulerVars, builderVars>>

suiteVars == <<on, catalogVars, schedulerVars, builderVars, sourceVars>>

(* Drain!CatalogFairness, while that instance runs. *)
DrainFair ==
  /\ \A o \in {"o1"} : WF_(Drain!catalogVars)(on = "drain" /\ Drain!OpStep(o))
  /\ \A q \in {"q1"} : WF_(Drain!catalogVars)(on = "drain" /\ Drain!RunStep(q))
  /\ \A b \in {"b1", "b2"} : WF_(Drain!catalogVars)(on = "drain" /\ Drain!BuildEnds(b))
  /\ WF_(Drain!catalogVars)(on = "drain" /\ Drain!RetentionStep)
  /\ SF_(Drain!catalogVars)(on = "drain" /\ Drain!StartSweep)

(* Scheduling!SchedulerFairness, while that instance runs. *)
SchedulingFair ==
  /\ \A f \in Scheduling!Families : WF_(Scheduling!schedulerVars)(on = "builds" /\ (Scheduling!ClearRetired(f) \/ Scheduling!CommitRetry(f) \/ Scheduling!CommitRequeue(f) \/ Scheduling!RemoveMoved(f)))
  /\ \A p \in {"p1"} : WF_(Scheduling!schedulerVars)(on = "builds" /\ (Scheduling!ClaimBuild(p)
                                                         \/ Scheduling!PublishDesired(p)
                                                         \/ Scheduling!RecheckAssignment(p)
                                                         \/ Scheduling!UndoDesired(p)))
  /\ \A b \in {"a"} : SF_(Scheduling!schedulerVars)(on = "builds" /\ (\E p \in {"p1"}, h \in {"h1"} : Scheduling!ReadQueue(p, b, h)))
  /\ \A h \in {"h1"} :
       /\ WF_(Scheduling!schedulerVars)(on = "builds" /\ Scheduling!ReadAssignments(h))
       /\ WF_(Scheduling!schedulerVars)(on = "builds" /\ Scheduling!WriteAssignments(h))
       /\ WF_(Scheduling!schedulerVars)(on = "builds" /\ Scheduling!DropSuperseded(h))
       /\ WF_(Scheduling!schedulerVars)(on = "builds" /\ Scheduling!ApplyDesired(h))
       /\ WF_(Scheduling!schedulerVars)(on = "builds" /\ Scheduling!RemoveTerminal(h))
       /\ WF_(Scheduling!schedulerVars)(on = "builds" /\ Scheduling!Reconnect(h))
       /\ \A b \in {"a"} : /\ WF_(Scheduling!schedulerVars)(on = "builds" /\ Scheduling!Work(h, b))
                           /\ SF_(Scheduling!schedulerVars)(on = "builds" /\ Scheduling!Publish(h, b))
                           /\ SF_(Scheduling!schedulerVars)(on = "builds" /\ Scheduling!Report(h, b))

(* Building!Fairness, while that instance runs. *)
BuildingFair ==
  /\ WF_(Building!vars)(on = "builder" /\ ~fresh /\ Building!ReceiveDesired(builderDesired))
  /\ \A b \in {"b1"} : WF_(Building!vars)(on = "builder" /\ Building!RetryDue(b))
  /\ \A w \in {"w1"} :
       /\ WF_(Building!vars)(on = "builder" /\ (\E b \in {"b1"} : Building!ClaimBuild(w, b)))
       /\ WF_(Building!vars)(on = "builder" /\ (\/ Building!FetchBundle(w)
                                 \/ Building!ComputeImage(w) \/ Building!SaveOutputs(w)
                                 \/ Building!WaitForClaim(w) \/ Building!CloseSession(w)
                                 \/ Building!RecordFailure(w) \/ Building!CleanAttempt(w)))
  /\ \A p \in {"p1"} :
       /\ WF_(Building!vars)(on = "builder" /\ (\E b \in {"b1"} : Building!ClaimPublication(p, b)))
       /\ WF_(Building!vars)(on = "builder" /\ (\/ Building!ValidateOutputs(p)
                                 \/ Building!RebuildDamaged(p) \/ Building!PublishOutputs(p)
                                 \/ Building!RecordPublishFailure(p) \/ Building!UploadLogs(p)
                                 \/ Building!CleanPublished(p)))

(* Following!SourceFairness, while that instance runs. *)
FollowingFair ==
  /\ WF_(Following!sourceVars)(on = "source" /\ Following!TickStep)
  /\ WF_(Following!sourceVars)(on = "source" /\ Following!Alarm)
  /\ WF_(Following!sourceVars)(on = "source" /\ Following!BuilderStep)
  /\ WF_(Following!sourceVars)(on = "source" /\ Following!HostReport)
  /\ WF_(Following!sourceVars)(on = "source" /\ Following!UploadStage)
  /\ WF_(Following!sourceVars)(on = "source" /\ Following!UploadClaim)
  /\ \A r \in {"r1", "r2"} : /\ WF_(Following!sourceVars)(on = "source" /\ Following!BuildMoves(r))
                             /\ SF_(Following!sourceVars)(on = "source" /\ Following!ExpireCompile(r))

SuiteSpec ==
  /\ SuiteInit /\ [][SuiteNext]_suiteVars
  /\ DrainFair
  /\ SchedulingFair
  /\ BuildingFair
  /\ FollowingFair

-----------------------------------------------------------------------------
(* An assigned build reaches its builder or is assigned again, every build *)
(* ends, and every job of the builder's database ends.                     *)
BuildsEnd ==
  /\ on = "builds" => Scheduling!AssignedIsDelivered
  /\ on = "builds" => Scheduling!EveryBuildEnds
  /\ on = "builder" => Building!EveryJobEnds

(* A head is deployed or refused in the end, and the recorded live commit  *)
(* follows the catalog.                                                    *)
SourceSettles ==
  /\ on = "source" => Following!HeadSettles
  /\ on = "source" => Following!LiveFollowsCatalog

(* An image that nothing references any more leaves the bucket in the end: *)
(* its candidate rows, records and cache intents are retired by some pass, *)
(* then its objects go.                                                    *)
GarbageGoes == on = "drain" => Drain!GarbageGoes
=============================================================================
