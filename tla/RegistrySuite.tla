---------------------------- MODULE RegistrySuite -----------------------------
(***************************************************************************)
(* Instances of the image registry and of the catalog that decides what it *)
(* retains, for TLC. Two images share a chunk, the first live, the second  *)
(* left whole in the bucket by an earlier upload. A behaviour is one       *)
(* instance, chosen at the start: `on` names it, the other component stays *)
(* in its initial state.                                                   *)
(***************************************************************************)
EXTENDS Registry, Catalog, TLC

VARIABLES
  on,    \* the instance that runs
  imagesGate, imagesStalled, imagesRunning, imagesSess, imagesHolds,
  imagesBucket, imagesLive, imagesRollback, imagesUp, imagesStart, imagesSw,
  releaseCatalog, releaseCand, releaseSnaps, releaseBuilds, releaseCache,
  releaseStored, releaseRun, releaseOps, releaseLocks, releasePlan,
  releaseOpsLeft, releasePrev

imagesVars == <<imagesGate, imagesStalled, imagesRunning, imagesSess,
    imagesHolds, imagesBucket, imagesLive, imagesRollback, imagesUp,
    imagesStart, imagesSw>>
releaseVars == <<releaseCatalog, releaseCand, releaseSnaps, releaseBuilds,
    releaseCache, releaseStored, releaseRun, releaseOps, releaseLocks,
    releasePlan, releaseOpsLeft, releasePrev>>

ImageNames == {"m1", "m2"}
ChunkNames == {"c1", "c2"}
BothWhole == ImageNames \cup ChunkNames
FaultEvents == {"lapse", "reap", "die", "crash", "fault"}
OperatorEvents == {"pause", "enforce", "lapse", "reap"}
UploadImage == "u1" :> "m2"
ImageChunks == ("m1" :> {"c1"}) @@ ("m2" :> {"c1", "c2"})

\* one scenario; a rebuild of r1 gives another image
OneExpected == ("r1" :> ("s1" :> "b1")) @@ ("r2" :> ("s1" :> "b2"))
OneFirst == "s1" :> "i0"
RebuildOutputs == ("b1" :> {"i1", "i3"}) @@ ("b2" :> {"i2"})

\* a revision of two scenarios and one of one of them
TwoNames == {"s1", "s2"}
TwoImages == {"i0", "i1", "i2", "i3", "i4"}
TwoFirst == ("s1" :> "i0") @@ ("s2" :> "i4")
ReleaseKinds == {"ingest", "candidate", "live", "promote"}
TwoExpected == ("r1" :> (("s1" :> "b1") @@ ("s2" :> "b3"))) @@ ("r2" :> ("s1" :> "b2"))
TwoOutputs == ("b1" :> {"i1"}) @@ ("b2" :> {"i2"}) @@ ("b3" :> {"i3"})

-----------------------------------------------------------------------------
ASSUME RegistryConstants

Faulty == INSTANCE Registry WITH
  Manifests <- ImageNames, Chunks <- ChunkNames, ChunksOf <- ImageChunks,
  InitLive <- "m1", InitBucket <- BothWhole, BatchSize <- 1,
  Uploaders <- {"u1"}, ImageOf <- UploadImage, Starts <- {},
  Sweepers <- {"s1"}, Sessions <- {"k1", "k2"}, MaxBatches <- 2,
  Restarts <- 1, Events <- FaultEvents, gate <- imagesGate,
  stalled <- imagesStalled, running <- imagesRunning, sess <- imagesSess,
  holds <- imagesHolds, bucket <- imagesBucket, live <- imagesLive,
  rollback <- imagesRollback, up <- imagesUp, start <- imagesStart,
  sw <- imagesSw

ASSUME Faulty!RegistryConstants

Operated == INSTANCE Registry WITH
  Manifests <- ImageNames, Chunks <- ChunkNames, ChunksOf <- ImageChunks,
  InitLive <- "m1", InitBucket <- BothWhole, BatchSize <- 1,
  Uploaders <- {"u1"}, ImageOf <- UploadImage, Starts <- {"r1"},
  Sweepers <- {"s1"}, Sessions <- {"k1"}, MaxBatches <- 1, Restarts <- 1,
  Events <- OperatorEvents, gate <- imagesGate, stalled <- imagesStalled,
  running <- imagesRunning, sess <- imagesSess, holds <- imagesHolds,
  bucket <- imagesBucket, live <- imagesLive, rollback <- imagesRollback,
  up <- imagesUp, start <- imagesStart, sw <- imagesSw

ASSUME Operated!RegistryConstants

ASSUME CatalogConstants

TwoScenarios == INSTANCE Catalog WITH
  Scenarios <- TwoNames, Revisions <- {"r1", "r2"},
  BuildIds <- {"b1", "b2", "b3"}, Images <- TwoImages, Runs <- {"q1"},
  Ops <- {"o1"}, Expected <- TwoExpected, Outputs <- TwoOutputs,
  FirstLive <- TwoFirst, Kinds <- ReleaseKinds, MaxOps <- 4,
  catalog <- releaseCatalog, cand <- releaseCand, snaps <- releaseSnaps,
  builds <- releaseBuilds, cache <- releaseCache, stored <- releaseStored,
  run <- releaseRun, ops <- releaseOps, locks <- releaseLocks,
  plan <- releasePlan, opsLeft <- releaseOpsLeft, prev <- releasePrev

ASSUME TwoScenarios!CatalogConstants

SuiteInit ==
  /\ on \in {"stall", "faults", "operator", "catalog", "release"}
  /\ Init
  /\ IF on = "operator" THEN Operated!Init
     ELSE Faulty!Init
  /\ CatalogInit
  /\ TwoScenarios!CatalogInit

SuiteNext ==
  \/ on = "stall" /\ Next
     /\ UNCHANGED <<on, imagesVars, catalogVars, releaseVars>>
  \/ on = "faults" /\ Faulty!Next
     /\ UNCHANGED <<on, vars, catalogVars, releaseVars>>
  \/ on = "operator" /\ Operated!Next
     /\ UNCHANGED <<on, vars, catalogVars, releaseVars>>
  \/ on = "catalog" /\ CatalogNext
     /\ UNCHANGED <<on, vars, imagesVars, releaseVars>>
  \/ on = "release" /\ TwoScenarios!CatalogNext
     /\ UNCHANGED <<on, vars, imagesVars, catalogVars>>

suiteVars == <<on, vars, imagesVars, catalogVars, releaseVars>>

SuiteSpec == SuiteInit /\ [][SuiteNext]_suiteVars

-----------------------------------------------------------------------------
(* With deletes that fail, uploads that are tried again and an operator who*)
(* pauses and enforces, referenced images stay whole; and of two scenarios *)
(* released together or apart, the newest record of each holds the release *)
(* before its last one.                                                    *)
ReleasesKept ==
  /\ [](on = "faults" => Faulty!ReferencedIsWhole)
  /\ [](on = "operator" => Operated!RegistryWhole)
  /\ [](on = "release" => TwoScenarios!PreviousKept)
=============================================================================
