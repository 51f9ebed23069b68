------------------------------ MODULE Registry ------------------------------
(***************************************************************************)
(* The image registry: uploads under an admission session, publication of  *)
(* a live pointer, run starts that read it, and the collector that deletes *)
(* what nothing references.  The D1 gate (lib/image-registry-admission.ts) *)
(* keeps shared writers and the exclusive sweep apart; the collector is    *)
(* lib/image-registry-cleanup.ts, the uploader crates/intar-image-upload.  *)
(*                                                                         *)
(* Objects are chunk manifests and chunks.  Time is two flags: a session   *)
(* whose lease has lapsed, a sweep whose heartbeat has stopped.  A row of  *)
(* image_registry_operation_writers is "busy" in its actor while the       *)
(* request runs, and one hold in `holds` when its end was not recorded.    *)
(* A request does not outlive its lease plus the reap grace, so a reap     *)
(* meets no row whose request still runs and no delete call in flight.     *)
(***************************************************************************)
EXTENDS Naturals, FiniteSets

CONSTANTS
  Manifests, Chunks,
  ChunksOf,     \* [Manifests -> SUBSET Chunks]
  None,         \* no manifest, no token
  Uploaders,
  ImageOf,      \* [Uploaders -> the manifest it publishes]
  Starts,       \* run starts
  Sweepers,     \* collector passes, scheduled and by RPC
  Sessions,     \* identities of upload sessions
  BatchSize,    \* keys of one bulk delete
  MaxBatches,   \* maxDeletes / batchSize of one pass
  Restarts,     \* SESSION_RESTARTS
  InitLive, InitBucket,
  Events        \* what else happens: a subset of AllEvents

AllEvents == {"lapse", "reap", "fault", "die", "pause", "enforce", "crash"}

RegistryConstants ==
  /\ ChunksOf \in [Manifests -> SUBSET Chunks] /\ Manifests \cap Chunks = {}
  /\ None \notin Manifests \cup Chunks \cup Sweepers \cup Sessions
  /\ ImageOf \in [Uploaders -> Manifests]
  /\ BatchSize \in Nat \ {0} /\ MaxBatches \in Nat \ {0} /\ Restarts \in Nat
  /\ InitLive \in Manifests \cup {None} /\ InitBucket \subseteq Manifests \cup Chunks
  /\ InitLive # None => {InitLive} \cup ChunksOf[InitLive] \subseteq InitBucket
  /\ Events \subseteq AllEvents

VARIABLES
  gate,     \* image_registry_admission: state, sweep_token, paused, enforcement
  stalled,  \* the sweep's heartbeat is older than its lease and the reap cutoff
  running,  \* image_registry_gc_runs in state running, by sweep token
  sess,     \* [Sessions -> state of the upload session, its lease lapsed or not]
  holds,    \* some writer row is unresolved and its request is over
  bucket,   \* objects of the R2 bucket
  live,     \* the catalog's live pointer
  rollback, \* the release it replaced
  up,       \* [Uploaders -> the publish under way]
  start,    \* [Starts -> the run start and the run it committed]
  sw        \* [Sweepers -> the collector pass under way]

gateVars == <<gate, stalled, running>>
pointers == <<live, rollback>>
vars == <<gate, stalled, running, sess, holds, bucket, live, rollback, up, start, sw>>

Objects == Manifests \cup Chunks
Whole(m) == {m} \cup ChunksOf[m]

Fresh == [state |-> "none", lapsed |-> FALSE]
NewUpload == [stage |-> "start", sid |-> None, tries |-> 0, missing |-> {}, busy |-> FALSE,
              lost |-> "no", again |-> FALSE]
IdleSweep == [pc |-> "idle", baseline |-> {}, todo |-> {}, keep |-> {}, batch |-> {},
              claimed |-> {}, budget |-> 0, error |-> FALSE, completed |-> FALSE]

Init ==
  /\ gate = [state |-> "open", token |-> None, paused |-> FALSE, enforce |-> TRUE]
  /\ stalled = FALSE /\ running = {}
  /\ sess = [s \in Sessions |-> Fresh]
  /\ holds = FALSE
  /\ bucket = InitBucket /\ live = InitLive /\ rollback = None
  /\ up = [u \in Uploaders |-> NewUpload]
  /\ start = [r \in Starts |-> [pc |-> "new", image |-> None]]
  /\ sw = [s \in Sweepers |-> IdleSweep]

(***************************************************************************)
(* The gate.                                                               *)
(***************************************************************************)
OpenSessions == {s \in Sessions : sess[s].state = "open"}
Busy == \/ \E u \in Uploaders : up[u].busy
        \/ \E r \in Starts : start[r].pc \in {"admitted", "read"}

\* mutant: an open session does not hold a sweep off
BlockedByWritersOnly == Busy \/ holds

\* registryAdmissionBlockedReason: sessions count while open, lapsed or not
Blocked == OpenSessions # {} \/ Busy \/ holds

\* the guard of the writer's INSERT ... SELECT
GateAdmits == gate.state = "open" /\ ~gate.paused

SessionValid(s) == sess[s].state = "open" /\ ~sess[s].lapsed

\* lease.complete: a settled row is deleted; a release that cannot be written is a hold
Release == \/ holds' = holds
           \/ "fault" \in Events /\ holds' = TRUE

(***************************************************************************)
(* The uploader.                                                           *)
(***************************************************************************)
SetUp(u, r) == up' = [up EXCEPT ![u] = r]

OpenSession(u) ==
  /\ up[u].stage = "start"
  /\ gate.state = "open"
  /\ \E s \in Sessions :
       /\ sess[s].state = "none"
       /\ sess' = [sess EXCEPT ![s].state = "open"]
       /\ SetUp(u, [up[u] EXCEPT !.stage = "probe", !.sid = s, !.lost = "no", !.again = FALSE])
  /\ UNCHANGED <<gateVars, holds, bucket, pointers, start, sw>>

\* the retries of the session request run out while a sweep holds the gate
OpenRefused(u) ==
  /\ up[u].stage = "start" /\ gate.state # "open"
  /\ SetUp(u, [up[u] EXCEPT !.stage = "failed"])
  /\ UNCHANGED <<gateVars, sess, holds, bucket, pointers, start, sw>>

\* require_live_session: before the chunk manifest and before the publish
StopsOnLostSession(u) == up[u].stage \in {"manifest", "publish"} /\ up[u].lost # "no"

Requesting(u) == up[u].stage \in {"probe", "chunks", "manifest", "publish"} /\ ~up[u].busy

Admit(u) ==
  /\ Requesting(u) /\ ~StopsOnLostSession(u)
  /\ GateAdmits /\ SessionValid(up[u].sid)
  /\ SetUp(u, [up[u] EXCEPT !.busy = TRUE])
  /\ UNCHANGED <<gateVars, sess, holds, bucket, pointers, start, sw>>

\* a refusal that names the session restarts the upload from its probe
AdmitRefused(u) ==
  /\ Requesting(u)
  /\ \/ StopsOnLostSession(u)
     \/ ~(GateAdmits /\ SessionValid(up[u].sid))
  /\ SetUp(u, [up[u] EXCEPT !.stage = "close",
       !.again = /\ up[u].tries < Restarts
                 /\ IF StopsOnLostSession(u) THEN up[u].lost = "superseded"
                                             ELSE ~SessionValid(up[u].sid)])
  /\ UNCHANGED <<gateVars, sess, holds, bucket, pointers, start, sw>>

BeatFails(u) ==
  /\ up[u].stage \in {"probe", "chunks", "manifest", "publish", "commit"} /\ up[u].lost = "no"
  /\ \/ ~SessionValid(up[u].sid) /\ SetUp(u, [up[u] EXCEPT !.lost = "superseded"])
     \/ "fault" \in Events /\ SetUp(u, [up[u] EXCEPT !.lost = "fatal"])
  /\ UNCHANGED <<gateVars, sess, holds, bucket, pointers, start, sw>>

Serving(u, stage) == up[u].busy /\ up[u].stage = stage

\* handleImageChunkExists
Probe(u) ==
  /\ Serving(u, "probe")
  /\ LET gone == ChunksOf[ImageOf[u]] \ bucket
     IN  SetUp(u, [up[u] EXCEPT !.busy = FALSE, !.missing = gone,
                                !.stage = IF gone = {} THEN "manifest" ELSE "chunks"])
  /\ Release
  /\ UNCHANGED <<gateVars, sess, bucket, pointers, start, sw>>

PutChunk(u) ==
  /\ Serving(u, "chunks")
  /\ \E c \in up[u].missing :
       /\ bucket' = bucket \cup {c}
       /\ SetUp(u, [up[u] EXCEPT !.busy = FALSE, !.missing = @ \ {c},
                                 !.stage = IF up[u].missing = {c} THEN "manifest" ELSE "chunks"])
  /\ Release
  /\ UNCHANGED <<gateVars, sess, pointers, start, sw>>

\* every chunk is looked up again; a missing one is a 409
PutManifest(u) ==
  /\ Serving(u, "manifest")
  /\ IF ChunksOf[ImageOf[u]] \subseteq bucket
     THEN /\ bucket' = bucket \cup {ImageOf[u]}
          /\ SetUp(u, [up[u] EXCEPT !.busy = FALSE, !.stage = "publish"])
     ELSE /\ bucket' = bucket
          /\ SetUp(u, [up[u] EXCEPT !.busy = FALSE, !.stage = "close"])
  /\ Release
  /\ UNCHANGED <<gateVars, sess, pointers, start, sw>>

\* prepareVmImages: the manifest object alone is looked up
PublishCheck(u) ==
  /\ Serving(u, "publish")
  /\ IF ImageOf[u] \in bucket
     THEN SetUp(u, [up[u] EXCEPT !.stage = "commit"]) /\ holds' = holds
     ELSE SetUp(u, [up[u] EXCEPT !.busy = FALSE, !.stage = "close"]) /\ Release
  /\ UNCHANGED <<gateVars, sess, bucket, pointers, start, sw>>

\* replaceScenarioCatalogWithRollback, or its refusal; the writer settles either way
PublishCommit(u) ==
  /\ Serving(u, "commit")
  /\ \/ live' = ImageOf[u] /\ rollback' = IF live = ImageOf[u] THEN rollback ELSE live
     \/ UNCHANGED pointers
  /\ SetUp(u, [up[u] EXCEPT !.busy = FALSE, !.stage = "close"])
  /\ Release
  /\ UNCHANGED <<gateVars, sess, bucket, start, sw>>

\* a 5xx or an isolate that died: the row stays, the client gives the upload up
ServerError(u) ==
  /\ "fault" \in Events
  /\ up[u].busy
  /\ SetUp(u, [up[u] EXCEPT !.busy = FALSE, !.stage = "close"])
  /\ holds' = TRUE
  /\ UNCHANGED <<gateVars, sess, bucket, pointers, start, sw>>

\* completeRegistryUploadSession; the request may be lost
CloseSession(u) ==
  /\ up[u].stage = "close"
  /\ \/ sess' = [sess EXCEPT ![up[u].sid].state = IF @ = "open" THEN "closed" ELSE @]
     \/ "fault" \in Events /\ sess' = sess
  /\ SetUp(u, IF up[u].again
              THEN [NewUpload EXCEPT !.tries = up[u].tries + 1]
              ELSE [up[u] EXCEPT !.stage = "done"])
  /\ UNCHANGED <<gateVars, holds, bucket, pointers, start, sw>>

\* the client process is killed; a request of it in flight still runs to its end
UploaderDies(u) ==
  /\ "die" \in Events
  /\ up[u].stage \notin {"start", "done", "failed"} /\ ~up[u].busy
  /\ SetUp(u, [up[u] EXCEPT !.stage = "failed"])
  /\ UNCHANGED <<gateVars, sess, holds, bucket, pointers, start, sw>>

UploaderStep(u) ==
  \/ OpenSession(u) \/ OpenRefused(u) \/ Admit(u) \/ AdmitRefused(u) \/ Probe(u) \/ PutChunk(u)
  \/ PutManifest(u) \/ PublishCheck(u) \/ PublishCommit(u) \/ CloseSession(u)

(***************************************************************************)
(* A run start holds an internal writer from its first read to its commit. *)
(***************************************************************************)
SetStart(r, v) == start' = [start EXCEPT ![r] = v]

RunAdmit(r) ==
  /\ start[r].pc = "new" /\ GateAdmits
  /\ SetStart(r, [pc |-> "admitted", image |-> None])
  /\ UNCHANGED <<gateVars, sess, holds, bucket, pointers, up, sw>>

RunRead(r) ==
  /\ start[r].pc = "admitted" /\ live # None
  /\ SetStart(r, [pc |-> "read", image |-> live])
  /\ UNCHANGED <<gateVars, sess, holds, bucket, pointers, up, sw>>

\* the commit is anchored to the pointer that was read
RunCommit(r) ==
  /\ start[r].pc = "read"
  /\ SetStart(r, IF live = start[r].image THEN [pc |-> "running", image |-> live]
                                          ELSE [pc |-> "ended", image |-> None])
  /\ Release
  /\ UNCHANGED <<gateVars, sess, bucket, pointers, up, sw>>

RunEnds(r) ==
  /\ start[r].pc = "running"
  /\ SetStart(r, [pc |-> "ended", image |-> None])
  /\ UNCHANGED <<gateVars, sess, holds, bucket, pointers, up, sw>>

(***************************************************************************)
(* The collector.                                                          *)
(***************************************************************************)
SetSweep(s, r) == sw' = [sw EXCEPT ![s] = r]
HoldsGate(s) == gate.state = "sweeping" /\ gate.token = s

\* one batch: writers, sessions, an unfinished run, a pause or a sweep refuse it
AcquireSweep(s) ==
  /\ sw[s].pc = "idle"
  /\ ~Blocked /\ running = {}
  /\ gate.state = "open" /\ ~gate.paused
  /\ gate' = [gate EXCEPT !.state = "sweeping", !.token = s]
  /\ running' = {s} /\ stalled' = FALSE
  /\ SetSweep(s, [IdleSweep EXCEPT !.pc = "acquired", !.budget = MaxBatches])
  /\ UNCHANGED <<sess, holds, bucket, pointers, up, start>>

\* the early returns of run(): the pass ends and the gate is not given back
Withheld(s) == SetSweep(s, IdleSweep) /\ UNCHANGED gateVars

CheckEnforcement(s) ==
  /\ sw[s].pc = "acquired"
  /\ IF gate.enforce /\ ~Blocked
     THEN SetSweep(s, [sw[s] EXCEPT !.pc = "scan"]) /\ UNCHANGED gateVars
     ELSE Withheld(s)
  /\ UNCHANGED <<sess, holds, bucket, pointers, up, start>>

ScanBucket(s) ==
  /\ sw[s].pc = "scan"
  /\ SetSweep(s, [sw[s] EXCEPT !.pc = "plan", !.baseline = bucket])
  /\ UNCHANGED <<gateVars, sess, holds, bucket, pointers, up, start>>

Roots == ({live, rollback} \cup {start[r].image : r \in {q \in Starts : start[q].pc = "running"}})
         \ {None}

\* verifyRetainedObjects: a root's manifest and its chunks; one that was not listed is a fault
Retained == UNION {Whole(m) : m \in Roots}
Candidates(s) == sw[s].baseline \ Retained

\* a projection that cannot be read is a fault too
BuildPlan(s) ==
  /\ sw[s].pc = "plan"
  /\ \/ /\ Retained \subseteq sw[s].baseline
        /\ SetSweep(s, [sw[s] EXCEPT !.pc = "beat", !.keep = Retained, !.todo = Candidates(s)])
        /\ UNCHANGED gateVars
     \/ /\ ~(Retained \subseteq sw[s].baseline) \/ "fault" \in Events
        /\ Withheld(s)
  /\ UNCHANGED <<sess, holds, bucket, pointers, up, start>>

\* the next keys in delete order: manifests before chunks, kinds may share a batch
Batches(todo) ==
  {b \in SUBSET todo :
     /\ Cardinality(b) = IF Cardinality(todo) < BatchSize THEN Cardinality(todo) ELSE BatchSize
     /\ b \cap Chunks # {} => todo \cap Manifests \subseteq b}

HeartbeatSweep(s) ==
  /\ sw[s].pc = "beat" /\ sw[s].todo # {} /\ sw[s].budget > 0
  /\ IF HoldsGate(s)
     THEN /\ stalled' = FALSE
          /\ IF gate.enforce /\ ~Blocked
             THEN \E b \in Batches(sw[s].todo) :
                    SetSweep(s, [sw[s] EXCEPT !.pc = "assert", !.batch = b])
             ELSE SetSweep(s, [sw[s] EXCEPT !.pc = "post", !.error = TRUE])
     ELSE /\ stalled' = stalled
          /\ SetSweep(s, [sw[s] EXCEPT !.pc = "post", !.error = TRUE])
  /\ UNCHANGED <<gate, running, sess, holds, bucket, pointers, up, start>>

BatchesDone(s) ==
  /\ sw[s].pc = "beat" /\ (sw[s].todo = {} \/ sw[s].budget = 0)
  /\ SetSweep(s, [sw[s] EXCEPT !.pc = "post"])
  /\ UNCHANGED <<gateVars, sess, holds, bucket, pointers, up, start>>

Deletable(s) == HoldsGate(s) /\ ~stalled /\ ~gate.paused /\ gate.enforce /\ ~Blocked

AssertDeletable(s) ==
  /\ sw[s].pc = "assert"
  /\ SetSweep(s, IF Deletable(s) THEN [sw[s] EXCEPT !.pc = "delete"]
                                 ELSE [sw[s] EXCEPT !.pc = "post", !.error = TRUE])
  /\ UNCHANGED <<gateVars, sess, holds, bucket, pointers, up, start>>

\* the bulk call returns or throws; the keys it removed are only known by a listing
DeleteBatch(s) ==
  /\ sw[s].pc = "delete"
  /\ \/ \E gone \in SUBSET sw[s].batch :
          /\ gone = sw[s].batch \/ "fault" \in Events
          /\ bucket' = bucket \ gone
          /\ SetSweep(s, [sw[s] EXCEPT !.pc = "beat", !.claimed = @ \cup sw[s].batch,
                              !.todo = @ \ sw[s].batch, !.budget = @ - 1, !.batch = {}])
     \/ \E gone \in SUBSET sw[s].batch :
          /\ "fault" \in Events
          /\ bucket' = bucket \ gone
          /\ SetSweep(s, [sw[s] EXCEPT !.pc = "post", !.error = TRUE, !.batch = {}])
  /\ UNCHANGED <<gateVars, sess, holds, pointers, up, start>>

\* completed: every claim verified, nothing else moved, nothing left for another pass
Proven(s) ==
  LET verified == sw[s].claimed \ bucket
  IN  /\ ~sw[s].error /\ sw[s].todo = {}
      /\ sw[s].claimed \subseteq verified
      /\ bucket = sw[s].baseline \ verified

PostScan(s) ==
  /\ sw[s].pc = "post"
  /\ SetSweep(s, [sw[s] EXCEPT !.pc = "finish", !.completed = Proven(s)])
  /\ UNCHANGED <<gateVars, sess, holds, bucket, pointers, up, start>>

\* mutant: only a completed pass gives the gate back
FinishCompletedOnly(s) ==
  /\ sw[s].pc = "finish"
  /\ IF HoldsGate(s) /\ sw[s].completed
     THEN gate' = [gate EXCEPT !.state = "open", !.token = None] /\ stalled' = FALSE
     ELSE UNCHANGED <<gate, stalled>>
  /\ running' = running \ {s}
  /\ SetSweep(s, IdleSweep)
  /\ UNCHANGED <<sess, holds, bucket, pointers, up, start>>

FinishSweep(s) ==
  /\ sw[s].pc = "finish"
  /\ IF HoldsGate(s) THEN gate' = [gate EXCEPT !.state = "open", !.token = None] /\ stalled' = FALSE
                     ELSE UNCHANGED <<gate, stalled>>
  /\ running' = running \ {s}
  /\ SetSweep(s, IdleSweep)
  /\ UNCHANGED <<sess, holds, bucket, pointers, up, start>>

\* the catch of run(): a call that threw ends the pass through the same finish
SweepThrows(s) ==
  /\ "fault" \in Events
  /\ sw[s].pc \in {"scan", "beat", "assert", "post"}
  /\ SetSweep(s, [sw[s] EXCEPT !.pc = "finish", !.error = TRUE, !.completed = FALSE])
  /\ UNCHANGED <<gateVars, sess, holds, bucket, pointers, up, start>>

\* the collector's isolate dies; a delete call it had made is over
SweepCrash(s) ==
  /\ "crash" \in Events
  /\ sw[s].pc \notin {"idle", "delete"}
  /\ SetSweep(s, IdleSweep)
  /\ UNCHANGED <<gateVars, sess, holds, bucket, pointers, up, start>>

SweepStep(s) ==
  \/ AcquireSweep(s) \/ CheckEnforcement(s) \/ ScanBucket(s) \/ BuildPlan(s) \/ HeartbeatSweep(s)
  \/ BatchesDone(s) \/ AssertDeletable(s) \/ DeleteBatch(s) \/ PostScan(s) \/ FinishSweep(s)

(***************************************************************************)
(* Time and the operator.                                                  *)
(***************************************************************************)
SessionLapses ==
  /\ "lapse" \in Events
  /\ \E s \in OpenSessions : ~sess[s].lapsed /\ sess' = [sess EXCEPT ![s].lapsed = TRUE]
  /\ UNCHANGED <<gateVars, holds, bucket, pointers, up, start, sw>>

SweepStalls ==
  /\ "reap" \in Events
  /\ gate.state = "sweeping" /\ ~stalled
  /\ ~\E s \in Sweepers : sw[s].pc = "delete"
  /\ stalled' = TRUE
  /\ UNCHANGED <<gate, running, sess, holds, bucket, pointers, up, start, sw>>

\* reapRegistryAdmission, with or without resolve_stalled_sweeps
Reap(resolve) ==
  /\ "reap" \in Events
  /\ sess' = [s \in Sessions |-> IF sess[s].state = "open" /\ sess[s].lapsed
                                 THEN [sess[s] EXCEPT !.state = "reaped"] ELSE sess[s]]
  /\ holds' = FALSE
  /\ IF resolve /\ stalled
     THEN /\ gate' = [gate EXCEPT !.state = "open", !.token = None]
          /\ running' = {} /\ stalled' = FALSE
     ELSE UNCHANGED gateVars
  /\ UNCHANGED <<bucket, pointers, up, start, sw>>

SetPause ==
  /\ "pause" \in Events
  /\ gate' = [gate EXCEPT !.paused = ~@]
  /\ UNCHANGED <<stalled, running, sess, holds, bucket, pointers, up, start, sw>>

SetEnforcement ==
  /\ "enforce" \in Events
  /\ gate' = [gate EXCEPT !.enforce = ~@]
  /\ UNCHANGED <<stalled, running, sess, holds, bucket, pointers, up, start, sw>>

Next ==
  \/ \E u \in Uploaders : UploaderStep(u) \/ BeatFails(u) \/ ServerError(u) \/ UploaderDies(u)
  \/ \E r \in Starts : RunAdmit(r) \/ RunRead(r) \/ RunCommit(r) \/ RunEnds(r)
  \/ \E s \in Sweepers : SweepStep(s) \/ SweepThrows(s) \/ SweepCrash(s)
  \/ SessionLapses \/ SweepStalls \/ SetPause \/ SetEnforcement
  \/ \E resolve \in BOOLEAN : Reap(resolve)

Spec == Init /\ [][Next]_vars

Fairness ==
  /\ \A u \in Uploaders : WF_vars(UploaderStep(u))
  /\ \A s \in Sweepers : WF_vars(SweepStep(s))

FairSpec == Spec /\ Fairness

TypeOK ==
  /\ gate \in [state : {"open", "sweeping"}, token : Sweepers \cup {None}, paused : BOOLEAN,
               enforce : BOOLEAN]
  /\ stalled \in BOOLEAN /\ running \subseteq Sweepers /\ holds \in BOOLEAN
  /\ sess \in [Sessions -> [state : {"none", "open", "closed", "reaped"}, lapsed : BOOLEAN]]
  /\ bucket \subseteq Objects
  /\ live \in Manifests \cup {None} /\ rollback \in Manifests \cup {None}
  /\ up \in [Uploaders -> [stage : {"start", "probe", "chunks", "manifest", "publish", "commit",
                                    "close", "done", "failed"},
                           sid : Sessions \cup {None}, tries : Nat, missing : SUBSET Chunks,
                           busy : BOOLEAN, lost : {"no", "superseded", "fatal"},
                           again : BOOLEAN]]
  /\ start \in [Starts -> [pc : {"new", "admitted", "read", "running", "ended"},
                           image : Manifests \cup {None}]]
  /\ sw \in [Sweepers -> [pc : {"idle", "acquired", "scan", "plan", "beat", "assert", "delete",
                                "post", "finish"},
                          baseline : SUBSET Objects, todo : SUBSET Objects, keep : SUBSET Objects,
                          batch : SUBSET Objects, claimed : SUBSET Objects, budget : Nat,
                          error : BOOLEAN, completed : BOOLEAN]]

\* What the catalog, its rollback or an unfinished run names is in the bucket with all its
\* chunks, although a publish looks up the manifest alone and a sweep deletes whatever was
\* unreferenced when it planned.
ReferencedIsWhole == \A m \in Roots : Whole(m) \subseteq bucket

\* While a bulk delete is outstanding no registry write is in flight, no upload session is
\* open, and no other pass is about to delete (assertRegistrySweepDeletable, acquireRegistrySweep).
DeleteIsExclusive ==
  \A s \in Sweepers : sw[s].pc = "delete" =>
    /\ ~Busy /\ OpenSessions = {}
    /\ \A t \in Sweepers \ {s} : sw[t].pc # "delete"

\* A pass that reports completed while it holds the gate left exactly the retained objects.
CompletedIsClean ==
  \A s \in Sweepers : sw[s].pc = "finish" /\ sw[s].completed /\ HoldsGate(s) => bucket = sw[s].keep

\* The registry with uploads, starts and sweeps that die, stall or overlap: what the catalog,
\* its rollback or an unfinished run names is whole, deletes exclude every admitted writer, and
\* a pass that completed left only what it retains.
RegistryWhole == TypeOK /\ ReferencedIsWhole /\ DeleteIsExclusive /\ CompletedIsClean

\* A pass that reached its delete loop gives the gate back, whatever it meets there.
SweepLetsGo == \A s \in Sweepers : sw[s].pc = "beat" ~> gate.token # s

\* Every publish comes to an end, although sweeps close the gate and its session can lapse.
UploadEnds == \A u \in Uploaders : <>(up[u].stage \in {"done", "failed"})

\* "the gate is closed only while a collector sweep runs or while the registry is paused"
\* (lib/scenario-runs/begin.ts:270)
ClosedOnlyWhileSweeping == gate.state = "sweeping" => \E s \in Sweepers : sw[s].pc # "idle"

\* "The hold is a row in the shared gate, so it also refuses a new upload session"
\* (workers/image-registry-cleanup/src/cleanup.ts:151)
HoldRefusesSessions ==
  [][gate.paused => \A s \in Sessions : sess'[s].state = "open" => sess[s].state = "open"]_vars
=============================================================================
