------------------------------ MODULE Catalog ------------------------------
(***************************************************************************)
(* The scenario catalog and what keeps its images alive: bundles queue     *)
(* builds, builders publish candidates, candidates are promoted, live      *)
(* publishes and rollbacks replace the live rows, runs start from a live   *)
(* or a candidate row, and the collector's retention pass retires what     *)
(* nothing references (lib/image-artifact-retention.ts) before its objects *)
(* are deleted.                                                            *)
(*                                                                         *)
(* The registry gate is mutual exclusion here: operations and run starts   *)
(* are shared writers, the sweep is exclusive (module Registry has the     *)
(* gate itself).  An image stands for its manifest, chunks and boot        *)
(* artifacts; a scenario has one VM, one architecture and one tenant.      *)
(* The candidate table is keyed by revision and scenario; its rows and the *)
(* rollback records carry the time they were written.                      *)
(***************************************************************************)
EXTENDS Naturals, FiniteSets, FiniteSetsExt

CONSTANTS
  Scenarios, Images, BuildIds, Revisions, Runs, Ops,
  Nil,
  Expected,    \* [Revisions -> the builds a bundle of that revision lists, by scenario]
  Outputs,     \* [BuildIds -> the images the build may produce]
  Kinds,       \* what happens: a subset of AllKinds
  FirstLive,    \* [Scenarios -> the image published at first]
  MaxOps       \* operations of one behaviour

AllKinds == {"ingest", "candidate", "live", "promote", "rollback", "die"}

CatalogConstants ==
  /\ Nil \notin Images \cup BuildIds \cup Revisions \cup Ops \cup Scenarios
  /\ \A r \in Revisions : DOMAIN Expected[r] \subseteq Scenarios
                          /\ \A s \in DOMAIN Expected[r] : Expected[r][s] \in BuildIds
  /\ Outputs \in [BuildIds -> SUBSET Images]
  /\ Kinds \subseteq AllKinds /\ MaxOps \in Nat
  /\ FirstLive \in [Scenarios -> Images \cup {Nil}]

VARIABLES
  catalog, \* [Scenarios -> revision and image of the live row, image Nil before the first]
  cand,    \* scenario_catalog_candidates: [Revisions -> [Scenarios -> the row, or NoCand]]
  snaps,   \* scenario_catalog_snapshots: rows[s] is NoLive where a record does not cover s
  builds,  \* [BuildIds -> status, revision, published manifest's image, artifacts_retired_at, and
           \*              whether the builder has published in this attempt]
  cache,   \* cached_images of the platform host's desired state
  stored,  \* images whose objects are in R2
  run,     \* [Runs -> the start and its VM]
  ops,     \* [Ops -> the operation under way]
  locks,   \* [Scenarios -> holder of the family's coordination lock]
  plan,    \* the collector pass under way
  opsLeft, \* operations still to come
  prev     \* [Scenarios -> the image the last replacement replaced] (history)

tables == <<catalog, cand, snaps, builds, cache>>
catalogVars == <<catalog, cand, snaps, builds, cache, stored, run, ops, locks, plan, opsLeft, prev>>

BuildsOf(s) == {Expected[r][s] : r \in {q \in Revisions : s \in DOMAIN Expected[q]}}

NoLive == [rev |-> Nil, image |-> Nil]
NoCand == [build |-> Nil, image |-> Nil, at |-> 0]
NoSnap == [rev |-> Nil, rows |-> [s \in Scenarios |-> NoLive], at |-> 0]
IdleOp == [pc |-> "idle", kind |-> Nil, rev |-> Nil, build |-> Nil, image |-> Nil,
           scens |-> {}, snap |-> NoSnap]
IdleRun == [pc |-> "new", scen |-> Nil, rev |-> Nil, build |-> Nil, image |-> Nil]
EmptyCand == [r \in Revisions |-> [s \in Scenarios |-> NoCand]]
NoPlan == [pc |-> "idle", keep |-> {}, retire |-> {}, activate |-> {}, cand |-> EmptyCand,
           snaps |-> {}, trim |-> {}]

CatalogInit ==
  /\ catalog = [s \in Scenarios |-> [rev |-> Nil, image |-> FirstLive[s]]]
  /\ cand = EmptyCand /\ snaps = {}
  /\ builds = [b \in BuildIds |-> [status |-> "none", rev |-> Nil, image |-> Nil,
                                 retired |-> FALSE, sent |-> FALSE]]
  /\ cache = {FirstLive[s] : s \in Scenarios} \ {Nil}
  /\ stored = {FirstLive[s] : s \in Scenarios} \ {Nil}
  /\ run = [r \in Runs |-> IdleRun]
  /\ ops = [o \in Ops |-> IdleOp]
  /\ locks = [s \in Scenarios |-> Nil]
  /\ plan = NoPlan /\ opsLeft = MaxOps
  /\ prev = [s \in Scenarios |-> Nil]

Writers == {o \in Ops : ops[o].pc # "idle"} \cup {r \in Runs : run[r].pc = "read"}
\* the gate admits a shared writer while no sweep holds it
Admits == plan.pc = "idle"

SetOp(o, v) == ops' = [ops EXCEPT ![o] = v]
EndOp(o) == /\ SetOp(o, IdleOp)
            /\ locks' = [s \in Scenarios |-> IF locks[s] = o THEN Nil ELSE locks[s]]
Free(S) == \A s \in S : locks[s] = Nil
Lock(o, S) == locks' = [s \in Scenarios |-> IF s \in S THEN o ELSE locks[s]]

(***************************************************************************)
(* Candidates.                                                             *)
(***************************************************************************)
\* nextCatalogRollbackTimestamp: a time after all of these; a staged row's updated_at is one too
Later(times) == 1 + Max(times \cup {0})

Staged(r, s) == cand[r][s].image # Nil
ReadsRow(q, r, s) == run[q].pc = "active" /\ run[q].rev = r /\ run[q].scen = s
SameRow(r, s, b, i) == cand[r][s].build = b /\ cand[r][s].image = i

\* the NOT EXISTS of the stage statement: a run reads the row and it would change
Locked(r, s, b, i) == (\E q \in Runs : ReadsRow(q, r, s)) /\ ~SameRow(r, s, b, i)

\* an identical replay writes nothing, a changed row is the newest of its scenario
RowOf(r, s, b, i) ==
  IF SameRow(r, s, b, i) THEN cand[r][s]
  ELSE [build |-> b, image |-> i, at |-> Later({cand[q][s].at : q \in Revisions \ {r}})]

Reusable(r) == {s \in DOMAIN Expected[r] :
                  LET b == Expected[r][s]
                  IN  builds[b].status = "succeeded" /\ ~builds[b].retired /\ builds[b].image # Nil}

StageRefused(r, s) == Locked(r, s, Expected[r][s], builds[Expected[r][s]].image)

\* stageReusableCandidateManifests: one row after the other, the first locked one throws
StageReusable(r) ==
  LET ready == Reusable(r)
      stuck == {s \in ready : StageRefused(r, s)}
  IN  \E done \in SUBSET (ready \ stuck) :
        /\ stuck = {} => done = ready
        /\ cand' = [cand EXCEPT ![r] = [s \in Scenarios |->
                      IF s \in done THEN RowOf(r, s, Expected[r][s], builds[Expected[r][s]].image)
                      ELSE cand[r][s]]]
        /\ cache' = IF stuck = {} THEN cache \cup {builds[Expected[r][s]].image : s \in done}
                    ELSE cache

(***************************************************************************)
(* Bundles: ingestScenarioBundle.  The queue batch is ordered by the       *)
(* families' locks, the staging after it is not.                           *)
(***************************************************************************)
Begin(o, kind, v) ==
  /\ kind \in Kinds /\ ops[o].pc = "idle" /\ Admits /\ opsLeft > 0
  /\ opsLeft' = opsLeft - 1
  /\ SetOp(o, [v EXCEPT !.kind = kind])

RevivesBuild(b) == builds[b].status \in {"none", "failed", "stale"} \/ builds[b].retired

\* the queue batch: other hashes of the scenario go stale, the named one is revived
QueueBuilds(o, r) ==
  /\ Free(DOMAIN Expected[r])
  /\ Begin(o, "ingest", [IdleOp EXCEPT !.pc = "queued", !.rev = r])
  /\ builds' = [b \in BuildIds |->
       IF \E s \in DOMAIN Expected[r] : b = Expected[r][s] /\ RevivesBuild(b)
       THEN [builds[b] EXCEPT !.status = "active", !.rev = r, !.retired = FALSE, !.sent = FALSE]
       ELSE IF /\ \E s \in DOMAIN Expected[r] : b \in BuildsOf(s) /\ b # Expected[r][s]
               /\ builds[b].status \in {"active", "failed", "stale"}
       THEN [builds[b] EXCEPT !.status = "stale"] ELSE builds[b]]
  /\ UNCHANGED <<catalog, cand, snaps, cache, stored, run, locks, plan, prev>>

StageIngested(o) ==
  /\ ops[o].pc = "queued"
  /\ StageReusable(ops[o].rev)
  /\ EndOp(o)
  /\ UNCHANGED <<catalog, snaps, builds, stored, run, plan, opsLeft, prev>>

(***************************************************************************)
(* The builder's candidate publish, under the family lock of its build.    *)
(***************************************************************************)
StoreCandidate(o, s, b) ==
  LET r == builds[b].rev IN
  /\ builds[b].status = "active" /\ s \in DOMAIN Expected[r] /\ b = Expected[r][s] /\ Free({s})
  /\ \E i \in Outputs[b] :
       /\ Begin(o, "candidate", [IdleOp EXCEPT !.pc = "stored", !.rev = r, !.build = b,
                                               !.image = i, !.scens = {s}])
       /\ stored' = stored \cup {i}
  /\ Lock(o, {s})
  /\ UNCHANGED <<tables, run, plan, prev>>

\* one batch: the row, and the receipt only if the row holds this manifest
StageCandidate(o) ==
  /\ ops[o].pc = "stored" /\ ops[o].kind = "candidate"
  /\ LET b == ops[o].build
         r == ops[o].rev
         s == CHOOSE x \in ops[o].scens : TRUE
     IN  IF builds[b].status = "active" /\ ~Locked(r, s, b, ops[o].image)
         THEN /\ cand' = [cand EXCEPT ![r] = [cand[r] EXCEPT ![s] = RowOf(r, s, b, ops[o].image)]]
              /\ builds' = [builds EXCEPT ![b] = [builds[b] EXCEPT !.image = ops[o].image, !.retired = FALSE,
                                                                  !.sent = TRUE]]
              /\ cache' = cache \cup {ops[o].image}
         ELSE UNCHANGED <<cand, builds, cache>>
  /\ EndOp(o)
  /\ UNCHANGED <<catalog, snaps, stored, run, plan, opsLeft, prev>>

\* reports of the builder: it has published and the build ends, or the build fails
BuildEnds(b) ==
  /\ builds[b].status = "active"
  /\ ~\E o \in Ops : ops[o].build = b
  /\ \/ builds[b].sent /\ builds' = [builds EXCEPT ![b].status = "succeeded"]
     \/ builds' = [builds EXCEPT ![b].status = "failed"]
  /\ UNCHANGED <<catalog, cand, snaps, cache, stored, run, ops, locks, plan, opsLeft, prev>>

(***************************************************************************)
(* Replacing live rows.                                                    *)
(***************************************************************************)
\* loadOutgoingReferenceBlockers: executions of the scenario, VMs of the platform host
OutgoingInUse(out) == \E q \in Runs : run[q].pc \in {"active", "leaving"} /\ run[q].image \in out
Outgoing(S, in) == ({catalog[s].image : s \in S} \ {Nil}) \ in

\* mutant: publishing the same image again records it as its own predecessor
RotatesAlways(s, i) == catalog[s].image # Nil

\* catalogRollbackRotates: a first publication and an equal identity record nothing
Rotates(s, i) == catalog[s].image # Nil /\ catalog[s].image # i

Snapshot(rev, S) == [rev |-> rev, rows |-> [s \in Scenarios |-> IF s \in S THEN catalog[s] ELSE NoLive],
                     at |-> Later({x.at : x \in snaps})]
Recorded(rev, S) == IF S = {} THEN snaps ELSE snaps \cup {Snapshot(rev, S)}

\* pruneSupersededHostCachedImages: of these families only incoming and previous stay
Pruned(S, keep) == {i \in cache : \/ i \in keep
                                  \/ \A s \in S : i \notin UNION {Outputs[b] : b \in BuildsOf(s)}
                                                           \cup {FirstLive[s]}}
\* reconcileScenarioImagesForPublicationScope adds what is live
Warmed(c, l) == c \cup ({l[s].image : s \in Scenarios} \ {Nil})

Replace(S, new, rev, snapRev) ==
  LET rot == {s \in S : Rotates(s, new[s])}
      l == [s \in Scenarios |-> IF s \in S THEN [rev |-> rev, image |-> new[s]] ELSE catalog[s]]
      old == {catalog[s].image : s \in S}
  IN  /\ snaps' = Recorded(snapRev, rot)
      /\ catalog' = l
      /\ cache' = Warmed(Pruned(S, {new[s] : s \in S} \cup old), l)
      /\ prev' = [s \in Scenarios |-> IF s \in S /\ catalog[s].image \notin {Nil, new[s]}
                                      THEN catalog[s].image ELSE prev[s]]

\* an operator's publish: its objects are stored, then the family is locked
StoreLive(o, s, i) ==
  /\ i \in UNION {Outputs[b] : b \in BuildsOf(s)}
  /\ Begin(o, "live", [IdleOp EXCEPT !.pc = "stored", !.image = i, !.scens = {s}])
  /\ stored' = stored \cup {i}
  /\ UNCHANGED <<tables, run, locks, plan, prev>>

ReadLive(o) ==
  /\ ops[o].pc = "stored" /\ ops[o].kind = "live" /\ Free(ops[o].scens)
  /\ IF OutgoingInUse(Outgoing(ops[o].scens, {ops[o].image}))
     THEN EndOp(o)
     ELSE SetOp(o, [ops[o] EXCEPT !.pc = "commit"]) /\ Lock(o, ops[o].scens)
  /\ UNCHANGED <<tables, stored, run, plan, opsLeft, prev>>

\* replaceScenarioCatalogWithRollback: the record and the rows are one batch
CommitLive(o) ==
  /\ ops[o].pc = "commit" /\ ops[o].kind = "live"
  /\ Replace(ops[o].scens, [s \in Scenarios |-> ops[o].image], Nil, o)
  /\ EndOp(o)
  /\ UNCHANGED <<cand, builds, stored, run, plan, opsLeft>>

\* promoteDrainedRevision: the writer is admitted before the first read
AdmitPromotion(o, r) ==
  /\ \E restage \in {"stage", "check"} : Begin(o, "promote", [IdleOp EXCEPT !.pc = restage, !.rev = r])
  /\ UNCHANGED <<tables, stored, run, locks, plan, prev>>

\* a git- revision stages its reused candidates again; a locked row ends the promotion
RestagePromotion(o) ==
  /\ ops[o].pc = "stage"
  /\ StageReusable(ops[o].rev)
  /\ IF \E s \in Reusable(ops[o].rev) : StageRefused(ops[o].rev, s)
     THEN EndOp(o)
     ELSE SetOp(o, [ops[o] EXCEPT !.pc = "check"]) /\ UNCHANGED locks
  /\ UNCHANGED <<catalog, snaps, builds, stored, run, plan, opsLeft, prev>>

Incoming(r) == {builds[Expected[r][s]].image : s \in DOMAIN Expected[r]}
BuildsComplete(r) == \A s \in DOMAIN Expected[r] :
  builds[Expected[r][s]].status = "succeeded" /\ builds[Expected[r][s]].image # Nil
AlreadyPromoted(r) == \A s \in DOMAIN Expected[r] :
  catalog[s].rev = r /\ catalog[s].image = builds[Expected[r][s]].image
CatalogComplete(r) == \A s \in DOMAIN Expected[r] : Staged(r, s)

\* under the family locks: complete builds, a complete candidate, no outgoing image in use
CheckPromotion(o) ==
  LET r == ops[o].rev
      S == DOMAIN Expected[r]
  IN
  /\ ops[o].pc = "check" /\ ops[o].kind = "promote" /\ Free(S)
  /\ IF /\ BuildsComplete(r) /\ (AlreadyPromoted(r) \/ CatalogComplete(r))
        /\ ~OutgoingInUse(Outgoing(S, Incoming(r)))
     THEN SetOp(o, [ops[o] EXCEPT !.pc = "commit", !.scens = IF AlreadyPromoted(r) THEN {} ELSE S])
          /\ Lock(o, S)
     ELSE EndOp(o)
  /\ UNCHANGED <<tables, stored, run, plan, opsLeft, prev>>

\* a retry of a committed promotion has no candidates: it installs and records nothing
CommitPromotion(o) ==
  /\ ops[o].pc = "commit" /\ ops[o].kind = "promote"
  /\ LET r == ops[o].rev
     IN  IF ops[o].scens = {} THEN UNCHANGED <<catalog, snaps, cache, prev>>
         ELSE Replace(ops[o].scens, [s \in Scenarios |-> cand[r][s].image], r, r)
  /\ EndOp(o)
  /\ UNCHANGED <<cand, builds, stored, run, plan, opsLeft>>

SnapsAt(r) == {x \in snaps : x.rev = r}
Covers(x) == {s \in Scenarios : x.rows[s].image # Nil}

\* handleCatalogRollback: exactly one record of the revision, read before the locks
ReadRollback(o, r) ==
  /\ \A q \in Runs : run[q].pc # "active"
  /\ \E x \in SnapsAt(r) :
       /\ SnapsAt(r) = {x}
       /\ Begin(o, "rollback", [IdleOp EXCEPT !.pc = "read", !.rev = r, !.snap = x])
  /\ UNCHANGED <<tables, stored, run, locks, plan, prev>>

\* the restored rows replace the live ones; what they replace is not recorded
CommitRollback(o) ==
  LET old == ops[o].snap.rows
      S == Covers(ops[o].snap)
      l == [s \in Scenarios |-> IF s \in S THEN old[s] ELSE catalog[s]]
  IN
  /\ ops[o].pc = "read" /\ Free(S)
  /\ IF SnapsAt(ops[o].rev) # {}
     THEN /\ catalog' = l
          /\ cache' = Warmed(Pruned(S, {old[s].image : s \in S} \cup {catalog[s].image : s \in S}), l)
          /\ prev' = [s \in Scenarios |-> IF s \in S /\ catalog[s].image # old[s].image
                                          THEN catalog[s].image ELSE prev[s]]
     ELSE UNCHANGED <<catalog, cache, prev>>
  /\ EndOp(o)
  /\ UNCHANGED <<cand, snaps, builds, stored, run, plan, opsLeft>>

(***************************************************************************)
(* Runs.  A start is a writer from its read to its commit.                 *)
(***************************************************************************)
SetRun(q, v) == run' = [run EXCEPT ![q] = v]

StartFromLive(q, s) ==
  /\ run[q].pc = "new" /\ Admits /\ catalog[s].image # Nil
  /\ SetRun(q, [pc |-> "read", scen |-> s, rev |-> Nil, build |-> Nil, image |-> catalog[s].image])
  /\ UNCHANGED <<tables, stored, ops, locks, plan, opsLeft, prev>>

\* loadCandidateScenarioRunSource: the build succeeded and still publishes this image
StartFromCandidate(q) ==
  /\ run[q].pc = "new" /\ Admits
  /\ \E r \in Revisions, s \in Scenarios :
       /\ Staged(r, s)
       /\ builds[cand[r][s].build].status = "succeeded" /\ builds[cand[r][s].build].image = cand[r][s].image
       /\ SetRun(q, [pc |-> "read", scen |-> s, rev |-> r, build |-> cand[r][s].build,
                     image |-> cand[r][s].image])
  /\ UNCHANGED <<tables, stored, ops, locks, plan, opsLeft, prev>>

\* the commit is anchored to the live pointer or to the candidate row's text
CommitStart(q) ==
  /\ run[q].pc = "read"
  /\ LET same == IF run[q].rev = Nil THEN catalog[run[q].scen].image = run[q].image
                 ELSE SameRow(run[q].rev, run[q].scen, run[q].build, run[q].image)
     IN  SetRun(q, IF same THEN [run[q] EXCEPT !.pc = "active"] ELSE IdleRun)
  /\ UNCHANGED <<tables, stored, ops, locks, plan, opsLeft, prev>>

\* the execution ends while its host still reports the VM
EndRun(q) ==
  /\ run[q].pc = "active"
  /\ SetRun(q, [run[q] EXCEPT !.pc = "leaving"])
  /\ UNCHANGED <<tables, stored, ops, locks, plan, opsLeft, prev>>

VmGone(q) ==
  /\ run[q].pc = "leaving"
  /\ SetRun(q, [IdleRun EXCEPT !.pc = "ended"])
  /\ UNCHANGED <<tables, stored, ops, locks, plan, opsLeft, prev>>

(***************************************************************************)
(* Retention: projectRegistryRetention and applyRegistryRetention.         *)
(***************************************************************************)
\* planSnapshotRetention: a newer record of the scenario makes this one history
Uncovered(x) == Covers(x) \ UNION {Covers(y) : y \in {z \in snaps : z.at > x.at}}
Trim(x) == [rev |-> x.rev, at |-> x.at,
            rows |-> [s \in Scenarios |-> IF s \in Uncovered(x) THEN x.rows[s] ELSE NoLive]]
KeptSnaps == {Trim(x) : x \in {y \in snaps : Uncovered(y) # {}}}

Newest(r, s) == Staged(r, s) /\ \A q \in Revisions : cand[q][s].at <= cand[r][s].at

\* the catalog carries this revision and this image closure
Fulfilled(r, s) == catalog[s].rev = r /\ catalog[s].image = cand[r][s].image

\* mutant: every intent is kept, the fulfilled and the superseded ones too
KeepsCandAlways(r, s) == TRUE

\* mutant: only the newest open intent of a scenario is kept
KeepsNewestOnly(r, s) == Newest(r, s) /\ ~Fulfilled(r, s)

\* planCandidateIntentRetention
KeepsCand(r, s) ==
  \/ \E q \in Runs : ReadsRow(q, r, s)
  \/ Newest(r, s) /\ ~Fulfilled(r, s)

KeptCand == [r \in Revisions |-> [s \in Scenarios |-> IF KeepsCand(r, s) THEN cand[r][s] ELSE NoCand]]

ImagesOf(rs) == {rs[s].image : s \in Scenarios} \ {Nil}
SnapImages(ss) == UNION {ImagesOf(x.rows) : x \in ss}
CandImages(cs) == UNION {ImagesOf(cs[r]) : r \in Revisions}

\* images of active runs and of VMs a host still reports
Operational == {run[q].image : q \in {p \in Runs : run[p].pc \in {"active", "leaving"}}}
\* records that describe an image: without one the reference is a fault
Records == ImagesOf(catalog) \cup SnapImages(KeptSnaps) \cup CandImages(cand)
           \cup ({builds[b].image : b \in BuildIds} \ {Nil})

\* mutant: what runs and hosts use is not a root
RootsOfRowsOnly == ImagesOf(catalog) \cup SnapImages(KeptSnaps) \cup CandImages(KeptCand)

RootImages == ImagesOf(catalog) \cup SnapImages(KeptSnaps) \cup CandImages(KeptCand) \cup Operational

\* planBuildRetention: an active build is kept, another one while its image is rooted
KeptBuilds == {b \in BuildIds : /\ builds[b].image # Nil
                                /\ builds[b].status = "active" \/ builds[b].image \in RootImages}
KeptImages == RootImages \cup {builds[b].image : b \in KeptBuilds}
\* planHostCacheIntentRetention
Trimmed == cache \ KeptImages

StartSweep ==
  /\ plan.pc = "idle" /\ Writers = {}
  /\ plan' = [NoPlan EXCEPT !.pc = "plan"]
  /\ UNCHANGED <<tables, stored, run, ops, locks, opsLeft, prev>>

\* a reference without a record, or a retained image that is not there, is a fault
RetentionFault == ~(Operational \subseteq Records) \/ ~(KeptImages \subseteq stored)

ProjectRetention ==
  /\ plan.pc = "plan"
  /\ plan' = IF RetentionFault THEN NoPlan
             ELSE [pc |-> "trim", keep |-> KeptImages, trim |-> Trimmed,
                   retire |-> {b \in BuildIds : builds[b].image # Nil} \ KeptBuilds,
                   activate |-> {b \in KeptBuilds : builds[b].retired},
                   cand |-> KeptCand, snaps |-> KeptSnaps]
  /\ UNCHANGED <<tables, stored, run, ops, locks, opsLeft, prev>>

\* the version-guarded withdrawal of cache intents comes first
TrimCache ==
  /\ plan.pc = "trim"
  /\ cache' = cache \ plan.trim
  /\ plan' = [plan EXCEPT !.pc = "apply"]
  /\ UNCHANGED <<catalog, cand, snaps, builds, stored, run, ops, locks, opsLeft, prev>>

\* one batch of every row decision
ApplyRetention ==
  /\ plan.pc = "apply"
  /\ cand' = plan.cand /\ snaps' = plan.snaps
  /\ builds' = [b \in BuildIds |-> [builds[b] EXCEPT
                  !.retired = IF b \in plan.activate THEN FALSE ELSE IF b \in plan.retire THEN TRUE ELSE @]]
  /\ plan' = [plan EXCEPT !.pc = "delete"]
  /\ UNCHANGED <<catalog, cache, stored, run, ops, locks, opsLeft, prev>>

DeleteObjects ==
  /\ plan.pc = "delete"
  /\ IF stored \subseteq plan.keep
     THEN plan' = NoPlan /\ UNCHANGED stored
     ELSE /\ plan' = plan
          /\ \E i \in stored \ plan.keep : stored' = stored \ {i}
  /\ UNCHANGED <<tables, run, ops, locks, opsLeft, prev>>

\* an isolate that dies; the lease runs out and the next pass starts over
SweepDies ==
  /\ "die" \in Kinds /\ plan.pc \in {"trim", "apply", "delete"}
  /\ plan' = NoPlan
  /\ UNCHANGED <<tables, stored, run, ops, locks, opsLeft, prev>>

OpStep(o) ==
  \/ StageIngested(o) \/ StageCandidate(o) \/ ReadLive(o) \/ CommitLive(o)
  \/ RestagePromotion(o) \/ CheckPromotion(o) \/ CommitPromotion(o) \/ CommitRollback(o)
RunStep(q) == CommitStart(q) \/ EndRun(q) \/ VmGone(q)
RetentionStep == ProjectRetention \/ TrimCache \/ ApplyRetention \/ DeleteObjects

CatalogNext ==
  \/ \E o \in Ops : \/ OpStep(o)
                    \/ \E r \in Revisions : \/ QueueBuilds(o, r) \/ AdmitPromotion(o, r)
                                       \/ ReadRollback(o, r)
                    \/ \E s \in Scenarios, b \in BuildIds : StoreCandidate(o, s, b)
                    \/ \E s \in Scenarios, i \in Images : StoreLive(o, s, i)
  \/ \E b \in BuildIds : BuildEnds(b)
  \/ \E q \in Runs : RunStep(q) \/ StartFromCandidate(q) \/ \E s \in Scenarios : StartFromLive(q, s)
  \/ StartSweep \/ RetentionStep \/ SweepDies

CatalogSpec == CatalogInit /\ [][CatalogNext]_catalogVars

\* requests end, builders report, runs end and their VMs go; the collector is a cron
CatalogFairness ==
  /\ \A o \in Ops : WF_catalogVars(OpStep(o))
  /\ \A q \in Runs : WF_catalogVars(RunStep(q))
  /\ \A b \in BuildIds : WF_catalogVars(BuildEnds(b))
  /\ WF_catalogVars(RetentionStep) /\ SF_catalogVars(StartSweep)

CatalogFairSpec == CatalogSpec /\ CatalogFairness

(***************************************************************************)
(* Properties.                                                             *)
(***************************************************************************)
LiveRows == [rev : Revisions \cup {Nil}, image : Images \cup {Nil}]
CandRows == [build : BuildIds \cup {Nil}, image : Images \cup {Nil}, at : Nat]
SnapRows == [rev : Revisions \cup Ops \cup {Nil}, rows : [Scenarios -> LiveRows], at : Nat]
BuildRows == [status : {"none", "active", "succeeded", "failed", "stale"}, rev : Revisions \cup {Nil},
              image : Images \cup {Nil}, retired : BOOLEAN, sent : BOOLEAN]

\* Every variable holds values of its shape.
CatalogTypes ==
  /\ catalog \in [Scenarios -> LiveRows]
  /\ cand \in [Revisions -> [Scenarios -> CandRows]]
  /\ \A r \in Revisions, s \in Scenarios : cand[r][s].build # Nil \/ cand[r][s].image = Nil
  /\ snaps \subseteq SnapRows
  /\ builds \in [BuildIds -> BuildRows]
  /\ cache \subseteq Images /\ stored \subseteq Images
  /\ run \in [Runs -> [pc : {"new", "read", "active", "leaving", "ended"}, scen : Scenarios \cup {Nil},
                        rev : Revisions \cup {Nil}, build : BuildIds \cup {Nil}, image : Images \cup {Nil}]]
  /\ ops \in [Ops -> [pc : {"idle", "queued", "stored", "stage", "check", "read", "commit"},
                      kind : Kinds \cup {Nil}, rev : Revisions \cup {Nil}, build : BuildIds \cup {Nil},
                      image : Images \cup {Nil}, scens : SUBSET Scenarios, snap : SnapRows]]
  /\ locks \in [Scenarios -> Ops \cup {Nil}]
  /\ plan \in [pc : {"idle", "plan", "trim", "apply", "delete"}, keep : SUBSET Images, trim : SUBSET Images,
             retire : SUBSET BuildIds, activate : SUBSET BuildIds, cand : [Revisions -> [Scenarios -> CandRows]],
             snaps : SUBSET SnapRows]
  /\ opsLeft \in 0..MaxOps
  /\ prev \in [Scenarios -> Images \cup {Nil}]

\* What a row, an intent or a VM names can be fetched: the images of the live catalog, of every
\* rollback record, of every candidate row, of the host's cache intents and of VMs that run
\* are in the bucket, whatever starts, ends, publishes or promotes around a pass that
\* retires rows and deletes objects, and wherever the pass dies.
NeededIsKept ==
  ImagesOf(catalog) \cup SnapImages(snaps) \cup CandImages(cand) \cup cache \cup Operational
    \subseteq stored

\* The row a candidate run was admitted from is neither rewritten nor removed while it runs:
\* the stage statement refuses, the retention plan keeps the row.
ReaderUnchangedStep ==
  \A q \in Runs : run[q].pc = "active" /\ run'[q].pc = "active" /\ run[q].rev # Nil =>
     cand'[run[q].rev][run[q].scen] = cand[run[q].rev][run[q].scen]
ReaderUnchanged == [][ReaderUnchangedStep]_catalogVars

\* The release before the last one stays recoverable: the newest record that covers a
\* scenario holds the image its last replacement replaced, across republishes, retries,
\* a promotion of several scenarios and the trimming of records.
PreviousKept ==
  \A s \in Scenarios : prev[s] # Nil =>
    \E x \in snaps :
      /\ x.rows[s].image = prev[s]
      /\ \A y \in snaps : y.at > x.at => s \notin Covers(y)

\* What the retention pass must not lose: everything a row, an intent or a VM names, and, as
\* long as no release is rolled back, the release before the last one of every scenario.
RetentionKept == CatalogTypes /\ NeededIsKept /\ ("rollback" \notin Kinds => PreviousKept)

\* A build keeps pinning objects only while they exist: no retained build makes a pass
\* stop on a manifest that an earlier retirement deleted.
PinnedExists == plan.pc = "plan" => KeptImages \subseteq stored

\* Promoting one revision does not withdraw the images a newer candidate has warmed.
NewestStaysWarm ==
  [][\A r \in Revisions, s \in Scenarios :
       /\ Newest(r, s) /\ cand[r][s].image \in cache /\ ~Fulfilled(r, s)
       /\ cand' = cand
       => cand[r][s].image \in cache']_catalogVars

\* An image that nothing references any more leaves the bucket in the end: its candidate
\* rows, records and cache intents are retired by some pass, then its objects go.
GarbageGoes ==
  \A i \in Images :
    <>[](/\ i \notin ImagesOf(catalog) \cup Operational /\ \A s \in Scenarios : prev[s] # i
         /\ \A r \in Revisions, s \in Scenarios : Newest(r, s) /\ ~Fulfilled(r, s) => cand[r][s].image # i)
      => []<>(i \notin stored)
=============================================================================
