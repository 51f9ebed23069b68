---------------------------- MODULE BuilderDaemon ----------------------------
(***************************************************************************)
(* The builder daemon: a sqlite table of build jobs, build workers that    *)
(* compute images, publication workers that upload them, and the bridge    *)
(* that adds and deletes jobs as the desired state names builds.  Deleting *)
(* a job is the only way to cancel it: a worker notices between its calls  *)
(* that the row is gone, and the files and the registry session of a build *)
(* are found by the build's id alone.                                      *)
(***************************************************************************)
EXTENDS Naturals, FiniteSets, FiniteSetsExt

CONSTANTS Builds, Workers, Publishers, NoBuild,
          MaxAttempts,  \* jobs.max_attempts
          MaxSlots,     \* publications queued or running at a time
          MaxDesired,   \* times the desired state names a build
          MaxCancels,   \* times it stops naming one
          MaxErrors,    \* calls of a worker that fail
          MaxGone,      \* published chunks that vanish before they are reused
          MaxCrashes

VARIABLES
  desired,  \* the builds the last received desired state names
  job,      \* build_jobs: no row, or the row of a build
  files,    \* what the build directory of a build holds
  tree,     \* builds whose bundle is unpacked in the cache
  session,  \* ADMISSION_SESSIONS: registry sessions this process has open
  worker, publisher,
  fresh,    \* this process has received a desired state
  used

vars == <<desired, job, files, tree, session, worker, publisher, fresh, used>>

Bounds == [desired |-> MaxDesired, cancels |-> MaxCancels, errors |-> MaxErrors,
           gone |-> MaxGone, crashes |-> MaxCrashes]

Spend(bound) ==
  /\ used[bound] < Bounds[bound]
  /\ used' = [used EXCEPT ![bound] = @ + 1]

NoRow == [phase |-> "none", attempt |-> 0, due |-> TRUE, outputs |-> FALSE, pub |-> "none", tries |-> 0]

\* upsert_build_job with phase queued.
Fresh == [NoRow EXCEPT !.phase = "queued"]

Off == [at |-> "idle", build |-> NoBuild, attempt |-> 0]

Has(b) == job[b].phase # "none"

\* An UPDATE by build id: nothing happens to a row that is gone.
Update(b, r) == job' = [job EXCEPT ![b] = IF Has(b) THEN r ELSE @]

Phase(b, phase) == Update(b, [job[b] EXCEPT !.phase = phase])

Init ==
  /\ desired = {}
  /\ job = [b \in Builds |-> NoRow]
  /\ files = [b \in Builds |-> "none"]
  /\ tree = {}
  /\ session = {}
  /\ worker = [w \in Workers |-> Off]
  /\ publisher = [p \in Publishers |-> Off]
  /\ fresh = FALSE
  /\ used = [k \in DOMAIN Bounds |-> 0]

-----------------------------------------------------------------------------
\* The bridge.

\* reconcile_desired_builds.
Reconciled(ids) ==
  [b \in Builds |->
     IF b \notin ids THEN NoRow
     ELSE IF ~Has(b) \/ job[b].phase = "failed" THEN Fresh ELSE job[b]]

ReceiveDesired(ids) ==
  /\ ids # desired \/ ~fresh
  /\ \/ desired \subseteq ids /\ (IF ids = desired THEN UNCHANGED used ELSE Spend("desired"))
     \/ ids \subseteq desired /\ ids # desired /\ Spend("cancels")
  /\ desired' = ids
  /\ job' = Reconciled(ids)
  /\ fresh' = TRUE
  /\ UNCHANGED <<files, tree, session, worker, publisher>>

-----------------------------------------------------------------------------
\* A build worker, process_next_queued_build.

ClaimBuild(w, b) ==
  /\ fresh
  /\ worker[w] = Off
  /\ job[b].phase = "queued" /\ job[b].due
  /\ job' = [job EXCEPT ![b].phase = "fetching_sources", ![b].attempt = @ + 1]
  /\ worker' = [worker EXCEPT ![w] = [at |-> "fetch", build |-> b, attempt |-> job[b].attempt + 1]]
  /\ UNCHANGED <<desired, files, tree, session, publisher, fresh, used>>

At(w, at) == worker[w].at = at

Goto(w, at) == worker' = [worker EXCEPT ![w].at = at]

FetchBundle(w) ==
  /\ At(w, "fetch")
  /\ tree' = tree \cup {worker[w].build}
  /\ Phase(worker[w].build, "building")
  /\ Goto(w, "build")
  /\ UNCHANGED <<desired, files, session, publisher, fresh, used>>

\* The base image, the VM build and the compression.  Between them the worker
\* looks whether its row is still there; the chunk lookup opens the registry
\* session of the build and may fail.
ComputeImage(w) ==
  LET b == worker[w].build IN
  /\ At(w, "build")
  /\ files' = [files EXCEPT ![b] = "partial"]
  /\ IF Has(b)
       THEN /\ session' \in {session, session \cup {b}}
            /\ Goto(w, "save")
       ELSE Goto(w, "cancel") /\ UNCHANGED session
  /\ UNCHANGED <<desired, job, tree, publisher, fresh, used>>

\* save_completed_build_outputs takes the row only in phase building.
SaveOutputs(w) ==
  LET b == worker[w].build IN
  /\ At(w, "save")
  /\ IF job[b].phase = "building"
       THEN /\ job' = [job EXCEPT ![b].outputs = TRUE, ![b].pub = "waiting", ![b].tries = 0]
            /\ files' = [files EXCEPT ![b] = "whole"]
            /\ Goto(w, "wait")
       ELSE Goto(w, IF Has(b) THEN "error" ELSE "cancel") /\ UNCHANGED <<job, files>>
  /\ UNCHANGED <<desired, tree, session, publisher, fresh, used>>

WaitAndClean(w) ==
  LET b == worker[w].build IN
  /\ At(w, "wait")
  /\ ~(job[b].phase = "building" /\ job[b].outputs /\ job[b].pub = "waiting")
  /\ files' = [files EXCEPT ![b] = "none"]
  /\ Goto(w, "close")
  /\ UNCHANGED <<desired, job, tree, session, publisher, fresh, used>>

\* wait_for_publication_claim.
WaitForClaim(w) ==
  LET b == worker[w].build IN
  /\ At(w, "wait")
  /\ ~(job[b].phase = "building" /\ job[b].outputs /\ job[b].pub = "waiting")
  /\ files' = IF Has(b) THEN files ELSE [files EXCEPT ![b] = "none"]
  /\ Goto(w, "close")
  /\ UNCHANGED <<desired, job, tree, session, publisher, fresh, used>>

WorkFails(w) ==
  /\ worker[w].at \in {"fetch", "build"}
  /\ Spend("errors")
  /\ Goto(w, "error")
  /\ UNCHANGED <<desired, job, files, tree, session, publisher, fresh>>

\* Whoever ends first while no publication runs closes the session.
Unclaimed(b) == IF job[b].pub = "running" THEN session ELSE session \ {b}

CloseKeepsBuild(w) ==
  /\ At(w, "close")
  /\ session' = Unclaimed(worker[w].build)
  /\ worker' = [worker EXCEPT ![w].at = "idle"]
  /\ UNCHANGED <<desired, job, files, tree, publisher, fresh, used>>

CloseSession(w) ==
  /\ At(w, "close")
  /\ session' = Unclaimed(worker[w].build)
  /\ worker' = [worker EXCEPT ![w] = Off]
  /\ UNCHANGED <<desired, job, files, tree, publisher, fresh, used>>

\* The row is queued again while attempts remain; a canceled build fails.
RecordFailure(w) ==
  LET b == worker[w].build IN
  /\ worker[w].at \in {"error", "cancel"}
  /\ session' = Unclaimed(b)
  /\ IF At(w, "error") /\ worker[w].attempt < MaxAttempts
       THEN Update(b, [Fresh EXCEPT !.attempt = worker[w].attempt, !.due = FALSE])
       ELSE Update(b, [job[b] EXCEPT !.phase = "failed", !.attempt = worker[w].attempt])
  /\ Goto(w, "cleanup")
  /\ UNCHANGED <<desired, files, tree, publisher, fresh, used>>

OnlyQueued(b) == job[b].phase = "queued"

\* cleanup_reported_build_attempt_artifacts, then the bundles no unfinished
\* job names.
Unfinished(b) == Has(b) /\ job[b].phase \notin {"succeeded", "failed"}

Cleaned(b) ==
  /\ files' = [files EXCEPT ![b] = "none"]
  /\ tree' = {c \in tree : Unfinished(c)}

CleanAttempt(w) ==
  /\ At(w, "cleanup")
  /\ Cleaned(worker[w].build)
  /\ worker' = [worker EXCEPT ![w] = Off]
  /\ UNCHANGED <<desired, job, session, publisher, fresh, used>>

\* retry_delay_ms: a failed attempt is tried again after some seconds, when its
\* worker has long removed its files.
RetryDue(b) ==
  /\ ~job[b].due
  /\ \A w \in Workers : At(w, "cleanup") => worker[w].build # b
  /\ job' = [job EXCEPT ![b].due = TRUE]
  /\ UNCHANGED <<desired, files, tree, session, worker, publisher, fresh, used>>

-----------------------------------------------------------------------------
\* A publication worker, process_next_publication.

PAt(p, at) == publisher[p].at = at

PGoto(p, at) == publisher' = [publisher EXCEPT ![p].at = at]

Occupied == {b \in Builds : job[b].phase = "publishing" /\ job[b].outputs /\ job[b].pub \in {"ready", "running"}}

\* A retry that holds a slot goes before a newly completed build.
Claimable ==
  LET again == {b \in Occupied : job[b].pub = "ready"}
      new == {b \in Builds : job[b].phase = "building" /\ job[b].outputs /\ job[b].pub = "waiting"}
  IN IF again # {} THEN again ELSE IF Cardinality(Occupied) < MaxSlots THEN new ELSE {}

ClaimPublication(p, b) ==
  /\ fresh
  /\ publisher[p] = Off
  /\ b \in Claimable
  /\ job' = [job EXCEPT ![b].phase = "publishing", ![b].pub = "running", ![b].tries = @ + 1]
  /\ publisher' = [publisher EXCEPT ![p] = [at |-> "validate", build |-> b, attempt |-> job[b].tries + 1]]
  /\ UNCHANGED <<desired, files, tree, session, worker, fresh, used>>

ValidateOutputs(p) ==
  /\ PAt(p, "validate")
  /\ PGoto(p, IF files[publisher[p].build] = "whole" THEN "publish" ELSE "rebuild")
  /\ UNCHANGED <<desired, job, files, tree, session, worker, fresh, used>>

\* requeue_damaged_completed_output: a cache miss, not a failed attempt.
RebuildDamaged(p) ==
  /\ PAt(p, "rebuild")
  /\ Update(publisher[p].build, Fresh)
  /\ PGoto(p, "cleanup")
  /\ UNCHANGED <<desired, files, tree, session, worker, fresh, used>>

\* ensure_build_still_desired and the token come before the session is taken.
PublishOutputs(p) ==
  LET b == publisher[p].build IN
  /\ PAt(p, "publish")
  /\ IF Has(b)
       THEN session' = session \ {b} /\ PGoto(p, "logs") /\ Phase(b, "uploading_logs")
       ELSE PGoto(p, "cancel") /\ UNCHANGED <<session, job>>
  /\ UNCHANGED <<desired, files, tree, worker, fresh, used>>

\* No token; or the registry refuses, and the session is closed as abandoned.
PublishFails(p) ==
  LET b == publisher[p].build IN
  /\ PAt(p, "publish")
  /\ Spend("errors")
  /\ \/ UNCHANGED session /\ PGoto(p, "error")
     \/ session' = session \ {b} /\ \E to \in {"error", "cancel"} : PGoto(p, to)
  /\ UNCHANGED <<desired, job, files, tree, worker, fresh>>

\* missing_reused_chunk_payload: nobody has the chunk, so the image is built
\* again.
ReusedChunkGone(p) ==
  /\ PAt(p, "publish")
  /\ Spend("gone")
  /\ session' = session \ {publisher[p].build}
  /\ PGoto(p, "rebuild")
  /\ UNCHANGED <<desired, job, files, tree, worker, fresh>>

RecordPublishFailure(p) ==
  LET b == publisher[p].build  retry == PAt(p, "error") /\ publisher[p].attempt < MaxAttempts IN
  /\ publisher[p].at \in {"error", "cancel"}
  /\ IF retry
       THEN /\ job' = IF job[b].outputs
                        THEN [job EXCEPT ![b].phase = "publishing", ![b].pub = "ready"] ELSE job
            /\ publisher' = [publisher EXCEPT ![p] = Off]
       ELSE /\ Update(b, [job[b] EXCEPT !.phase = "failed", !.outputs = FALSE, !.pub = "none", !.tries = 0])
            /\ PGoto(p, "cleanup")
  /\ UNCHANGED <<desired, files, tree, session, worker, fresh, used>>

\* A failed log upload only leaves a warning on the row.
UploadLogs(p) ==
  LET b == publisher[p].build IN
  /\ PAt(p, "logs")
  /\ Update(b, [job[b] EXCEPT !.phase = "succeeded", !.outputs = FALSE, !.pub = "none", !.tries = 0])
  /\ PGoto(p, "cleanup")
  /\ UNCHANGED <<desired, files, tree, session, worker, fresh, used>>

CleanPublished(p) ==
  /\ PAt(p, "cleanup")
  /\ Cleaned(publisher[p].build)
  /\ publisher' = [publisher EXCEPT ![p] = Off]
  /\ UNCHANGED <<desired, job, session, worker, fresh, used>>

-----------------------------------------------------------------------------
\* A crash loses the tasks and the open sessions.  reset_active_build_jobs
\* queues what has no output and leaves a completed output to publication;
\* the cached desired state is applied at once, but nothing runs before a
\* fresh one arrives.

ForgetOutputs(r) ==
  IF r.phase \in {"fetching_sources", "publishing", "uploading_logs"}
    THEN [Fresh EXCEPT !.attempt = r.attempt] ELSE r

ResetPhase(r) ==
  IF r.phase \in {"fetching_sources", "building", "publishing", "uploading_logs"} /\ ~r.outputs
    THEN [Fresh EXCEPT !.attempt = r.attempt]
  ELSE IF r.phase \in {"publishing", "uploading_logs"}
    THEN [r EXCEPT !.phase = "publishing", !.pub = "ready"]
    ELSE r

Crash ==
  /\ Spend("crashes")
  /\ job' = [b \in Builds |-> LET r == ResetPhase(job[b]) IN
                                IF r.phase = "failed" THEN Fresh ELSE r]
  /\ worker' = [w \in Workers |-> Off]
  /\ publisher' = [p \in Publishers |-> Off]
  /\ session' = {}
  /\ fresh' = FALSE
  /\ UNCHANGED <<desired, files, tree>>

Next ==
  \/ \E ids \in SUBSET Builds : ReceiveDesired(ids)
  \/ \E w \in Workers : \/ \E b \in Builds : ClaimBuild(w, b)
                        \/ FetchBundle(w) \/ ComputeImage(w) \/ SaveOutputs(w) \/ WaitForClaim(w)
                        \/ WorkFails(w) \/ CloseSession(w) \/ RecordFailure(w) \/ CleanAttempt(w)
  \/ \E p \in Publishers : \/ \E b \in Builds : ClaimPublication(p, b)
                           \/ ValidateOutputs(p) \/ RebuildDamaged(p) \/ PublishOutputs(p)
                           \/ PublishFails(p) \/ ReusedChunkGone(p) \/ RecordPublishFailure(p)
                           \/ UploadLogs(p) \/ CleanPublished(p)
  \/ \E b \in Builds : RetryDue(b)
  \/ Crash

Spec == Init /\ [][Next]_vars

\* The worker loops poll their queues and every started call returns; the
\* bridge reconnects and is sent the desired state.
Fairness ==
  /\ WF_vars(~fresh /\ ReceiveDesired(desired))
  /\ \A b \in Builds : WF_vars(RetryDue(b))
  /\ \A w \in Workers :
       /\ WF_vars(\E b \in Builds : ClaimBuild(w, b))
       /\ WF_vars(\/ FetchBundle(w) \/ ComputeImage(w) \/ SaveOutputs(w) \/ WaitForClaim(w)
                  \/ CloseSession(w) \/ RecordFailure(w) \/ CleanAttempt(w))
  /\ \A p \in Publishers :
       /\ WF_vars(\E b \in Builds : ClaimPublication(p, b))
       /\ WF_vars(\/ ValidateOutputs(p) \/ RebuildDamaged(p) \/ PublishOutputs(p)
                  \/ RecordPublishFailure(p) \/ UploadLogs(p) \/ CleanPublished(p))

FairSpec == Spec /\ Fairness

-----------------------------------------------------------------------------
\* The variables hold values of their kinds; a task has a build exactly when
\* it runs.
TypeOK ==
  /\ desired \subseteq Builds /\ tree \subseteq Builds /\ session \subseteq Builds
  /\ \A b \in Builds : job[b].phase = "none" => job[b] = NoRow
  /\ files \in [Builds -> {"none", "partial", "whole"}]
  /\ \A w \in Workers : At(w, "idle") <=> worker[w] = Off
  /\ \A p \in Publishers : PAt(p, "idle") <=> publisher[p] = Off
  /\ fresh \in BOOLEAN
  /\ \A k \in DOMAIN Bounds : used[k] <= Bounds[k]

On(b) == {w \in Workers : worker[w].build = b} \cup {p \in Publishers : publisher[p].build = b}

\* A durable output belongs to the publication worker: while the row records
\* completed outputs, no failed attempt, retry or restart has removed their
\* files.
DurableOutput == \A b \in Builds : job[b].outputs => files[b] = "whole"

\* The eviction under the bundle-cache lock never takes the tree of a build
\* that fetched it and still works on it.
BundleInUse ==
  \A w \in Workers : worker[w].at \in {"build", "save"} /\ Has(worker[w].build) => worker[w].build \in tree

\* A canceled build keeps no registry session open once nothing of it runs,
\* so it cannot keep cleanup blocked.
CanceledSessionCloses == \A b \in session : Has(b) \/ On(b) # {}

\* A build worker keeps ownership while its output waits for publication, so
\* outputs do not pile up behind stuck publications.
WaitingHasOwner ==
  \A b \in Builds : job[b].pub = "waiting" => \E w \in Workers : worker[w] # Off /\ worker[w].build = b

\* Whatever fails and whenever the daemon restarts, a build that stays
\* desired ends on this builder.
EveryJobEnds ==
  \A b \in Builds : (b \in desired) ~> (b \notin desired \/ job[b].phase \in {"succeeded", "failed"})
=============================================================================
