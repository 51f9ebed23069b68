--------------------------- MODULE BuildScheduler ---------------------------
(***************************************************************************)
(* The image build queue of the control plane.  A build is one content     *)
(* hash of a scenario for one architecture; the builds of a family share   *)
(* scenario and architecture and exclude each other.  Bundles queue        *)
(* builds, concurrent passes claim them for builders, each builder is told *)
(* through its stored desired state, and its reports move the row on.      *)
(* The passes take no lock; bundle uploads, retries and the upkeep of a    *)
(* host hold the coordination lock of the family.                          *)
(***************************************************************************)
EXTENDS Naturals, FiniteSets, FiniteSetsExt

CONSTANTS Builds,      \* image_builds rows
          Family,      \* the scenario and architecture of each build
          Hosts,       \* platform builders of that architecture
          Passes,      \* concurrent assignment passes
          NoHost, NoBuild,
          Slots,       \* BUILDER_BUILD_SLOTS
          MaxBundles,  \* bundle uploads that name a build
          MaxOutages,  \* times a builder loses its connection
          MaxDamaged,  \* completed outputs a builder finds unusable
          MaxSilent,   \* builds that stop making progress
          MaxRetries,  \* operator retries
          MaxRetired,  \* builds whose artifacts retention removes
          MaxDied,   \* requests that die half way
          MaxLost      \* times the runtime of a host dies half way

SchedulerConstants ==
  /\ NoHost \notin Hosts /\ NoBuild \notin Builds
  /\ {MaxBundles, MaxOutages, MaxDamaged, MaxSilent, MaxRetries, MaxRetired, MaxDied, MaxLost}
       \subseteq Nat

VARIABLES
  row,     \* image_builds
  desired, \* each host's stored builds, and whether the host has that version
  conn,    \* a builder is up, down, or down past the reassignment deadline
  pass,    \* where each assignment pass stands
  op,      \* what holds the coordination lock of a family
  rec,     \* the reconciliation of a host's desired builds
  term,    \* ended builds whose desired entry is still to be removed
  jobs,     \* the builder's own table of build jobs
  used     \* what is spent of each bound

schedulerVars == <<row, desired, conn, pass, op, rec, term, jobs, used>>

Families == {Family[b] : b \in Builds}

Statuses == {"none", "queued", "assigned", "building", "succeeded", "failed", "stale"}

Phases == {"queued", "building", "publishing", "succeeded", "failed"}

Bounds == [bundles |-> MaxBundles, outages |-> MaxOutages, damaged |-> MaxDamaged,
           silent |-> MaxSilent, retries |-> MaxRetries, retired |-> MaxRetired,
           faults |-> MaxDied, lost |-> MaxLost]

Spend(bound) ==
  /\ used[bound] < Bounds[bound]
  /\ used' = [used EXCEPT ![bound] = @ + 1]

-----------------------------------------------------------------------------
\* What the rows say.

\* isActiveImageBuild.
Active(b) == row[b].status \in {"queued", "assigned", "building"}

\* The row is assigned to this builder and still takes its reports.
ActiveAt(b, h) == row[b].host = h /\ row[b].status \in {"assigned", "building"}

ActiveOn(h) == {b \in Builds : ActiveAt(b, h)}

\* Publishing and log upload run on the publication workers and free a slot.
SlotsOf(h) == {b \in ActiveOn(h) : row[b].phase \in {"queued", "building"}}

\* buildStatusFromPhase.
StatusOf(phase) ==
  CASE phase = "queued" -> "assigned"
    [] phase \in {"building", "publishing"} -> "building"
    [] OTHER -> phase

RetryAny(b) == row[b].status \in {"failed", "stale"}

\* A superseded row is not retried; a silent or failed one is.
CanRetry(b) == row[b].status = "failed" \/ (row[b].status = "stale" /\ ~row[b].superseded)

RequeuedInPlace(r) == [r EXCEPT !.status = "queued", !.phase = "queued"]

Requeued(r) == [r EXCEPT !.status = "queued", !.phase = "queued", !.host = NoHost]

NoOp == [at |-> "idle", host |-> NoHost, ids |-> {}]

NoPass == [at |-> "idle", build |-> NoBuild, host |-> NoHost]

\* mutateStoredHostDesiredState: a changed document is a new version, and the
\* host has yet to receive it.
Rewritten(h, ids) == [ids |-> ids, sent |-> desired[h].sent /\ ids = desired[h].ids]

WriteDesired(h, ids) == desired' = [desired EXCEPT ![h] = Rewritten(h, ids)]

\* removeDesiredBuildsFromHost.
RemoveDesired(h, ids) == WriteDesired(h, desired[h].ids \ ids)

SchedulerInit ==
  /\ row = [b \in Builds |-> [status |-> "none", phase |-> "queued", host |-> NoHost,
                              superseded |-> FALSE, retired |-> FALSE]]
  /\ desired = [h \in Hosts |-> [ids |-> {}, sent |-> TRUE]]
  /\ conn = [h \in Hosts |-> "up"]
  /\ pass = [p \in Passes |-> NoPass]
  /\ op = [f \in Families |-> NoOp]
  /\ rec = [h \in Hosts |-> NoOp]
  /\ term = [h \in Hosts |-> {}]
  /\ jobs = [h \in Hosts |-> [b \in Builds |-> "none"]]
  /\ used = [k \in DOMAIN Bounds |-> 0]

-----------------------------------------------------------------------------
\* A bundle names the build b.  One transaction takes the entries of what it
\* supersedes from every desired state, retires the other hashes of the
\* family and inserts or revives b.

Siblings(b) == {c \in Builds \ {b} : Family[c] = Family[b]}

\* supersessionCleanupBuildIds.
CleanupIds(b) ==
  {c \in Siblings(b) : row[c].status \in {"queued", "assigned", "building", "stale"}}
    \cup {c \in {b} : row[c].status \in {"queued", "failed", "stale"}}

Superseded(b) ==
  {c \in Siblings(b) : row[c].status \in {"queued", "assigned", "building", "failed", "stale"}}

\* An existing row is queued again only when it ended or lost its artifacts.
Revives(b) == row[b].status \in {"none", "failed", "stale"} \/ row[b].retired

QueueBundle(b) ==
  /\ op[Family[b]] = NoOp
  /\ Spend("bundles")
  /\ desired' = [h \in Hosts |-> Rewritten(h, desired[h].ids \ CleanupIds(b))]
  /\ row' = [c \in Builds |->
               IF c \in Superseded(b) THEN [row[c] EXCEPT !.status = "stale", !.superseded = TRUE]
               ELSE IF c = b /\ Revives(b)
                 THEN [Requeued(row[c]) EXCEPT !.superseded = FALSE]
                 ELSE row[c]]
  /\ op' = [op EXCEPT ![Family[b]] =
              IF Revives(b) /\ row[b].retired
                THEN [at |-> "unretire", host |-> NoHost, ids |-> {b}] ELSE NoOp]
  /\ UNCHANGED <<conn, pass, rec, term, jobs>>

\* A statement of its own makes a revived row an active pointer again.
ClearRetired(f) ==
  /\ op[f].at = "unretire"
  /\ row' = [b \in Builds |-> IF b \in op[f].ids THEN [row[b] EXCEPT !.retired = FALSE] ELSE row[b]]
  /\ op' = [op EXCEPT ![f] = NoOp]
  /\ UNCHANGED <<desired, conn, pass, rec, term, jobs, used>>

\* Retention keeps the audit row of a build and removes its artifacts.
Retire(b) ==
  /\ row[b].status = "succeeded" /\ ~row[b].retired
  /\ Spend("retired")
  /\ row' = [row EXCEPT ![b].retired = TRUE]
  /\ UNCHANGED <<desired, conn, pass, op, rec, term, jobs>>

\* retryImageBuild: first the entry on the old builder, then the row.
RetryBuild(b) ==
  /\ op[Family[b]] = NoOp
  /\ CanRetry(b)
  /\ Spend("retries")
  /\ IF row[b].host # NoHost THEN RemoveDesired(row[b].host, {b}) ELSE UNCHANGED desired
  /\ op' = [op EXCEPT ![Family[b]] = [at |-> "requeue", host |-> NoHost, ids |-> {b}]]
  /\ UNCHANGED <<row, conn, pass, rec, term, jobs>>

CommitRetry(f) ==
  /\ op[f].at = "requeue"
  /\ row' = [b \in Builds |-> IF b \in op[f].ids
                THEN [Requeued(row[b]) EXCEPT !.superseded = FALSE] ELSE row[b]]
  /\ op' = [op EXCEPT ![f] = NoOp]
  /\ UNCHANGED <<desired, conn, pass, rec, term, jobs, used>>

-----------------------------------------------------------------------------
\* assignQueuedImageBuilds, without a lock, by any number of passes.

\* The rows and the free builders are read once, before the first claim.
ReadQueue(p, b, h) ==
  /\ pass[p] = NoPass
  /\ row[b].status = "queued" /\ row[b].host = NoHost
  /\ conn[h] = "up"
  /\ Cardinality(SlotsOf(h)) < Slots
  /\ pass' = [pass EXCEPT ![p] = [at |-> "claim", build |-> b, host |-> h]]
  /\ UNCHANGED <<row, desired, conn, op, rec, term, jobs, used>>

ClaimOnStatus(b, h) == row[b].status = "queued" /\ row[b].host = NoHost /\ Slots > 0 /\ h \in Hosts

\* The conditional update of a claim counts the slots again.
Claimable(b, h) ==
  /\ row[b].status = "queued" /\ row[b].host = NoHost
  /\ Cardinality(SlotsOf(h)) < Slots

ClaimBuild(p) ==
  LET b == pass[p].build  h == pass[p].host IN
  /\ pass[p].at = "claim"
  /\ IF Claimable(b, h)
       THEN /\ row' = [row EXCEPT ![b].status = "assigned", ![b].phase = "queued", ![b].host = h]
            /\ pass' = [pass EXCEPT ![p].at = "publish"]
       ELSE pass' = [pass EXCEPT ![p] = NoPass] /\ UNCHANGED row
  /\ UNCHANGED <<desired, conn, op, rec, term, jobs, used>>

PublishDesired(p) ==
  /\ pass[p].at = "publish"
  /\ WriteDesired(pass[p].host, desired[pass[p].host].ids \cup {pass[p].build})
  /\ pass' = [pass EXCEPT ![p].at = "recheck"]
  /\ UNCHANGED <<row, conn, op, rec, term, jobs, used>>

\* An exhausted compare-and-set is left to the reconciliation.
DeferDesired(p) ==
  /\ pass[p].at = "publish"
  /\ Spend("faults")
  /\ pass' = [pass EXCEPT ![p].at = "recheck"]
  /\ UNCHANGED <<row, desired, conn, op, rec, term, jobs>>

TrustAssignment(p) ==
  /\ pass[p].at = "recheck"
  /\ pass' = [pass EXCEPT ![p] = NoPass]
  /\ UNCHANGED <<row, desired, conn, op, rec, term, jobs, used>>

RecheckAssignment(p) ==
  /\ pass[p].at = "recheck"
  /\ pass' = [pass EXCEPT ![p] =
                IF ActiveAt(pass[p].build, pass[p].host) THEN NoPass ELSE [@ EXCEPT !.at = "undo"]]
  /\ UNCHANGED <<row, desired, conn, op, rec, term, jobs, used>>

UndoKeepsBuild(p) ==
  /\ pass[p].at = "undo"
  /\ RemoveDesired(pass[p].host, {pass[p].build})
  /\ pass' = [pass EXCEPT ![p].at = "idle"]
  /\ UNCHANGED <<row, conn, op, rec, term, jobs, used>>

UndoDesired(p) ==
  /\ pass[p].at = "undo"
  /\ RemoveDesired(pass[p].host, {pass[p].build})
  /\ pass' = [pass EXCEPT ![p] = NoPass]
  /\ UNCHANGED <<row, conn, op, rec, term, jobs, used>>

-----------------------------------------------------------------------------
\* maintainHostBuildAssignments, from the runtime of a host.

\* Builds of one family that a builder gone past the deadline never started.
RequeueAssigned(h, f) ==
  LET ids == {b \in ActiveOn(h) : Family[b] = f /\ row[b].status = "assigned"} IN
  /\ conn[h] = "late"
  /\ op[f] = NoOp
  /\ ids # {}
  /\ op' = [op EXCEPT ![f] = [at |-> "reassign", host |-> h, ids |-> ids]]
  /\ UNCHANGED <<row, desired, conn, pass, rec, term, jobs, used>>

CommitRequeue(f) ==
  LET ids == {b \in op[f].ids : row[b].host = op[f].host /\ row[b].status = "assigned"} IN
  /\ op[f].at = "reassign"
  /\ row' = [b \in Builds |-> IF b \in ids THEN Requeued(row[b]) ELSE row[b]]
  /\ op' = [op EXCEPT ![f] = [@ EXCEPT !.at = "remove", !.ids = ids]]
  /\ UNCHANGED <<desired, conn, pass, rec, term, jobs, used>>

\* Builds whose last change of phase is half an hour old.
MarkStale(h, f) ==
  LET ids == {b \in ActiveOn(h) : Family[b] = f /\ row[b].status = "building"} IN
  /\ op[f] = NoOp
  /\ ids # {}
  /\ Spend("silent")
  /\ row' = [b \in Builds |-> IF b \in ids
                THEN [row[b] EXCEPT !.status = "stale", !.superseded = FALSE] ELSE row[b]]
  /\ op' = [op EXCEPT ![f] = [at |-> "remove", host |-> h, ids |-> ids]]
  /\ UNCHANGED <<desired, conn, pass, rec, term, jobs>>

RemoveMoved(f) ==
  /\ op[f].at = "remove"
  /\ RemoveDesired(op[f].host, op[f].ids)
  /\ op' = [op EXCEPT ![f] = NoOp]
  /\ UNCHANGED <<row, conn, pass, rec, term, jobs, used>>

\* reconcileAssignedBuildsForHost: republish what is assigned and missing.
ReadAssignments(h) ==
  /\ rec[h] = NoOp
  /\ ~ActiveOn(h) \subseteq desired[h].ids
  /\ rec' = [rec EXCEPT ![h] = [at |-> "write", host |-> h, ids |-> ActiveOn(h)]]
  /\ UNCHANGED <<row, desired, conn, pass, op, term, jobs, used>>

WriteNothing(h) ==
  /\ rec[h].at = "write"
  /\ rec' = [rec EXCEPT ![h] = NoOp]
  /\ UNCHANGED <<row, desired, conn, pass, op, term, jobs, used>>

WriteAssignments(h) ==
  /\ rec[h].at = "write"
  /\ WriteDesired(h, desired[h].ids \cup rec[h].ids)
  /\ rec' = [rec EXCEPT ![h].at = "check"]
  /\ UNCHANGED <<row, conn, pass, op, term, jobs, used>>

\* What is no longer assigned is taken out again.
DropSuperseded(h) ==
  /\ rec[h].at = "check"
  /\ RemoveDesired(h, rec[h].ids \ ActiveOn(h))
  /\ rec' = [rec EXCEPT ![h] = NoOp]
  /\ UNCHANGED <<row, conn, pass, op, term, jobs, used>>

-----------------------------------------------------------------------------
\* The builder, as far as the control plane sees it.

\* reconcile_desired_builds: jobs nobody wants any more go, new ones and
\* failed ones are queued.
ApplyDesired(h) ==
  /\ conn[h] = "up" /\ ~desired[h].sent
  /\ jobs' = [jobs EXCEPT ![h] = [b \in Builds |->
               IF b \notin desired[h].ids THEN "none"
               ELSE IF @[b] \in {"none", "failed"} THEN "queued" ELSE @[b]]]
  /\ desired' = [desired EXCEPT ![h].sent = TRUE]
  /\ UNCHANGED <<row, conn, pass, op, rec, term, used>>

Work(h, b) ==
  /\ \/ jobs[h][b] = "queued" /\ jobs' = [jobs EXCEPT ![h][b] = "building"]
     \/ jobs[h][b] = "building" /\ \E to \in {"publishing", "failed"} : jobs' = [jobs EXCEPT ![h][b] = to]
  /\ UNCHANGED <<row, desired, conn, pass, op, rec, term, used>>

\* The registry takes the manifest of an active assignment and answers any
\* other 409, which ends the job.
Publish(h, b) ==
  /\ jobs[h][b] = "publishing" /\ conn[h] = "up"
  /\ op[Family[b]] = NoOp
  /\ jobs' = [jobs EXCEPT ![h][b] = IF ActiveAt(b, h) THEN "succeeded" ELSE "failed"]
  /\ UNCHANGED <<row, desired, conn, pass, op, rec, term, used>>

\* requeue_damaged_completed_output.
Rebuild(h, b) ==
  /\ jobs[h][b] = "publishing"
  /\ Spend("damaged")
  /\ jobs' = [jobs EXCEPT ![h][b] = "queued"]
  /\ UNCHANGED <<row, desired, conn, pass, op, rec, term>>

\* recordImageBuildReport: the row takes the reports of its own builder while
\* it is assigned or building, and answers a repeated end without a write.
\* A builder that has not received the last desired state still reports the
\* job of an earlier assignment.
Ended(h, b) ==
  /\ jobs[h][b] \in {"succeeded", "failed"}
  /\ ActiveAt(b, h) \/ (row[b].host = h /\ row[b].status = jobs[h][b])

Report(h, b) ==
  /\ conn[h] = "up"
  /\ jobs[h][b] # "none"
  /\ op[Family[b]] = NoOp
  /\ row' = IF ActiveAt(b, h)
              THEN [row EXCEPT ![b].phase = jobs[h][b], ![b].status = StatusOf(jobs[h][b])]
              ELSE row
  /\ term' = [term EXCEPT ![h] = IF Ended(h, b) THEN @ \cup {b} ELSE @]
  /\ UNCHANGED <<desired, conn, pass, op, rec, jobs, used>>

\* removeTerminalBuildsFromDesiredState, after the lock is released.
RemoveTerminal(h) ==
  /\ term[h] # {}
  /\ RemoveDesired(h, term[h])
  /\ term' = [term EXCEPT ![h] = {}]
  /\ UNCHANGED <<row, conn, pass, op, rec, jobs, used>>

Disconnect(h) ==
  /\ conn[h] = "up"
  /\ Spend("outages")
  /\ conn' = [conn EXCEPT ![h] = "down"]
  /\ UNCHANGED <<row, desired, pass, op, rec, term, jobs>>

\* isDisconnectedPastDeadline.
PassDeadline(h) ==
  /\ conn[h] = "down"
  /\ conn' = [conn EXCEPT ![h] = "late"]
  /\ UNCHANGED <<row, desired, pass, op, rec, term, jobs, used>>

Reconnect(h) ==
  /\ conn[h] # "up"
  /\ conn' = [conn EXCEPT ![h] = "up"]
  /\ UNCHANGED <<row, desired, pass, op, rec, term, jobs, used>>

-----------------------------------------------------------------------------
\* The isolate of a request, or of a host's runtime, goes away between two
\* of its calls.  Its lock expires.

LosePass(p) ==
  /\ pass[p] # NoPass
  /\ Spend("faults")
  /\ pass' = [pass EXCEPT ![p] = NoPass]
  /\ UNCHANGED <<row, desired, conn, op, rec, term, jobs>>

LoseOp(f) ==
  /\ op[f] # NoOp
  /\ Spend("faults")
  /\ op' = [op EXCEPT ![f] = NoOp]
  /\ UNCHANGED <<row, desired, conn, pass, rec, term, jobs>>

LoseRuntime(h) ==
  /\ rec[h] # NoOp \/ term[h] # {}
  /\ Spend("lost")
  /\ rec' = [rec EXCEPT ![h] = NoOp]
  /\ term' = [term EXCEPT ![h] = {}]
  /\ UNCHANGED <<row, desired, conn, pass, op, jobs>>

SchedulerNext ==
  \/ \E b \in Builds : QueueBundle(b) \/ Retire(b) \/ RetryBuild(b)
  \/ \E f \in Families : \/ ClearRetired(f) \/ CommitRetry(f) \/ CommitRequeue(f)
                         \/ RemoveMoved(f) \/ LoseOp(f)
  \/ \E p \in Passes : \/ \E b \in Builds, h \in Hosts : ReadQueue(p, b, h)
                       \/ ClaimBuild(p) \/ PublishDesired(p) \/ DeferDesired(p)
                       \/ RecheckAssignment(p) \/ UndoDesired(p) \/ LosePass(p)
  \/ \E h \in Hosts : \/ \E f \in Families : RequeueAssigned(h, f) \/ MarkStale(h, f)
                      \/ \E b \in Builds : \/ Work(h, b) \/ Publish(h, b) \/ Rebuild(h, b)
                                           \/ Report(h, b)
                      \/ ReadAssignments(h) \/ WriteAssignments(h)
                      \/ DropSuperseded(h) \/ ApplyDesired(h)
                      \/ RemoveTerminal(h) \/ Disconnect(h) \/ PassDeadline(h) \/ Reconnect(h)
                      \/ LoseRuntime(h)

SchedulerSpec == SchedulerInit /\ [][SchedulerNext]_schedulerVars

\* Started calls finish, hosts reconnect and report, and every report of a
\* host makes its runtime assign and reconcile.
SchedulerFairness ==
  /\ \A f \in Families : WF_schedulerVars(ClearRetired(f) \/ CommitRetry(f) \/ CommitRequeue(f) \/ RemoveMoved(f))
  /\ \A p \in Passes : WF_schedulerVars(ClaimBuild(p) \/ PublishDesired(p) \/ RecheckAssignment(p) \/ UndoDesired(p))
  /\ \A b \in Builds : SF_schedulerVars(\E p \in Passes, h \in Hosts : ReadQueue(p, b, h))
  /\ \A h \in Hosts :
       /\ WF_schedulerVars(ReadAssignments(h)) /\ WF_schedulerVars(WriteAssignments(h))
       /\ WF_schedulerVars(DropSuperseded(h))
       /\ WF_schedulerVars(ApplyDesired(h)) /\ WF_schedulerVars(RemoveTerminal(h))
       /\ WF_schedulerVars(Reconnect(h))
       /\ \A b \in Builds : WF_schedulerVars(Work(h, b)) /\ SF_schedulerVars(Publish(h, b)) /\ SF_schedulerVars(Report(h, b))

SchedulerFairSpec == SchedulerSpec /\ SchedulerFairness

-----------------------------------------------------------------------------
\* The variables hold values of their kinds; what is not idle names a build
\* and a builder, the lock of a family is held for builds of that family, and
\* no bound is overspent.
SchedulerTypes ==
  /\ row \in [Builds -> [status : Statuses, phase : Phases, host : Hosts \cup {NoHost},
                         superseded : BOOLEAN, retired : BOOLEAN]]
  /\ desired \in [Hosts -> [ids : SUBSET Builds, sent : BOOLEAN]]
  /\ conn \in [Hosts -> {"up", "down", "late"}]
  /\ pass \in [Passes -> {NoPass} \cup [at : {"claim", "publish", "recheck", "undo"},
                                       build : Builds, host : Hosts]]
  /\ op \in [Families -> {NoOp} \cup [at : {"unretire", "requeue", "reassign", "remove"},
                                     host : Hosts \cup {NoHost}, ids : SUBSET Builds]]
  /\ \A f \in Families : /\ \A b \in op[f].ids : Family[b] = f
                         /\ op[f].at \in {"reassign", "remove"} => op[f].host \in Hosts
  /\ rec \in [Hosts -> {NoOp} \cup [at : {"write", "check"}, host : Hosts, ids : SUBSET Builds]]
  /\ term \in [Hosts -> SUBSET Builds]
  /\ jobs \in [Hosts -> [Builds -> Phases \cup {"none"}]]
  /\ used \in [DOMAIN Bounds -> Nat]
  /\ \A k \in DOMAIN Bounds : used[k] <= Bounds[k]

\* build-scheduler.ts says of the queueing transaction that at most one
\* content hash of a scenario and architecture can remain active, whatever
\* retries, requeues and late reports do to the hashes it retired.
OneActiveHash ==
  \A b \in Builds : \A c \in Siblings(b) : ~(Active(b) /\ Active(c))

\* However many passes race from stale snapshots, a builder never holds more
\* builds in need of a worker than it has slots.
SlotsKept == \A h \in Hosts : Cardinality(SlotsOf(h)) <= Slots

AtRest ==
  /\ \A p \in Passes : pass[p] = NoPass
  /\ \A f \in Families : op[f] = NoOp
  /\ \A h \in Hosts : rec[h] = NoOp /\ term[h] = {}

\* No request and no runtime of a host died half way.
Unbroken == used.faults = 0 /\ used.lost = 0

\* A pass publishes and rechecks while supersession, requeue and terminal
\* removal clean up behind the same rows; between them no builder is left
\* with a build that is not its own.
NoOrphanBuild == Unbroken /\ AtRest => \A h \in Hosts : desired[h].ids \subseteq ActiveOn(h)

\* Passes, reports, supersessions, retries and requeues of any number of
\* builds and builders leave one active build of a scenario and architecture
\* and no builder with a build that is not its own.
BuildsKept == SchedulerTypes /\ OneActiveHash /\ NoOrphanBuild

\* An assignment whose desired state was never written, or was removed by a
\* slower cleanup, reaches its builder or is taken back.
AssignedIsDelivered ==
  \A h \in Hosts, b \in Builds :
    (ActiveAt(b, h) /\ b \notin desired[h].ids) ~> (b \in desired[h].ids \/ ~ActiveAt(b, h))

\* Every queued build ends: it succeeds, fails, goes stale or is superseded.
EveryBuildEnds == \A b \in Builds : Active(b) ~> ~Active(b)
=============================================================================
