--------------------------- MODULE ScenarioSource ---------------------------
(***************************************************************************)
(* The scenario source of an organization: a bound GitHub repository whose *)
(* head is delivered (pulled and compiled on a builder, or pushed by the   *)
(* repository's own workflow), ingested, built and promoted to the live    *)
(* catalog (control-plane/scenario-source-do.ts, lib/scenario-sources.ts). *)
(*                                                                         *)
(* The durable object works in alarm passes, one at a time; every D1       *)
(* statement or batch and every bucket call of a pass is a step, and the   *)
(* upload routes, the webhook, the administrators, the builder and the     *)
(* image builds move between them.  A commit's image builds and candidate  *)
(* rows are one value (modules BuildScheduler and Catalog have the rest).  *)
(***************************************************************************)
EXTENDS Naturals, FiniteSets

CONSTANTS
  Revs,          \* commits of the repository
  NoRev,
  BadRevs,       \* commits that do not compile and whose bundle is refused
  Modes,         \* delivery modes administrators choose from
  MaxTries,      \* MAX_TRIES
  MaxCompiles,   \* MAX_COMPILE_ATTEMPTS
  MaxMoves,      \* head moves of one behaviour
  MaxUploads,    \* uploads of the push route
  MaxChanges,    \* administrators' changes and re-runs
  MaxSourceFaults,     \* crashes, refusals, expiries and failed builds
  Changes        \* changes that happen

ScenarioSourceConstants ==
  /\ NoRev \notin Revs /\ BadRevs \subseteq Revs /\ Modes \subseteq {"pull", "push"} /\ Modes # {}
  /\ {MaxTries, MaxMoves, MaxUploads, MaxChanges, MaxSourceFaults} \subseteq Nat
  /\ MaxCompiles \in Nat \ {0}
  /\ Changes \subseteq {"pause", "resume", "disconnect", "connect", "mode", "rerun", "purge"}

VARIABLES
  repo,     \* the head of the default branch at GitHub
  bind,     \* the scenario_sources row
  commits,  \* [Revs -> the deploy row of scenario_source_commits]
  staged,   \* commits whose bundle and meta objects are staged
  archive,  \* commits whose repository archive is stored
  bundle,   \* commits with an image_build_bundles row
  build,    \* [Revs -> the commit's image builds and candidate rows]
  cat,      \* the commit whose rows the live catalog holds
  tried,    \* [Revs -> tries of the row's attempt, by step] (DO storage)
  tick,     \* the durable object's alarm pass
  upload,   \* an upload of the push route
  order,    \* which head reads in flight began before which: "do", "up", "none"
  bld,      \* the builder's compile
  compile,  \* the compile in the builder's desired state
  left      \* what may still happen

sourceVars == <<repo, bind, commits, staged, archive, bundle, build, cat, tried, tick, upload, order, bld,
          compile, left>>

NoTries == [fetch |-> 0, ingest |-> 0, heal |-> 0]
\* att numbers the attempts of the commit's rows: a row that a purge deleted never comes back
NoRow == [st |-> "none", att |-> 0, claimed |-> 0, host |-> FALSE]
NoTick == [pc |-> "idle", next |-> "idle", rev |-> NoRev, att |-> 0, st |-> "none", head |-> NoRev,
           late |-> FALSE, drop |-> {}, promoted |-> FALSE]
NoUpload == [pc |-> "idle", rev |-> NoRev, late |-> FALSE]
NoJob == [rev |-> NoRev, att |-> 0]
NoCompile == [pc |-> "idle", job |-> NoJob, res |-> "none", done |-> NoJob]

SourceInit ==
  /\ repo \in Revs
  /\ \E m \in Modes :
       bind = [mode |-> m, paused |-> "no", disc |-> "no", head |-> NoRev, target |-> NoRev,
               live |-> NoRev]
  /\ commits = [r \in Revs |-> NoRow]
  /\ staged = {} /\ archive = {} /\ bundle = {} /\ cat = NoRev
  /\ build = [r \in Revs |-> "none"]
  /\ tried = [r \in Revs |-> NoTries]
  /\ tick = NoTick /\ upload = NoUpload /\ order = "none"
  /\ bld = NoCompile /\ compile = NoJob
  /\ left = [moves |-> MaxMoves, uploads |-> MaxUploads, changes |-> MaxChanges, faults |-> MaxSourceFaults]

\* scenarioSourceBindingPredicate; the binder's role is the pause reason "binder"
BindingActive == bind.disc = "no" /\ bind.paused = "no"
Fault == left.faults > 0 /\ left' = [left EXCEPT !.faults = @ - 1]

\* the row of the head or of the target, if there is one, is in one of the states S
RowIn(r, S) == r \in Revs /\ commits[r].st \in S
SetRow(r, st) == commits' = [commits EXCEPT ![r].st = st]
\* every exit from compiling: the desired compile follows the row
Mirrored(rows) ==
  IF \E r \in Revs : rows[r].st = "compiling" /\ rows[r].host
  THEN LET r == CHOOSE x \in Revs : rows[x].st = "compiling" /\ rows[x].host
       IN  [rev |-> r, att |-> rows[r].att]
  ELSE NoJob
Mirror == compile' = Mirrored(commits')

(***************************************************************************)
(* The repository, GitHub's webhook and the administrators.                *)
(***************************************************************************)
Push(r) ==
  /\ left.moves > 0 /\ r # repo
  /\ repo' = r
  /\ left' = [left EXCEPT !.moves = @ - 1]
  /\ UNCHANGED <<bind, commits, staged, archive, bundle, build, cat, tried, tick, upload, order, bld, compile>>

Change(kind) ==
  /\ kind \in Changes /\ left.changes > 0
  /\ left' = [left EXCEPT !.changes = @ - 1]

\* flipRerequested
Rerun(r) ==
  /\ Change("rerun")
  /\ commits[r].st \in {"failed", "invalid"} /\ bind.disc = "no"
  /\ commits' = [commits EXCEPT ![r].st = IF @ = "failed" THEN "ingesting" ELSE "superseded",
                        ![r].att = @ + 1]
  /\ tried' = [tried EXCEPT ![r] = NoTries]
  /\ UNCHANGED <<repo, bind, staged, archive, bundle, build, cat, tick, upload, order, bld, compile>>

Paused == Change("pause") /\ bind.disc = "no" /\ bind.paused \in {"no", "suspended"}
          /\ bind' = [bind EXCEPT !.paused = "admin"] /\ UNCHANGED <<commits, compile>>
Resumed == Change("resume") /\ bind.disc = "no" /\ bind.paused # "no"
           /\ bind' = [bind EXCEPT !.paused = "no"] /\ UNCHANGED <<commits, compile>>
Disconnected == Change("disconnect") /\ bind.disc = "no"
                /\ bind' = [bind EXCEPT !.disc = "admin"] /\ UNCHANGED <<commits, compile>>
\* a re-bind forgets head and target; a purged scope gets a new row
Connected ==
  /\ Change("connect") /\ bind.disc \notin {"no", "purging"}
  /\ \E m \in Modes :
       bind' = [mode |-> m, paused |-> "no", disc |-> "no", head |-> NoRev,
                target |-> bind.live, live |-> bind.live]
  /\ UNCHANGED <<commits, compile>>
\* one batch: what the old mode has in flight is dropped
Switched ==
  /\ Change("mode") /\ bind.disc = "no"
  /\ \E m \in Modes \ {bind.mode} : bind' = [bind EXCEPT !.mode = m]
  /\ commits' = [r \in Revs |-> IF commits[r].st \in {"fetching", "compiling"}
                            THEN [commits[r] EXCEPT !.st = "superseded"] ELSE commits[r]]
  /\ Mirror

ChangeSource ==
  /\ Paused \/ Resumed \/ Disconnected \/ Connected \/ Switched
  /\ UNCHANGED <<repo, staged, archive, bundle, build, cat, tried, tick, upload, order, bld>>

\* nothing of the scope is still moving
Quiet ==
  /\ bind.disc \notin {"no", "none"}
  /\ \A r \in Revs : commits[r].st \notin {"fetching", "compiling", "ingesting", "promoting"}
  /\ \A r \in Revs : build[r] # "running"

\* purgeScenarioSource: the marker batch, then the rows under the family locks
PurgeMark ==
  /\ Change("purge") /\ Quiet
  /\ bind' = [bind EXCEPT !.disc = "purging"]
  /\ build' = [r \in Revs |-> IF build[r] = "queued" THEN "bad" ELSE build[r]]
  /\ UNCHANGED <<repo, commits, staged, archive, bundle, cat, tried, tick, upload, order, bld, compile>>

PurgeDelete ==
  /\ bind.disc = "purging"
  /\ bind' = [bind EXCEPT !.disc = "none", !.head = NoRev, !.target = NoRev, !.live = NoRev]
  /\ commits' = [r \in Revs |-> [NoRow EXCEPT !.att = commits[r].att + 1, !.claimed = commits[r].att + 1]]
  /\ tried' = [r \in Revs |-> NoTries]
  /\ bundle' = {} /\ build' = [r \in Revs |-> "none"] /\ cat' = NoRev
  /\ UNCHANGED <<repo, staged, archive, tick, upload, order, bld, compile, left>>

(***************************************************************************)
(* The push route: handleSourceBundleUpload, acceptScenarioSourceUpload.   *)
(***************************************************************************)
\* the head is read at GitHub and must be the commit that is uploaded
UploadBegin ==
  /\ upload.pc = "idle" /\ BindingActive /\ bind.mode = "push"
  /\ left.uploads > 0 /\ left' = [left EXCEPT !.uploads = @ - 1]
  /\ commits[repo].st \notin {"ingesting", "building", "waiting", "promoting", "live"}
  /\ upload' = [pc |-> "read", rev |-> repo, late |-> FALSE]
  /\ order' = IF tick.pc \in {"observe", "observed"} THEN "do" ELSE "up"
  /\ UNCHANGED <<repo, bind, commits, staged, archive, bundle, build, cat, tried, tick, bld, compile>>

UploadStage ==
  /\ upload.pc = "read"
  /\ staged' = staged \cup {upload.rev}
  /\ upload' = [upload EXCEPT !.pc = "staged"]
  /\ UNCHANGED <<repo, bind, commits, archive, bundle, build, cat, tried, tick, order, bld, compile, left>>

\* one batch: the newer head, and the claim of the row while it is the head's
UploadClaim ==
  /\ upload.pc = "staged"
  /\ LET r == upload.rev
         may == BindingActive /\ bind.mode = "push"
         b == IF may /\ ~upload.late THEN [bind EXCEPT !.head = r] ELSE bind
         free == commits[r].st \in {"none", "failed", "invalid", "superseded"}
         took == may /\ b.head = r /\ free
     IN  /\ bind' = b
         /\ commits' = IF took THEN [commits EXCEPT ![r].st = "ingesting",
                                             ![r].att = IF commits[r].st = "none" THEN @ ELSE @ + 1]
                   ELSE commits
         /\ tried' = IF took THEN [tried EXCEPT ![r] = NoTries] ELSE tried
         /\ tick' = IF order = "do" /\ may /\ ~upload.late THEN [tick EXCEPT !.late = TRUE] ELSE tick
  /\ upload' = NoUpload /\ order' = "none"
  /\ UNCHANGED <<repo, staged, archive, bundle, build, cat, bld, compile, left>>

(***************************************************************************)
(* The builder: run_supervisor and the compile routes.                     *)
(***************************************************************************)
\* fencedSourceCompile
Fenced(j) == /\ j.rev # NoRev /\ commits[j.rev].st = "compiling" /\ commits[j.rev].att = j.att
             /\ commits[j.rev].host /\ BindingActive

SetBld(v) == bld' = v /\ UNCHANGED <<repo, bind, cat, build, bundle, tick, upload, order, tried>>

\* the snapshot route checks the fence; a refusal is an error and is tried again
CompileBegin ==
  /\ bld.pc = "idle" /\ compile # NoJob /\ compile # bld.done
  /\ Fenced(compile) /\ compile.rev \in archive
  /\ SetBld([bld EXCEPT !.pc = "child", !.job = compile])
  /\ UNCHANGED <<commits, staged, archive, compile, left>>

\* the child ends or is killed by its timeout; a compile that left is killed
CompileEnds ==
  /\ bld.pc = "child"
  /\ \/ /\ compile = bld.job
        /\ SetBld([bld EXCEPT !.pc = "post", !.res = IF bld.job.rev \in BadRevs THEN "bad" ELSE "ok"])
        /\ UNCHANGED left
     \/ compile = bld.job /\ Fault /\ SetBld([bld EXCEPT !.pc = "post", !.res = "bad"])
     \/ compile # bld.job /\ SetBld([NoCompile EXCEPT !.done = bld.job]) /\ UNCHANGED left
  /\ UNCHANGED <<commits, staged, archive, compile>>

\* the result route: a success is staged first, a failure settles the row
PostResult ==
  /\ bld.pc = "post"
  /\ IF ~Fenced(bld.job)
     THEN SetBld([NoCompile EXCEPT !.done = bld.job]) /\ UNCHANGED <<commits, staged, archive, compile, left>>
     ELSE IF bld.res = "ok"
     THEN /\ SetBld([bld EXCEPT !.pc = "claim"])
          /\ staged' = staged \cup {bld.job.rev} /\ UNCHANGED <<commits, archive, compile, left>>
     ELSE /\ SetBld([NoCompile EXCEPT !.done = bld.job])
          /\ SetRow(bld.job.rev, "invalid") /\ Mirror
          /\ archive' = archive \ {bld.job.rev} /\ UNCHANGED <<staged, left>>

\* mutant: the claim of a result looks at the row's state only
ClaimResultUnfenced ==
  LET r == bld.job.rev
      took == commits[r].st \in {"compiling", "fetching", "superseded"} IN
  /\ bld.pc = "claim"
  /\ commits' = IF took THEN [commits EXCEPT ![r].st = "ingesting"] ELSE commits
  /\ archive' = IF took THEN archive \ {r} ELSE archive
  /\ compile' = IF took THEN Mirrored(commits') ELSE compile
  /\ SetBld([NoCompile EXCEPT !.done = bld.job])
  /\ UNCHANGED <<staged, left>>

\* the claim is fenced on (row, attempt, host) and on the head
ClaimResult ==
  LET r == bld.job.rev
      took == Fenced(bld.job) /\ bind.mode = "pull" /\ bind.head = r IN
  /\ bld.pc = "claim"
  /\ commits' = IF took THEN [commits EXCEPT ![r].st = "ingesting"] ELSE commits
  /\ archive' = IF took THEN archive \ {r} ELSE archive
  /\ compile' = IF took THEN Mirrored(commits') ELSE compile
  /\ SetBld([NoCompile EXCEPT !.done = bld.job])
  /\ UNCHANGED <<staged, left>>

\* a result compiled by another compiler goes back like an expiry
RefuseOutdated ==
  /\ bld.pc = "post" /\ bld.res = "ok" /\ Fenced(bld.job) /\ Fault
  /\ LET r == bld.job.rev
         failed == commits[r].att - commits[r].claimed >= MaxCompiles
     IN  /\ SetRow(r, IF failed THEN "failed" ELSE "fetching")
         /\ archive' = IF failed THEN archive \ {r} ELSE archive
  /\ Mirror
  /\ SetBld([NoCompile EXCEPT !.done = bld.job])
  /\ UNCHANGED <<staged>>

\* the builder restarts and forgets its compile
BuilderCrash ==
  /\ bld.pc # "idle" /\ Fault
  /\ SetBld(NoCompile)
  /\ UNCHANGED <<commits, staged, archive, compile>>

\* a host report, every 20 s, brings the desired compile back in step
HostReport ==
  /\ compile # Mirrored(commits)
  /\ compile' = Mirrored(commits)
  /\ UNCHANGED <<repo, bind, commits, staged, archive, bundle, build, cat, tried, tick, upload, order, bld, left>>

\* the image builds of a commit end; supersession and retirement ask for a heal
BuildMoves(r) ==
  /\ \/ build[r] = "queued" /\ build' = [build EXCEPT ![r] = "running"] /\ UNCHANGED left
     \/ build[r] = "running" /\ build' = [build EXCEPT ![r] = "good"] /\ UNCHANGED left
     \/ build[r] = "running" /\ Fault /\ build' = [build EXCEPT ![r] = "bad"]
     \/ build[r] = "good" /\ cat # r /\ Fault /\ build' = [build EXCEPT ![r] = "stale"]
  /\ UNCHANGED <<repo, bind, commits, staged, archive, bundle, cat, tried, tick, upload, order, bld, compile>>

(***************************************************************************)
(* The alarm pass.                                                         *)
(***************************************************************************)
Goto(pc) == tick' = [NoTick EXCEPT !.pc = pc, !.promoted = pc # "idle" /\ tick.promoted]
\* the pass goes on with what it has read
Stay(pc) == tick' = [tick EXCEPT !.pc = pc]
\* the pass goes on at "next" after the objects of "drop" are deleted
CleanThen(D, next) == tick' = [NoTick EXCEPT !.pc = IF D = {} THEN next ELSE "clean", !.drop = D,
                                               !.next = IF D = {} THEN "idle" ELSE next,
                                               !.promoted = tick.promoted]

\* the cron's poke or poll; a disconnected binding runs while a row is in flight
Alarm ==
  /\ tick.pc = "idle" /\ bind.disc # "none"
  /\ bind.disc # "no" => \E r \in Revs : commits[r].st \in {"fetching", "compiling", "ingesting", "promoting"}
  /\ tick' = [NoTick EXCEPT !.pc = IF bind.disc = "no" THEN "observe" ELSE "drop"]
  /\ order' = IF bind.disc = "no" /\ upload.pc # "idle" THEN "up" ELSE order
  /\ UNCHANGED <<repo, bind, commits, staged, archive, bundle, build, cat, tried, upload, bld, compile, left>>

\* the mint says gone, suspended or ok; with ok the head is read
ObserveHead ==
  /\ tick.pc = "observe"
  /\ \/ /\ tick' = [tick EXCEPT !.pc = "observed", !.head = repo]
        /\ bind' = IF bind.paused = "suspended" THEN [bind EXCEPT !.paused = "no"] ELSE bind
        /\ UNCHANGED left
     \/ Fault /\ Goto("drop") /\ bind' = IF bind.paused = "no"
                                         THEN [bind EXCEPT !.paused = "suspended"] ELSE bind
     \/ Fault /\ Goto("drop") /\ bind' = [bind EXCEPT !.disc = IF @ = "no" THEN "gone" ELSE @]
     \/ Fault /\ Goto("drop") /\ UNCHANGED bind
  /\ UNCHANGED <<repo, commits, staged, archive, bundle, build, cat, tried, upload, order, bld, compile>>

\* an older read never replaces a newer head
WriteHead ==
  /\ tick.pc = "observed"
  /\ LET may == bind.disc = "no" /\ ~tick.late
     IN  /\ bind' = IF may THEN [bind EXCEPT !.head = tick.head] ELSE bind
         /\ upload' = IF may /\ order = "up" THEN [upload EXCEPT !.late = TRUE] ELSE upload
  /\ Goto("drop") /\ order' = "none"
  /\ UNCHANGED <<repo, commits, staged, archive, bundle, build, cat, tried, bld, compile, left>>

\* the binder's loss of the scope pauses, then dropInactive
DropInactive ==
  /\ tick.pc = "drop"
  /\ \/ UNCHANGED <<bind, left>>
     \/ BindingActive /\ Fault /\ bind' = [bind EXCEPT !.paused = "binder"]
  /\ LET D == IF bind'.disc # "no" \/ bind'.paused # "no"
              THEN {r \in Revs : commits[r].st \in {"fetching", "compiling", "ingesting"}} ELSE {}
     IN  /\ commits' = [r \in Revs |-> IF r \in D THEN [commits[r] EXCEPT !.st = "superseded"] ELSE commits[r]]
         /\ CleanThen(D, "finish")
  /\ UNCHANGED <<repo, staged, archive, bundle, build, cat, tried, upload, order, bld, compile>>

\* deleteStagedObjects, and endSourceCompiles
Clean ==
  /\ tick.pc = "clean"
  /\ staged' = staged \ tick.drop /\ archive' = archive \ tick.drop
  /\ compile' = Mirrored(commits)
  /\ Goto(tick.next)
  /\ UNCHANGED <<repo, bind, commits, bundle, build, cat, tried, upload, order, bld, left>>

\* finishPromotion: a started promotion is finished first, whatever the binding says
Finish ==
  /\ tick.pc = "finish"
  /\ IF \E r \in Revs : commits[r].st = "promoting"
     THEN LET r == CHOOSE x \in Revs : commits[x].st = "promoting"
          IN  tick' = [tick EXCEPT !.pc = "core", !.rev = r, !.att = commits[r].att, !.promoted = TRUE,
                                   !.next = "supersede"]
     ELSE Goto("supersede")
  /\ UNCHANGED <<repo, bind, commits, staged, archive, bundle, build, cat, tried, upload, order, bld, compile, left>>

Supersede ==
  /\ tick.pc = "supersede"
  /\ LET D == {r \in Revs : /\ commits[r].st \in {"fetching", "compiling", "ingesting", "building",
                                               "waiting", "failed"}
                            /\ r \notin {bind.head, bind.live}}
     IN  /\ commits' = [r \in Revs |-> IF r \in D THEN [commits[r] EXCEPT !.st = "superseded"] ELSE commits[r]]
         /\ CleanThen(D, "active")
  /\ UNCHANGED <<repo, bind, staged, archive, bundle, build, cat, tried, upload, order, bld, compile, left>>

\* the binding may write, or the pass ends here
ReadActive ==
  /\ tick.pc = "active"
  /\ tick' = IF BindingActive THEN [tick EXCEPT !.pc = "ingest"] ELSE NoTick
  /\ UNCHANGED <<repo, bind, commits, staged, archive, bundle, build, cat, tried, upload, order, bld, compile, left>>

\* settle: only while the row is as it was read; its objects go either way
Settled(r, att, st, to) ==
  IF commits[r].att = att /\ commits[r].st = st THEN [commits EXCEPT ![r].st = to] ELSE commits

\* the head's ingesting row: a fourth try ends it, a stored bundle is queued again
Ingest ==
  /\ tick.pc = "ingest"
  /\ LET r == bind.head IN
     IF ~RowIn(r, {"ingesting"})
     THEN Goto("deliver") /\ UNCHANGED <<commits, tried>>
     ELSE /\ tried' = [tried EXCEPT ![r].ingest = IF @ >= MaxTries THEN 0 ELSE @ + 1]
          /\ IF tried[r].ingest >= MaxTries
             THEN commits' = Settled(r, commits[r].att, "ingesting", "failed") /\ CleanThen({r}, "deliver")
             ELSE /\ UNCHANGED commits
                  /\ tick' = [tick EXCEPT !.pc = "read", !.rev = r, !.att = commits[r].att]
  /\ UNCHANGED <<repo, bind, staged, archive, bundle, build, cat, upload, order, bld, compile, left>>

\* readStagedCommit and namespaceRefusal
ReadStaged ==
  /\ tick.pc = "read"
  /\ LET r == tick.rev IN
     IF r \in bundle \cup (staged \ BadRevs)
     THEN tick' = [tick EXCEPT !.pc = "write", !.next = "ingested"] /\ UNCHANGED <<commits, tried>>
     ELSE /\ commits' = Settled(r, tick.att, "ingesting",
                            IF r \in staged THEN "invalid" ELSE "superseded")
          /\ tried' = [tried EXCEPT ![r].ingest = 0]
          /\ CleanThen({r}, "deliver")
  /\ UNCHANGED <<repo, bind, staged, archive, bundle, build, cat, upload, order, bld, compile, left>>

\* writeBundle: bundle row, builds queued, reusable candidates staged; other builds go stale
Queued(r) == [x \in Revs |->
  IF x = r THEN (IF build[r] \in {"none", "stale", "bad"} THEN "queued" ELSE build[r])
  ELSE IF build[x] \in {"queued", "running", "bad"} THEN "stale" ELSE build[x]]

\* the counter is the one of the row and attempt that the pass has read (tryKey)
Uncounted(r, ingests) ==
  IF commits[r].att # tick.att THEN tried
  ELSE IF ingests THEN [tried EXCEPT ![r].ingest = @ - 1] ELSE [tried EXCEPT ![r].heal = @ - 1]

Write ==
  /\ tick.pc = "write"
  /\ \/ /\ bundle' = bundle \cup {tick.rev}
        /\ build' = Queued(tick.rev)
        /\ Stay(tick.next)
        /\ UNCHANGED <<tried, left>>
     \* a refused writer is settled and not counted
     \/ /\ Fault
        /\ tried' = Uncounted(tick.rev, tick.next = "ingested")
        /\ Goto(IF tick.next = "ingested" THEN "deliver" ELSE "idle")
        /\ UNCHANGED <<bundle, build>>
  /\ UNCHANGED <<repo, bind, commits, staged, archive, cat, upload, order, bld, compile>>

\* one batch: the target moves with its row, while the row's commit is the head
Ingested ==
  /\ tick.pc = "ingested"
  /\ LET r == tick.rev
         took == commits[r].att = tick.att /\ commits[r].st = "ingesting" /\ bind.head = r
     IN  /\ bind' = IF took THEN [bind EXCEPT !.target = r] ELSE bind
         /\ commits' = IF took THEN [commits EXCEPT ![r].st = "building"] ELSE commits
         /\ tried' = [tried EXCEPT ![r].ingest = 0]
         /\ IF took THEN CleanThen({r}, "deliver") ELSE Goto("deliver")
  /\ UNCHANGED <<repo, staged, archive, bundle, build, cat, upload, order, bld, compile, left>>

(***************************************************************************)
(* Pull delivery.                                                          *)
(***************************************************************************)
\* the third delivery since the claim fails the row
Expired(r) == [commits[r] EXCEPT !.st = IF commits[r].att - commits[r].claimed >= MaxCompiles
                                    THEN "failed" ELSE "fetching"]

\* deliver: pull bindings only; no compile is past its lease
Deliver ==
  /\ tick.pc = "deliver"
  /\ Goto(IF bind.mode = "pull" THEN "claim" ELSE "heal")
  /\ UNCHANGED <<repo, bind, commits, staged, archive, bundle, build, cat, tried, upload, order, bld, compile, left>>

\* expireCompiles: a compile past the builder lease, which a builder at work
\* on it overruns only as a fault
ExpireCompile(r) ==
  /\ tick.pc = "deliver" /\ bind.mode = "pull" /\ commits[r].st = "compiling"
  /\ IF bld.job = [rev |-> r, att |-> commits[r].att] THEN Fault ELSE UNCHANGED left
  /\ commits' = [commits EXCEPT ![r] = Expired(r)]
  /\ compile' = Mirrored(commits')
  /\ CleanThen(IF commits'[r].st = "failed" THEN {r} ELSE {}, "claim")
  /\ UNCHANGED <<repo, bind, staged, archive, bundle, build, cat, tried, upload, order, bld>>

BuilderFree == \A r \in Revs : commits[r].st # "compiling"

\* mutant: a superseded row is not claimed again
ClaimOnce ==
  /\ tick.pc = "claim"
  /\ LET r == bind.head IN
     IF BuilderFree /\ RowIn(r, {"none", "fetching"})
     THEN /\ commits' = [commits EXCEPT ![r].st = "fetching"]
          /\ tick' = [tick EXCEPT !.pc = "fetch", !.rev = r, !.att = commits[r].att]
     ELSE Goto("heal") /\ UNCHANGED commits
  /\ UNCHANGED <<repo, bind, staged, archive, bundle, build, cat, tried, upload, order, bld, compile, left>>

\* claim: a head without a row, or with a superseded one
Claim ==
  /\ tick.pc = "claim"
  /\ LET r == bind.head IN
     IF ~BuilderFree \/ ~RowIn(r, {"none", "superseded", "fetching"})
     THEN Goto("heal") /\ UNCHANGED <<commits, tried>>
     ELSE IF commits[r].st = "fetching"
     THEN tick' = [tick EXCEPT !.pc = "fetch", !.rev = r, !.att = commits[r].att] /\ UNCHANGED <<commits, tried>>
     ELSE IF BindingActive /\ bind.mode = "pull"
     THEN /\ commits' = [commits EXCEPT ![r].st = "fetching", ![r].claimed = commits[r].att]
          /\ tried' = [tried EXCEPT ![r].fetch = 0]
          /\ tick' = [tick EXCEPT !.pc = "fetch", !.rev = r, !.att = commits[r].att]
     ELSE Goto("heal") /\ UNCHANGED <<commits, tried>>
  /\ UNCHANGED <<repo, bind, staged, archive, bundle, build, cat, upload, order, bld, compile, left>>

\* fetchSource: stored, GitHub not answering (not counted), or no such archive
Fetch ==
  /\ tick.pc = "fetch"
  /\ LET r == tick.rev IN
     IF r \in archive THEN Stay("assign") /\ UNCHANGED <<commits, archive, tried, left>>
     ELSE IF tried[r].fetch >= MaxTries
     THEN /\ commits' = Settled(r, tick.att, "fetching", "failed") /\ CleanThen({r}, "heal")
          /\ tried' = [tried EXCEPT ![r].fetch = 0]
          /\ UNCHANGED <<archive, left>>
     ELSE \/ /\ archive' = archive \cup {r} /\ Stay("assign")
             /\ tried' = [tried EXCEPT ![r].fetch = 0] /\ UNCHANGED <<commits, left>>
          \/ Fault /\ Goto("heal") /\ UNCHANGED <<commits, archive, tried>>
          \* the pass dies in the download: the try counts
          \/ Fault /\ tick' = NoTick /\ tried' = [tried EXCEPT ![r].fetch = @ + 1] /\ UNCHANGED <<commits, archive>>
          \/ /\ Fault /\ commits' = Settled(r, tick.att, "fetching", "invalid")
             /\ CleanThen({r}, "heal") /\ UNCHANGED <<archive, tried>>
  /\ UNCHANGED <<repo, bind, staged, bundle, build, cat, upload, order, bld, compile>>

\* one statement: still the fetching head, and the builder has no compile in flight
Assign ==
  /\ tick.pc = "assign"
  /\ LET r == tick.rev
         took == /\ commits[r].st = "fetching" /\ commits[r].att = tick.att
                 /\ BindingActive /\ bind.mode = "pull" /\ bind.head = r /\ BuilderFree
     IN  /\ commits' = IF took THEN [commits EXCEPT ![r].st = "compiling", ![r].att = @ + 1, ![r].host = TRUE]
                   ELSE commits
         /\ compile' = IF took THEN Mirrored(commits') ELSE compile
         /\ tried' = IF took THEN [tried EXCEPT ![r] = NoTries] ELSE tried
  /\ Goto("heal")
  /\ UNCHANGED <<repo, bind, staged, archive, bundle, build, cat, upload, order, bld, left>>

(***************************************************************************)
(* Healing and promoting the target.                                       *)
(***************************************************************************)
\* failOrHeal
Heal ==
  /\ tick.pc = "heal"
  /\ LET r == bind.target IN
     IF ~RowIn(r, {"building", "waiting"}) \/ r \notin bundle
     THEN tick' = NoTick /\ UNCHANGED <<commits, tried>>
     ELSE IF build[r] = "bad"
     THEN commits' = [commits EXCEPT ![r].st = "failed"] /\ tick' = NoTick /\ UNCHANGED tried
     ELSE IF build[r] = "stale"
     THEN /\ tried' = [tried EXCEPT ![r].heal = IF @ >= MaxTries THEN 0 ELSE @ + 1]
          /\ IF tried[r].heal >= MaxTries
             THEN commits' = [commits EXCEPT ![r].st = "failed"] /\ tick' = NoTick
             ELSE UNCHANGED commits /\ tick' = [tick EXCEPT !.pc = "write", !.next = "healed", !.rev = r,
                                                        !.att = commits[r].att]
     ELSE /\ UNCHANGED <<commits, tried>>
          /\ tick' = IF build[r] = "good" /\ ~tick.promoted
                     THEN [tick EXCEPT !.pc = "promote", !.rev = r, !.att = commits[r].att, !.st = commits[r].st]
                     ELSE NoTick
  /\ UNCHANGED <<repo, bind, staged, archive, bundle, build, cat, upload, order, bld, compile, left>>

Healed ==
  /\ tick.pc = "healed"
  /\ tried' = [tried EXCEPT ![tick.rev].heal = 0]
  /\ tick' = NoTick
  /\ UNCHANGED <<repo, bind, commits, staged, archive, bundle, build, cat, upload, order, bld, compile, left>>

\* promoteTarget: held by the unit guard, else promoting while it may apply
Promote ==
  /\ tick.pc = "promote"
  /\ LET r == tick.rev
         same == commits[r].att = tick.att /\ commits[r].st = tick.st
         may == same /\ BindingActive /\ bind.target = r /\ bind.head = r
     IN  \/ /\ commits' = IF may THEN [commits EXCEPT ![r].st = "promoting"] ELSE commits
            /\ tick' = IF may THEN [tick EXCEPT !.pc = "core", !.next = "idle"] ELSE NoTick
            /\ UNCHANGED left
         \/ Fault /\ commits' = Settled(r, tick.att, tick.st, "waiting") /\ tick' = NoTick
  /\ UNCHANGED <<repo, bind, staged, archive, bundle, build, cat, tried, upload, order, bld, compile>>

\* the core commits the live rows, or refuses: an image is in use, a build is incomplete
Core ==
  /\ tick.pc = "core"
  /\ LET r == tick.rev IN
     \/ /\ build[r] = "good" \/ cat = r
        /\ cat' = r /\ Stay("golive") /\ UNCHANGED <<commits, left>>
     \/ /\ cat # r
        /\ IF build[r] = "good" THEN Fault ELSE UNCHANGED left
        /\ commits' = Settled(r, tick.att, "promoting", IF build[r] = "good" THEN "waiting" ELSE "building")
        /\ Goto(tick.next) /\ UNCHANGED cat
     \* a refused writer keeps the row for a later alarm
     \/ Fault /\ tick' = NoTick /\ UNCHANGED <<commits, cat>>
  /\ UNCHANGED <<repo, bind, staged, archive, bundle, build, tried, upload, order, bld, compile>>

\* mutant: the previous live row keeps its state
GoLiveKeepingOld ==
  /\ tick.pc = "golive"
  /\ LET r == tick.rev
         took == commits[r].att = tick.att /\ commits[r].st = "promoting"
     IN  /\ bind' = IF took THEN [bind EXCEPT !.live = r] ELSE bind
         /\ commits' = IF took THEN [commits EXCEPT ![r].st = "live"] ELSE commits
  /\ Goto(tick.next)
  /\ UNCHANGED <<repo, staged, archive, bundle, build, cat, tried, upload, order, bld, compile, left>>

\* the course catalog, then one batch: live commit, previous live row, this row
GoLive ==
  /\ tick.pc = "golive"
  /\ LET r == tick.rev
         took == commits[r].att = tick.att /\ commits[r].st = "promoting"
     IN  /\ bind' = IF took THEN [bind EXCEPT !.live = r] ELSE bind
         /\ commits' = [x \in Revs |-> IF took /\ x = r THEN [commits[x] EXCEPT !.st = "live"]
                                   ELSE IF took /\ commits[x].st = "live"
                                   THEN [commits[x] EXCEPT !.st = "superseded"] ELSE commits[x]]
  /\ Goto(tick.next)
  /\ UNCHANGED <<repo, staged, archive, bundle, build, cat, tried, upload, order, bld, compile, left>>

\* an eviction or a throw ends the pass where it is
PassDies ==
  /\ tick.pc \notin {"idle"} /\ Fault
  /\ tick' = NoTick
  /\ order' = IF tick.pc \in {"observe", "observed"} THEN "none" ELSE order
  /\ UNCHANGED <<repo, bind, commits, staged, archive, bundle, build, cat, tried, upload, bld, compile>>

TickStep ==
  \/ ObserveHead \/ WriteHead \/ DropInactive \/ Clean \/ Finish \/ Supersede \/ ReadActive
  \/ Ingest \/ ReadStaged \/ Write \/ Ingested \/ Deliver \/ (\E r \in Revs : ExpireCompile(r)) \/ Claim \/ Fetch \/ Assign
  \/ Heal \/ Healed \/ Promote \/ Core \/ GoLive
BuilderStep == CompileBegin \/ CompileEnds \/ PostResult \/ ClaimResult

SourceNext ==
  \/ \E r \in Revs : Push(r) \/ Rerun(r) \/ BuildMoves(r)
  \/ ChangeSource \/ PurgeMark \/ PurgeDelete
  \/ UploadBegin \/ UploadStage \/ UploadClaim
  \/ BuilderStep \/ RefuseOutdated \/ BuilderCrash \/ HostReport
  \/ Alarm \/ TickStep \/ PassDies

SourceSpec == SourceInit /\ [][SourceNext]_sourceVars

\* alarms and the cron, the builder, its reports and the image builds go on; time
\* passes, so that a compile nobody ends is past its lease in some pass
SourceFairness ==
  /\ WF_sourceVars(TickStep) /\ WF_sourceVars(Alarm) /\ WF_sourceVars(BuilderStep) /\ WF_sourceVars(HostReport)
  /\ WF_sourceVars(UploadStage) /\ WF_sourceVars(UploadClaim)
  /\ \A r \in Revs : WF_sourceVars(BuildMoves(r)) /\ SF_sourceVars(ExpireCompile(r))

SourceFairSpec == SourceSpec /\ SourceFairness

(***************************************************************************)
(* Properties.                                                             *)
(***************************************************************************)
RowStates == {"none", "fetching", "compiling", "ingesting", "building", "waiting", "promoting",
              "live", "failed", "invalid", "superseded"}

Jobs == [rev : Revs \cup {NoRev}, att : Nat]

\* the steps of a pass that work on the row in rev
Working == {"read", "write", "ingested", "fetch", "assign", "healed", "promote", "core", "golive"}
TickSteps == Working \cup {"idle", "observe", "observed", "drop", "clean", "finish", "supersede",
                           "active", "ingest", "deliver", "claim", "heal"}

\* Every variable holds values of its shape: a pass, an upload or a compile under way has the
\* commit it is about, and a try that was not counted after all never makes a counter negative.
SourceTypes ==
  /\ repo \in Revs /\ cat \in Revs \cup {NoRev}
  /\ bind \in [mode : {"pull", "push"}, paused : {"no", "admin", "suspended", "binder"},
               disc : {"no", "admin", "gone", "purging", "none"}, head : Revs \cup {NoRev},
               target : Revs \cup {NoRev}, live : Revs \cup {NoRev}]
  /\ commits \in [Revs -> [st : RowStates, att : Nat, claimed : Nat, host : BOOLEAN]]
  /\ \A r \in Revs : commits[r].claimed <= commits[r].att
  /\ staged \subseteq Revs /\ archive \subseteq Revs /\ bundle \subseteq Revs
  /\ build \in [Revs -> {"none", "queued", "running", "good", "bad", "stale"}]
  /\ tried \in [Revs -> [fetch : 0..MaxTries, ingest : 0..MaxTries, heal : 0..MaxTries]]
  /\ tick \in [pc : TickSteps, next : TickSteps, rev : Revs \cup {NoRev}, att : Nat, st : RowStates,
               head : Revs \cup {NoRev}, late : BOOLEAN, drop : SUBSET Revs, promoted : BOOLEAN]
  /\ tick.pc \in Working => tick.rev \in Revs
  /\ tick.pc = "write" => tick.next \in {"ingested", "healed"}
  /\ tick.pc \in {"clean", "core", "golive"} => tick.next \notin Working
  /\ upload \in [pc : {"idle", "read", "staged"}, rev : Revs \cup {NoRev}, late : BOOLEAN]
  /\ upload.pc # "idle" => upload.rev \in Revs
  /\ order \in {"none", "do", "up"}
  /\ bld \in [pc : {"idle", "child", "post", "claim"}, job : Jobs, res : {"none", "ok", "bad"}, done : Jobs]
  /\ bld.pc # "idle" => bld.job.rev \in Revs
  /\ compile \in Jobs
  /\ left \in [moves : Nat, uploads : Nat, changes : Nat, faults : Nat]

\* A commit that keeps running into the compile lease or into an outdated compiler is
\* compiled at most MAX_COMPILE_ATTEMPTS times for one claim of its row, however expiries,
\* refused results and builder restarts interleave.
CompileBounded ==
  \A r \in Revs : commits[r].st \in {"fetching", "compiling"} => commits[r].att - commits[r].claimed <= MaxCompiles

\* The live row is the live commit and there is one: promotions of two commits, one of them
\* finished by a later pass, never leave two rows live or a live row the binding forgot.
OneLiveRow ==
  \A r \in Revs : commits[r].st = "live" => bind.live = r

\* A commit is compiled a bounded number of times for one claim, and one commit row at most is
\* live, the one the binding names: through head moves, re-runs, uploads, expiries, refused
\* results and purges.
SourceSound == SourceTypes /\ CompileBounded /\ OneLiveRow

\* A result of a compile that was superseded, expired or assigned anew changes nothing: a row
\* reaches ingest from a builder only for the delivery it still waits for.
ResultIsCurrentStep ==
  \A r \in Revs :
     bld.pc = "claim" /\ bld'.pc = "idle" /\ commits'[r].st = "ingesting" /\ commits[r].st # "ingesting"
       => commits[r].st = "compiling" /\ bld.job = [rev |-> r, att |-> commits[r].att] /\ BindingActive
ResultIsCurrent == [][ResultIsCurrentStep]_sourceVars

\* The target is a commit that was the head when its bundle was ingested; an ingest that the
\* head overtook never makes an older commit the target.
TargetWasHeadStep ==
  bind'.target # bind.target /\ tick.pc = "ingested" /\ tick'.pc # "ingested"
    => bind'.target = bind.head
TargetWasHead == [][TargetWasHeadStep]_sourceVars

\* A committed promotion is recorded: the live catalog and the binding's live commit agree
\* again after every crash, pause or disconnect, for as long as the scope exists.
LiveFollowsCatalog == (cat # bind.live /\ cat # NoRev) ~> (cat = bind.live \/ cat = NoRev)

\* In pull mode the head of an active binding ends live, failed or invalid: no loss, restart,
\* expiry or change of the binding leaves it undelivered.
HeadSettles ==
  <>[](BindingActive /\ bind.mode = "pull")
    => <>[](commits[repo].st \in {"live", "failed", "invalid"})

\* A purge is final: once nothing of the scope is left, no bundle, build or live row of it
\* appears before the scope is connected again.
PurgedStaysGone ==
  bind.disc = "none" => bundle = {} /\ cat = NoRev /\ \A r \in Revs : build[r] = "none"
=============================================================================
