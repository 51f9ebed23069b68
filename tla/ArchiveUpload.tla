---------------------------- MODULE ArchiveUpload ----------------------------
(***************************************************************************)
(* The archive of one VM (crates/intar-agent/src/vm/manager/archive.rs and *)
(* control-plane/agent-run-artifacts): the agent's durable job registers   *)
(* the raw files, uploads them in parts, reports milestones, renders the   *)
(* replay, uploads its casts, submits the timeline and seals the VM.       *)
(*                                                                         *)
(* A failed request fails the attempt and the whole job is tried again.  A *)
(* request the agent gave up on goes on at the control plane: with Late it *)
(* may still run beside the next attempt.  The multipart store (R2) is     *)
(* external; every D1 batch is one step, every call of the store another.  *)
(***************************************************************************)
EXTENDS Integers, Sequences, FiniteSets

CONSTANTS
  Raw, Cast,     \* artifacts of the two registrations
  Parts,         \* [artifacts -> number of parts], 0 for an empty file
  Replay,        \* the spool holds recordings that render
  Late,          \* a request may outlive the retry delay
  Acks,          \* what begin answers about progress: older deployments say FALSE
  Purges,        \* the owner may delete the finished run
  MaxFaults,     \* requests the agent gives up on, and agent restarts
  MaxRenderFails \* renders that fail

Artifacts == Raw \cup Cast

ArchiveConstants ==
  /\ Raw \cap Cast = {} /\ "job" \notin Artifacts /\ Parts \in [Artifacts -> Nat]
  /\ {Replay, Late, Purges} \subseteq BOOLEAN /\ Acks \subseteq BOOLEAN
  /\ MaxFaults \in Nat /\ MaxRenderFails \in Nat

VARIABLES
  job,     \* the agent's job: its place, the progress it was granted, its order guard
  uploader, \* [Artifacts -> place of the artifact's uploader]
  req,     \* requests being handled at the control plane
  status,  \* [Artifacts -> row of the artifact ledgers]
  cursor,  \* [Artifacts -> upload row: the multipart upload and the parts recorded]
  mp,      \* [Artifacts -> multipart uploads of the store]
  obj,     \* [Artifacts -> stored object: its parts, or NoObject]
  sealed, rank, timeline,
  purge,   \* the deletion of the run
  budget   \* faults that may still happen

archiveVars == <<job, uploader, req, status, cursor, mp, obj, sealed, rank, timeline, purge, budget>>
agent == <<job, uploader>>
ledger == <<status, cursor>>
store == <<mp, obj>>
vm == <<sealed, rank, timeline>>

NoObject == -1
NoCursor == [u |-> 0, n |-> 0]
Gone == purge = "done"

ArchiveInit ==
  /\ job = [pc |-> "due", prog |-> FALSE, rprog |-> FALSE, ord |-> "none"]
  /\ uploader = [a \in Artifacts |-> "idle"] /\ req = {}
  /\ status = [a \in Artifacts |-> "none"] /\ cursor = [a \in Artifacts |-> NoCursor]
  /\ mp = [a \in Artifacts |-> <<>>] /\ obj = [a \in Artifacts |-> NoObject]
  /\ sealed = FALSE /\ rank = 0 /\ timeline = FALSE /\ purge = "idle"
  /\ budget = [faults |-> MaxFaults, renders |-> MaxRenderFails]

(***************************************************************************)
(* ArchiveRemoteOrder: the agent's own guard of the order of the protocol. *)
(***************************************************************************)
Observe(o, e) ==
  CASE o = "none" -> "none"
    [] <<o, e>> = <<"raw", "raw_upload">> -> "raw_stage"
    [] <<o, e>> = <<"raw_stage", "raw_stage">> -> "cast_or_stage"
    [] <<o, e>> = <<"cast_or_stage", "cast_begin">> -> "cast"
    [] <<o, e>> = <<"cast", "cast_upload">> -> "timeline"
    [] <<o, e>> = <<"timeline", "timeline">> -> "stage_or_complete"
    [] o \in {"cast_or_stage", "stage_or_complete"} /\ e = "replay_stage" -> "complete"
    [] o \in {"stage_or_complete", "complete"} /\ e = "complete" -> "done"
    [] OTHER -> "bad"

(***************************************************************************)
(* The agent.                                                              *)
(***************************************************************************)
\* the requests of the job itself, and of an artifact's uploader
JobRequests == {"begin", "raw_stage", "cast_begin", "timeline", "replay_stage", "complete"}
Request(k, a, p) ==
  [k |-> k, a |-> a, p |-> p, pc |-> "new", u |-> 0, n |-> 0, live |-> TRUE, t |-> budget.faults]
Live == {r \in req : r.live}
Abandoned == {[r EXCEPT !.live = FALSE] : r \in req}

Attempt ==
  /\ job.pc = "due" /\ (Late \/ req = {})
  /\ job' = [job EXCEPT !.pc = "begin", !.prog = FALSE, !.rprog = FALSE, !.ord = "none"]
  /\ UNCHANGED <<uploader, req, ledger, store, vm, purge, budget>>

\* an answer moves the job on; the next request leaves with it
AfterBegin(ack) ==
  [job EXCEPT !.pc = "raw", !.prog = ack, !.ord = IF ack THEN "raw" ELSE "none"]
Observed(e, pc) == [job EXCEPT !.pc = pc, !.ord = Observe(job.ord, e)]

\* the attempt fails: the job is due again and everything in flight is abandoned
Fail == job' = [job EXCEPT !.pc = "due"] /\ uploader' = [a \in Artifacts |-> "idle"]

\* an answer to the job's own request
JobReply(r, answer) ==
  CASE answer = "purged" /\ r.k \in {"begin", "cast_begin"} ->
         job' = [job EXCEPT !.pc = "gone"] /\ UNCHANGED uploader
    [] answer = "ok" /\ r.k = "begin" ->
         /\ \E ack \in Acks : job' = AfterBegin(ack)
         /\ uploader' = [a \in Artifacts |-> IF a \in Raw THEN "mbegin" ELSE "idle"]
    [] answer = "ok" /\ r.k = "raw_stage" -> job' = Observed("raw_stage", "render") /\ UNCHANGED uploader
    [] answer = "ok" /\ r.k = "cast_begin" ->
         /\ \E ack \in Acks : job' = [Observed("cast_begin", "cast") EXCEPT !.rprog = job.prog /\ ack]
         /\ uploader' = [a \in Artifacts |-> IF a \in Cast THEN "mbegin" ELSE "idle"]
    [] r.k = "timeline" -> \* a failed submission only skips the replay
         /\ job' = Observed("timeline", IF job.rprog THEN "replay_stage" ELSE "complete")
         /\ UNCHANGED uploader
    [] answer = "ok" /\ r.k = "replay_stage" -> job' = Observed("replay_stage", "complete") /\ UNCHANGED uploader
    [] answer = "ok" /\ r.k = "complete" -> job' = Observed("complete", "gone") /\ UNCHANGED uploader
    [] OTHER -> Fail

\* an answer to an uploader: resume at the expected part, next part, complete, done
UploadReply(r, answer, next) ==
  IF answer # "ok" THEN Fail
  ELSE /\ UNCHANGED job
       /\ uploader' = [uploader EXCEPT ![r.a] =
            CASE r.k = "mbegin" -> IF next > Parts[r.a] THEN "acomplete" ELSE "part"
              [] r.k = "part" -> IF r.p = Parts[r.a] THEN "acomplete" ELSE "part"
              [] OTHER -> "done"]

\* the handler ends: its request goes, and the agent, if it still waits, moves
Reply(r, answer, next) ==
  LET rest == req \ {r} IN
  IF ~r.live THEN req' = rest /\ UNCHANGED agent
  ELSE /\ IF r.k \in JobRequests THEN JobReply(r, answer) ELSE UploadReply(r, answer, next)
       /\ req' = CASE job'.pc = "due" -> {[x EXCEPT !.live = FALSE] : x \in rest}
                   [] r.k \notin JobRequests /\ uploader'[r.a] = "part" ->
                        rest \cup {Request("part", r.a, IF r.k = "mbegin" THEN next ELSE r.p + 1)}
                   [] r.k \notin JobRequests /\ uploader'[r.a] = "acomplete" ->
                        rest \cup {Request("acomplete", r.a, 0)}
                   [] OTHER -> rest
Ok(r) == Reply(r, "ok", 1)
Err(r) == Reply(r, "err", 1)
Handler(r, pc) == req' = (req \ {r}) \cup {[r EXCEPT !.pc = pc]} /\ UNCHANGED agent

\* an idle uploader of the set starts; requests of the set overlap
StartUpload(a) ==
  /\ uploader[a] = "mbegin" /\ ~\E r \in Live : r.a = a /\ r.k = "mbegin"
  /\ req' = req \cup {Request("mbegin", a, 0)}
  /\ UNCHANGED <<agent, ledger, store, vm, purge, budget>>

\* the set is uploaded: the milestone, or straight to the replay
SetUploaded ==
  /\ \/ /\ job.pc = "raw" /\ \A a \in Raw : uploader[a] = "done"
        /\ job' = Observed("raw_upload", IF job.prog THEN "raw_stage" ELSE "render")
     \/ /\ job.pc = "cast" /\ \A a \in Cast : uploader[a] = "done"
        /\ job' = Observed("cast_upload", "timeline")
  /\ uploader' = [a \in Artifacts |-> "idle"]
  /\ UNCHANGED <<req, ledger, store, vm, purge, budget>>

\* await_replay_render: rendered and published, nothing to render, or failed
Render ==
  /\ job.pc = "render"
  /\ \/ Replay /\ job' = [job EXCEPT !.pc = "cast_begin"] /\ UNCHANGED budget
     \/ ~Replay /\ job' = [job EXCEPT !.pc = IF job.prog THEN "replay_stage" ELSE "complete"] /\ UNCHANGED budget
     \/ /\ Replay /\ budget.renders > 0 /\ budget' = [budget EXCEPT !.renders = @ - 1]
        /\ job' = [job EXCEPT !.pc = IF job.prog THEN "replay_stage" ELSE "complete"]
  /\ UNCHANGED <<uploader, req, ledger, store, vm, purge>>

\* the job sends the request of its place, once
SendJobRequest ==
  /\ job.pc \in JobRequests /\ Live = {}
  /\ req' = req \cup {Request(job.pc, "job", 0)}
  /\ UNCHANGED <<agent, ledger, store, vm, purge, budget>>

\* a timeout, a local failure or a restart: the requests go on without the agent
Abandon ==
  /\ job.pc \notin {"due", "gone"} /\ budget.faults > 0
  /\ budget' = [budget EXCEPT !.faults = @ - 1]
  /\ Fail /\ req' = Abandoned
  /\ UNCHANGED <<ledger, store, vm, purge>>

(***************************************************************************)
(* Handlers of the control plane.  A batch is refused once the VM is       *)
(* sealed or the run is gone, unless it allows a sealed VM.                *)
(***************************************************************************)
At(r, k, pc) == r.k = k /\ r.pc = pc
\* artifactWriteCondition
Writable == ~sealed /\ ~Gone
Declared(r) == IF r.k = "begin" THEN Raw ELSE Raw \cup Cast
Idle == UNCHANGED <<ledger, store, vm, purge, budget>>

\* what a sealed VM still answers: a manifest it holds whole
SameManifest(r) == \A a \in Declared(r) : status[a] = "uploaded"
\* INSERT ... ON CONFLICT DO NOTHING of every row of the manifest
Reserved(r) ==
  [a \in Artifacts |-> IF a \in Declared(r) /\ status[a] = "none" THEN "pending" ELSE status[a]]

\* handleBeginRunUpload: a purged run, a sealed VM, or the manifest
BeginRead(r) ==
  /\ r.k \in {"begin", "cast_begin"} /\ r.pc = "new"
  /\ IF Gone THEN Reply(r, "purged", 1)
     ELSE IF ~sealed THEN Handler(r, "ensure")
     ELSE IF SameManifest(r) THEN Ok(r) ELSE Err(r)
  /\ Idle

\* ensureArtifactStates: the whole manifest in one batch, merged by ordinal
EnsureArtifactStates(r) ==
  /\ r.pc = "ensure"
  /\ IF Writable
     THEN status' = Reserved(r) /\ Handler(r, "archiving")
     ELSE Err(r) /\ UNCHANGED status
  /\ UNCHANGED <<cursor, store, vm, purge, budget>>

\* transitionRunVmToArchiving: the first milestone comes with it
TransitionToArchiving(r) ==
  /\ r.pc = "archiving"
  /\ IF Writable THEN rank' = (IF rank < 1 THEN 1 ELSE rank) /\ Ok(r) ELSE UNCHANGED rank /\ Err(r)
  /\ UNCHANGED <<ledger, store, sealed, timeline, purge, budget>>

\* handleMultipartBegin
MultipartBegin(r) ==
  /\ At(r, "mbegin", "new")
  /\ IF Gone \/ status[r.a] = "none" THEN Err(r)
     ELSE IF status[r.a] = "uploaded" THEN Reply(r, "ok", Parts[r.a] + 1)
     ELSE IF sealed THEN Err(r)
     ELSE IF Parts[r.a] = 0 THEN Handler(r, "put")
     ELSE IF cursor[r.a].u # 0 THEN Reply(r, "ok", cursor[r.a].n + 1)
     ELSE Handler(r, "create")
  /\ Idle

CreateMultipart(r) ==
  /\ At(r, "mbegin", "create")
  /\ mp' = [mp EXCEPT ![r.a] = Append(@, [parts |-> {}, st |-> "open"])]
  /\ req' = (req \ {r}) \cup {[r EXCEPT !.pc = "init", !.u = Len(mp[r.a]) + 1]}
  /\ UNCHANGED <<agent, ledger, obj, vm, purge, budget>>

Aborted(r) == mp' = [mp EXCEPT ![r.a][r.u].st = IF @ = "open" THEN "aborted" ELSE @]

\* initializeArtifactUpload: an existing row is replaced
InitializeUpload(r) ==
  /\ At(r, "mbegin", "init")
  /\ IF Writable
     THEN cursor' = [cursor EXCEPT ![r.a] = [u |-> r.u, n |-> 0]] /\ Ok(r) /\ UNCHANGED mp
     ELSE Aborted(r) /\ Err(r) /\ UNCHANGED cursor
  /\ UNCHANGED <<status, obj, vm, purge, budget>>

\* handleMultipartPart: only the expected part
PartRead(r) ==
  /\ At(r, "part", "new")
  /\ IF ~Writable \/ status[r.a] = "none" \/ cursor[r.a].u = 0 \/ r.p # cursor[r.a].n + 1
     THEN Err(r)
     ELSE /\ req' = (req \ {r}) \cup {[r EXCEPT !.pc = "send", !.u = cursor[r.a].u, !.n = cursor[r.a].n]}
          /\ UNCHANGED agent
  /\ Idle

UploadPart(r) ==
  /\ At(r, "part", "send")
  /\ IF mp[r.a][r.u].st = "open"
     THEN mp' = [mp EXCEPT ![r.a][r.u].parts = @ \cup {r.p}] /\ Handler(r, "advance")
     ELSE UNCHANGED mp /\ Err(r)
  /\ UNCHANGED <<ledger, obj, vm, purge, budget>>

\* advanceArtifactUpload: the row gets the parts this request read and its own
AdvanceUpload(r) ==
  /\ At(r, "part", "advance")
  /\ IF Writable
     THEN /\ cursor' = IF cursor[r.a].u = 0 THEN cursor ELSE [cursor EXCEPT ![r.a].n = r.n + 1]
          /\ Ok(r) /\ UNCHANGED mp
     ELSE Aborted(r) /\ Err(r) /\ UNCHANGED cursor
  /\ UNCHANGED <<status, obj, vm, purge, budget>>

\* handleArtifactComplete
ArtifactComplete(r) ==
  /\ At(r, "acomplete", "new")
  /\ IF Gone \/ status[r.a] = "none" THEN Err(r)
     ELSE IF status[r.a] = "uploaded" THEN Ok(r)
     ELSE IF sealed THEN Err(r)
     ELSE IF Parts[r.a] = 0 THEN Handler(r, "put")
     ELSE IF cursor[r.a].u = 0 \/ cursor[r.a].n = 0 THEN Err(r)
     ELSE /\ req' = (req \ {r}) \cup {[r EXCEPT !.pc = "head", !.u = cursor[r.a].u, !.n = cursor[r.a].n]}
          /\ UNCHANGED agent
  /\ Idle

\* an empty file is put in one piece
PutEmpty(r) ==
  /\ r.pc = "put"
  /\ obj' = [obj EXCEPT ![r.a] = 0] /\ Handler(r, "mark")
  /\ UNCHANGED <<ledger, mp, vm, purge, budget>>

\* an object that is already there is recovered only if it is the whole file
HeadObject(r) ==
  /\ r.pc = "head"
  /\ IF obj[r.a] = NoObject THEN Handler(r, "assemble")
     ELSE IF obj[r.a] = Parts[r.a] THEN Handler(r, "mark") ELSE Err(r)
  /\ Idle

\* the store completes an open upload that holds every part it is given
CompleteMultipart(r) ==
  /\ r.pc = "assemble"
  /\ IF mp[r.a][r.u].st = "open" /\ 1..r.n \subseteq mp[r.a][r.u].parts
     THEN /\ mp' = [mp EXCEPT ![r.a][r.u].st = "done"] /\ obj' = [obj EXCEPT ![r.a] = r.n]
          /\ Handler(r, "check")
     ELSE UNCHANGED store /\ Err(r)
  /\ UNCHANGED <<ledger, vm, purge, budget>>

\* mutant: an object is taken for the file because it is there
CheckObjectExists(r) ==
  /\ r.pc = "check"
  /\ IF obj[r.a] # NoObject THEN Handler(r, "mark") ELSE Err(r)
  /\ Idle

CheckObject(r) ==
  /\ r.pc = "check"
  /\ IF obj[r.a] = Parts[r.a] THEN Handler(r, "mark") ELSE Err(r)
  /\ Idle

\* markArtifactUploaded
MarkUploaded(r) ==
  /\ r.pc = "mark"
  /\ IF Writable
     THEN /\ status' = [status EXCEPT ![r.a] = "uploaded"] /\ cursor' = [cursor EXCEPT ![r.a] = NoCursor]
          /\ Reply(r, "ok", Parts[r.a] + 1)
          /\ UNCHANGED mp
     ELSE Err(r) /\ UNCHANGED ledger /\ IF r.u = 0 THEN UNCHANGED mp ELSE Aborted(r)
  /\ UNCHANGED <<obj, vm, purge, budget>>

\* mutant: a stage report replaces the rank
ArchiveStageReplaces(r) ==
  /\ r.k \in {"raw_stage", "replay_stage"}
  /\ IF Gone THEN UNCHANGED rank /\ Err(r)
     ELSE rank' = (IF r.k = "raw_stage" THEN 2 ELSE 3) /\ Ok(r)
  /\ UNCHANGED <<ledger, store, sealed, timeline, purge, budget>>

\* advanceRunVmArchiveStage: a milestone only follows the one before it
ArchiveStage(r) ==
  /\ r.k \in {"raw_stage", "replay_stage"}
  /\ LET stage == IF r.k = "raw_stage" THEN 2 ELSE 3 IN
     IF Gone THEN UNCHANGED rank /\ Err(r)
     ELSE rank' = (IF rank = stage - 1 THEN stage ELSE rank) /\ Ok(r)
  /\ UNCHANGED <<ledger, store, sealed, timeline, purge, budget>>

\* handleRunTimeline: every cast is uploaded, then one batch
TimelineRead(r) ==
  /\ At(r, "timeline", "new")
  /\ IF Writable /\ \A a \in Cast : status[a] = "uploaded" THEN Handler(r, "publish") ELSE Err(r)
  /\ Idle

PublishTimeline(r) ==
  /\ r.pc = "publish"
  /\ IF Writable THEN timeline' = TRUE /\ Ok(r) ELSE UNCHANGED timeline /\ Err(r)
  /\ UNCHANGED <<ledger, store, sealed, rank, purge, budget>>

AllUploaded == \A a \in Artifacts : status[a] # "pending"

\* handleRunComplete
RunComplete(r) ==
  /\ At(r, "complete", "new")
  /\ IF ~Gone /\ (sealed \/ AllUploaded) THEN Handler(r, "seal") ELSE Err(r)
  /\ Idle

\* transitionRunVmToCompleted: the batch aborts while an artifact is pending
Seal(r) ==
  /\ r.pc = "seal"
  /\ IF ~Gone /\ AllUploaded
     THEN sealed' = TRUE /\ rank' = (IF rank \in 1..3 THEN 4 ELSE rank) /\ Ok(r)
     ELSE UNCHANGED <<sealed, rank>> /\ Err(r)
  /\ UNCHANGED <<ledger, store, timeline, purge, budget>>

\* deleteFinishedScenarioRun: the read, the objects and open uploads, then the rows
DeleteRun ==
  /\ \/ Purges /\ purge = "idle" /\ sealed /\ AllUploaded /\ purge' = "objects" /\ UNCHANGED <<ledger, store>>
     \/ /\ purge = "objects" /\ purge' = "rows" /\ UNCHANGED ledger
        /\ obj' = [a \in Artifacts |-> IF status[a] = "none" THEN obj[a] ELSE NoObject]
        /\ mp' = [a \in Artifacts |-> [u \in DOMAIN mp[a] |->
                    IF u = cursor[a].u /\ mp[a][u].st = "open" THEN [mp[a][u] EXCEPT !.st = "aborted"] ELSE mp[a][u]]]
     \/ /\ purge = "rows" /\ purge' = "done" /\ UNCHANGED store
        /\ status' = [a \in Artifacts |-> "none"] /\ cursor' = [a \in Artifacts |-> NoCursor]
  /\ UNCHANGED <<agent, req, vm, budget>>

Handle(r) ==
  \/ BeginRead(r) \/ EnsureArtifactStates(r) \/ TransitionToArchiving(r)
  \/ MultipartBegin(r) \/ CreateMultipart(r) \/ InitializeUpload(r)
  \/ PartRead(r) \/ UploadPart(r) \/ AdvanceUpload(r)
  \/ ArtifactComplete(r) \/ PutEmpty(r) \/ HeadObject(r) \/ CompleteMultipart(r) \/ CheckObject(r)
  \/ MarkUploaded(r) \/ ArchiveStage(r) \/ TimelineRead(r) \/ PublishTimeline(r)
  \/ RunComplete(r) \/ Seal(r)
Agent == Attempt \/ SetUploaded \/ Render \/ SendJobRequest \/ \E a \in Artifacts : StartUpload(a)
Control == \E r \in req : Handle(r)

ArchiveNext == Agent \/ Control \/ Abandon \/ DeleteRun

ArchiveSpec == ArchiveInit /\ [][ArchiveNext]_archiveVars

\* the worker comes back to due jobs and every request is handled to its end
ArchiveFairness == WF_archiveVars(Agent) /\ WF_archiveVars(Control)

FairArchiveSpec == ArchiveSpec /\ ArchiveFairness

(***************************************************************************)
(* Properties.                                                             *)
(***************************************************************************)
JobPlaces == JobRequests \cup {"due", "raw", "render", "cast", "gone"}
Orders == {"none", "raw", "raw_stage", "cast_or_stage", "cast", "timeline", "stage_or_complete",
           "complete", "done", "bad"}
UploaderRequests == {"mbegin", "part", "acomplete"}
HandlerPlaces == {"new", "ensure", "archiving", "create", "init", "put", "mark", "send", "advance",
                  "head", "assemble", "check", "publish", "seal"}
Requests ==
  [k : JobRequests \cup UploaderRequests, a : Artifacts \cup {"job"}, p : Nat, pc : HandlerPlaces,
   u : Nat, n : Nat, live : BOOLEAN, t : 0..MaxFaults]
StoredUploads == [parts : SUBSET Nat, st : {"open", "aborted", "done"}]

\* Every variable holds values of its shape; no upload row counts more parts than its file.
ArchiveTypes ==
  /\ job \in [pc : JobPlaces, prog : BOOLEAN, rprog : BOOLEAN, ord : Orders]
  /\ uploader \in [Artifacts -> UploaderRequests \cup {"idle", "done"}]
  /\ req \subseteq Requests
  /\ status \in [Artifacts -> {"none", "pending", "uploaded"}]
  /\ cursor \in [Artifacts -> [u : Nat, n : Nat]] /\ mp \in [Artifacts -> Seq(StoredUploads)]
  /\ obj \in [Artifacts -> Int]
  /\ \A a \in Artifacts : obj[a] \in -1..Parts[a] /\ cursor[a].n \in 0..Parts[a]
  /\ rank \in 0..4 /\ sealed \in BOOLEAN /\ timeline \in BOOLEAN
  /\ purge \in {"idle", "objects", "rows", "done"}
  /\ budget \in [faults : 0..MaxFaults, renders : 0..MaxRenderFails]

\* What the ledger calls uploaded is stored whole: no retry, resumed part list or late
\* completion marks a truncated object, and none replaces a marked object by a shorter one.
UploadedIsWhole ==
  purge = "idle" => \A a \in Artifacts : status[a] = "uploaded" => obj[a] = Parts[a]

\* A sealed VM misses nothing it registered: a registration that races the completion of an
\* earlier attempt is either uploaded or refused.
SealedIsComplete == sealed => AllUploaded

\* The learner sees every milestone in order: the rank never falls and the seal follows the
\* replay milestone, whatever stale reports arrive.
MilestonesInOrderStep == rank' # rank => rank' = rank + 1
MilestonesInOrder == [][MilestonesInOrderStep]_archiveVars

\* The agent's order guard never stops a legal attempt, with any mix of deployments.
OrderNeverBlocks == job.ord # "bad"

\* Retries, restarts, overlapping parts and the deletion of the run: what counts as uploaded is
\* whole, a sealed VM misses nothing, and the agent's guard accepts every answer.
ArchiveWhole == ArchiveTypes /\ UploadedIsWhole /\ SealedIsComplete /\ OrderNeverBlocks

\* The job ends: its spool is uploaded and released, or the run is gone.
ArchiveEnds == <>(job.pc = "gone")

\* A deleted run leaves nothing in the store.
DeletedStaysGone == Gone => \A a \in Artifacts : obj[a] = NoObject
=============================================================================
