------------------------------ MODULE LiveSuite -------------------------------
(***************************************************************************)
(* Small instances of the components of the control plane, the host and    *)
(* the gateway, with the fairness their code justifies, for liveness. A    *)
(* behaviour is one instance, chosen at the start: `on` names it, the      *)
(* other components stay in their initial states.                          *)
(***************************************************************************)
EXTENDS Naturals, FiniteSets, TLC, SequencesExt

CONSTANTS NoValue

VARIABLES
  on,    \* the instance that runs
  gate, stalled, running, sess, holds, bucket, live, rollback, up, start, sw,
  promotionGate, aged, op, rows, src, row, do, runs, ready, tick, adm, left,
  job, uploader, req, status, cursor, mp, obj, sealed, rank, timeline, purge,
  budget,
  mem, agentRow, jail, net, spool, task, resumed, clean, mode, inline, lock,
  delReq, recon, agentJob, saved, desired, served, owed, creates, errors,
  restarts,
  jailUp, jailReady, records, pending, inflight, unresolved, allocated, nets,
  attached, pc, check, of, uid, gens, dir, reserved, unit, drifted, netns,
  ingress, released, fails, crashes,
  route, gateLock, registry, waiters, sock, conn, issues, admin,
  clock, cred, cur, last, credOf, allowed, disp, relayNet, grant, cancelled,
  auths, revoked, revokedCred, relayConn, hosts, streams, agent, gone, faults,
  content, unused, verified, toolsRec, wanted, cacheRows, launch, wake, pass,
  templates, cacheAged, cacheFaults, changes, hours,
  cliRow, vm, cliPending, cli, cliReq, lane, cache, fill, shownHints,
  answered, early,
  probeHolds, flips, executions, queue, leftovers, store, manual, probeCheck,
  pushVm, ver, push, tasks, waiter, db, bus, shownChecks, sync, drops

registryVars == <<gate, stalled, running, sess, holds, bucket, live, rollback,
    up, start, sw>>
promotionVars == <<promotionGate, aged, op, rows, src, row, do, runs, ready,
    tick, adm, left>>
archiveVars == <<job, uploader, req, status, cursor, mp, obj, sealed, rank,
    timeline, purge, budget>>
agentVars == <<mem, agentRow, jail, net, spool, task, resumed, clean, mode,
    inline, lock, delReq, recon, agentJob, saved, desired, served, owed,
    creates, errors, restarts>>
jailVars == <<jailUp, jailReady, records, pending, inflight, unresolved,
    allocated, nets, attached, pc, check, of, uid, gens, dir, reserved, unit,
    drifted, netns, ingress, released, fails, crashes>>
gateVars == <<route, gateLock, registry, waiters, sock, conn, issues, admin>>
relayVars == <<clock, cred, cur, last, credOf, allowed, disp, relayNet, grant,
    cancelled, auths, revoked, revokedCred, relayConn, hosts, streams, agent,
    gone, faults>>
cacheVars == <<content, unused, verified, toolsRec, wanted, cacheRows, launch,
    wake, pass, templates, cacheAged, cacheFaults, changes, hours>>
cliVars == <<cliRow, vm, cliPending, cli, cliReq, lane, cache, fill,
    shownHints, answered, early>>
probeVars == <<probeHolds, flips, executions, queue, leftovers, store, manual,
    probeCheck>>
pushVars == <<pushVm, ver, push, tasks, waiter, db, bus, shownChecks, sync,
    drops>>

-----------------------------------------------------------------------------
Sweep == INSTANCE Registry WITH
  Manifests <- {"m1", "m2"}, Chunks <- {"c1", "c2"},
  ChunksOf <- ("m1" :> {"c1"}) @@ ("m2" :> {"c1", "c2"}),
  Uploaders <- {"u1", "u2"}, ImageOf <- ("u1" :> "m2") @@ ("u2" :> "m2"),
  Starts <- {}, Sweepers <- {"s1"}, Sessions <- {"k1", "k2"}, BatchSize <- 1,
  MaxBatches <- 1, Restarts <- 0, InitLive <- "m1",
  InitBucket <- {"m1", "m2", "c1", "c2"}, Events <- {"lapse"}, None <- NoValue

ASSUME Sweep!RegistryConstants

Promoting == INSTANCE Promotion WITH
  Revs <- {"r1", "r2"}, ImgOf <- ("r1" :> "old") @@ ("r2" :> "new"),
  First <- "r1", Runs <- {"x1"}, Ticks <- {"t1"}, MaxAttempts <- 2,
  MaxHeads <- 1, MaxStarts <- 1, MaxAdmin <- 1, MaxFaults <- 1,
  None <- NoValue, gate <- promotionGate

ASSUME Promoting!PromotionConstants

Archiving == INSTANCE ArchiveUpload WITH
  Raw <- {"raw"}, Cast <- {"cast"}, Parts <- ("raw" :> 2) @@ ("cast" :> 1),
  Replay <- TRUE, Late <- FALSE, Acks <- {TRUE}, Purges <- TRUE,
  MaxFaults <- 2, MaxRenderFails <- 0

ASSUME Archiving!ArchiveConstants

Vm == INSTANCE AgentVm WITH
  ManagedVms <- {"v1"}, ManagedRuns <- {"r1"}, RunOfVm <- "v1" :> "r1",
  MaxErrors <- 1, MaxRestarts <- 1, MaxCreate <- 1, row <- agentRow,
  job <- agentJob

ASSUME Vm!AgentVmConstants

Jail == INSTANCE Jailerd WITH
  VMs <- {"v1"}, Runs <- {"r1"}, RunOf <- "v1" :> "r1", Quota <- "v1" :> 1,
  Cap <- 1, Uids <- {1, 2}, MaxGen <- 2, MaxFail <- 1, MaxCrash <- 1,
  up <- jailUp, ready <- jailReady

ASSUME Jail!JailerdConstants

Waiting == INSTANCE Stargate WITH
  Gens <- {"g1"}, Metas <- {"m1"}, Targets <- {"t1"}, Sockets <- {"s1", "s2"},
  Conns <- {}, MaxIssues <- 2, MaxAdmin <- 2, None <- NoValue,
  lock <- gateLock

ASSUME Waiting!StargateConstants

Relay == INSTANCE HostRelay WITH
  RelayTargets <- {"v1"}, Lease <- 2, Skew <- 0, MaxSessions <- 3,
  MaxAuths <- 3, MaxTime <- 0, MaxFaults <- 1, net <- relayNet

ASSUME Relay!RelayConstants

Cache == INSTANCE ImageCache WITH
  Images <- {"i1"}, Chunks <- {"c1"}, Vms <- {"v1"},
  ChunksOf <- "i1" :> {"c1"}, ImageOf <- "v1" :> "i1", MaxFiles <- 9,
  MaxTemplates <- 9, Rounds <- 2, BatchLimit <- 2, MaxFaults <- 0,
  MaxChanges <- 1, MaxHours <- 0, rows <- cacheRows, aged <- cacheAged,
  faults <- cacheFaults

ASSUME Cache!ImageCacheConstants

Command == INSTANCE RunCli WITH
  Procs <- {"p1"}, Aliases <- {"a"}, MaxHints <- 1, MaxGen <- 1, Slots <- {1},
  Losses <- TRUE, LateErrors <- TRUE, Solutions <- FALSE, row <- cliRow,
  pending <- cliPending

ASSUME Command!RunCliConstants

Probing == INSTANCE GuestProbes WITH
  Probes <- {"p1"}, Detached <- {"p1"}, Checks <- {"c1"}, Permits <- 1,
  MaxFlips <- 1, holds <- probeHolds, check <- probeCheck

ASSUME Probing!GuestProbesConstants

Pushing == INSTANCE ProbePush WITH
  MaxVer <- 2, MaxBoots <- 1, MaxDrops <- 1, MaxChan <- 1, Lag <- 1

ASSUME Pushing!ProbePushConstants

SuiteInit ==
  /\ on \in {"sweep", "promotion", "archive", "vm", "jail", "route", "relay",
             "cache", "command", "probes", "push"}
  /\ Sweep!Init
  /\ Promoting!Init
  /\ Archiving!ArchiveInit
  /\ Vm!ManagerInit
  /\ Jail!Init
  /\ Waiting!Init
  /\ Relay!RelayInit
  /\ Cache!CacheInit
  /\ Command!CliInit
  /\ Probing!ProbeInit
  /\ Pushing!PushInit

SuiteNext ==
  \/ on = "sweep" /\ Sweep!Next
     /\ UNCHANGED <<on, promotionVars, archiveVars, agentVars, jailVars, gateVars,
        relayVars, cacheVars, cliVars, probeVars, pushVars>>
  \/ on = "promotion" /\ Promoting!Next
     /\ UNCHANGED <<on, registryVars, archiveVars, agentVars, jailVars, gateVars,
        relayVars, cacheVars, cliVars, probeVars, pushVars>>
  \/ on = "archive" /\ Archiving!ArchiveNext
     /\ UNCHANGED <<on, registryVars, promotionVars, agentVars, jailVars, gateVars,
        relayVars, cacheVars, cliVars, probeVars, pushVars>>
  \/ on = "vm" /\ Vm!ManagerNext
     /\ UNCHANGED <<on, registryVars, promotionVars, archiveVars, jailVars, gateVars,
        relayVars, cacheVars, cliVars, probeVars, pushVars>>
  \/ on = "jail" /\ Jail!Next
     /\ UNCHANGED <<on, registryVars, promotionVars, archiveVars, agentVars, gateVars,
        relayVars, cacheVars, cliVars, probeVars, pushVars>>
  \/ on = "route" /\ Waiting!Next
     /\ UNCHANGED <<on, registryVars, promotionVars, archiveVars, agentVars, jailVars,
        relayVars, cacheVars, cliVars, probeVars, pushVars>>
  \/ on = "relay" /\ Relay!RelayNext
     /\ UNCHANGED <<on, registryVars, promotionVars, archiveVars, agentVars, jailVars,
        gateVars, cacheVars, cliVars, probeVars, pushVars>>
  \/ on = "cache" /\ Cache!CacheNext
     /\ UNCHANGED <<on, registryVars, promotionVars, archiveVars, agentVars, jailVars,
        gateVars, relayVars, cliVars, probeVars, pushVars>>
  \/ on = "command" /\ Command!CliNext
     /\ UNCHANGED <<on, registryVars, promotionVars, archiveVars, agentVars, jailVars,
        gateVars, relayVars, cacheVars, probeVars, pushVars>>
  \/ on = "probes" /\ Probing!ProbeNext
     /\ UNCHANGED <<on, registryVars, promotionVars, archiveVars, agentVars, jailVars,
        gateVars, relayVars, cacheVars, cliVars, pushVars>>
  \/ on = "push" /\ Pushing!PushNext
     /\ UNCHANGED <<on, registryVars, promotionVars, archiveVars, agentVars, jailVars,
        gateVars, relayVars, cacheVars, cliVars, probeVars>>

suiteVars == <<on, registryVars, promotionVars, archiveVars, agentVars,
    jailVars, gateVars, relayVars, cacheVars, cliVars, probeVars, pushVars>>

(* Sweep!Fairness, while that instance runs. *)
SweepFair ==
  /\ \A u \in {"u1", "u2"} : WF_(Sweep!vars)(on = "sweep" /\ Sweep!UploaderStep(u))
  /\ \A s \in {"s1"} : WF_(Sweep!vars)(on = "sweep" /\ Sweep!SweepStep(s))

(* Promoting!Fairness, while that instance runs. *)
PromotingFair ==
  /\ \A t \in {"t1"} : WF_(Promoting!vars)(on = "promotion" /\ Promoting!TickStep(t))
  /\ WF_(Promoting!vars)(on = "promotion" /\ Promoting!DoStep)
  /\ WF_(Promoting!vars)(on = "promotion" /\ Promoting!AdminStep)
  /\ WF_(Promoting!vars)(on = "promotion" /\ Promoting!BoundPasses)

(* Archiving!ArchiveFairness, while that instance runs. *)
ArchivingFair ==
  /\ WF_(Archiving!archiveVars)(on = "archive" /\ Archiving!Agent)
  /\ WF_(Archiving!archiveVars)(on = "archive" /\ Archiving!Control)

(* Vm!ManagerFairness, while that instance runs. *)
VmFair ==
  /\ \A v \in {"v1"} :
      /\ SF_(Vm!managerVars)(on = "vm" /\ Vm!CreateStep(v))
      /\ SF_(Vm!managerVars)(on = "vm" /\ Vm!CleanStep(v))
      /\ WF_(Vm!managerVars)(on = "vm" /\ Vm!Reconcile(v))
      /\ WF_(Vm!managerVars)(on = "vm" /\ Vm!DeleteVm(v))
      /\ WF_(Vm!managerVars)(on = "vm" /\ Vm!UploadArchive(v))

(* Jail!Fairness, while that instance runs. *)
JailFair ==
  /\ \A g \in Jail!Gens : /\ WF_(Jail!vars)(on = "jail" /\ Jail!LaunchStep(g))
                          /\ WF_(Jail!vars)(on = "jail" /\ Jail!CheckStep(g))
                     /\ WF_(Jail!vars)(on = "jail" /\ Jail!RetryUnresolved(g))
  /\ WF_(Jail!vars)(on = "jail" /\ Jail!Restart)

(* Waiting!Fairness, while that instance runs. *)
WaitingFair ==
  /\ WF_(Waiting!vars)(on = "route" /\ Waiting!RevokeSessions)
  /\ WF_(Waiting!vars)(on = "route" /\ Waiting!NotifyWaiters)
  /\ \A s \in {"s1", "s2"} : WF_(Waiting!vars)(on = "route" /\ Waiting!SocketStep(s))

(* Relay!RelayFairness, while that instance runs. *)
RelayFair ==
  /\ WF_(Relay!relayVars)(on = "relay" /\ Relay!Control)
  /\ WF_(Relay!relayVars)(on = "relay" /\ Relay!AgentConnect)
  /\ WF_(Relay!relayVars)(on = "relay" /\ (\E r \in relayNet : Relay!HandleGrant(r)))
  /\ \A a \in Relay!Auths : /\ WF_(Relay!relayVars)(on = "relay" /\ Relay!Authenticated(a))
                            /\ WF_(Relay!relayVars)(on = "relay" /\ Relay!ConnectionClosed(a))
                      /\ WF_(Relay!relayVars)(on = "relay" /\ a \in cancelled /\ Relay!ConnectionEnds(a))

(* Cache!CacheFairness, while that instance runs. *)
CacheFair ==
  /\ WF_(Cache!cacheVars)(on = "cache" /\ Cache!PassStep)
  /\ WF_(Cache!cacheVars)(on = "cache" /\ Cache!PassStart("Scrub", TRUE))
  /\ WF_(Cache!cacheVars)(on = "cache" /\ Cache!PassStart("MissingOnly", TRUE))
  /\ \A v \in {"v1"} : WF_(Cache!cacheVars)(on = "cache" /\ Cache!LaunchSteps(v))

(* Command!CliFairness, while that instance runs. *)
CommandFair ==
  \A p \in {"p1"} : /\ WF_(Command!cliVars)(on = "command" /\ Command!Guest(p))
                    /\ WF_(Command!cliVars)(on = "command" /\ Command!TimeOut(p))

(* Probing!ProbeFairness, while that instance runs. *)
ProbingFair ==
  /\ \A p \in {"p1"} :
        /\ WF_(Probing!probeVars)(on = "probes" /\ Probing!ProbeTick(p))
        /\ WF_(Probing!probeVars)(on = "probes" /\ Probing!Begin(p))
        /\ WF_(Probing!probeVars)(on = "probes" /\ Probing!LeftoverExits(p))
        /\ WF_(Probing!probeVars)(on = "probes" /\ (\E r \in Probing!Of(p) : Probing!Sample(r)
                                      \/ Probing!Finish(r) \/ Probing!Expire(r)))
  /\ \A c \in {"c1"} :
        /\ WF_(Probing!probeVars)(on = "probes" /\ Probing!StartBatch(c))
        /\ WF_(Probing!probeVars)(on = "probes" /\ Probing!EndBatch(c))
        /\ WF_(Probing!probeVars)(on = "probes" /\ Probing!Complete(c))
        /\ WF_(Probing!probeVars)(on = "probes" /\ Probing!Reap(c))
        /\ WF_(Probing!probeVars)(on = "probes" /\ (Probing!LearnerLeaves(c)
                                      \/ \E p \in {"p1"} : Probing!Deliver(c, p)))

(* Pushing!PushFairness, while that instance runs. *)
PushingFair ==
  /\ WF_(Pushing!pushVars)(on = "push" /\ Pushing!PushConnect)
  /\ WF_(Pushing!pushVars)(on = "push" /\ Pushing!SendFrame)
  /\ WF_(Pushing!pushVars)(on = "push" /\ Pushing!PushWake)
  /\ \A k \in {"live", "old"} : WF_(Pushing!pushVars)(on = "push" /\ Pushing!ApplySnapshot(k))
  /\ WF_(Pushing!pushVars)(on = "push" /\ Pushing!CommitReady)
  /\ WF_(Pushing!pushVars)(on = "push" /\ Pushing!BridgeReport)

SuiteSpec ==
  /\ SuiteInit /\ [][SuiteNext]_suiteVars
  /\ SweepFair
  /\ PromotingFair
  /\ ArchivingFair
  /\ VmFair
  /\ JailFair
  /\ WaitingFair
  /\ RelayFair
  /\ CacheFair
  /\ CommandFair
  /\ ProbingFair
  /\ PushingFair

-----------------------------------------------------------------------------
(* A sweep lets go of the gate and an upload ends; an automatic hold of the*)
(* starts ends and the live release follows its rows; an archive job ends. *)
ControlSettles ==
  /\ on = "sweep" => Sweep!SweepLetsGo
  /\ on = "sweep" => Sweep!UploadEnds
  /\ on = "promotion" => Promoting!AutomaticHoldEnds
  /\ on = "promotion" => Promoting!LiveFollowsRows
  /\ on = "archive" => Archiving!ArchiveEnds


(* A socket that waits for its terminal is served or refused, a host ends  *)
(* with one usable relay session, and a command of the guest CLI ends.     *)
SessionsSettle ==
  /\ on = "route" => Waiting!WaitEnds
  /\ on = "relay" => Relay!HostSettles
  /\ on = "command" => Command!CommandEnds
=============================================================================
