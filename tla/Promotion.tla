------------------------------ MODULE Promotion ------------------------------
(***************************************************************************)
(* Intar's own image promotion (control-plane/image-promotion.ts): a       *)
(* public commit that replaces live images waits until the fleet is idle,  *)
(* new runs are held, the catalog is swapped, the registry is cleaned and  *)
(* runs reopen.                                                            *)
(*                                                                         *)
(* The attempt is one text in runtime_operation_gates; every transition is *)
(* a compare-and-set on it, and the hold is the phase of the stored        *)
(* attempt.  Cron ticks overlap; administrators start and release; the     *)
(* public scenario source's durable object applies catalogs and promotes   *)
(* commits that replace no image; run starts check the hold in the batch   *)
(* that inserts them and write their VM later.                             *)
(***************************************************************************)
EXTENDS Naturals, FiniteSets

CONSTANTS
  Revs,         \* public commits
  None,
  ImgOf,        \* [Revs -> the images a commit's scenarios boot]
  First,        \* the commit that is live at the start
  Runs,
  Ticks,        \* overlapping cron ticks
  MaxAttempts,  \* attempts of one behaviour
  MaxHeads,     \* head moves of the public repository
  MaxStarts,    \* run starts
  MaxAdmin,     \* administrators' starts and releases, operators' drains
  MaxFaults     \* dying ticks and passes, cleanups that do not finish, cold hosts

PromotionConstants ==
  /\ First \in Revs /\ None \notin Revs /\ DOMAIN ImgOf = Revs
  /\ {MaxAttempts, MaxHeads, MaxStarts, MaxAdmin, MaxFaults} \subseteq Nat

VARIABLES
  gate,   \* the stored attempt
  aged,   \* the bound of the attempt's phase, or its cooldown, has passed
  op,     \* the operators' drain
  rows,   \* the commit whose rows the live scenario catalog holds
  src,    \* the public binding: head, target, live and the applied course catalog
  row,    \* [Revs -> state of the public commit row]
  do,     \* the public durable object's pass
  runs,   \* [Runs -> a run: its stage and the images it boots]
  ready,  \* hosts hold the candidate's images
  tick,   \* [Ticks -> a cron tick]
  adm,    \* an administrator's release
  left    \* what may still happen

vars == <<gate, aged, op, rows, src, row, do, runs, ready, tick, adm, left>>
binding == <<src, row>>
world == <<op, runs, ready, left>>

NoAttempt == [id |-> 0, rev |-> None, origin |-> "auto", phase |-> "none", det |-> FALSE]
NoTick == [pc |-> "idle", g |-> NoAttempt, rev |-> None]

Init ==
  /\ gate = NoAttempt /\ aged = FALSE /\ op = FALSE /\ ready = TRUE
  /\ rows = First
  /\ src = [head |-> First, target |-> First, live |-> First, cat |-> First]
  /\ row = [r \in Revs |-> IF r = First THEN "live" ELSE "none"]
  /\ do = [pc |-> "idle", rev |-> None]
  /\ runs = [x \in Runs |-> [st |-> "none", img |-> ImgOf[First]]]
  /\ tick = [t \in Ticks |-> NoTick]
  /\ adm = NoTick
  /\ left = [ids |-> MaxAttempts, heads |-> MaxHeads, starts |-> MaxStarts, admin |-> MaxAdmin,
             faults |-> MaxFaults]

Spend(kind) == left[kind] > 0 /\ left' = [left EXCEPT ![kind] = @ - 1]
Fault == Spend("faults")

HOLDING == {"drained", "promoting", "cleaning", "verifying"}
ENDED == {"done", "failed", "cancelled", "released", "yielded"}
CommittedPhases == {"cleaning", "verifying"}

\* runsHeldCondition
Held == op \/ gate.phase \in HOLDING

(***************************************************************************)
(* Runs.                                                                   *)
(***************************************************************************)
\* the batch that inserts the execution carries the hold
StartRun(x) ==
  /\ runs[x].st = "none" /\ ~Held /\ Spend("starts")
  /\ runs' = [runs EXCEPT ![x] = [st |-> "inserted", img |-> ImgOf[rows]]]
  /\ UNCHANGED <<gate, aged, op, rows, binding, do, ready, tick, adm>>

\* the desired state is written, later the run ends, later its host reports the VM gone
RunMoves(x) ==
  /\ runs[x].st # "none"
  /\ runs' = [runs EXCEPT ![x].st = CASE @ = "inserted" -> "running"
                                    [] @ = "running" -> "ending"
                                    [] OTHER -> "none"]
  /\ UNCHANGED <<gate, aged, op, rows, binding, do, ready, tick, adm, left>>

RunningVms == {x \in Runs : runs[x].st = "running"}
\* outgoingImageUse and loadOutgoingReferenceBlockers
InUse(r) == ImgOf[r] # ImgOf[rows] /\ \E x \in Runs : runs[x].st # "none" /\ runs[x].img = ImgOf[rows]

(***************************************************************************)
(* The public binding, from the durable object's passes.                   *)
(***************************************************************************)
\* a commit is delivered, ingested and built (module ScenarioSource)
Delivered(h, rw) ==
  /\ src' = [src EXCEPT !.head = h,
                        !.target = IF rw[h] \in {"none", "superseded"} THEN h ELSE @]
  /\ row' = [r \in Revs |->
       IF r = h THEN (IF rw[r] \in {"none", "superseded"} THEN "ready" ELSE rw[r])
       ELSE IF rw[r] \in {"ready", "awaiting"} /\ r # src.live THEN "superseded" ELSE rw[r]]

PublicHead(r) ==
  /\ do.pc = "idle" /\ r # src.head /\ Spend("heads")
  /\ Delivered(r, row)
  /\ UNCHANGED <<gate, aged, op, rows, do, runs, ready, tick, adm>>

\* a head whose row was superseded is delivered again
Redeliver ==
  /\ do.pc = "idle" /\ row[src.head] = "superseded"
  /\ Delivered(src.head, row)
  /\ UNCHANGED <<gate, aged, rows, do, tick, adm, world>>

\* a head back at live_rev while another catalog is applied; a restore the head left
RetargetLiveRev ==
  /\ do.pc = "idle" /\ \A r \in Revs : row[r] # "promoting"
  /\ IF src.head = src.live
     THEN /\ src.live # src.cat /\ row[src.live] = "live"
          /\ src' = [src EXCEPT !.target = src.live]
          /\ row' = [row EXCEPT ![src.live] = "ready"]
     ELSE /\ row[src.live] = "ready"
          /\ row' = [row EXCEPT ![src.live] = "live"] /\ UNCHANGED src
  /\ UNCHANGED <<gate, aged, rows, do, tick, adm, world>>

MayApply(r) == src.target = r /\ src.head = r /\ ~Held
SetDo(pc, r) == do' = [pc |-> pc, rev |-> r]

\* promoteTarget: whether the commit replaces live images decides its route
PromoteTarget ==
  /\ do.pc = "idle" /\ row[src.target] = "ready" /\ ~Held
  /\ SetDo(IF ImgOf[src.target] # ImgOf[rows] THEN "open" ELSE "write", src.target)
  /\ UNCHANGED <<gate, aged, rows, binding, tick, adm, world>>

\* `promoting` is written only while the target may apply
WritePromoting ==
  /\ do.pc = "write"
  /\ IF row[do.rev] = "ready" /\ MayApply(do.rev)
     THEN row' = [row EXCEPT ![do.rev] = "promoting"] /\ SetDo("core", do.rev)
     ELSE UNCHANGED row /\ SetDo("idle", None)
  /\ UNCHANGED <<gate, aged, rows, src, tick, adm, world>>

\* the catalog applies here, the images wait for the promotion
ApplyCatalogFirst ==
  /\ \/ do.pc = "open" /\ UNCHANGED binding
        /\ IF MayApply(do.rev) THEN SetDo("sync", do.rev) ELSE SetDo("idle", None)
     \/ do.pc = "sync" /\ src' = [src EXCEPT !.cat = do.rev] /\ SetDo("enter", do.rev) /\ UNCHANGED row
     \/ /\ do.pc = "enter" /\ UNCHANGED src /\ SetDo("idle", None)
        /\ row' = IF row[do.rev] = "ready" THEN [row EXCEPT ![do.rev] = "awaiting"] ELSE row
  /\ UNCHANGED <<gate, aged, rows, tick, adm, world>>

\* a started promotion is finished first, whatever drains
FinishPromotion ==
  /\ do.pc = "idle"
  /\ \E r \in Revs : row[r] = "promoting" /\ SetDo("core", r)
  /\ UNCHANGED <<gate, aged, rows, binding, tick, adm, world>>

\* promote: the core without a fence, the course catalog, then one batch
Promote ==
  /\ \/ /\ do.pc = "core" /\ ~InUse(do.rev)
        /\ rows' = do.rev /\ SetDo("catalog", do.rev) /\ UNCHANGED binding
     \/ /\ do.pc = "core" /\ InUse(do.rev)
        /\ row' = IF row[do.rev] = "promoting" THEN [row EXCEPT ![do.rev] = "ready"] ELSE row
        /\ SetDo("idle", None) /\ UNCHANGED <<rows, src>>
     \/ /\ do.pc = "catalog" /\ src' = [src EXCEPT !.cat = do.rev]
        /\ SetDo("golive", do.rev) /\ UNCHANGED <<rows, row>>
     \/ /\ do.pc = "golive" /\ UNCHANGED rows /\ SetDo("idle", None)
        /\ IF row[do.rev] = "promoting"
           THEN /\ src' = [src EXCEPT !.live = do.rev]
                /\ row' = [r \in Revs |-> IF r = do.rev THEN "live"
                                          ELSE IF row[r] = "live" THEN "superseded" ELSE row[r]]
           ELSE UNCHANGED binding
  /\ UNCHANGED <<gate, aged, tick, adm, world>>

PassDies ==
  /\ do.pc # "idle" /\ Fault
  /\ SetDo("idle", None)
  /\ UNCHANGED <<gate, aged, op, rows, binding, runs, ready, tick, adm>>

\* recordPublicSourceLive: one transaction, whatever the rows say
RecordPublicSourceLive(r) ==
  /\ src' = [src EXCEPT !.live = r]
  /\ row' = [x \in Revs |-> IF x = r THEN "live" ELSE IF row[x] = "live" THEN "superseded" ELSE row[x]]

(***************************************************************************)
(* The attempt.                                                            *)
(***************************************************************************)
\* transition: compare-and-set on the text that was read
Cas(g, next) ==
  /\ gate' = IF gate = g THEN next ELSE gate
  /\ aged' = IF gate = g /\ (next.phase # g.phase \/ next.id # g.id)
                /\ ~(g.phase = "drained" /\ next.phase = "promoting")
             THEN FALSE ELSE aged

\* a new attempt has a fresh identity
NewAttempt(r, origin) ==
  [id |-> MaxAttempts + 1 - left.ids, rev |-> r, origin |-> origin, phase |-> "waiting", det |-> FALSE]
To(g, phase) == [g EXCEPT !.phase = phase, !.det = FALSE]

Pending == IF row[src.target] = "awaiting" THEN src.target ELSE None
\* publicSourceRevPromotable
Promotable(r) ==
  /\ r \in {src.cat, src.live}
  /\ \A x \in Revs \ {r} : row[x] # "promoting"
  /\ ~(row[r] = "superseded" /\ (src.target = src.live \/ src.head = src.live))

SetTick(t, pc, g) == tick' = [tick EXCEPT ![t] = [pc |-> pc, g |-> g, rev |-> None]]
Ends(t) == tick' = [tick EXCEPT ![t] = NoTick]
\* a transition that won goes on with the next pass, one that lost ends the tick
Moves(t, next) ==
  /\ Cas(tick[t].g, next)
  /\ IF gate = tick[t].g /\ next.phase \notin ENDED THEN SetTick(t, "step", next) ELSE Ends(t)
\* setDetail, and the tick ends
Waits(t) == Cas(tick[t].g, [tick[t].g EXCEPT !.det = TRUE]) /\ Ends(t)

\* readGate and startAutomatic's checks
TickBegin(t) ==
  /\ tick[t].pc = "idle"
  /\ IF gate.phase \in ENDED \cup {"none"}
     THEN /\ Pending # None
          /\ ~(gate.rev = Pending /\ (gate.phase \in {"cancelled", "released"}
                                      \/ (gate.phase = "failed" /\ ~aged)))
          /\ tick' = [tick EXCEPT ![t] = [pc |-> "start", g |-> gate, rev |-> Pending]]
     ELSE SetTick(t, "step", gate)
  /\ UNCHANGED <<gate, aged, rows, binding, do, adm, world>>

StartAutomatic(t) ==
  /\ tick[t].pc = "start" /\ Spend("ids")
  /\ Moves(t, NewAttempt(tick[t].rev, "auto"))
  /\ UNCHANGED <<op, rows, binding, do, runs, ready, adm>>

AtPhase(t, phases) == tick[t].pc = "step" /\ tick[t].g.phase \in phases
Automatic(t) == tick[t].g.origin = "auto"

\* the waiting attempt: yielded, failed, waiting for its reason, or ready for the hold
Waiting(t) ==
  LET g == tick[t].g IN
  /\ AtPhase(t, {"waiting"})
  /\ IF Automatic(t) /\ Pending # g.rev THEN Moves(t, To(g, "yielded"))
     ELSE IF ~Automatic(t) /\ aged THEN Moves(t, To(g, "failed"))
     ELSE IF ready /\ ~Promotable(g.rev) THEN Moves(t, To(g, "failed"))
     ELSE IF ~ready \/ (Automatic(t) /\ (InUse(g.rev) \/ op)) THEN Waits(t)
     ELSE SetTick(t, "hold", g) /\ UNCHANGED <<gate, aged>>
  /\ UNCHANGED <<rows, binding, do, adm, world>>

\* one statement: no operator drain and no running VM when the hold lands
TakeHold(t) ==
  LET g == tick[t].g IN
  /\ tick[t].pc = "hold"
  /\ IF Automatic(t) /\ (op \/ RunningVms # {}) THEN Waits(t) ELSE Moves(t, To(g, "drained"))
  /\ UNCHANGED <<rows, binding, do, adm, world>>

\* drained and promoting: yielded, out of time, refused, waiting, or the core
Drained(t) ==
  LET g == tick[t].g IN
  /\ AtPhase(t, {"drained", "promoting"})
  /\ IF Automatic(t) /\ op THEN Moves(t, To(g, "yielded"))
     ELSE IF aged THEN Moves(t, To(g, "failed"))
     ELSE IF ready /\ ~Promotable(g.rev) THEN Moves(t, To(g, "failed"))
     ELSE IF RunningVms # {} \/ ~ready \/ InUse(g.rev) THEN Waits(t)
     ELSE IF g.phase = "drained" THEN Moves(t, To(g, "promoting"))
     ELSE SetTick(t, "core", g) /\ UNCHANGED <<gate, aged>>
  /\ UNCHANGED <<rows, binding, do, adm, world>>

\* promoteDrainedRevision up to the batch: admission, image use and the last recheck
Core(t) ==
  LET g == tick[t].g IN
  /\ tick[t].pc = "core"
  /\ IF ~Promotable(g.rev) THEN Moves(t, To(g, "failed"))
     ELSE IF InUse(g.rev) THEN Waits(t)
     ELSE SetTick(t, IF rows = g.rev THEN "already" ELSE "commit", g) /\ UNCHANGED <<gate, aged>>
  /\ UNCHANGED <<rows, binding, do, adm, world>>

\* one batch: the record moves to cleaning with the catalog, or nothing is written
Commit(t) ==
  LET g == tick[t].g IN
  /\ tick[t].pc = "commit"
  /\ IF gate = g
     THEN Cas(g, To(g, "cleaning")) /\ rows' = g.rev /\ SetTick(t, "record", g)
     ELSE Ends(t) /\ UNCHANGED <<gate, aged, rows>>
  /\ UNCHANGED <<binding, do, adm, world>>

\* live_rev follows; a retry of a committed revision moves the record here
Record(t) ==
  LET g == tick[t].g IN
  /\ tick[t].pc \in {"record", "already"}
  /\ RecordPublicSourceLive(g.rev)
  /\ IF tick[t].pc = "already"
     THEN Moves(t, To(g, "cleaning"))
     ELSE /\ IF gate.phase \in ENDED THEN Ends(t) ELSE SetTick(t, "step", gate)
          /\ UNCHANGED <<gate, aged>>
  /\ UNCHANGED <<rows, do, adm, world>>

\* cleaning starts by recording the live commit again
CleaningRecords(t) ==
  /\ AtPhase(t, {"cleaning"})
  /\ RecordPublicSourceLive(tick[t].g.rev)
  /\ SetTick(t, "clean", tick[t].g)
  /\ UNCHANGED <<gate, aged, rows, do, adm, world>>

\* runRegistryCleanup; an automatic attempt leaves a pending cleanup behind
Cleaning(t) ==
  LET g == tick[t].g IN
  /\ tick[t].pc = "clean"
  /\ \/ Automatic(t) /\ aged /\ Moves(t, To(g, "done")) /\ UNCHANGED left
     \/ ~(Automatic(t) /\ aged) /\ Moves(t, To(g, "verifying")) /\ UNCHANGED left
     \/ ~(Automatic(t) /\ aged) /\ Fault /\ Waits(t)
  /\ UNCHANGED <<op, rows, binding, do, runs, ready, adm>>

\* the hosts report the new images; an automatic attempt does not wait for them for ever
Verifying(t) ==
  LET g == tick[t].g IN
  /\ AtPhase(t, {"verifying"})
  /\ IF ready \/ (Automatic(t) /\ aged) THEN Moves(t, To(g, "done")) ELSE Waits(t)
  /\ UNCHANGED <<rows, binding, do, adm, world>>

\* a tick dies or throws between two of its steps
TickDies(t) ==
  /\ tick[t].pc # "idle" /\ Fault
  /\ Ends(t)
  /\ UNCHANGED <<gate, aged, op, rows, binding, do, runs, ready, adm>>

(***************************************************************************)
(* Administrators, operators, time and hosts.                              *)
(***************************************************************************)
StartImagePromotion(r) ==
  /\ row[r] # "none" /\ Promotable(r) /\ gate.phase \notin HOLDING
  /\ left.ids > 0 /\ left.admin > 0
  /\ left' = [left EXCEPT !.ids = @ - 1, !.admin = @ - 1]
  /\ Cas(gate, NewAttempt(r, "admin"))
  /\ UNCHANGED <<op, rows, binding, do, runs, ready, tick, adm>>

\* releaseImagePromotion: read, record a committed revision, then the compare-and-set
ReleaseRead ==
  /\ adm.pc = "idle" /\ gate.phase \notin ENDED \cup {"none"} /\ Spend("admin")
  /\ adm' = [NoTick EXCEPT !.pc = IF gate.phase \in CommittedPhases THEN "record" ELSE "end", !.g = gate]
  /\ UNCHANGED <<gate, aged, op, rows, binding, do, runs, ready, tick>>

ReleaseRecord ==
  /\ adm.pc = "record"
  /\ RecordPublicSourceLive(adm.g.rev)
  /\ adm' = [adm EXCEPT !.pc = "end"]
  /\ UNCHANGED <<gate, aged, rows, do, tick, world>>

ReleaseEnd ==
  /\ adm.pc = "end"
  /\ Cas(adm.g, To(adm.g, IF adm.g.phase \in CommittedPhases THEN "released" ELSE "cancelled"))
  /\ adm' = NoTick
  /\ UNCHANGED <<rows, binding, do, tick, world>>

OperatorDrain ==
  /\ op' = ~op
  /\ IF op THEN UNCHANGED left ELSE Spend("admin")
  /\ UNCHANGED <<gate, aged, rows, binding, do, runs, ready, tick, adm>>

BoundPasses ==
  /\ ~aged /\ gate.phase # "none"
  /\ aged' = TRUE
  /\ UNCHANGED <<gate, rows, binding, do, tick, adm, world>>

HostsWarm ==
  /\ ready' = ~ready
  /\ IF ready THEN Fault ELSE UNCHANGED left
  /\ UNCHANGED <<gate, aged, op, rows, binding, do, runs, tick, adm>>

TickStep(t) ==
  \/ TickBegin(t) \/ StartAutomatic(t) \/ Waiting(t) \/ TakeHold(t) \/ Drained(t) \/ Core(t)
  \/ Commit(t) \/ Record(t) \/ CleaningRecords(t) \/ Cleaning(t) \/ Verifying(t)
DoStep ==
  \/ RetargetLiveRev \/ Redeliver \/ PromoteTarget \/ WritePromoting \/ ApplyCatalogFirst
  \/ FinishPromotion \/ Promote
AdminStep == ReleaseRecord \/ ReleaseEnd

Next ==
  \/ \E x \in Runs : StartRun(x) \/ RunMoves(x)
  \/ \E r \in Revs : PublicHead(r) \/ StartImagePromotion(r)
  \/ DoStep \/ PassDies
  \/ \E t \in Ticks : TickStep(t) \/ TickDies(t)
  \/ ReleaseRead \/ AdminStep \/ OperatorDrain \/ BoundPasses \/ HostsWarm

Spec == Init /\ [][Next]_vars

\* the cron and the durable object run, an administrator's call ends and time passes; runs
\* may never end, hosts may stay cold and an operator's drain may stay
Fairness ==
  /\ \A t \in Ticks : WF_vars(TickStep(t))
  /\ WF_vars(DoStep) /\ WF_vars(AdminStep) /\ WF_vars(BoundPasses)

FairSpec == Spec /\ Fairness

(***************************************************************************)
(* Properties.                                                             *)
(***************************************************************************)
\* Every variable holds values of its shape.
TypeOK ==
  /\ gate.phase \in HOLDING \cup ENDED \cup {"waiting", "none"} /\ gate.id \in 0..MaxAttempts
  /\ gate.origin \in {"auto", "admin"} /\ gate.rev \in Revs \cup {None}
  /\ {aged, op, ready} \subseteq BOOLEAN
  /\ rows \in Revs /\ {src.head, src.target, src.live, src.cat} \subseteq Revs
  /\ \A r \in Revs : row[r] \in {"none", "ready", "awaiting", "promoting", "live", "superseded"}
  /\ \A x \in Runs : runs[x].st \in {"none", "inserted", "running", "ending"}
  /\ \A t \in Ticks : tick[t].pc \in {"idle", "start", "step", "hold", "core", "commit", "already",
                                      "record", "clean"}
  /\ adm.pc \in {"idle", "record", "end"}

\* A swap of live images never pulls an image from under a run: whichever run starts while
\* ticks check, drain and commit, none that boots an outgoing image exists when it is replaced.
SwapIsIdleStep ==
  ImgOf[rows'] # ImgOf[rows] =>
     \A x \in Runs : runs[x].st # "none" => runs[x].img # ImgOf[rows]
SwapIsIdle == [][SwapIsIdleStep]_vars

\* Images change only while the attempt on record holds runs for that very commit: a release,
\* an operator's drain or a second tick ends every core call that is still in flight.
SwapIsHeldStep ==
  ImgOf[rows'] # ImgOf[rows] => gate.phase = "promoting" /\ gate.rev = rows'
SwapIsHeld == [][SwapIsHeldStep]_vars

\* Runs reopen: an automatic attempt never holds them for ever, whatever its images, its
\* cleanup, its hosts or a dying tick do.
AutomaticHoldEnds ==
  (gate.origin = "auto" /\ gate.phase \in HOLDING) ~> ~(gate.origin = "auto" /\ gate.phase \in HOLDING)

\* A committed catalog is recorded: after every crash between the swap and the record, the
\* binding's live commit is the catalog's commit again.
LiveFollowsRows == (rows # src.live) ~> (rows = src.live)

\* The binding's live commit only ever moves to the commit whose catalog is live.
RecordIsCurrent == [][src'.live # src.live => src'.live = rows']_vars
=============================================================================
