----------------------------- MODULE GuestProbes -----------------------------
(***************************************************************************)
(* The probe service of a guest: one loop per probe, the store they fill,  *)
(* and the learner's `intar check`, which runs the selected probes now and *)
(* streams each result as it comes.                                        *)
(*                                                                         *)
(* Scheduled and learner-requested executions take the same lock per probe.*)
(* A check also takes the one manual lock, and fails at once when another  *)
(* check holds it.  The learner may go away at any moment: the batch is    *)
(* aborted, which drops the executions it waits for or has begun.          *)
(***************************************************************************)
EXTENDS Integers, FiniteSets, SequencesExt

CONSTANTS Probes,    \* the probes of the VM
          Detached,  \* those whose process outlives a dropped execution (service)
          Checks,    \* invocations of `intar check`
          Permits,   \* MAX_CONCURRENT_CONTROL_CONNECTIONS
          MaxFlips   \* changes the learner makes to the guest

GuestProbesConstants ==
    /\ Detached \subseteq Probes /\ Permits \in Nat \ {0} /\ MaxFlips \in Nat
    /\ {"sched", "nobody"} \cap Checks = {}

VARIABLES holds,       \* does the guest satisfy the probe?
          flips,       \* changes made so far
          executions,  \* executions under way
          queue,       \* the waiters of each probe lock, first come first served
          leftovers,   \* probes with a process that a dropped execution left behind
          store,       \* the last result of each probe
          manual,      \* the check that holds manual_lock
          check        \* the invocations

probeVars == <<holds, flips, executions, queue, leftovers, store, manual, check>>

Results == {"pass", "fail", "late"}
Nobody == "nobody"
Sched == "sched"

\* What an execution that samples the guest now reports.
Truth(p) == IF holds[p] THEN "pass" ELSE "fail"

CheckStates ==
    [pc : {"idle", "asked", "running", "sent", "aborting", "done", "failed"}, sel : SUBSET Probes,
     got : [Probes -> Results \cup {"none"}], shown : [Probes -> Results \cup {"none"}],
     same : SUBSET Probes]
NoCheck == [pc |-> "idle", sel |-> {}, got |-> [p \in Probes |-> "none"],
            shown |-> [p \in Probes |-> "none"], same |-> {}]

ProbeInit ==
    /\ holds = [p \in Probes |-> FALSE] /\ flips = 0
    /\ executions = {} /\ queue = [p \in Probes |-> <<>>]
    /\ leftovers = {}
    /\ store = [p \in Probes |-> "unknown"]
    /\ manual = Nobody
    /\ check = [c \in Checks |-> NoCheck]

Of(p) == {r \in executions : r.probe = p}
Waits(p, who) == \E i \in 1..Len(queue[p]) : queue[p][i] = who

-----------------------------------------------------------------------------
(* One execution: run_one takes the lock of the probe, run_probe_once runs it
   under its timeout and applies the result *)

\* ticker.tick of run_probe_loop.
ProbeTick(p) ==
    /\ ~Waits(p, Sched) /\ \A r \in Of(p) : r.by # Sched
    /\ queue' = [queue EXCEPT ![p] = Append(@, Sched)]
    /\ UNCHANGED <<holds, flips, executions, leftovers, store, manual, check>>

SchedUnlocked(p) == Of(p) = {} \/ Head(queue[p]) = Sched
LockFree(p) == Of(p) = {}

\* lock.lock().await
Begin(p) ==
    /\ queue[p] # <<>> /\ LockFree(p)
    /\ executions' = executions \cup {[probe |-> p, by |-> Head(queue[p]), saw |-> "none"]}
    /\ queue' = [queue EXCEPT ![p] = Tail(@)]
    /\ UNCHANGED <<holds, flips, leftovers, store, manual, check>>

\* probe.run() looks at the guest at some moment of its execution.
Sample(r) ==
    /\ r.saw = "none"
    /\ executions' = (executions \ {r}) \cup {[r EXCEPT !.saw = Truth(r.probe)]}
    /\ UNCHANGED <<holds, flips, queue, leftovers, store, manual, check>>

\* A check that finds the probe already running could take the result of that
\* execution.
ShareResult(r, out) ==
    check' = [c \in Checks |->
                 IF c = manual /\ r.probe \in check[c].sel
                 THEN [check[c] EXCEPT !.got[r.probe] = out] ELSE check[c]]

\* manual_result_for: the execution's own result goes to the check that ran it.
OwnResult(r, out) ==
    check' = IF r.by = Sched THEN check
             ELSE [check EXCEPT ![r.by].got[r.probe] = out]

\* apply_update of the store.
ApplyPass(p, out) == IF out = "pass" THEN [store EXCEPT ![p] = out] ELSE store
Apply(p, out) == [store EXCEPT ![p] = out]

FinishEarly(r) ==
    /\ executions' = executions \ {r}
    /\ store' = Apply(r.probe, r.saw)
    /\ OwnResult(r, r.saw)
    /\ UNCHANGED <<holds, flips, queue, leftovers, manual>>

Finish(r) ==
    /\ r.saw # "none"
    /\ executions' = executions \ {r}
    /\ store' = Apply(r.probe, r.saw)
    /\ OwnResult(r, r.saw)
    /\ UNCHANGED <<holds, flips, queue, leftovers, manual>>

\* Dropping the future of an execution kills its process group, except for a
\* service probe, whose systemctl runs on.
Dropped(rs) == leftovers \cup (Detached \cap {r.probe : r \in rs})

\* The timeout of the probe: a failed result without a value.
Expire(r) ==
    /\ executions' = executions \ {r}
    /\ leftovers' = Dropped({r})
    /\ store' = Apply(r.probe, "late")
    /\ OwnResult(r, "late")
    /\ UNCHANGED <<holds, flips, queue, manual>>

LeftoverExits(p) ==
    /\ p \in leftovers
    /\ leftovers' = leftovers \ {p}
    /\ UNCHANGED <<holds, flips, executions, queue, store, manual, check>>

-----------------------------------------------------------------------------
(* One check: the connection, the batch and its results *)

Connected == {c \in Checks : check[c].pc \in {"asked", "running", "sent", "aborting"}}

\* request_local_checks_at connects and sends its selection; a connection above
\* the limit is dropped.
Ask(c) ==
    /\ check[c].pc = "idle"
    /\ \E sel \in SUBSET Probes \ {{}} :
          check' = [check EXCEPT ![c] =
              [NoCheck EXCEPT !.pc = IF Cardinality(Connected) < Permits THEN "asked" ELSE "failed",
                              !.sel = sel, !.same = Probes]]
    /\ UNCHANGED <<holds, flips, executions, queue, leftovers, store, manual>>

\* run_manual_stream: try_lock, then every selected probe waits for its lock.
StartBatch(c) ==
    /\ check[c].pc = "asked"
    /\ \/ /\ manual = Nobody
          /\ manual' = c
          /\ queue' = [p \in Probes |-> IF p \in check[c].sel THEN Append(queue[p], c) ELSE queue[p]]
          /\ check' = [check EXCEPT ![c].pc = "running"]
       \/ /\ manual # Nobody
          /\ check' = [check EXCEPT ![c].pc = "failed"]
          /\ UNCHANGED <<manual, queue>>
    /\ UNCHANGED <<holds, flips, executions, leftovers, store>>

\* An event of the stream reaches the learner.
Deliver(c, p) ==
    /\ check[c].pc \in {"running", "sent"} /\ check[c].got[p] # check[c].shown[p]
    /\ check' = [check EXCEPT ![c].shown[p] = check[c].got[p]]
    /\ UNCHANGED <<holds, flips, executions, queue, leftovers, store, manual>>

\* The batch task ends once every result was sent, and frees the manual lock.
EndBatch(c) ==
    /\ check[c].pc = "running" /\ \A p \in check[c].sel : check[c].got[p] # "none"
    /\ manual' = Nobody
    /\ check' = [check EXCEPT ![c].pc = "sent"]
    /\ UNCHANGED <<holds, flips, executions, queue, leftovers, store>>

\* The completion event: the validator accepts it when every selected probe was
\* observed.
Complete(c) ==
    /\ check[c].pc = "sent" /\ check[c].shown = check[c].got
    /\ check' = [check EXCEPT ![c].pc = "done"]
    /\ UNCHANGED <<holds, flips, executions, queue, leftovers, store, manual>>

\* The learner goes away, an event cannot be written or the deadline passes:
\* the batch is told to abort.
LearnerLeaves(c) ==
    /\ check[c].pc \in {"asked", "running", "sent"}
    /\ check' = [check EXCEPT ![c].pc = IF @ = "running" THEN "aborting" ELSE "failed"]
    /\ UNCHANGED <<holds, flips, executions, queue, leftovers, store, manual>>

\* A dropped waiter leaves the queue of its lock, in which it stands once.
Without(q, who) ==
    LET at == {i \in 1..Len(q) : q[i] = who}
    IN  IF at = {} THEN q ELSE RemoveAt(q, CHOOSE i \in at : TRUE)

DropLock(c) == Nobody

\* The aborted task is dropped: its waiters, its executions and its lock.
Reap(c) ==
    /\ check[c].pc = "aborting"
    /\ manual' = DropLock(c)
    /\ queue' = [p \in Probes |-> Without(queue[p], c)]
    /\ leftovers' = Dropped({r \in executions : r.by = c})
    /\ executions' = {r \in executions : r.by # c}
    /\ check' = [check EXCEPT ![c].pc = "failed"]
    /\ UNCHANGED <<holds, flips, store>>

\* The learner works on the guest: a check asked for before no longer describes
\* this probe's present state.
Flip(p) ==
    /\ flips < MaxFlips
    /\ flips' = flips + 1
    /\ holds' = [holds EXCEPT ![p] = ~@]
    /\ check' = [c \in Checks |-> [check[c] EXCEPT !.same = @ \ {p}]]
    /\ UNCHANGED <<executions, queue, leftovers, store, manual>>

-----------------------------------------------------------------------------
Probe(p) == ProbeTick(p) \/ Begin(p) \/ LeftoverExits(p) \/ Flip(p)
Client(c) ==
    Ask(c) \/ StartBatch(c) \/ EndBatch(c) \/ Complete(c) \/ LearnerLeaves(c) \/ Reap(c)
    \/ \E p \in Probes : Deliver(c, p)

ProbeNext ==
    \/ \E p \in Probes : Probe(p)
    \/ \E r \in executions : Sample(r) \/ Finish(r) \/ Expire(r)
    \/ \E c \in Checks : Client(c)

ProbeSpec == ProbeInit /\ [][ProbeNext]_probeVars

\* The loops tick, the locks are fair, an execution ends by its timeout, and the
\* service answers a check; nothing is asked of the learner.
ProbeFairness ==
    /\ \A p \in Probes :
          /\ WF_probeVars(ProbeTick(p)) /\ WF_probeVars(Begin(p)) /\ WF_probeVars(LeftoverExits(p))
          /\ WF_probeVars(\E r \in Of(p) : Sample(r) \/ Finish(r) \/ Expire(r))
    /\ \A c \in Checks :
          /\ WF_probeVars(StartBatch(c)) /\ WF_probeVars(EndBatch(c)) /\ WF_probeVars(Complete(c))
          /\ WF_probeVars(Reap(c)) /\ WF_probeVars(LearnerLeaves(c) \/ \E p \in Probes : Deliver(c, p))

FairProbeSpec == ProbeSpec /\ ProbeFairness

-----------------------------------------------------------------------------
(* Properties *)

ProbeTypes ==
    /\ holds \in [Probes -> BOOLEAN] /\ flips \in 0..MaxFlips
    /\ executions \subseteq [probe : Probes, by : Checks \cup {Sched}, saw : {"none", "pass", "fail"}]
    /\ queue \in [Probes -> Seq(Checks \cup {Sched})]
    /\ leftovers \subseteq Probes
    /\ store \in [Probes -> Results \cup {"unknown"}]
    /\ manual \in Checks \cup {Nobody}
    /\ check \in [Checks -> CheckStates]

\* Scheduled executions, checks and aborted batches never have two processes of
\* one probe running at once (the per-probe locks of ProbeExecutor), except for
\* the service probes, whose dropped processes run on.
OneCopy ==
    \A p \in Probes \ Detached : Cardinality(Of(p)) + Cardinality({p} \cap leftovers) <= 1

\* A result a check shows was measured after the learner asked: unless the guest
\* changed since, it is what the guest is now, or the probe timed out
\* (run_manual_stream: "a learner check must be fresh").
CheckIsFresh ==
    \A c \in Checks, p \in Probes :
        check[c].shown[p] # "none" /\ p \in check[c].same => check[c].shown[p] \in {Truth(p), "late"}

\* However scheduled executions, checks, timeouts and learners who go away
\* interleave: one copy of a probe at a time, and a check shows what the guest is.
ProbesFresh == ProbeTypes /\ OneCopy /\ CheckIsFresh

\* Whoever goes away and however, the manual lock is freed for the next check
\* (AbortOnDrop of run_cli_control).
ManualFreed == \A c \in Checks : manual = c ~> manual # c

\* The store comes back to the state of the guest, whatever checks did meanwhile
\* (run_probe_loop), unless the probe keeps timing out.
StoreCatchesUp == \A p \in Probes : []<>(store[p] \in {Truth(p), "late"})
=============================================================================
