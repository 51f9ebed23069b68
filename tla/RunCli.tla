------------------------------- MODULE RunCli -------------------------------
(***************************************************************************)
(* The learner's `intar` command: the process in the guest, the broker of   *)
(* the agent that serves its VM, and the control-plane handler that reads    *)
(* and changes the run.                                                      *)
(*                                                                           *)
(* A hint is revealed at most once and shown at least once: the process      *)
(* writes a marker naming the ordinal it asks for, asks for exactly that     *)
(* ordinal, and removes the marker only after the text was written out.      *)
(* Every exchange can be lost on either side, the learner can interrupt the  *)
(* process anywhere, the browser reveals hints of the same run, and the VM    *)
(* can be replaced under all of it.                                          *)
(***************************************************************************)
EXTENDS Integers, FiniteSets

CONSTANTS Procs,        \* invocations that may run at once
          Aliases,      \* hint groups of the VM
          MaxHints,     \* hints of a group
          MaxGen,       \* jail generations
          Slots,        \* MAX_CONCURRENT_NORMAL_RUN_CLI_ACTIONS
          Losses,       \* may an exchange with the control plane be lost?
          LateErrors,   \* may a reveal be done and its request still fail?
          Solutions     \* may the solution be revealed?

VARIABLES row,      \* the run: revealed hints, reported generation, solution
          vm,       \* the generation of the VM the agent runs
          pending,  \* the marker file in the learner's home
          cli,      \* the invocations
          cliReq,   \* the requests at the broker and the control plane
          lane,     \* the request that holds normal_action_mutex
          cache,    \* the completion cache: the reveals it was read at, or Empty
          fill,     \* the cache refresher
          shownHints,  \* the hints whose text the learner was given
          answered, \* the reveals of the last view the broker passed on
          early     \* the solution was revealed before the run was solved

cliVars == <<row, vm, pending, cli, cliReq, lane, cache, fill, shownHints, answered,
             early>>

Reveals == [Aliases -> 0..MaxHints]
NoMark == [gen |-> 0, alias |-> "none", ord |-> 0]
Empty == [a \in Aliases |-> -1]
NoClient == "nobody"
IdleCli == [pc |-> "idle", alias |-> "none", mark |-> NoMark, view |-> Empty, err |-> FALSE]
Free == [st |-> "free", kind |-> "status", by |-> NoClient, alias |-> "none", ord |-> 0,
         gen |-> 0, seen |-> Empty, solved |-> FALSE, assisted |-> FALSE, at |-> 0, out |-> "none"]
NoFill == [pc |-> "idle", same |-> FALSE, seen |-> Empty]

RunCliConstants ==
    /\ MaxHints \in Nat \ {0} /\ MaxGen \in Nat \ {0}
    /\ NoClient \notin Procs /\ 0 \notin Slots
    /\ {Losses, LateErrors, Solutions} \subseteq BOOLEAN

CliInit ==
    /\ row = [revealed |-> [a \in Aliases |-> 0], gen |-> 1, solved |-> FALSE,
              solution |-> FALSE, assisted |-> FALSE]
    /\ vm = 1 /\ pending = NoMark
    /\ cli = [p \in Procs |-> IdleCli]
    /\ cliReq = [s \in Slots |-> Free]
    /\ lane = 0
    /\ cache = Empty /\ fill = NoFill
    /\ shownHints = [a \in Aliases |-> {}]
    /\ answered = row.revealed
    /\ early = FALSE

\* hint_ordinal_state of a view: the reveals of a group are a prefix of it, and
\* the next hint is the one that is ready.
IsRevealed(view, mark) == view # Empty /\ mark.ord <= view[mark.alias]
IsReady(view, mark) == view # Empty /\ mark.ord = view[mark.alias] + 1

\* completion_aliases_from_view: the groups with a ready hint.
CanReveal(seen) == IF seen = Empty THEN {} ELSE {a \in Aliases : seen[a] < MaxHints}

\* cached_completion_aliases.
Offered == CanReveal(cache)

-----------------------------------------------------------------------------
(* Sending a request and what its outcome does to the invocation *)

FreeSlots == {s \in Slots : cliReq[s].st = "free"}

FailAsksAgain(c) ==
    CASE c.pc \in {"reveal", "confirm"} -> [c EXCEPT !.pc = "ask", !.err = FALSE]
      [] OTHER -> IdleCli

\* The exchange ended without an answer: the lane is full, the deadline passed,
\* or the connection closed.
Fail(c) ==
    CASE c.pc = "reveal" -> [c EXCEPT !.pc = "ask", !.err = FALSE]
      [] c.pc = "confirm" /\ c.err -> [c EXCEPT !.pc = "drop"]
      [] OTHER -> IdleCli

\* An error the control plane answered with.
Refused(c) == IF c.pc = "reveal" THEN [c EXCEPT !.pc = "ask", !.err = TRUE]
                                 ELSE Fail(c)

\* A view: reveal_hint_with_path after each of its exchanges.
Viewed(c, view) ==
    CASE c.pc = "status" -> [c EXCEPT !.pc = "load", !.view = view]
      [] c.pc \in {"reveal", "confirm"} /\ IsRevealed(view, c.mark)
            -> [c EXCEPT !.pc = "print"]
      [] c.pc = "confirm" /\ c.err /\ ~IsRevealed(view, c.mark) -> [c EXCEPT !.pc = "drop"]
      [] OTHER -> IdleCli

CliRequest(p, kind, c) ==
    [Free EXCEPT !.st = "lane", !.kind = kind, !.by = p, !.gen = vm,
                 !.alias = c.mark.alias, !.ord = c.mark.ord]

\* The broker takes the connection into the lane, or drops it when no
\* normal_action_slot is left.
Send(p, kind, c) ==
    IF FreeSlots = {}
    THEN /\ cli' = [cli EXCEPT ![p] = Fail(c)]
         /\ UNCHANGED cliReq
    ELSE LET s == CHOOSE x \in FreeSlots : TRUE
         IN  /\ cli' = [cli EXCEPT ![p] = c]
             /\ cliReq' = [cliReq EXCEPT ![s] = CliRequest(p, kind, c)]

\* What the invocation alone leaves unchanged.
GuestOnly == UNCHANGED <<row, vm, lane, cache, fill, answered, early>>

\* `intar hint alias` asks for the status first.
StartHint(p, a) ==
    /\ cli[p].pc = "idle"
    /\ Send(p, "status", [IdleCli EXCEPT !.pc = "status", !.alias = a])
    /\ GuestOnly /\ UNCHANGED <<pending, shownHints>>

\* `intar solution reveal`, and the commands that only read a view.
StartOther(p, kind) ==
    /\ cli[p].pc = "idle"
    /\ kind = "solution" => Solutions
    /\ Send(p, kind, [IdleCli EXCEPT !.pc = "view"])
    /\ GuestOnly /\ UNCHANGED <<pending, shownHints>>

\* load_at and the decision on the marker it finds: a marker of another
\* generation is removed; one of this alias is retried, or printed when its
\* ordinal is revealed; one of another alias refuses the command; without one
\* the ready ordinal is marked.
Load(p) ==
    /\ cli[p].pc = "load"
    /\ LET c == cli[p]
           mark == IF pending # NoMark /\ pending.gen # vm THEN NoMark ELSE pending
           next == [gen |-> vm, alias |-> c.alias, ord |-> c.view[c.alias] + 1]
       IN  /\ pending' = mark
           /\ IF mark # NoMark /\ mark.alias = c.alias /\ IsReady(c.view, mark)
              THEN Send(p, "hint", [c EXCEPT !.mark = mark, !.pc = "reveal"])
              ELSE /\ cli' = [cli EXCEPT ![p] =
                         CASE mark # NoMark /\ mark.alias = c.alias
                                 /\ IsRevealed(c.view, mark)
                                 -> [c EXCEPT !.mark = mark, !.pc = "print"]
                           [] mark = NoMark /\ c.view[c.alias] < MaxHints
                                 -> [c EXCEPT !.mark = next, !.pc = "persist"]
                           [] OTHER -> IdleCli]
                   /\ UNCHANGED cliReq
    /\ GuestOnly /\ UNCHANGED shownHints

\* persist_at: the marker is durable before the reveal is asked for; a failed
\* write ends the command.
Persist(p, ok) ==
    /\ cli[p].pc = "persist"
    /\ IF ok
       THEN /\ pending' = cli[p].mark
            /\ Send(p, "hint", [cli[p] EXCEPT !.pc = "reveal"])
       ELSE /\ cli' = [cli EXCEPT ![p] = IdleCli]
            /\ UNCHANGED <<pending, cliReq>>
    /\ GuestOnly /\ UNCHANGED shownHints

\* confirm_pending_hint_after_transport asks for the status.
Confirm(p) ==
    /\ cli[p].pc = "ask"
    /\ Send(p, "status", [cli[p] EXCEPT !.pc = "confirm"])
    /\ GuestOnly /\ UNCHANGED <<pending, shownHints>>

\* clear_if_matches_at.
ClearIfMatches(mark) == IF pending = mark THEN NoMark ELSE pending

\* The control plane refused and the confirmation did not find the hint.
Drop(p) ==
    /\ cli[p].pc = "drop"
    /\ pending' = ClearIfMatches(cli[p].mark)
    /\ cli' = [cli EXCEPT ![p] = IdleCli]
    /\ GuestOnly /\ UNCHANGED <<cliReq, shownHints>>

ClearAnyway(c, ok) == [c EXCEPT !.pc = "clear"]

AfterWrite(c, ok) == IF ok THEN [c EXCEPT !.pc = "clear"] ELSE IdleCli

\* deliver_result_to: the text, then the marker; a broken pipe keeps it.
Show(p, ok) ==
    /\ cli[p].pc = "print"
    /\ shownHints' = IF ok THEN [shownHints EXCEPT ![cli[p].mark.alias] = @ \union {cli[p].mark.ord}]
                      ELSE shownHints
    /\ cli' = [cli EXCEPT ![p] = AfterWrite(cli[p], ok)]
    /\ GuestOnly /\ UNCHANGED <<pending, cliReq>>

Clear(p) ==
    /\ cli[p].pc = "clear"
    /\ pending' = ClearIfMatches(cli[p].mark)
    /\ cli' = [cli EXCEPT ![p] = IdleCli]
    /\ GuestOnly /\ UNCHANGED <<cliReq, shownHints>>

Waiting(p) == cli[p].pc \in {"status", "view", "reveal", "confirm"}
Abandoned(p) == [s \in Slots |-> IF cliReq[s].by = p THEN [cliReq[s] EXCEPT !.by = NoClient]
                                                  ELSE cliReq[s]]

\* BROKER_REQUEST_TIMEOUT.
TimeOut(p) ==
    /\ Losses /\ Waiting(p)
    /\ cli' = [cli EXCEPT ![p] = Fail(cli[p])]
    /\ cliReq' = Abandoned(p)
    /\ GuestOnly /\ UNCHANGED <<pending, shownHints>>

\* Ctrl-C, or the terminal goes away.
Interrupt(p) ==
    /\ Losses /\ cli[p].pc # "idle"
    /\ cli' = [cli EXCEPT ![p] = IdleCli]
    /\ cliReq' = Abandoned(p)
    /\ GuestOnly /\ UNCHANGED <<pending, shownHints>>

-----------------------------------------------------------------------------
(* The broker and the control plane *)

\* HintReveal, SolutionReveal and CheckSync.
Mutates(kind) == kind \in {"hint", "solution", "sync"}
Goto(s, st) == cliReq' = [cliReq EXCEPT ![s].st = st]
Answer(s, out) == cliReq' = [cliReq EXCEPT ![s].st = "reply", ![s].out = out]
\* What a step of the control plane leaves unchanged.
Remote == UNCHANGED <<vm, pending, cli, lane, cache, fill, shownHints, answered>>

\* handle_run_cli_connection takes the mutex: a mutation clears the cache before
\* it is sent, a status whose client is gone is cancelled.
Acquire(s) ==
    /\ cliReq[s].st = "lane" /\ lane = 0
    /\ IF cliReq[s].by = NoClient /\ ~Mutates(cliReq[s].kind)
       THEN /\ cliReq' = [cliReq EXCEPT ![s] = Free]
            /\ UNCHANGED <<lane, cache, fill>>
       ELSE /\ lane' = s
            /\ Goto(s, "fence")
            /\ IF Mutates(cliReq[s].kind)
               THEN cache' = Empty /\ fill' = [fill EXCEPT !.same = FALSE]
               ELSE UNCHANGED <<cache, fill>>
    /\ UNCHANGED <<row, vm, pending, cli, shownHints, answered, early>>

\* resolveKvmRunCliFence before the work.
Fence(s) ==
    /\ cliReq[s].st = "fence"
    /\ IF cliReq[s].gen = row.gen THEN Goto(s, "read") ELSE Answer(s, "error")
    /\ Remote /\ UNCHANGED <<row, early>>

\* dispatchScenarioRunCliAction reads the run: a revealed target is answered as
\* it is, the ready one goes on to the reveal, any other is locked.
Read(s) ==
    /\ cliReq[s].st = "read"
    /\ LET r == cliReq[s] IN
         CASE r.kind = "hint" /\ r.ord > row.revealed[r.alias] + 1 -> Answer(s, "error")
           [] r.kind = "hint" /\ r.ord = row.revealed[r.alias] + 1 -> Goto(s, "decide")
           [] r.kind = "solution" -> Goto(s, "decide")
           [] OTHER -> Goto(s, "answer")
    /\ Remote /\ UNCHANGED <<row, early>>

\* The reveal functions read the row again; a hint the browser revealed since is
\* a conflict.
Decide(s) ==
    /\ cliReq[s].st = "decide"
    /\ LET r == cliReq[s] IN
         IF r.kind = "hint" /\ r.ord # row.revealed[r.alias] + 1
         THEN Answer(s, "error")
         ELSE cliReq' = [cliReq EXCEPT ![s].st = "update", ![s].seen = row.revealed,
                                 ![s].solved = row.solved, ![s].assisted = row.assisted]
    /\ Remote /\ UNCHANGED <<row, early>>

AssistedNow(r) == ~r.solved

\* solutionAssisted: once set it stays set.
Assisted(r) == r.assisted \/ ~r.solved

\* scenarioRunCliMutationGuard, and the compare-and-set of the revealed keys.
Guard(r) == r.gen = row.gen /\ (r.kind = "hint" => row.revealed = r.seen)

Update(s) ==
    /\ cliReq[s].st = "update"
    /\ LET r == cliReq[s] IN
         IF ~Guard(r)
         THEN Answer(s, "error") /\ UNCHANGED <<row, early>>
         ELSE /\ Goto(s, "answer")
              /\ IF r.kind = "hint"
                 THEN /\ row' = [row EXCEPT !.revealed[r.alias] = @ + 1]
                      /\ UNCHANGED early
                 ELSE /\ row' = [row EXCEPT !.solution = TRUE, !.assisted = Assisted(r)]
                      /\ early' = (early \/ ~row.solved)
    /\ Remote

\* getScenarioRunForUser for the answer; it fails with an internal error.
ReadAnswer(s, ok) ==
    /\ cliReq[s].st = "answer"
    /\ IF ok THEN cliReq' = [cliReq EXCEPT ![s].st = "recheck", ![s].seen = row.revealed,
                                     ![s].at = row.gen]
             ELSE LateErrors /\ Answer(s, "error")
    /\ Remote /\ UNCHANGED <<row, early>>

RecheckNothing(s) ==
    /\ cliReq[s].st = "recheck"
    /\ Answer(s, "view")
    /\ Remote /\ UNCHANGED <<row, early>>

\* The fence is resolved again and a result of another generation discarded.
Recheck(s) ==
    /\ cliReq[s].st = "recheck"
    /\ Answer(s, IF cliReq[s].gen = row.gen THEN "view" ELSE "error")
    /\ Remote /\ UNCHANGED <<row, early>>

\* The broker passes the answer on: a view fills the completion cache, an error
\* clears it, both advance its revision. A worker whose broker is gone answers
\* nobody.
Reply(s) ==
    /\ cliReq[s].st = "reply"
    /\ LET r == cliReq[s]
           mine == lane = s
           view == r.out = "view"
       IN  /\ cache' = IF ~mine THEN cache ELSE IF view THEN r.seen ELSE Empty
           /\ fill' = IF mine THEN [fill EXCEPT !.same = FALSE] ELSE fill
           /\ answered' = IF mine /\ view THEN r.seen ELSE answered
           /\ lane' = IF mine THEN 0 ELSE lane
           /\ cli' = IF r.by = NoClient THEN cli
                     ELSE [cli EXCEPT ![r.by] = IF view THEN Viewed(@, r.seen) ELSE Refused(@)]
    /\ cliReq' = [cliReq EXCEPT ![s] = Free]
    /\ UNCHANGED <<row, vm, pending, shownHints, early>>

LostKeepsLane(s) ==
    /\ Losses /\ lane = s
    /\ cliReq[s].st \in {"fence", "reply"} \/ LateErrors
    /\ cliReq' = [cliReq EXCEPT ![s] = Free]
    /\ cli' = IF cliReq[s].by = NoClient THEN cli
              ELSE [cli EXCEPT ![cliReq[s].by] = Fail(@)]
    /\ UNCHANGED <<row, vm, pending, lane, cache, fill, shownHints, answered, early>>

\* forward_run_cli_request fails: the connection to the control plane is lost
\* before or after the work, or in the middle of it, and the worker goes on.
Lost(s) ==
    /\ Losses /\ lane = s
    /\ cliReq[s].st \in {"fence", "reply"} \/ LateErrors
    /\ lane' = 0
    /\ cli' = IF cliReq[s].by = NoClient THEN cli
              ELSE [cli EXCEPT ![cliReq[s].by] = Fail(@)]
    /\ cliReq' = [cliReq EXCEPT ![s] = IF @.st \in {"fence", "reply"} THEN Free
                                 ELSE [@ EXCEPT !.by = NoClient]]
    /\ UNCHANGED <<row, vm, pending, cache, fill, shownHints, answered, early>>

-----------------------------------------------------------------------------
(* run_completion_cache_refresher *)

Others == UNCHANGED <<row, vm, pending, cli, cliReq, lane, shownHints, answered, early>>

RefreshStart ==
    /\ fill.pc = "idle"
    /\ cache' = Empty
    /\ fill' = [pc |-> "asked", same |-> TRUE, seen |-> Empty]
    /\ Others

RefreshRead ==
    /\ fill.pc = "asked" /\ row.gen = vm
    /\ fill' = [fill EXCEPT !.pc = "got", !.seen = row.revealed]
    /\ Others /\ UNCHANGED cache

ApplyAlways == fill.seen

\* replace_aliases_if_revision.
AppliedAliases == IF fill.same THEN fill.seen ELSE cache

RefreshApply ==
    /\ fill.pc = "got"
    /\ cache' = AppliedAliases
    /\ fill' = NoFill
    /\ Others

\* A failed or late refresh: clear_if_revision.
RefreshFails ==
    /\ fill.pc \in {"asked", "got"}
    /\ cache' = IF fill.same THEN Empty ELSE cache
    /\ fill' = NoFill
    /\ Others

\* RUN_CLI_COMPLETION_CACHE_TTL.
CacheExpires ==
    /\ cache # Empty /\ cache' = Empty
    /\ Others /\ UNCHANGED fill

-----------------------------------------------------------------------------
(* The run and the VM *)

\* The browser reveals the next hint and shows the run with every revealed one.
BrowserHint(a) ==
    /\ row.revealed[a] < MaxHints
    /\ row' = [row EXCEPT !.revealed[a] = @ + 1]
    /\ shownHints' = [shownHints EXCEPT ![a] = 1..(row.revealed[a] + 1)]
    /\ UNCHANGED <<vm, pending, cli, cliReq, lane, cache, fill, answered, early>>

\* The run is solved; solvedAt is never taken back.
Solve ==
    /\ Solutions /\ ~row.solved
    /\ row' = [row EXCEPT !.solved = TRUE]
    /\ UNCHANGED <<vm, pending, cli, cliReq, lane, cache, fill, shownHints, answered, early>>

\* The VM of the run is launched again under a new jail generation: its
\* processes end, its broker is aborted with every request it holds, and the
\* home may come back with the disk. Workers of the control plane go on.
Replace(home) ==
    /\ vm < MaxGen /\ vm = row.gen
    /\ vm' = vm + 1
    /\ pending' = IF home THEN pending ELSE NoMark
    /\ cli' = [p \in Procs |-> IdleCli]
    /\ cliReq' = [s \in Slots |-> IF cliReq[s].st \in {"free", "lane"} THEN Free
                               ELSE [cliReq[s] EXCEPT !.by = NoClient]]
    /\ lane' = 0 /\ cache' = Empty /\ fill' = NoFill
    /\ UNCHANGED <<row, shownHints, answered, early>>

\* The agent's report names the new generation. What the old VM was owed is
\* gone with it.
Report ==
    /\ row.gen < vm
    /\ row' = [row EXCEPT !.gen = vm]
    /\ shownHints' = [a \in Aliases |-> 1..row.revealed[a]]
    /\ UNCHANGED <<vm, pending, cli, cliReq, lane, cache, fill, answered, early>>

-----------------------------------------------------------------------------

Guest(p) ==
    \/ Load(p) \/ Confirm(p) \/ Drop(p) \/ Clear(p)
    \/ \E ok \in BOOLEAN : Persist(p, ok) \/ Show(p, ok)

Worker(s) ==
    \/ Acquire(s) \/ Fence(s) \/ Read(s) \/ Decide(s) \/ Update(s)
    \/ Recheck(s) \/ Reply(s)
    \/ \E ok \in BOOLEAN : ReadAnswer(s, ok)

CliNext ==
    \/ \E p \in Procs : \/ Guest(p) \/ TimeOut(p) \/ Interrupt(p)
                        \/ \E a \in Aliases : StartHint(p, a)
                        \/ \E k \in {"status", "sync", "solution"} : StartOther(p, k)
    \/ \E s \in Slots : Worker(s) \/ Lost(s)
    \/ RefreshStart \/ RefreshRead \/ RefreshApply \/ RefreshFails \/ CacheExpires
    \/ \E a \in Aliases : BrowserHint(a)
    \/ Solve \/ Report
    \/ \E home \in BOOLEAN : Replace(home)

CliSpec == CliInit /\ [][CliNext]_cliVars

\* Every exchange of an invocation has a deadline.
CliFairness == \A p \in Procs : WF_cliVars(Guest(p)) /\ WF_cliVars(TimeOut(p))

FairCliSpec == CliSpec /\ CliFairness

-----------------------------------------------------------------------------
(* Properties *)

Marks == [gen : 0..MaxGen, alias : Aliases \union {"none"}, ord : 0..MaxHints]

\* The marker is whole or absent, and an invocation that asks for a hint or
\* prints one holds the marker it asks with: the shape of the state the
\* command, the broker and the handler of the control plane share.
CliTypes ==
    /\ row.revealed \in Reveals /\ row.gen \in 1..vm /\ vm \in 1..MaxGen
    /\ pending \in Marks /\ (pending # NoMark => pending.gen # 0 /\ pending.ord # 0)
    /\ \A p \in Procs : /\ cli[p].view \in Reveals \union {Empty}
                        /\ cli[p].pc \in {"persist", "reveal", "ask", "confirm", "drop",
                                           "print", "clear"} => cli[p].mark \in Marks \ {NoMark}
    /\ lane \in Slots \union {0}
    /\ lane # 0 => cliReq[lane].st \notin {"free", "lane"}
    /\ cache \in Reveals \union {Empty}

\* The ladder of hints is never advanced over a hint the learner was not given
\* (the marker of run_cli_pending.rs and the ordinal the reveal carries): of a
\* group only the last revealed hint can still be unread.
NoHintSkipped == \A a \in Aliases : 1..(row.revealed[a] - 1) \subseteq shownHints[a]

\* No view of the run as a newer generation sees it is answered to an older
\* one: what is answered was read while the asking VM was the current one (the
\* second fence of handleAgentRunCliRequest).
DeliveredIsCurrent ==
    \A s \in Slots : cliReq[s].st = "reply" /\ cliReq[s].out = "view" => cliReq[s].at = cliReq[s].gen

\* Completion never offers a group that the last view the broker passed on
\* showed used up, whatever refresh was under way (replace_aliases_if_revision).
CompletionNotStale == Offered \subseteq CanReveal(answered)

\* A run whose solution was opened before it was solved counts as assisted, in
\* whatever order reveals and the solving report land (solutionAssisted).
AssistedIsKept == early => row.assisted

\* What the commands of one learner never do, whatever exchange is lost, however
\* often they are interrupted and whatever the browser reveals meanwhile: no
\* hint is passed over unread, no answer of another generation is delivered,
\* completion is not behind the last answer and assistance is not forgotten.
HintsKept ==
    /\ CliTypes /\ NoHintSkipped /\ CompletionNotStale
    /\ DeliveredIsCurrent /\ AssistedIsKept

\* Every invocation ends: a lost answer, a refused reveal and a lost
\* confirmation lead to a result the learner sees, never to a loop.
CommandEnds == \A p \in Procs : cli[p].pc # "idle" ~> cli[p].pc = "idle"

\* "Clear before dispatch so the old projection cannot be served while the
\* control plane applies the mutation": once a reveal of the request in the lane
\* is done, completion does not offer what was ready before it.
OldProjectionNotServed ==
    lane # 0 /\ cliReq[lane].kind = "hint" /\ cliReq[lane].st \in {"answer", "recheck", "reply"}
       => Offered \subseteq CanReveal(row.revealed)
=============================================================================
