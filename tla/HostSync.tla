------------------------------ MODULE HostSync ------------------------------
(***************************************************************************)
(* Delivery of a host's desired state.  The committed desired-state row is *)
(* the outbox; the host's Durable Object pushes it over the bridge         *)
(* websocket; the agent caches it, applies it and reports the version.     *)
(* Modelled: the hello handshake, the dispatch path with its lock, wakes,  *)
(* alarms, the sweep, the close handlers (host-runtime-do.ts and           *)
(* host-runtime-do/base.ts) and the agent's side (bridge.rs), with a step  *)
(* per await at which other handlers run.                                  *)
(*                                                                         *)
(* A desired document is its version: every version has one payload.  A    *)
(* connection opens at most one session, so both have one number, which is *)
(* used again when nothing refers to it any more (the smallest free one).  *)
(***************************************************************************)
EXTENDS Naturals, Sequences

CONSTANTS
  Relayed,     \* the host is not a platform host: dispatch refreshes its relay
  FaultKinds,  \* the faults that may occur
  MaxFaults,   \* bound: how many of them
  MaxVersion,  \* bound: desired versions committed
  MaxConn,     \* bound: sockets of the host at a time
  MaxQueue     \* bound: frames in flight on a socket, each way

ASSUME SyncAssumption ==
  /\ Relayed \in BOOLEAN
  /\ FaultKinds \subseteq {"drop", "agent", "runtime", "wake", "relay",
                           "timeout", "images"}
  /\ MaxFaults \in Nat
  /\ MaxVersion \in Nat \ {0} /\ MaxConn \in Nat \ {0} /\ MaxQueue \in Nat \ {0, 1}

Conns == 1..MaxConn

VARIABLES
  desired,  \* host_desired_state.version
  active,   \* agent_hosts.active_session_id, 0 when null
  actual,   \* host_actual_state: the version, and whose report it was (0: no row)
  sock,     \* [Conns -> the server's end of the socket, and frames in flight]
  hello,    \* the client_hello being handled (one: withClientHelloLock)
  disp,     \* the dispatch under way (one: withDesiredDispatchLock)
  wake,     \* is a wake of the host's runtime on its way?
  alarm,    \* is the Durable Object's runtime alarm armed?
  agent,    \* the agent process and its sqlite cache
  faults    \* faults so far

dbVars == <<desired, active, actual>>
doVars == <<hello, disp, wake, alarm>>
vars == <<desired, active, actual, sock, hello, disp, wake, alarm,
          agent, faults>>

-----------------------------------------------------------------------------
(* session: attachment.sessionId is set; promoted: helloReceived and       *)
(* bridgeProtocol are; lastSent is lastDesiredVersionSent (0 when null).   *)
(* want: a dispatch to the socket waits for the lock ("force": the option);  *)
(* several that wait are one.                                              *)
NoSocket == [srv |-> "none", session |-> FALSE, promoted |-> FALSE, lastSent |-> 0,
             want |-> "none", inbound |-> <<>>, outbound |-> <<>>]

Frame(type, version) == [type |-> type, version |-> version]
Message(type, version) == [type |-> type, version |-> version, late |-> FALSE]

NoReport == [session |-> 0, applied |-> 0]
IdleHello == [pc |-> "idle", conn |-> 0, prev |-> 0, applied |-> 0, version |-> 0,
              ok |-> FALSE]
IdleDispatch == [pc |-> "idle", conn |-> 0, version |-> 0, ok |-> FALSE]

Init ==
  /\ desired = 1 /\ active = 0 /\ actual = NoReport
  /\ sock = [c \in Conns |-> NoSocket]
  /\ hello = IdleHello /\ disp = IdleDispatch
  /\ wake = FALSE /\ alarm = FALSE
  /\ agent = [conn |-> 0, up |-> FALSE, cur |-> 0, cached |-> 0, applied |-> 0,
              applying |-> 0]
  /\ faults = 0

Open(c) == sock[c].srv = "open"

(* socket.close(): frames already sent still reach the agent; a dispatch   *)
(* that waits will find the socket closed and return.                      *)
Closed(s) ==
  IF s.srv = "open" THEN [s EXCEPT !.srv = "closing", !.want = "none"] ELSE s

(* A frame for an agent that has gone is lost. *)
Deliver(c, s, frame) ==
  IF agent.conn = c THEN [s EXCEPT !.inbound = Append(@, frame)] ELSE s

Ready == {c \in Conns : Open(c) /\ sock[c].promoted}

(* findActiveSocket: the active session's socket, else the newest one, to  *)
(* which the dispatch then sends nothing: which one it is does not matter. *)
FindActiveSocket == IF active \in Ready THEN active ELSE CHOOSE c \in Ready : TRUE

Wanted(s, force) ==
  [s EXCEPT !.want = IF force \/ @ = "force" THEN "force" ELSE "plain"]

Lagging == actual.session # 0 /\ actual.applied < desired

Undelivered == actual.session = 0 \/ actual.applied < desired

-----------------------------------------------------------------------------
(* handleBridgeClientHello *)

HelloFrame == UNCHANGED <<disp, wake, agent, faults>>

(* The pending attachment carries the new session but no helloReceived. *)
Pending(s) == [s EXCEPT !.session = TRUE, !.outbound = Tail(s.outbound)]

(* Mutant: the pending attachment already counts as a received hello. *)
HelloBeginPromotes(c) ==
  /\ hello.pc = "idle" /\ Open(c)
  /\ sock[c].outbound # <<>> /\ Head(sock[c].outbound).type = "client_hello"
  /\ hello' = [pc |-> "activate", conn |-> c, prev |-> active,
               applied |-> Head(sock[c].outbound).version, version |-> 0, ok |-> FALSE]
  /\ sock' = [sock EXCEPT ![c] = [Pending(@) EXCEPT !.promoted = TRUE]]
  /\ UNCHANGED <<dbVars, alarm>> /\ HelloFrame

HelloBegin(c) ==
  /\ hello.pc = "idle" /\ Open(c)
  /\ sock[c].outbound # <<>> /\ Head(sock[c].outbound).type = "client_hello"
  /\ hello' = [pc |-> "activate", conn |-> c, prev |-> active,
               applied |-> Head(sock[c].outbound).version, version |-> 0, ok |-> FALSE]
  /\ sock' = [sock EXCEPT ![c] = Pending(@)]
  /\ UNCHANGED <<dbVars, alarm>> /\ HelloFrame

(* Mutant: the old session's inventory is not deleted. *)
HelloActivateKeepsActual ==
  /\ hello.pc = "activate"
  /\ active' = hello.conn
  /\ hello' = [hello EXCEPT !.pc = "reconcile"]
  /\ UNCHANGED <<desired, actual, sock, alarm>> /\ HelloFrame

(* The session swap and the deletion of host_actual_state, in one batch. *)
HelloActivate ==
  /\ hello.pc = "activate"
  /\ active' = hello.conn /\ actual' = NoReport
  /\ hello' = [hello EXCEPT !.pc = "reconcile"]
  /\ UNCHANGED <<desired, sock, alarm>> /\ HelloFrame

(* reconcileHostScenarioImages may commit a version, fenced by the session. *)
HelloReconcile ==
  /\ hello.pc = "reconcile"
  /\ IF active = hello.conn
     THEN \E v \in {desired, desired + 1} :
            /\ v <= MaxVersion
            /\ desired' = v
            /\ hello' = [hello EXCEPT !.pc = "check", !.version = v]
     ELSE hello' = [hello EXCEPT !.pc = "rollback"] /\ UNCHANGED desired
  /\ UNCHANGED <<active, actual, sock, alarm>> /\ HelloFrame

HelloCheck ==
  /\ hello.pc = "check"
  /\ hello' = [hello EXCEPT !.pc = "promote", !.ok = active = hello.conn]
  /\ UNCHANGED <<dbVars, sock, alarm>> /\ HelloFrame

(* The attachment of a session that may be dispatched to. *)
Promoted(s, sent) == [s EXCEPT !.promoted = TRUE, !.lastSent = sent]

(* Mutant: the announced version counts as sent, whatever the host has. *)
HelloPromoteAssumesSent ==
  LET c == hello.conn
      s == Promoted(sock[c], hello.version)
  IN
  /\ hello.pc = "promote"
  /\ IF hello.ok /\ Open(c)
     THEN /\ sock' = [sock EXCEPT ![c] = Deliver(c, s, Frame("server_hello", hello.version))]
          /\ hello' = [hello EXCEPT !.pc = "close"]
     ELSE hello' = [hello EXCEPT !.pc = "rollback"] /\ UNCHANGED sock
  /\ UNCHANGED <<dbVars, alarm>> /\ HelloFrame

(* Promotion and server_hello, with no await in between. *)
HelloPromote ==
  LET c == hello.conn
      s == Promoted(sock[c], IF hello.applied = hello.version THEN hello.version ELSE 0)
  IN
  /\ hello.pc = "promote"
  /\ IF hello.ok /\ Open(c)
     THEN /\ sock' = [sock EXCEPT ![c] = Deliver(c, s, Frame("server_hello", hello.version))]
          /\ hello' = [hello EXCEPT !.pc = "close"]
     ELSE hello' = [hello EXCEPT !.pc = "rollback"] /\ UNCHANGED sock
  /\ UNCHANGED <<dbVars, alarm>> /\ HelloFrame

(* rollbackPendingClientHello, and the close of the rejected socket. *)
HelloRollback ==
  LET c == hello.conn
      victims == {c} \cup (IF active = c THEN {hello.prev} ELSE {})
  IN
  /\ hello.pc = "rollback"
  /\ active' = IF active = c THEN 0 ELSE active
  /\ sock' = [d \in Conns |-> IF d \in victims THEN Closed(sock[d]) ELSE sock[d]]
  /\ hello' = IdleHello
  /\ UNCHANGED <<desired, actual, alarm>> /\ HelloFrame

(* closeOlderSockets, the first dispatch of the session and its alarm. *)
HelloClose ==
  /\ hello.pc = "close"
  /\ sock' = [d \in Conns |-> IF d # hello.conn THEN Closed(sock[d])
                              ELSE IF Open(d) THEN Wanted(sock[d], FALSE) ELSE sock[d]]
  /\ alarm' = TRUE
  /\ hello' = IdleHello
  /\ UNCHANGED dbVars /\ HelloFrame

HelloSteps == \/ HelloActivate \/ HelloReconcile \/ HelloCheck \/ HelloPromote
              \/ HelloRollback \/ HelloClose

-----------------------------------------------------------------------------
(* dispatchBridgeDesiredStateIfNeeded *)

DispatchFrame == UNCHANGED <<dbVars, hello, wake, agent, faults>>

(* Mutant: a session gets one push unless it asks for another. *)
DispatchBeginOnce(c) ==
  LET s == sock[c] IN
  /\ disp.pc = "idle" /\ s.want # "none"
  /\ sock' = [sock EXCEPT ![c].want = "none"]
  /\ disp' = IF s.lastSent = 0
             THEN [pc |-> "check", conn |-> c, version |-> desired, ok |-> FALSE]
             ELSE disp
  /\ UNCHANGED alarm /\ DispatchFrame

(* The attachment is read and the document loaded.  Enforcing workload     *)
(* access may commit first: that is a Commit whose wake was not needed.    *)
DispatchBegin(c) ==
  LET s == sock[c] IN
  /\ disp.pc = "idle" /\ s.want # "none"
  /\ sock' = [sock EXCEPT ![c].want = "none"]
  /\ \E relayRefreshDue \in IF Relayed THEN BOOLEAN ELSE {FALSE} :
       disp' = IF /\ desired >= s.lastSent
                  /\ s.want = "force" \/ relayRefreshDue \/ s.lastSent # desired
               THEN [pc |-> "check", conn |-> c, version |-> desired, ok |-> FALSE]
               ELSE disp
  /\ UNCHANGED alarm /\ DispatchFrame

DispatchCheck ==
  /\ disp.pc = "check"
  /\ disp' = [disp EXCEPT !.pc = "send", !.ok = active = disp.conn]
  /\ UNCHANGED <<sock, alarm>> /\ DispatchFrame

DispatchSend ==
  LET c == disp.conn
      s == [sock[c] EXCEPT !.lastSent = disp.version]
  IN
  /\ disp.pc = "send"
  /\ IF disp.ok /\ Open(c)
     THEN /\ Len(sock[c].inbound) < MaxQueue
          /\ sock' = [sock EXCEPT ![c] =
                        Deliver(c, s, Frame("desired_state", disp.version))]
     ELSE UNCHANGED sock
  /\ disp' = IdleDispatch
  /\ UNCHANGED alarm /\ DispatchFrame

-----------------------------------------------------------------------------
(* What asks for a dispatch. *)

(* The tail of reconcileHost: dispatch, and push a version the host has    *)
(* not applied again once the lag threshold has passed since it was sent.  *)
Reconciled(next, socks) ==
  IF Ready = {} THEN next = socks
  ELSE \E force \in {FALSE, Lagging} :
         next = [socks EXCEPT ![FindActiveSocket] = Wanted(@, force)]

(* Mutant: a mutation bumps the version for the document and for the write. *)
CommitBumpsTwice ==
  /\ desired < MaxVersion
  /\ desired' = desired + 2 /\ wake' = TRUE
  /\ UNCHANGED <<active, actual, sock, hello, disp, alarm, agent, faults>>

(* A desired-state mutation: the version is committed, the wake follows. *)
Commit ==
  /\ desired < MaxVersion
  /\ desired' = desired + 1 /\ wake' = TRUE
  /\ UNCHANGED <<active, actual, sock, hello, disp, alarm, agent, faults>>

(* sweepUndeliveredHostDesiredState; connected holds while a session is set. *)
Sweep ==
  /\ ~wake /\ active # 0 /\ Undelivered
  /\ wake' = TRUE
  /\ UNCHANGED <<dbVars, sock, hello, disp, alarm, agent, faults>>

(* handleWake: dispatch to the active socket, and arm the alarm whatever   *)
(* came of it.                                                             *)
HandleWake ==
  /\ wake
  /\ sock' = IF Ready = {} THEN sock
             ELSE [sock EXCEPT ![FindActiveSocket] = Wanted(@, FALSE)]
  /\ wake' = FALSE /\ alarm' = TRUE
  /\ UNCHANGED <<dbVars, hello, disp, agent, faults>>

(* scheduleNextAlarm keeps the alarm only while there is a socket. *)
Alarm ==
  /\ alarm
  /\ Reconciled(sock', sock) /\ alarm' = (Ready # {})
  /\ UNCHANGED <<dbVars, hello, disp, wake, agent, faults>>

(* Mutant: an older report is not told from a newer one. *)
HandledInAnyOrder(msgs, i) ==
  [k \in 1..(Len(msgs) - 1) |-> IF k < i THEN msgs[k] ELSE msgs[k + 1]]

(* Without i, and what was sent before it is now older than the row. *)
Handled(msgs, i) ==
  [k \in 1..(Len(msgs) - 1) |->
     IF k < i THEN [msgs[k] EXCEPT !.late = TRUE] ELSE msgs[k + 1]]

(* handleBridgeMessageV8 after the hello.  Handlers of several messages    *)
(* interleave, so any message received may be the next to take effect;     *)
(* persistHostReport drops a report observed before the stored one.        *)
HandleMessage(c, i) ==
  LET m == sock[c].outbound[i] IN
  /\ c \in Ready /\ i \in 1..Len(sock[c].outbound)
  /\ IF active # c
     THEN /\ sock' = [sock EXCEPT ![c] = [Closed(@) EXCEPT !.outbound = <<>>]]
          /\ UNCHANGED <<actual, alarm>>
     ELSE LET socks == [sock EXCEPT ![c].outbound = Handled(@, i)] IN
          /\ IF m.type = "sync_request"
             THEN sock' = [socks EXCEPT ![c] = Wanted(@, TRUE)] /\ UNCHANGED actual
             ELSE /\ Reconciled(sock', socks)
                  /\ actual' = IF m.late THEN actual
                               ELSE [session |-> c, applied |-> m.version]
          /\ alarm' = TRUE
  /\ UNCHANGED <<desired, active, hello, disp, wake, agent, faults>>

(* The server learns that the agent's end is gone. *)
NoticeClosed(c) ==
  /\ Open(c) /\ agent.conn # c
  /\ sock' = [sock EXCEPT ![c] = [Closed(@) EXCEPT !.outbound = <<>>]]
  /\ UNCHANGED <<dbVars, doVars, agent, faults>>

(* handleSocketClosed: a close releases only its own session. *)
HandleSocketClosed(c) ==
  /\ sock[c].srv = "closing"
  /\ sock' = [sock EXCEPT ![c] = [NoSocket EXCEPT !.inbound = sock[c].inbound]]
  /\ active' = IF active = c THEN 0 ELSE active
  /\ alarm' = (alarm \/ (active = c /\ Ready # {}))
  /\ UNCHANGED <<desired, actual, hello, disp, wake, agent, faults>>

(* The hello deadline of a socket whose hello will never finish. *)
HelloTimeout(c) ==
  /\ Open(c) /\ ~sock[c].promoted /\ sock[c].outbound = <<>> /\ hello.conn # c
  /\ sock' = [sock EXCEPT ![c] = Closed(@)]
  /\ UNCHANGED <<dbVars, doVars, agent, faults>>

-----------------------------------------------------------------------------
(* The agent: connect_once and handle_server_message. *)

AgentFrame == UNCHANGED <<dbVars, doVars, faults>>

Free(c) == /\ sock[c].srv = "none"
           /\ c \notin {active, actual.session, hello.conn, hello.prev, disp.conn}

Connect ==
  /\ agent.conn = 0
  /\ \E c \in Conns :
       /\ Free(c) /\ \A d \in 1..(c - 1) : ~Free(d)
       /\ sock' = [sock EXCEPT ![c] =
            [NoSocket EXCEPT !.srv = "open",
                             !.outbound = <<Message("client_hello", agent.cur)>>]]
       /\ agent' = [agent EXCEPT !.conn = c]
  /\ AgentFrame

(* A frame sent on a socket that the server has closed is lost. *)
Sent(s, msgs) == IF s.srv = "open" THEN [s EXCEPT !.outbound = @ \o msgs] ELSE s

Report(version) == <<Message("state_report", version)>>

CanReport(c) == Open(c) => Len(sock[c].outbound) < MaxQueue

(* The agent takes the first frame sent to it. *)
Received(s) == [s EXCEPT !.inbound = Tail(@)]

(* server_hello is followed by sync_request and a first state report. *)
AgentHello ==
  LET c == agent.conn IN
  /\ c # 0 /\ ~agent.up
  /\ sock[c].inbound # <<>> /\ Head(sock[c].inbound).type = "server_hello"
  /\ sock' = [sock EXCEPT ![c] =
                Sent(Received(@), <<Message("sync_request", 0)>> \o Report(agent.cur))]
  /\ agent' = [agent EXCEPT !.up = TRUE]
  /\ AgentFrame

(* A stale version is only answered; any other is cached before it is applied. *)
AgentReceive ==
  LET c == agent.conn
      v == Head(sock[c].inbound).version
  IN
  /\ agent.up /\ agent.applying = 0
  /\ sock[c].inbound # <<>> /\ Head(sock[c].inbound).type = "desired_state"
  /\ IF v < agent.cur
     THEN /\ CanReport(c)
          /\ sock' = [sock EXCEPT ![c] = Sent(Received(@), Report(agent.cur))]
          /\ UNCHANGED agent
     ELSE /\ sock' = [sock EXCEPT ![c] = Received(@)]
          /\ agent' = [agent EXCEPT !.cached = v, !.applying = v]
  /\ AgentFrame

(* Mutant: the version applied is not remembered for the next hello. *)
AgentApplyForgets ==
  LET c == agent.conn IN
  /\ agent.applying # 0 /\ CanReport(c)
  /\ agent' = [agent EXCEPT !.applied = agent.applying, !.applying = 0]
  /\ sock' = [sock EXCEPT ![c] = Sent(@, Report(agent.cur))]
  /\ AgentFrame

AgentApply ==
  LET c == agent.conn IN
  /\ agent.applying # 0 /\ CanReport(c)
  /\ agent' = [agent EXCEPT !.applied = agent.applying, !.cur = agent.applying,
                            !.applying = 0]
  /\ sock' = [sock EXCEPT ![c] = Sent(@, Report(agent.applying))]
  /\ AgentFrame

(* The report interval and the inventory reporter; a report more matters   *)
(* only when none is in flight, or after a version was applied.            *)
AgentReport ==
  /\ agent.up /\ Open(agent.conn) /\ CanReport(agent.conn)
  /\ \A k \in 1..Len(sock[agent.conn].outbound) :
       sock[agent.conn].outbound[k].type # "state_report"
  /\ sock' = [sock EXCEPT ![agent.conn] = Sent(@, Report(agent.cur))]
  /\ UNCHANGED agent /\ AgentFrame

AgentSeesClose ==
  LET c == agent.conn IN
  /\ c # 0 /\ agent.applying = 0 /\ ~Open(c) /\ sock[c].inbound = <<>>
  /\ agent' = [agent EXCEPT !.conn = 0, !.up = FALSE]
  /\ UNCHANGED sock /\ AgentFrame

-----------------------------------------------------------------------------
(* Faults.  Each counts against MaxFaults. *)

Fault(kind) == kind \in FaultKinds /\ faults < MaxFaults /\ faults' = faults + 1

(* The agent loses its connection; what it sent may still arrive. *)
Drop ==
  /\ Fault("drop") /\ agent.conn # 0 /\ agent.applying = 0
  /\ sock' = [sock EXCEPT ![agent.conn].inbound = <<>>]
  /\ agent' = [agent EXCEPT !.conn = 0, !.up = FALSE]
  /\ UNCHANGED <<dbVars, doVars>>

(* The agent restarts and takes the cached document as its current one. *)
AgentRestart ==
  /\ Fault("agent")
  /\ sock' = IF agent.conn = 0 THEN sock
             ELSE [sock EXCEPT ![agent.conn].inbound = <<>>]
  /\ agent' = [agent EXCEPT !.conn = 0, !.up = FALSE, !.applying = 0,
                            !.cur = agent.cached]
  /\ UNCHANGED <<dbVars, doVars>>

(* The Durable Object is evicted; sockets, attachments and alarm survive. *)
RuntimeRestart ==
  /\ Fault("runtime")
  /\ hello' = IdleHello /\ disp' = IdleDispatch
  /\ sock' = [c \in Conns |-> [sock[c] EXCEPT !.want = "none"]]
  /\ UNCHANGED <<dbVars, wake, alarm, agent>>

LoseWake ==
  /\ Fault("wake") /\ wake
  /\ wake' = FALSE
  /\ UNCHANGED <<dbVars, sock, hello, disp, alarm, agent>>

(* A relay grant that fails costs the connection. *)
RelayFails ==
  /\ Fault("relay") /\ Relayed /\ disp.pc = "check"
  /\ sock' = [sock EXCEPT ![disp.conn] = Closed(@)]
  /\ disp' = IdleDispatch /\ alarm' = TRUE
  /\ UNCHANGED <<dbVars, hello, wake, agent>>

(* The deadline passes while the hello is being handled. *)
SlowHello ==
  /\ Fault("timeout") /\ hello.pc # "idle"
  /\ Open(hello.conn) /\ ~sock[hello.conn].promoted
  /\ sock' = [sock EXCEPT ![hello.conn] = Closed(@)]
  /\ UNCHANGED <<dbVars, doVars, agent>>

ImagesFail ==
  /\ Fault("images") /\ hello.pc = "reconcile"
  /\ hello' = [hello EXCEPT !.pc = "rollback"]
  /\ UNCHANGED <<dbVars, sock, disp, wake, alarm, agent>>

-----------------------------------------------------------------------------
Next ==
  \/ \E c \in Conns : HelloBegin(c)
  \/ HelloSteps
  \/ \E c \in Conns : DispatchBegin(c)
  \/ DispatchCheck \/ DispatchSend
  \/ Commit \/ Sweep \/ HandleWake \/ Alarm
  \/ \E c \in Conns : \E i \in 1..MaxQueue : HandleMessage(c, i)
  \/ \E c \in Conns : NoticeClosed(c) \/ HandleSocketClosed(c) \/ HelloTimeout(c)
  \/ Connect \/ AgentHello \/ AgentReceive \/ AgentApply \/ AgentReport
  \/ AgentSeesClose
  \/ Drop \/ AgentRestart \/ RuntimeRestart \/ LoseWake \/ RelayFails
  \/ SlowHello \/ ImagesFail

Spec == Init /\ [][Next]_vars

(* Handlers run to their end, time passes, the network delivers, the lock  *)
(* queues are first come first served.  Commits and faults are not fair.   *)
Fairness ==
  /\ WF_vars(HelloSteps)
  /\ WF_vars(DispatchCheck) /\ WF_vars(DispatchSend)
  /\ WF_vars(Sweep) /\ WF_vars(HandleWake) /\ WF_vars(Alarm)
  /\ WF_vars(Connect) /\ WF_vars(AgentHello) /\ WF_vars(AgentReceive)
  /\ WF_vars(AgentApply) /\ WF_vars(AgentReport) /\ WF_vars(AgentSeesClose)
  /\ \A c \in Conns :
       /\ SF_vars(HelloBegin(c)) /\ SF_vars(DispatchBegin(c))
       /\ WF_vars(HandleMessage(c, 1))
       /\ WF_vars(NoticeClosed(c))
       /\ WF_vars(HandleSocketClosed(c)) /\ WF_vars(HelloTimeout(c))

FairSpec == Spec /\ Fairness

-----------------------------------------------------------------------------
(* Properties *)

Versions == 0..MaxVersion

ServerFrames == [type : {"server_hello", "desired_state"}, version : Versions]
ClientFrames == [type : {"client_hello", "sync_request", "state_report"},
                 version : Versions, late : BOOLEAN]
SocketStates ==
  [srv : {"none", "open", "closing"}, session : BOOLEAN, promoted : BOOLEAN,
   lastSent : Versions, want : {"none", "plain", "force"},
   inbound : Seq(ServerFrames), outbound : Seq(ClientFrames)]
HelloStates ==
  [pc : {"idle", "activate", "reconcile", "check", "promote", "rollback", "close"},
   conn : 0..MaxConn, prev : 0..MaxConn, applied : Versions, version : Versions,
   ok : BOOLEAN]
DispatchStates ==
  [pc : {"idle", "check", "send"}, conn : 0..MaxConn, version : Versions, ok : BOOLEAN]
AgentStates ==
  [conn : 0..MaxConn, up : BOOLEAN, cur : Versions, cached : Versions,
   applied : Versions, applying : Versions]

(* Every variable has its type. *)
TypeOK ==
  /\ desired \in 1..MaxVersion /\ active \in 0..MaxConn
  /\ actual \in [session : 0..MaxConn, applied : Versions]
  /\ sock \in [Conns -> SocketStates]
  /\ hello \in HelloStates /\ disp \in DispatchStates
  /\ wake \in BOOLEAN /\ alarm \in BOOLEAN
  /\ agent \in AgentStates /\ faults \in 0..MaxFaults

(* The first server frame an agent sees on a connection is server_hello,   *)
(* and it sees no second one: a wake racing the handshake sends nothing.   *)
ServerHelloFirst ==
  \A c \in Conns : \A k \in 1..Len(sock[c].inbound) :
    sock[c].inbound[k].type = "server_hello" <=> (k = 1 /\ ~agent.up)

(* The stored inventory is evidence of the active session: a report of a   *)
(* replaced session never survives the swap or is written after it.        *)
EvidenceIsCurrent == actual.session # 0 /\ active # 0 => actual.session = active

(* Within a session the recorded version never goes back, although report  *)
(* handlers overtake each other.                                           *)
RecordedVersionForward ==
  [][actual'.session = actual.session => actual'.applied >= actual.applied]_actual

(* What the Durable Object believes it sent on the agent's connection is   *)
(* on its way, or the agent has it.                                        *)
SentIsNotLost ==
  LET c == agent.conn IN
  c # 0 /\ Open(c) =>
    \/ sock[c].lastSent <= agent.cached
    \/ \E k \in 1..Len(sock[c].inbound) :
         sock[c].inbound[k] = Frame("desired_state", sock[c].lastSent)

(* A socket gets nothing before its server_hello, and what the dispatch    *)
(* recorded as sent is in the hands of the agent that is connected, or in  *)
(* flight to it.                                                           *)
BridgeSound ==
  /\ TypeOK
  /\ ServerHelloFirst
  /\ SentIsNotLost

(* "all converge": once commits and faults stop, the agent applies the     *)
(* last committed version and the control plane records that it did.       *)
Converges == <>[](agent.applied = desired /\ actual.applied = desired)

(* "the host acknowledges by reporting": a recorded version was applied. *)
AcknowledgedIsApplied == actual.applied <= agent.applied
=============================================================================
