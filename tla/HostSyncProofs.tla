--------------------------- MODULE HostSyncProofs ---------------------------
(***************************************************************************)
(* The bridge of HostSync, for any number of sockets, versions, frames and *)
(* faults: the session fence (EvidenceCorrect), the order and durability   *)
(* of what is sent (BridgeCorrect) and the order of what is recorded       *)
(* (RecordedForward).                                                      *)
(***************************************************************************)
EXTENDS HostSync, TLAPS

(* The initial state has neither a session nor a report. *)
LEMMA InitEvidence == Init => EvidenceIsCurrent
BY DEF Init, EvidenceIsCurrent, NoReport

(* Only the hello handler, its rollback, a close and a report touch the    *)
(* session or the stored inventory; each keeps the two in step.            *)
LEMMA NextEvidence == EvidenceIsCurrent /\ [Next]_vars => EvidenceIsCurrent'
<1> SUFFICES ASSUME EvidenceIsCurrent, [Next]_vars
             PROVE  EvidenceIsCurrent'
  OBVIOUS
<1> USE DEF EvidenceIsCurrent
<1>1. ASSUME UNCHANGED <<active, actual>>
      PROVE  EvidenceIsCurrent'
  BY <1>1
<1>2. CASE HelloActivate
  BY <1>2 DEF HelloActivate, NoReport
<1>3. CASE HelloRollback
  BY <1>3 DEF HelloRollback
<1>4. ASSUME NEW c \in Conns, HandleSocketClosed(c)
      PROVE  EvidenceIsCurrent'
  BY <1>4 DEF HandleSocketClosed
<1>5. ASSUME NEW c \in Conns, NEW i \in 1..MaxQueue, HandleMessage(c, i)
      PROVE  EvidenceIsCurrent'
  <2>1. CASE active # c
    BY <1>1, <1>5, <2>1 DEF HandleMessage
  <2>2. CASE active = c
    <3>1. UNCHANGED active
      BY <1>5 DEF HandleMessage
    <3>2. \/ UNCHANGED actual
          \/ actual' = [session |-> c, applied |-> sock[c].outbound[i].version]
      BY <1>5, <2>2, Zenon DEF HandleMessage
    <3>3. QED
      BY <2>2, <3>1, <3>2
  <2>3. QED
    BY <2>1, <2>2
<1>6. CASE HelloReconcile \/ HelloCheck \/ HelloPromote \/ HelloClose
  <2>1. UNCHANGED <<active, actual>>
    BY <1>6 DEF HelloReconcile, HelloCheck, HelloPromote, HelloClose, dbVars
  <2>2. QED
    BY <1>1, <2>1
<1>7. ASSUME NEW c \in Conns,
             HelloBegin(c) \/ DispatchBegin(c) \/ NoticeClosed(c) \/ HelloTimeout(c)
      PROVE  EvidenceIsCurrent'
  <2>1. UNCHANGED <<active, actual>>
    BY <1>7 DEF HelloBegin, DispatchBegin, DispatchFrame, NoticeClosed, HelloTimeout, dbVars
  <2>2. QED
    BY <1>1, <2>1
<1>8. CASE DispatchCheck \/ DispatchSend \/ Commit \/ Sweep \/ HandleWake \/ Alarm
  <2>1. UNCHANGED <<active, actual>>
    BY <1>8 DEF DispatchCheck, DispatchSend, DispatchFrame, Commit, Sweep, HandleWake,
                Alarm, dbVars
  <2>2. QED
    BY <1>1, <2>1
<1>9. CASE \/ Connect \/ AgentHello \/ AgentReceive \/ AgentApply \/ AgentReport
           \/ AgentSeesClose
  <2>1. UNCHANGED <<active, actual>>
    BY <1>9 DEF Connect, AgentHello, AgentReceive, AgentApply, AgentReport,
                AgentSeesClose, AgentFrame, dbVars
  <2>2. QED
    BY <1>1, <2>1
<1>10. CASE \/ Drop \/ AgentRestart \/ RuntimeRestart \/ LoseWake \/ RelayFails
            \/ SlowHello \/ ImagesFail
  <2>1. UNCHANGED <<active, actual>>
    BY <1>10 DEF Drop, AgentRestart, RuntimeRestart, LoseWake, RelayFails, SlowHello,
                 ImagesFail, dbVars
  <2>2. QED
    BY <1>1, <2>1
<1>11. CASE UNCHANGED vars
  BY <1>1, <1>11 DEF vars
<1>12. QED
  BY <1>2, <1>3, <1>4, <1>5, <1>6, <1>7, <1>8, <1>9, <1>10, <1>11 DEF Next, HelloSteps

(* The inventory stored for a host is evidence of the session now active,  *)
(* however hellos, closes and late reports of older sessions interleave    *)
(* (the activation batch of handleBridgeClientHello and the session fence  *)
(* of persistHostReport).                                                  *)
THEOREM EvidenceCorrect == Spec => []EvidenceIsCurrent
BY InitEvidence, NextEvidence, PTL DEF Spec

-----------------------------------------------------------------------------
(* The inductive invariant.  Everything about a socket is said of the      *)
(* server's end s, the connection c and the agent a, so that a step that   *)
(* changes only one of them is a fact about that one.                      *)

(* Frames wait only for the agent that is connected. *)
Addressed(s, c, a) == s.inbound # <<>> => a.conn = c

(* Where a connection is in its handshake: the one client_hello is there   *)
(* until a session is opened, the agent hears nothing until promotion, and *)
(* from then on server_hello is under way until the agent has it.          *)
Shaken(s, c, a) ==
  /\ s.want # "none" => s.srv = "open" /\ s.promoted
  /\ s.srv = "open" /\ ~s.promoted => s.inbound = <<>> /\ (a.conn = c => ~a.up)
  /\ s.srv = "open" /\ s.promoted =>
       s.session /\ (a.conn = c /\ ~a.up => s.inbound # <<>>)
  /\ s.srv = "open" /\ s.session =>
       \A k \in 1..Len(s.outbound) : s.outbound[k].type # "client_hello"
  /\ s.srv = "open" /\ ~s.session => Len(s.outbound) = 1

(* Reports on their way are of versions the agent has, oldest first. *)
Bounded(s, a) == \A k \in 1..Len(s.outbound) : s.outbound[k].version <= a.cur
Ordered(s) ==
  \A j, k \in 1..Len(s.outbound) :
    j < k /\ s.outbound[j].type = "state_report" /\ s.outbound[k].type = "state_report"
      => s.outbound[j].version <= s.outbound[k].version

(* ServerHelloFirst and SentIsNotLost, of one socket. *)
HelloFirst(s, a) ==
  \A k \in 1..Len(s.inbound) : s.inbound[k].type = "server_hello" <=> (k = 1 /\ ~a.up)
NotLost(s, c, a) ==
  a.conn = c /\ s.srv = "open" =>
    \/ s.lastSent <= a.cached
    \/ \E k \in 1..Len(s.inbound) : s.inbound[k] = Frame("desired_state", s.lastSent)

Sound(s, c, a) ==
  /\ s \in SocketStates
  /\ Addressed(s, c, a) /\ Shaken(s, c, a)
  /\ Bounded(s, a) /\ Ordered(s)
  /\ HelloFirst(s, a) /\ NotLost(s, c, a)

(* A document is current once it is applied, and cached before. *)
AgentSound(a) ==
  /\ a \in AgentStates
  /\ a.up => a.conn # 0
  /\ a.applying # 0 => a.up
  /\ a.cur <= a.cached /\ a.applying \in {0, a.cached}
  /\ a.applying = 0 => a.cur = a.cached

(* What a handler under way may assume of its socket. *)
HelloSound ==
  /\ hello \in HelloStates /\ hello.applied <= agent.cur
  /\ hello.pc # "idle" => hello.conn \in Conns
  /\ hello.pc \in {"activate", "reconcile", "check", "promote"}
       /\ sock[hello.conn].srv = "open" =>
         sock[hello.conn].session /\ ~sock[hello.conn].promoted
  /\ hello.pc = "close" /\ sock[hello.conn].srv = "open" => sock[hello.conn].promoted
DispatchSound ==
  /\ disp \in DispatchStates
  /\ disp.pc # "idle" => disp.conn \in Conns
  /\ disp.pc # "idle" /\ sock[disp.conn].srv = "open" => sock[disp.conn].promoted

(* No report in flight that still counts is older than the recorded one. *)
Fresh(s, n) ==
  \A k \in 1..Len(s.outbound) :
    s.outbound[k].type = "state_report" /\ ~s.outbound[k].late => s.outbound[k].version >= n
RecordSound ==
  /\ actual \in [session : 0..MaxConn, applied : Versions]
  /\ actual.applied <= agent.cur
  /\ actual.session = 0 => actual.applied = 0
  /\ actual.session # 0 => Fresh(sock[actual.session], actual.applied)

Rest ==
  /\ desired \in 1..MaxVersion /\ active \in 0..MaxConn
  /\ wake \in BOOLEAN /\ alarm \in BOOLEAN /\ faults \in 0..MaxFaults

SocketsSound ==
  /\ sock = [c \in Conns |-> sock[c]]
  /\ \A c \in Conns : Sound(sock[c], c, agent)

BridgeInv ==
  /\ Rest /\ SocketsSound /\ AgentSound(agent)
  /\ HelloSound /\ DispatchSound /\ RecordSound

(* The bounds are numbers. *)
LEMMA Bounds ==
  /\ MaxConn \in Nat /\ MaxVersion \in Nat /\ MaxQueue \in Nat /\ MaxFaults \in Nat
  /\ MaxVersion > 0 /\ Relayed \in BOOLEAN
BY SyncAssumption

(* The invariant is about what the properties say. *)
LEMMA BridgeInvSound == BridgeInv => BridgeSound
<1> SUFFICES ASSUME BridgeInv PROVE BridgeSound
  OBVIOUS
<1>1. TypeOK
  BY DEF BridgeInv, Rest, SocketsSound, Sound, AgentSound, HelloSound, DispatchSound,
         RecordSound, TypeOK
<1>2. ServerHelloFirst
  BY DEF BridgeInv, SocketsSound, Sound, HelloFirst, ServerHelloFirst
<1>3. SentIsNotLost
  <2>1. CASE agent.conn = 0
    BY <2>1 DEF SentIsNotLost
  <2>2. CASE agent.conn # 0
    <3>1. agent.conn \in Conns
      BY <2>2, Bounds DEF BridgeInv, AgentSound, AgentStates, Conns
    <3>2. NotLost(sock[agent.conn], agent.conn, agent)
      BY <3>1 DEF BridgeInv, SocketsSound, Sound
    <3>3. QED
      BY <3>2 DEF NotLost, SentIsNotLost, Open
  <2>3. QED
    BY <2>1, <2>2
<1>4. QED
  BY <1>1, <1>2, <1>3 DEF BridgeSound

LEMMA InitBridge == Init => BridgeInv
<1> SUFFICES ASSUME Init PROVE BridgeInv
  OBVIOUS
<1> USE Bounds
<1>1. NoSocket \in SocketStates
  BY DEF NoSocket, SocketStates, Versions
<1>2. AgentSound(agent)
  BY DEF Init, AgentSound, AgentStates, Versions
<1>3. SocketsSound
  <2>1. ASSUME NEW c \in Conns PROVE Sound(sock[c], c, agent)
    <3>1. sock[c] = NoSocket
      BY DEF Init
    <3>2. QED
      BY <1>1, <3>1 DEF Init, NoSocket, Sound, Addressed, Shaken, Bounded, Ordered,
                        HelloFirst, NotLost
  <2>2. QED
    BY <2>1 DEF Init, SocketsSound
<1>4. HelloSound
  BY DEF Init, IdleHello, HelloSound, HelloStates, Versions
<1>5. DispatchSound
  BY DEF Init, IdleDispatch, DispatchSound, DispatchStates, Versions
<1>6. RecordSound
  BY DEF Init, NoReport, RecordSound, Versions
<1>7. Rest
  <2>1. desired = 1 /\ active = 0 /\ faults = 0
    BY DEF Init
  <2>2. desired \in 1..MaxVersion /\ active \in 0..MaxConn /\ faults \in 0..MaxFaults
    BY <2>1
  <2>3. wake \in BOOLEAN /\ alarm \in BOOLEAN
    BY Zenon DEF Init
  <2>4. QED
    BY <2>2, <2>3 DEF Rest
<1>8. QED
  BY <1>2, <1>3, <1>4, <1>5, <1>6, <1>7 DEF BridgeInv

-----------------------------------------------------------------------------
(* What the operators on a socket keep. *)

(* A change from s to t that takes nothing away from what a handler under  *)
(* way assumes, and adds no report older than m.                           *)
Calm(s, t, m) ==
  /\ t.srv = "open" =>
       s.srv = "open" /\ t.session = s.session /\ t.promoted = s.promoted
  /\ \A n \in Versions : n <= m /\ Fresh(s, n) => Fresh(t, n)

(* A socket that is not the agent's does not notice what the agent does. *)
LEMMA OtherAgent ==
  ASSUME NEW c \in Conns, NEW s, NEW a \in AgentStates, NEW b \in AgentStates,
         Sound(s, c, a), s.inbound = <<>>, b.conn # c, a.cur <= b.cur
  PROVE  Sound(s, c, b)
<1> USE Bounds DEF Versions
<1>1. s \in SocketStates
  BY DEF Sound
<1>2. Addressed(s, c, b) /\ Shaken(s, c, b)
  BY <1>1 DEF Sound, Addressed, Shaken
<1>3. Bounded(s, b)
  <2>1. ASSUME NEW k \in 1..Len(s.outbound) PROVE s.outbound[k].version <= b.cur
    <3>1. s.outbound[k].version <= a.cur
      BY DEF Sound, Bounded
    <3>2. s.outbound[k] \in ClientFrames
      BY <1>1 DEF SocketStates
    <3>3. QED
      BY <3>1, <3>2 DEF AgentStates, ClientFrames
  <2>2. QED
    BY <2>1 DEF Bounded
<1>4. HelloFirst(s, b) /\ NotLost(s, c, b)
  BY <1>1 DEF HelloFirst, NotLost
<1>5. QED
  BY <1>1, <1>2, <1>3, <1>4 DEF Sound

(* socket.close(). *)
LEMMA ClosedSound ==
  ASSUME NEW c, NEW a, NEW s, NEW m, Sound(s, c, a)
  PROVE  Sound(Closed(s), c, a) /\ Calm(s, Closed(s), m)
<1>1. s \in SocketStates
  BY DEF Sound
<1>2. CASE s.srv # "open"
  BY <1>2 DEF Closed, Calm
<1>3. CASE s.srv = "open"
  <2> DEFINE t == Closed(s)
  <2>1. /\ t \in SocketStates /\ t.srv = "closing" /\ t.want = "none"
        /\ t.inbound = s.inbound /\ t.outbound = s.outbound
    BY <1>1, <1>3 DEF Closed, SocketStates
  <2> HIDE DEF t
  <2>2. Addressed(t, c, a) /\ Shaken(t, c, a)
    BY <2>1 DEF Sound, Addressed, Shaken
  <2>3. Bounded(t, a) /\ Ordered(t)
    BY <2>1 DEF Sound, Bounded, Ordered
  <2>4. HelloFirst(t, a) /\ NotLost(t, c, a)
    BY <2>1 DEF Sound, HelloFirst, NotLost
  <2>5. Calm(s, t, m)
    BY <2>1 DEF Calm, Fresh
  <2>6. QED
    BY <2>1, <2>2, <2>3, <2>4, <2>5 DEF Sound, t
<1>4. QED
  BY <1>2, <1>3

(* The same, with what the agent sent thrown away. *)
LEMMA ClearedSound ==
  ASSUME NEW c, NEW a, NEW s, NEW m, Sound(s, c, a), s.srv = "open"
  PROVE  /\ Sound([Closed(s) EXCEPT !.outbound = <<>>], c, a)
         /\ Calm(s, [Closed(s) EXCEPT !.outbound = <<>>], m)
<1> DEFINE u == Closed(s)
           t == [u EXCEPT !.outbound = <<>>]
<1>1. s \in SocketStates
  BY DEF Sound
<1>2. /\ u \in SocketStates /\ u.srv = "closing" /\ u.want = "none"
      /\ u.inbound = s.inbound
  BY <1>1 DEF Closed, SocketStates
<1> HIDE DEF u
<1>0. <<>> \in Seq(ClientFrames)
  OBVIOUS
<1>3. /\ t \in SocketStates /\ t.srv = "closing" /\ t.want = "none"
      /\ t.inbound = s.inbound /\ t.outbound = <<>>
  BY <1>0, <1>2 DEF SocketStates
<1> HIDE DEF t
<1>4. Addressed(t, c, a) /\ Shaken(t, c, a)
  BY <1>3 DEF Sound, Addressed, Shaken
<1>5. Bounded(t, a) /\ Ordered(t)
  BY <1>3 DEF Bounded, Ordered
<1>6. HelloFirst(t, a) /\ NotLost(t, c, a)
  BY <1>3 DEF Sound, HelloFirst, NotLost
<1>7. Calm(s, t, m)
  BY <1>3 DEF Calm, Fresh
<1>8. QED
  BY <1>3, <1>4, <1>5, <1>6, <1>7 DEF Sound, t, u

(* A dispatch asked for, or begun. *)
LEMMA WantSound ==
  ASSUME NEW c, NEW a, NEW s, NEW m, Sound(s, c, a), NEW w \in {"none", "plain", "force"},
         w # "none" => s.srv = "open" /\ s.promoted
  PROVE  Sound([s EXCEPT !.want = w], c, a) /\ Calm(s, [s EXCEPT !.want = w], m)
<1> DEFINE t == [s EXCEPT !.want = w]
<1>1. s \in SocketStates
  BY DEF Sound
<1>2. /\ t \in SocketStates /\ t.want = w /\ t.srv = s.srv /\ t.session = s.session
      /\ t.promoted = s.promoted /\ t.lastSent = s.lastSent
      /\ t.inbound = s.inbound /\ t.outbound = s.outbound
  BY <1>1 DEF SocketStates
<1> HIDE DEF t
<1>3. Addressed(t, c, a) /\ Shaken(t, c, a)
  BY <1>2 DEF Sound, Addressed, Shaken
<1>4. Bounded(t, a) /\ Ordered(t)
  BY <1>2 DEF Sound, Bounded, Ordered
<1>5. HelloFirst(t, a) /\ NotLost(t, c, a)
  BY <1>2 DEF Sound, HelloFirst, NotLost
<1>6. Calm(s, t, m)
  BY <1>2 DEF Calm, Fresh
<1>7. QED
  BY <1>2, <1>3, <1>4, <1>5, <1>6 DEF Sound, t

LEMMA WantedSound ==
  ASSUME NEW c, NEW a, NEW s, NEW m, Sound(s, c, a), NEW force,
         s.srv = "open", s.promoted
  PROVE  Sound(Wanted(s, force), c, a) /\ Calm(s, Wanted(s, force), m)
<1> DEFINE w == IF force \/ s.want = "force" THEN "force" ELSE "plain"
<1>1. w \in {"none", "plain", "force"}
  OBVIOUS
<1>2. Wanted(s, force) = [s EXCEPT !.want = w]
  BY DEF Wanted, Sound, SocketStates
<1> HIDE DEF w
<1>3. Sound([s EXCEPT !.want = w], c, a) /\ Calm(s, [s EXCEPT !.want = w], m)
  BY <1>1, WantSound
<1>4. QED
  BY <1>2, <1>3

(* handleSocketClosed forgets all but the frames already sent. *)
LEMMA ForgottenSound ==
  ASSUME NEW c, NEW a, NEW s, NEW m, Sound(s, c, a)
  PROVE  /\ Sound([NoSocket EXCEPT !.inbound = s.inbound], c, a)
         /\ Calm(s, [NoSocket EXCEPT !.inbound = s.inbound], m)
<1> DEFINE t == [NoSocket EXCEPT !.inbound = s.inbound]
<1> USE Bounds DEF Versions
<1>1. s \in SocketStates
  BY DEF Sound
<1>2. NoSocket \in SocketStates
  BY DEF NoSocket, SocketStates
<1>3. /\ t \in SocketStates /\ t.srv = "none" /\ t.want = "none"
      /\ t.inbound = s.inbound /\ t.outbound = <<>>
  BY <1>1, <1>2 DEF NoSocket, SocketStates
<1> HIDE DEF t
<1>4. Addressed(t, c, a) /\ Shaken(t, c, a)
  BY <1>3 DEF Sound, Addressed, Shaken
<1>5. Bounded(t, a) /\ Ordered(t)
  BY <1>3 DEF Bounded, Ordered
<1>6. HelloFirst(t, a) /\ NotLost(t, c, a)
  BY <1>3 DEF Sound, HelloFirst, NotLost
<1>7. Calm(s, t, m)
  BY <1>3 DEF Calm, Fresh
<1>8. QED
  BY <1>3, <1>4, <1>5, <1>6, <1>7 DEF Sound, t

-----------------------------------------------------------------------------
(* What a step has to show, by what it changes. *)

(* A handler under way finds its socket as it left it, or closed. *)
LEMMA HelloKept ==
  ASSUME HelloSound, agent \in AgentStates, agent' \in AgentStates,
         agent.cur <= agent'.cur, UNCHANGED hello,
         \A c \in Conns : c = hello.conn /\ sock'[c].srv = "open" =>
           /\ sock[c].srv = "open"
           /\ sock'[c].session = sock[c].session
           /\ sock'[c].promoted = sock[c].promoted
  PROVE  HelloSound'
<1>1. hello \in HelloStates /\ hello.applied <= agent'.cur
  BY Bounds DEF HelloSound, HelloStates, AgentStates, Versions
<1>2. CASE hello.pc = "idle"
  BY <1>1, <1>2 DEF HelloSound
<1>3. CASE hello.pc # "idle"
  <2>1. hello.conn \in Conns
    BY <1>3 DEF HelloSound
  <2>2. QED
    BY <1>1, <1>3, <2>1 DEF HelloSound
<1>4. QED
  BY <1>2, <1>3

LEMMA DispatchKept ==
  ASSUME DispatchSound, UNCHANGED disp,
         \A c \in Conns : c = disp.conn /\ sock'[c].srv = "open" =>
           /\ sock[c].srv = "open"
           /\ sock[c].promoted => sock'[c].promoted
  PROVE  DispatchSound'
<1>1. CASE disp.pc = "idle"
  BY <1>1 DEF DispatchSound
<1>2. CASE disp.pc # "idle"
  <2>1. disp.conn \in Conns
    BY <1>2 DEF DispatchSound
  <2>2. sock'[disp.conn].srv = "open" => sock'[disp.conn].promoted
    <3>1. SUFFICES ASSUME sock'[disp.conn].srv = "open" PROVE sock'[disp.conn].promoted
      OBVIOUS
    <3>2. sock[disp.conn].srv = "open"
      BY <2>1, <3>1
    <3>3. sock[disp.conn].promoted
      BY <1>2, <3>2 DEF DispatchSound
    <3>4. QED
      BY <2>1, <3>1, <3>3
  <2>3. QED
    BY <2>1, <2>2 DEF DispatchSound
<1>3. QED
  BY <1>1, <1>2

(* The recorded report stays the oldest that counts. *)
LEMMA RecordKept ==
  ASSUME RecordSound, agent \in AgentStates, agent' \in AgentStates,
         agent.cur <= agent'.cur, UNCHANGED actual,
         \A c \in Conns : c = actual.session /\ Fresh(sock[c], actual.applied) =>
                           Fresh(sock'[c], actual.applied)
  PROVE  RecordSound'
<1>1. actual.applied <= agent'.cur
  BY Bounds DEF RecordSound, AgentStates, Versions
<1>2. CASE actual.session = 0
  BY <1>1, <1>2 DEF RecordSound
<1>3. CASE actual.session # 0
  <2>1. actual.session \in Conns
    BY <1>3, Bounds DEF RecordSound, Conns
  <2>2. QED
    BY <1>1, <1>3, <2>1 DEF RecordSound
<1>4. QED
  BY <1>2, <1>3

(* A calm change keeps what the handlers under way assume. *)
LEMMA CalmStep ==
  ASSUME BridgeInv, Rest', AgentSound(agent'), agent.cur <= agent'.cur,
         UNCHANGED <<hello, disp, actual>>,
         sock' = [c \in Conns |-> sock'[c]],
         \A c \in Conns : Sound(sock'[c], c, agent'),
         \A c \in Conns : c \in {hello.conn, disp.conn, actual.session} =>
                           Calm(sock[c], sock'[c], agent.cur)
  PROVE  BridgeInv'
<1>1. SocketsSound'
  BY DEF SocketsSound
<1>2. agent \in AgentStates /\ agent' \in AgentStates
  BY DEF BridgeInv, AgentSound
<1>3. HelloSound'
  BY <1>2, HelloKept DEF BridgeInv, Calm
<1>4. DispatchSound'
  BY DispatchKept DEF BridgeInv, Calm
<1>5. RecordSound'
  <2>1. actual.applied \in Versions /\ actual.applied <= agent.cur
    BY DEF BridgeInv, RecordSound
  <2>2. QED
    BY <1>2, <2>1, RecordKept DEF BridgeInv, Calm
<1>6. QED
  BY <1>1, <1>3, <1>4, <1>5 DEF BridgeInv

(* Nothing is calmer than no change. *)
LEMMA CalmSame == ASSUME NEW s, NEW m PROVE Calm(s, s, m)
BY DEF Calm

(* A step of the server on one socket. *)
LEMMA ServerStep ==
  ASSUME BridgeInv, Rest', UNCHANGED <<agent, hello, disp, actual>>,
         NEW c \in Conns, NEW t, sock' = [sock EXCEPT ![c] = t],
         Sound(t, c, agent), Calm(sock[c], t, agent.cur)
  PROVE  BridgeInv'
<1>1. /\ sock = [d \in Conns |-> sock[d]]
      /\ \A d \in Conns : Sound(sock[d], d, agent)
      /\ AgentSound(agent) /\ AgentSound(agent')
  BY DEF BridgeInv, SocketsSound
<1>2. ASSUME NEW d \in Conns
      PROVE  Sound(sock'[d], d, agent') /\ Calm(sock[d], sock'[d], agent.cur)
  <2>1. CASE d = c
    BY <1>1, <2>1
  <2>2. CASE d # c
    BY <1>1, <2>2, CalmSame
  <2>3. QED
    BY <2>1, <2>2
<1>3. sock' = [d \in Conns |-> sock'[d]]
  BY <1>1
<1>4. agent.cur <= agent'.cur
  BY <1>1, Bounds DEF AgentSound, AgentStates, Versions
<1>5. QED
  BY <1>1, <1>2, <1>3, <1>4, CalmStep

(* A step of the agent on its own connection. *)
LEMMA AgentStep ==
  ASSUME BridgeInv, Rest', UNCHANGED <<hello, disp, actual>>,
         NEW c \in Conns, agent.conn = c, agent'.conn \in {0, c},
         AgentSound(agent'), agent.cur <= agent'.cur,
         NEW t, sock' = [sock EXCEPT ![c] = t],
         Sound(t, c, agent'), Calm(sock[c], t, agent.cur)
  PROVE  BridgeInv'
<1>1. /\ sock = [d \in Conns |-> sock[d]]
      /\ \A d \in Conns : Sound(sock[d], d, agent)
      /\ agent \in AgentStates /\ agent' \in AgentStates
  BY DEF BridgeInv, SocketsSound, AgentSound
<1>2. ASSUME NEW d \in Conns
      PROVE  Sound(sock'[d], d, agent') /\ Calm(sock[d], sock'[d], agent.cur)
  <2>1. CASE d = c
    BY <1>1, <2>1
  <2>2. CASE d # c
    <3>1. agent.conn # d /\ agent'.conn # d /\ sock[d].inbound = <<>>
      BY <1>1, <2>2, Bounds DEF Conns, Sound, Addressed
    <3>2. Sound(sock[d], d, agent')
      BY <1>1, <3>1, OtherAgent
    <3>3. QED
      BY <1>1, <2>2, <3>2, CalmSame
  <2>3. QED
    BY <2>1, <2>2
<1>3. sock' = [d \in Conns |-> sock'[d]]
  BY <1>1
<1>4. QED
  BY <1>2, <1>3, CalmStep

(* What the agent adds to its socket: reports of its version, and the      *)
(* sync_request.                                                           *)
LEMMA SentSound ==
  ASSUME NEW c \in Conns, NEW a \in AgentStates, NEW s, Sound(s, c, a), a.conn = c,
         NEW ms \in Seq(ClientFrames),
         \A i \in 1..Len(ms) :
           /\ ms[i].type # "client_hello" /\ ~ms[i].late /\ ms[i].version <= a.cur
           /\ ms[i].type = "state_report" => ms[i].version = a.cur,
         s.srv = "open" => s.session,
         NEW m \in Versions, m <= a.cur
  PROVE  Sound(Sent(s, ms), c, a) /\ Calm(s, Sent(s, ms), m)
<1> USE Bounds DEF Versions
<1>1. s \in SocketStates /\ s.outbound \in Seq(ClientFrames)
  BY DEF Sound, SocketStates
<1>2. CASE s.srv # "open"
  BY <1>2, CalmSame DEF Sent
<1>3. CASE s.srv = "open"
  <2> DEFINE q == s.outbound \o ms
             t == Sent(s, ms)
             old(k) == k \in 1..Len(s.outbound) /\ q[k] = s.outbound[k]
             new(k) == \E i \in 1..Len(ms) : q[k] = ms[i]
  <2>1. /\ q \in Seq(ClientFrames) /\ Len(q) = Len(s.outbound) + Len(ms)
        /\ Len(s.outbound) \in Nat /\ Len(ms) \in Nat
        /\ \A k \in 1..Len(s.outbound) : q[k] = s.outbound[k]
        /\ \A i \in 1..Len(ms) : q[Len(s.outbound) + i] = ms[i]
    BY <1>1
  <2>2. t = [s EXCEPT !.outbound = q]
    BY <1>3 DEF Sent
  <2> HIDE DEF q, t
  <2>3. /\ t \in SocketStates /\ t.srv = s.srv /\ t.session = s.session
        /\ t.promoted = s.promoted /\ t.lastSent = s.lastSent /\ t.want = s.want
        /\ t.inbound = s.inbound /\ t.outbound = q
    BY <1>1, <2>1, <2>2 DEF SocketStates
  <2>4. ASSUME NEW k \in 1..Len(q)
        PROVE  old(k) \/ new(k)
    <3>1. CASE k <= Len(s.outbound)
      BY <2>1, <3>1
    <3>2. CASE k > Len(s.outbound)
      <4>1. /\ k - Len(s.outbound) \in 1..Len(ms)
            /\ k = Len(s.outbound) + (k - Len(s.outbound))
        BY <2>1, <3>2
      <4>2. QED
        BY <2>1, <4>1
    <3>3. QED
      BY <2>1, <3>1, <3>2
  <2>5. Addressed(t, c, a) /\ HelloFirst(t, a) /\ NotLost(t, c, a)
    BY <2>3 DEF Sound, Addressed, HelloFirst, NotLost
  <2>6. Shaken(t, c, a)
    <3>1. ASSUME NEW k \in 1..Len(q) PROVE q[k].type # "client_hello"
      BY <1>3, <2>4 DEF Sound, Shaken
    <3>2. QED
      BY <1>3, <2>3, <3>1 DEF Sound, Shaken
  <2>7. Bounded(t, a)
    <3>1. ASSUME NEW k \in 1..Len(q) PROVE q[k].version <= a.cur
      BY <2>4 DEF Sound, Bounded
    <3>2. QED
      BY <2>3, <3>1 DEF Bounded
  <2>8. Ordered(t)
    <3>1. ASSUME NEW j \in 1..Len(q), NEW k \in 1..Len(q), j < k,
                 q[j].type = "state_report", q[k].type = "state_report"
          PROVE  q[j].version <= q[k].version
      <4>1. q[j].version <= a.cur
        BY <2>3, <2>7 DEF Bounded
      <4>2. CASE new(k)
        BY <3>1, <4>1, <4>2
      <4>3. CASE old(k)
        <5>1. j \in 1..Len(s.outbound) /\ q[j] = s.outbound[j]
          BY <2>1, <3>1, <4>3
        <5>2. QED
          BY <3>1, <4>3, <5>1 DEF Sound, Ordered
      <4>4. QED
        BY <2>4, <4>2, <4>3
    <3>2. QED
      BY <2>3, <3>1 DEF Ordered
  <2>9. Calm(s, t, m)
    <3>1. ASSUME NEW n \in Versions, n <= m, Fresh(s, n),
                 NEW k \in 1..Len(q), q[k].type = "state_report", ~q[k].late
          PROVE  q[k].version >= n
      <4>1. CASE old(k)
        BY <3>1, <4>1 DEF Fresh
      <4>2. CASE new(k)
        <5>1. q[k].version = a.cur /\ a.cur \in Nat
          BY <3>1, <4>2 DEF AgentStates
        <5>2. QED
          BY <3>1, <5>1
      <4>3. QED
        BY <2>4, <4>1, <4>2
    <3>2. QED
      BY <2>3, <3>1 DEF Calm, Fresh
  <2>10. QED
    BY <2>3, <2>5, <2>6, <2>7, <2>8, <2>9 DEF Sound, t
<1>4. QED
  BY <1>2, <1>3

(* An agent that knows more than before, on the same connection. *)
LEMMA GrownSound ==
  ASSUME NEW c \in Conns, NEW s, NEW a \in AgentStates, NEW b \in AgentStates,
         Sound(s, c, a), b.conn = a.conn, b.up = a.up,
         a.cur <= b.cur, a.cached <= b.cached
  PROVE  Sound(s, c, b)
<1> USE Bounds DEF Versions
<1>1. s \in SocketStates
  BY DEF Sound
<1>2. Addressed(s, c, b) /\ Shaken(s, c, b) /\ HelloFirst(s, b)
  BY DEF Sound, Addressed, Shaken, HelloFirst
<1>3. Bounded(s, b)
  <2>1. ASSUME NEW k \in 1..Len(s.outbound) PROVE s.outbound[k].version <= b.cur
    <3>1. s.outbound[k].version <= a.cur
      BY DEF Sound, Bounded
    <3>2. s.outbound[k] \in ClientFrames
      BY <1>1 DEF SocketStates
    <3>3. QED
      BY <3>1, <3>2 DEF AgentStates, ClientFrames
  <2>2. QED
    BY <2>1 DEF Bounded
<1>4. NotLost(s, c, b)
  <2>1. s.lastSent <= a.cached => s.lastSent <= b.cached
    BY <1>1 DEF AgentStates, SocketStates
  <2>2. QED
    BY <2>1 DEF Sound, NotLost
<1>5. QED
  BY <1>1, <1>2, <1>3, <1>4 DEF Sound

(* An agent that takes the first frame: server_hello, after which it is    *)
(* up, or a version that it has by now.                                    *)
LEMMA PoppedSound ==
  ASSUME NEW c \in Conns, NEW s, NEW a \in AgentStates, NEW b \in AgentStates,
         Sound(s, c, a), s.inbound # <<>>, b.conn = a.conn, b.up,
         a.cur <= b.cur, a.cached <= b.cached,
         s.inbound[1].type = "server_hello" \/ s.inbound[1].version <= b.cached,
         NEW m
  PROVE  Sound(Received(s), c, b) /\ Calm(s, Received(s), m)
<1> USE Bounds DEF Versions
<1> DEFINE q == Tail(s.inbound)
           t == Received(s)
<1>1. s \in SocketStates /\ s.inbound \in Seq(ServerFrames)
  BY DEF Sound, SocketStates
<1>2. /\ q \in Seq(ServerFrames) /\ Len(q) = Len(s.inbound) - 1
      /\ Len(s.inbound) \in Nat /\ Len(s.inbound) >= 1
      /\ \A k \in 1..Len(q) : q[k] = s.inbound[k + 1]
  BY <1>1
<1>3. t = [s EXCEPT !.inbound = q]
  BY DEF Received
<1> HIDE DEF q, t
<1>4. /\ t \in SocketStates /\ t.srv = s.srv /\ t.session = s.session
      /\ t.promoted = s.promoted /\ t.lastSent = s.lastSent /\ t.want = s.want
      /\ t.inbound = q /\ t.outbound = s.outbound
  BY <1>1, <1>2, <1>3 DEF SocketStates
<1>5. a.conn = c /\ (s.srv = "open" => s.promoted)
  BY DEF Sound, Addressed, Shaken
<1>6. Addressed(t, c, b) /\ Shaken(t, c, b)
  BY <1>4, <1>5 DEF Sound, Addressed, Shaken
<1>7. Bounded(t, b)
  <2>1. ASSUME NEW k \in 1..Len(s.outbound) PROVE s.outbound[k].version <= b.cur
    <3>1. s.outbound[k].version <= a.cur
      BY DEF Sound, Bounded
    <3>2. s.outbound[k] \in ClientFrames
      BY <1>1 DEF SocketStates
    <3>3. QED
      BY <3>1, <3>2 DEF AgentStates, ClientFrames
  <2>2. QED
    BY <1>4, <2>1 DEF Bounded
<1>8. Ordered(t) /\ Calm(s, t, m)
  BY <1>4 DEF Sound, Ordered, Calm, Fresh
<1>9. HelloFirst(t, b)
  <2>1. ASSUME NEW k \in 1..Len(q) PROVE q[k].type # "server_hello"
    <3>1. k + 1 \in 1..Len(s.inbound) /\ k + 1 # 1 /\ q[k] = s.inbound[k + 1]
      BY <1>2
    <3>2. QED
      BY <3>1 DEF Sound, HelloFirst
  <2>2. QED
    BY <1>4, <2>1 DEF HelloFirst
<1>10. NotLost(t, c, b)
  <2>1. SUFFICES ASSUME s.srv = "open"
                 PROVE  \/ s.lastSent <= b.cached
                        \/ \E k \in 1..Len(q) : q[k] = Frame("desired_state", s.lastSent)
    BY <1>4 DEF NotLost
  <2>2. CASE s.lastSent <= a.cached
    BY <1>1, <2>2 DEF AgentStates, SocketStates
  <2>3. ASSUME NEW k \in 1..Len(s.inbound),
               s.inbound[k] = Frame("desired_state", s.lastSent)
        PROVE  \/ s.lastSent <= b.cached
               \/ \E i \in 1..Len(q) : q[i] = Frame("desired_state", s.lastSent)
    <3>1. CASE k = 1
      BY <2>3, <3>1 DEF Frame
    <3>2. CASE k # 1
      <4>1. k - 1 \in 1..Len(q) /\ q[k - 1] = s.inbound[k]
        BY <1>2, <3>2
      <4>2. QED
        BY <2>3, <4>1
    <3>3. QED
      BY <3>1, <3>2
  <2>4. QED
    BY <1>5, <2>1, <2>2, <2>3 DEF Sound, NotLost
<1>11. QED
  BY <1>4, <1>6, <1>7, <1>8, <1>9, <1>10 DEF Sound, t

(* Frames for an agent that went away are lost with it. *)
LEMMA DroppedSound ==
  ASSUME NEW c \in Conns, NEW s, NEW a \in AgentStates, NEW b \in AgentStates,
         Sound(s, c, a), b.conn # c, a.cur <= b.cur, NEW m
  PROVE  /\ Sound([s EXCEPT !.inbound = <<>>], c, b)
         /\ Calm(s, [s EXCEPT !.inbound = <<>>], m)
<1> USE Bounds DEF Versions
<1> DEFINE t == [s EXCEPT !.inbound = <<>>]
<1>0. <<>> \in Seq(ServerFrames)
  OBVIOUS
<1>1. s \in SocketStates
  BY DEF Sound
<1>2. /\ t \in SocketStates /\ t.srv = s.srv /\ t.session = s.session
      /\ t.promoted = s.promoted /\ t.lastSent = s.lastSent /\ t.want = s.want
      /\ t.inbound = <<>> /\ t.outbound = s.outbound
  BY <1>0, <1>1 DEF SocketStates
<1> HIDE DEF t
<1>3. Addressed(t, c, b) /\ Shaken(t, c, b) /\ HelloFirst(t, b) /\ NotLost(t, c, b)
  BY <1>2 DEF Sound, Addressed, Shaken, HelloFirst, NotLost
<1>4. Bounded(t, b)
  <2>1. ASSUME NEW k \in 1..Len(s.outbound) PROVE s.outbound[k].version <= b.cur
    <3>1. s.outbound[k].version <= a.cur
      BY DEF Sound, Bounded
    <3>2. s.outbound[k] \in ClientFrames
      BY <1>1 DEF SocketStates
    <3>3. QED
      BY <3>1, <3>2 DEF AgentStates, ClientFrames
  <2>2. QED
    BY <1>2, <2>1 DEF Bounded
<1>5. Ordered(t) /\ Calm(s, t, m)
  BY <1>2 DEF Sound, Ordered, Calm, Fresh
<1>6. QED
  BY <1>2, <1>3, <1>4, <1>5 DEF Sound, t

-----------------------------------------------------------------------------
(* The agent's steps. *)

LEMMA ReportFrame ==
  ASSUME NEW v \in Versions
  PROVE  /\ Report(v) \in Seq(ClientFrames) /\ Len(Report(v)) = 1
         /\ Report(v)[1] = Message("state_report", v)
         /\ Message("state_report", v) \in ClientFrames
BY Bounds DEF Report, Message, ClientFrames, Versions

LEMMA ReportedSound ==
  ASSUME NEW c \in Conns, NEW a \in AgentStates, NEW s, Sound(s, c, a), a.conn = c,
         s.srv = "open" => s.session, NEW m \in Versions, m <= a.cur
  PROVE  /\ Sound(Sent(s, Report(a.cur)), c, a)
         /\ Calm(s, Sent(s, Report(a.cur)), m)
<1> USE Bounds DEF Versions
<1> DEFINE ms == Report(a.cur)
<1>1. a.cur \in Versions
  BY DEF AgentStates
<1>2. /\ ms \in Seq(ClientFrames) /\ Len(ms) = 1
      /\ ms[1] = Message("state_report", a.cur)
  BY <1>1, ReportFrame
<1>3. /\ ms[1].type = "state_report" /\ ms[1].late = FALSE /\ ms[1].version = a.cur
      /\ a.cur <= a.cur /\ \A i \in 1..1 : i = 1
  BY <1>1, <1>2 DEF Message
<1> HIDE DEF ms
<1>4. \A i \in 1..Len(ms) :
        /\ ms[i].type # "client_hello" /\ ~ms[i].late /\ ms[i].version <= a.cur
        /\ ms[i].type = "state_report" => ms[i].version = a.cur
  BY <1>2, <1>3
<1>5. Sound(Sent(s, ms), c, a) /\ Calm(s, Sent(s, ms), m)
  BY <1>2, <1>4, SentSound
<1>6. QED
  BY <1>5 DEF ms

(* An agent that is up talks on a connection with a session. *)
LEMMA UpHasSession ==
  ASSUME BridgeInv, agent.up
  PROVE  /\ agent.conn \in Conns
         /\ Sound(sock[agent.conn], agent.conn, agent)
         /\ sock[agent.conn].srv = "open" => sock[agent.conn].session
<1>1. agent.conn \in Conns
  BY Bounds DEF BridgeInv, AgentSound, AgentStates, Conns
<1>2. Sound(sock[agent.conn], agent.conn, agent)
  BY <1>1 DEF BridgeInv, SocketsSound
<1>3. QED
  BY <1>1, <1>2 DEF Sound, Shaken

LEMMA AgentFacts ==
  ASSUME BridgeInv
  PROVE  /\ AgentSound(agent) /\ agent \in AgentStates
         /\ agent.cur \in Nat /\ agent.cached \in Nat
         /\ agent.cur \in Versions /\ agent.cached \in Versions
         /\ sock = [c \in Conns |-> sock[c]]
         /\ \A c \in Conns : Sound(sock[c], c, agent)
         /\ \A c \in Conns : sock[c] \in SocketStates
BY Bounds DEF BridgeInv, AgentSound, AgentStates, SocketsSound, Sound, Versions

LEMMA AgentFrameRest ==
  ASSUME BridgeInv, AgentFrame
  PROVE  Rest' /\ UNCHANGED <<hello, disp, actual>>
<1>1. UNCHANGED <<desired, active, actual, hello, disp, wake, alarm, faults>>
  BY DEF AgentFrame, dbVars, doVars
<1>2. Rest
  BY DEF BridgeInv
<1>3. QED
  BY <1>1, <1>2 DEF Rest

LEMMA FaultRest ==
  ASSUME BridgeInv, NEW kind, Fault(kind),
         desired' \in 1..MaxVersion, active' \in 0..MaxConn,
         wake' \in BOOLEAN, alarm' \in BOOLEAN
  PROVE  Rest'
<1>1. faults' \in 0..MaxFaults
  BY Bounds DEF Fault, BridgeInv, Rest
<1>2. QED
  BY <1>1 DEF Rest

LEMMA RestFacts ==
  ASSUME BridgeInv
  PROVE  /\ desired \in 1..MaxVersion /\ active \in 0..MaxConn
         /\ wake \in BOOLEAN /\ alarm \in BOOLEAN /\ faults \in 0..MaxFaults
BY DEF BridgeInv, Rest

(* The first frame in flight, as a frame of a sequence. *)
LEMMA HeadFrame ==
  ASSUME NEW s \in SocketStates, s.inbound # <<>>
  PROVE  s.inbound[1] = Head(s.inbound) /\ s.inbound[1] \in ServerFrames
<1>1. s.inbound \in Seq(ServerFrames)
  BY DEF SocketStates
<1>2. QED
  BY <1>1

LEMMA StepConnect == BridgeInv /\ Connect => BridgeInv'
<1> SUFFICES ASSUME BridgeInv, Connect PROVE BridgeInv'
  OBVIOUS
<1> USE Bounds DEF Versions
<1>1. PICK c \in Conns :
        /\ Free(c)
        /\ sock' = [sock EXCEPT ![c] =
             [NoSocket EXCEPT !.srv = "open",
                              !.outbound = <<Message("client_hello", agent.cur)>>]]
        /\ agent' = [agent EXCEPT !.conn = c]
  BY DEF Connect
<1>2. /\ UNCHANGED <<hello, disp, actual>> /\ Rest'
      /\ agent.conn = 0
  BY AgentFrameRest DEF Connect
<1>3. c # 0
  BY DEF Conns
<1>4. /\ agent' \in AgentStates /\ agent'.conn = c /\ agent'.up = agent.up
      /\ agent'.cur = agent.cur /\ agent'.cached = agent.cached
      /\ agent'.applying = agent.applying
  BY <1>1, AgentFacts DEF AgentStates, Conns
<1>5. AgentSound(agent') /\ ~agent.up /\ agent.cur <= agent'.cur
  BY <1>2, <1>3, <1>4, AgentFacts DEF AgentSound
<1>6. ASSUME NEW d \in Conns PROVE Sound(sock'[d], d, agent')
  <2>1. CASE d = c
    <3> DEFINE q == <<Message("client_hello", agent.cur)>>
               t == [NoSocket EXCEPT !.srv = "open", !.outbound = q]
    <3>1. /\ q \in Seq(ClientFrames) /\ Len(q) = 1
          /\ q[1] = Message("client_hello", agent.cur) /\ q[1].version = agent.cur
      BY AgentFacts DEF Message, ClientFrames
    <3> HIDE DEF q
    <3>0. /\ NoSocket \in SocketStates /\ NoSocket.session = FALSE
          /\ NoSocket.promoted = FALSE /\ NoSocket.lastSent = 0
          /\ NoSocket.want = "none" /\ NoSocket.inbound = <<>>
      BY DEF NoSocket, SocketStates
    <3>2. /\ t \in SocketStates /\ t.srv = "open" /\ t.session = FALSE
          /\ t.promoted = FALSE /\ t.lastSent = 0 /\ t.want = "none"
          /\ t.inbound = <<>> /\ t.outbound = q
      BY <3>0, <3>1 DEF SocketStates
    <3>3. sock'[d] = t
      BY <1>1, <2>1, AgentFacts DEF q
    <3> HIDE DEF t
    <3>4. Addressed(t, c, agent') /\ Shaken(t, c, agent')
      BY <1>4, <1>5, <3>1, <3>2 DEF Addressed, Shaken
    <3>5. Bounded(t, agent') /\ Ordered(t)
      <4>1. Len(t.outbound) = 1 /\ \A k \in 1..1 : k = 1
        BY <3>1, <3>2
      <4>2. t.outbound[1].version <= agent'.cur
        BY <1>4, <3>1, <3>2, AgentFacts
      <4>3. QED
        BY <4>1, <4>2 DEF Bounded, Ordered
    <3>6. HelloFirst(t, agent') /\ NotLost(t, c, agent')
      BY <1>4, <3>2, AgentFacts DEF HelloFirst, NotLost
    <3>7. QED
      BY <2>1, <3>2, <3>3, <3>4, <3>5, <3>6 DEF Sound
  <2>2. CASE d # c
    <3>1. sock'[d] = sock[d] /\ sock[d].inbound = <<>> /\ Sound(sock[d], d, agent)
      BY <1>1, <1>2, <2>2, AgentFacts DEF Sound, Addressed, Conns
    <3>2. QED
      BY <1>4, <1>5, <2>2, <3>1, AgentFacts, OtherAgent
  <2>3. QED
    BY <2>1, <2>2
<1>7. ASSUME NEW d \in Conns, d \in {hello.conn, disp.conn, actual.session}
      PROVE  Calm(sock[d], sock'[d], agent.cur)
  BY <1>1, <1>7, CalmSame, AgentFacts DEF Free
<1>8. sock' = [d \in Conns |-> sock'[d]]
  BY <1>1, AgentFacts
<1>9. QED
  BY <1>2, <1>5, <1>6, <1>7, <1>8, CalmStep

LEMMA StepAgentHello == BridgeInv /\ AgentHello => BridgeInv'
<1> SUFFICES ASSUME BridgeInv, AgentHello PROVE BridgeInv'
  OBVIOUS
<1> USE Bounds DEF Versions
<1> DEFINE c == agent.conn
           u == Received(sock[c])
           ms == <<Message("sync_request", 0)>> \o Report(agent.cur)
<1>1. c \in Conns /\ Sound(sock[c], c, agent) /\ sock[c] \in SocketStates
  BY AgentFacts DEF AgentHello, AgentStates, Conns
<1>0. /\ UNCHANGED <<hello, disp, actual>> /\ Rest'
      /\ sock[c].inbound # <<>> /\ Head(sock[c].inbound).type = "server_hello"
      /\ agent' = [agent EXCEPT !.up = TRUE]
  BY AgentFrameRest DEF AgentHello
<1>2. /\ sock[c].inbound[1].type = "server_hello"
      /\ sock' = [sock EXCEPT ![c] = Sent(u, ms)]
  <2>1. sock[c].inbound[1] = Head(sock[c].inbound)
    BY <1>0, <1>1, HeadFrame
  <2>2. sock' = [sock EXCEPT ![c] = Sent(u, ms)]
    BY Zenon DEF AgentHello
  <2>3. QED
    BY <1>0, <2>1, <2>2
<1>3. /\ agent' \in AgentStates /\ agent'.conn = c /\ agent'.up
      /\ agent'.cur = agent.cur /\ agent'.cached = agent.cached
      /\ agent'.applying = agent.applying
  BY <1>0, AgentFacts DEF AgentStates
<1>4. AgentSound(agent') /\ agent.cur <= agent'.cur /\ agent.cached <= agent'.cached
  BY <1>1, <1>3, AgentFacts DEF AgentSound, Conns
<1>5. Sound(u, c, agent') /\ Calm(sock[c], u, agent.cur)
  BY <1>0, <1>1, <1>2, <1>3, <1>4, AgentFacts, PoppedSound
<1>6. u.srv = "open" => u.session
  <2>1. u.srv = sock[c].srv /\ u.session = sock[c].session
    BY <1>1 DEF SocketStates, Received
  <2>2. QED
    BY <1>0, <1>1, <2>1 DEF Sound, Shaken
<1>7. /\ ms \in Seq(ClientFrames) /\ Len(ms) = 2
      /\ ms[1] = Message("sync_request", 0) /\ ms[2] = Message("state_report", agent.cur)
  <2>1. Message("sync_request", 0) \in ClientFrames
    BY DEF Message, ClientFrames
  <2>2. QED
    BY <2>1, AgentFacts, ReportFrame DEF Report
<1>8. \A i \in 1..Len(ms) :
        /\ ms[i].type # "client_hello" /\ ~ms[i].late /\ ms[i].version <= agent'.cur
        /\ ms[i].type = "state_report" => ms[i].version = agent'.cur
  BY <1>3, <1>7, AgentFacts DEF Message
<1> HIDE DEF c, u, ms
<1>9. Sound(Sent(u, ms), c, agent') /\ Calm(u, Sent(u, ms), agent.cur)
  BY <1>1, <1>3, <1>4, <1>5, <1>6, <1>7, <1>8, AgentFacts, SentSound
<1>10. Calm(sock[c], Sent(u, ms), agent.cur)
  BY <1>5, <1>9 DEF Calm
<1>11. agent.conn = c
  BY DEF c
<1>12. QED
  BY <1>0, <1>1, <1>2, <1>3, <1>4, <1>9, <1>10, <1>11, AgentStep

LEMMA StepAgentReceive == BridgeInv /\ AgentReceive => BridgeInv'
<1> SUFFICES ASSUME BridgeInv, AgentReceive PROVE BridgeInv'
  OBVIOUS
<1> USE Bounds DEF Versions
<1> DEFINE c == agent.conn
           u == Received(sock[c])
           v == Head(sock[c].inbound).version
<1>1. /\ c \in Conns /\ Sound(sock[c], c, agent) /\ sock[c] \in SocketStates
      /\ sock[c].srv = "open" => sock[c].session
  BY AgentFacts, UpHasSession DEF AgentReceive
<1>2. /\ UNCHANGED <<hello, disp, actual>> /\ Rest'
      /\ sock[c].inbound # <<>> /\ agent.up /\ agent.applying = 0
  BY AgentFrameRest DEF AgentReceive
<1>3. /\ sock[c].inbound[1].version = v /\ v \in Versions /\ v \in Nat
  BY <1>1, <1>2, HeadFrame DEF ServerFrames
<1>4. CASE v < agent.cur
  <2>1. agent' = agent /\ sock' = [sock EXCEPT ![c] = Sent(u, Report(agent.cur))]
    BY <1>4, Zenon DEF AgentReceive
  <2>2. Sound(u, c, agent) /\ Calm(sock[c], u, agent.cur)
    <3>1. v <= agent.cached /\ agent.cur <= agent.cur /\ agent.cached <= agent.cached
      BY <1>3, <1>4, AgentFacts DEF AgentSound
    <3>2. QED
      BY <1>1, <1>2, <1>3, <3>1, AgentFacts, PoppedSound
  <2>3. u.srv = "open" => u.session
    BY <1>1 DEF SocketStates, Received
  <2>6. agent.conn = c /\ agent'.conn \in {0, c} /\ AgentSound(agent')
        /\ agent.cur <= agent'.cur
    BY <2>1, AgentFacts
  <2> HIDE DEF c, u
  <2>7. /\ Sound(Sent(u, Report(agent.cur)), c, agent)
        /\ Calm(u, Sent(u, Report(agent.cur)), agent.cur)
    BY <1>1, <2>2, <2>3, <2>6, AgentFacts, ReportedSound
  <2>8. Calm(sock[c], Sent(u, Report(agent.cur)), agent.cur)
    BY <2>2, <2>7 DEF Calm
  <2>9. QED
    BY <1>1, <1>2, <2>1, <2>6, <2>7, <2>8, AgentStep
<1>5. CASE ~(v < agent.cur)
  <2>1. /\ agent' = [agent EXCEPT !.cached = v, !.applying = v]
        /\ sock' = [sock EXCEPT ![c] = u]
    BY <1>5, Zenon DEF AgentReceive
  <2>2. /\ agent' \in AgentStates /\ agent'.conn = c /\ agent'.up
        /\ agent'.cur = agent.cur /\ agent'.cached = v /\ agent'.applying = v
    BY <1>2, <1>3, <2>1, AgentFacts DEF AgentStates
  <2>3. agent.cached <= agent'.cached /\ agent.cur <= agent'.cur
    BY <1>2, <1>3, <1>5, <2>2, AgentFacts DEF AgentSound
  <2>4. AgentSound(agent')
    BY <1>1, <1>2, <1>3, <1>5, <2>2, <2>3, AgentFacts DEF AgentSound, Conns
  <2>5. Sound(u, c, agent') /\ Calm(sock[c], u, agent.cur)
    <3>1. sock[c].inbound[1].version <= agent'.cached
      BY <1>3, <2>2
    <3>2. QED
      BY <1>1, <1>2, <2>2, <2>3, <3>1, AgentFacts, PoppedSound
  <2>6. agent.conn = c /\ agent'.conn \in {0, c}
    BY <2>2
  <2> HIDE DEF c, u
  <2>7. QED
    BY <1>1, <1>2, <2>1, <2>3, <2>4, <2>5, <2>6, AgentStep
<1>6. QED
  BY <1>4, <1>5

LEMMA StepAgentApply == BridgeInv /\ AgentApply => BridgeInv'
<1> SUFFICES ASSUME BridgeInv, AgentApply PROVE BridgeInv'
  OBVIOUS
<1> USE Bounds DEF Versions
<1> DEFINE c == agent.conn
           v == agent.applying
<1>1. /\ UNCHANGED <<hello, disp, actual>> /\ Rest' /\ agent.applying # 0
      /\ agent' = [agent EXCEPT !.applied = v, !.cur = v, !.applying = 0]
      /\ sock' = [sock EXCEPT ![c] = Sent(sock[c], Report(v))]
  BY AgentFrameRest DEF AgentApply
<1>2. agent.up /\ v = agent.cached /\ v \in Versions /\ agent.cur <= v
  BY <1>1, AgentFacts DEF AgentSound, AgentStates
<1>3. /\ c \in Conns /\ Sound(sock[c], c, agent)
      /\ sock[c].srv = "open" => sock[c].session
  BY <1>2, UpHasSession
<1>4. /\ agent' \in AgentStates /\ agent'.conn = c /\ agent'.up
      /\ agent'.cur = v /\ agent'.cached = v /\ agent'.applying = 0
  <2>1. agent \in AgentStates /\ 0 \in Versions
    BY AgentFacts
  <2> HIDE DEF v, Versions
  <2>2. agent' \in AgentStates
    BY <1>1, <1>2, <2>1 DEF AgentStates
  <2>3. agent'.conn = c /\ agent'.up = agent.up /\ agent'.cached = agent.cached
    BY <1>1, <2>1 DEF AgentStates
  <2>4. agent'.cur = v /\ agent'.applying = 0
    BY <1>1, <2>1 DEF AgentStates
  <2>5. QED
    BY <1>2, <2>2, <2>3, <2>4
<1>5. /\ AgentSound(agent') /\ agent.cur <= agent'.cur /\ agent.cached <= agent'.cached
      /\ agent'.conn = agent.conn /\ agent'.up = agent.up
  <2>1. agent'.up = agent.up
    BY <1>1, AgentFacts DEF AgentStates
  <2>2. QED
    BY <1>2, <1>3, <1>4, <2>1, AgentFacts DEF AgentSound, Conns
<1>6. Sound(sock[c], c, agent')
  BY <1>3, <1>4, <1>5, AgentFacts, GrownSound
<1>7. /\ Sound(Sent(sock[c], Report(agent'.cur)), c, agent')
      /\ Calm(sock[c], Sent(sock[c], Report(agent'.cur)), agent.cur)
  BY <1>3, <1>4, <1>5, <1>6, AgentFacts, ReportedSound
<1>8. /\ Sound(Sent(sock[c], Report(v)), c, agent')
      /\ Calm(sock[c], Sent(sock[c], Report(v)), agent.cur)
  BY <1>4, <1>7
<1>9. agent'.conn \in {0, c} /\ agent.conn = c
  BY <1>4
<1> HIDE DEF c, v
<1>10. QED
  BY <1>1, <1>3, <1>5, <1>8, <1>9, AgentStep

LEMMA StepAgentReport == BridgeInv /\ AgentReport => BridgeInv'
<1> SUFFICES ASSUME BridgeInv, AgentReport PROVE BridgeInv'
  OBVIOUS
<1> DEFINE c == agent.conn
<1>1. /\ UNCHANGED <<hello, disp, actual, agent>> /\ Rest' /\ agent.up
      /\ sock' = [sock EXCEPT ![c] = Sent(sock[c], Report(agent.cur))]
  BY AgentFrameRest DEF AgentReport
<1>2. /\ c \in Conns /\ Sound(sock[c], c, agent)
      /\ sock[c].srv = "open" => sock[c].session
  BY <1>1, UpHasSession
<1>3. agent.cur <= agent.cur
  BY AgentFacts
<1>4. /\ Sound(Sent(sock[c], Report(agent.cur)), c, agent)
      /\ Calm(sock[c], Sent(sock[c], Report(agent.cur)), agent.cur)
  BY <1>2, <1>3, AgentFacts, ReportedSound
<1> HIDE DEF c
<1>5. QED
  BY <1>1, <1>2, <1>4, ServerStep

(* An agent that is gone, or comes back with its cached document. *)
LEMMA AgentGone ==
  ASSUME BridgeInv, Rest', UNCHANGED <<hello, disp, actual>>,
         agent'.conn = 0, AgentSound(agent'), agent.cur <= agent'.cur,
         sock' = IF agent.conn = 0 THEN sock
                 ELSE [sock EXCEPT ![agent.conn].inbound = <<>>]
  PROVE  BridgeInv'
<1> DEFINE c == agent.conn
<1>1. agent \in AgentStates /\ agent' \in AgentStates
  BY DEF BridgeInv, AgentSound
<1>2. ASSUME NEW d \in Conns, d # c
      PROVE  sock[d].inbound = <<>> /\ Sound(sock[d], d, agent')
  <2>1. Sound(sock[d], d, agent) /\ d # 0
    BY Bounds DEF BridgeInv, SocketsSound, Conns
  <2>2. sock[d].inbound = <<>>
    BY <1>2, <2>1 DEF Sound, Addressed
  <2>3. QED
    BY <1>1, <2>1, <2>2, OtherAgent
<1>3. CASE c = 0
  <2>1. sock' = sock
    BY <1>3
  <2>2. ASSUME NEW d \in Conns
        PROVE  Sound(sock'[d], d, agent') /\ Calm(sock[d], sock'[d], agent.cur)
    BY <1>2, <1>3, <2>1, CalmSame, Bounds DEF Conns
  <2>3. sock' = [d \in Conns |-> sock'[d]]
    BY <2>1 DEF BridgeInv, SocketsSound
  <2>4. QED
    BY <2>2, <2>3, CalmStep
<1>4. CASE c # 0
  <2>1. c \in Conns /\ Sound(sock[c], c, agent) /\ c # agent'.conn
    BY <1>4, AgentFacts, Bounds DEF AgentStates, Conns
  <2>2. /\ Sound([sock[c] EXCEPT !.inbound = <<>>], c, agent')
        /\ Calm(sock[c], [sock[c] EXCEPT !.inbound = <<>>], agent.cur)
    BY <1>1, <2>1, DroppedSound
  <2>3. sock' = [sock EXCEPT ![c] = [sock[c] EXCEPT !.inbound = <<>>]]
    BY <1>4
  <2>4. agent.conn = c /\ agent'.conn \in {0, c}
    OBVIOUS
  <2> HIDE DEF c
  <2>5. QED
    BY <2>1, <2>2, <2>3, <2>4, AgentStep
<1>5. QED
  BY <1>3, <1>4

LEMMA StepAgentGone ==
  BridgeInv /\ (AgentSeesClose \/ Drop \/ AgentRestart) => BridgeInv'
<1> SUFFICES ASSUME BridgeInv, AgentSeesClose \/ Drop \/ AgentRestart PROVE BridgeInv'
  OBVIOUS
<1> USE Bounds DEF Versions
<1>1. CASE AgentSeesClose
  <2>1. /\ UNCHANGED <<hello, disp, actual>> /\ Rest' /\ sock' = sock
        /\ agent.conn # 0 /\ agent.applying = 0 /\ sock[agent.conn].inbound = <<>>
        /\ agent' = [agent EXCEPT !.conn = 0, !.up = FALSE]
    BY <1>1, AgentFrameRest DEF AgentSeesClose
  <2>2. agent.conn \in Conns
    BY <2>1, AgentFacts DEF AgentStates, Conns
  <2>3. [sock EXCEPT ![agent.conn].inbound = <<>>] = sock
    <3> DEFINE s == sock[agent.conn]
    <3>1. s \in SocketStates /\ s.inbound = <<>>
      BY <2>1, <2>2, AgentFacts
    <3> HIDE DEF s
    <3>2. [s EXCEPT !.inbound = <<>>] = s
      BY <3>1 DEF SocketStates
    <3>3. QED
      BY <2>2, <3>2, AgentFacts DEF s
  <2>4. /\ agent' \in AgentStates /\ agent'.conn = 0 /\ agent'.up = FALSE
        /\ agent'.cur = agent.cur /\ agent'.cached = agent.cached /\ agent'.applying = 0
    <3>1. agent \in AgentStates /\ 0 \in Versions /\ 0 \in 0..MaxConn
      BY AgentFacts
    <3> HIDE DEF Versions
    <3>2. agent' \in AgentStates
      BY <2>1, <3>1 DEF AgentStates
    <3>3. QED
      BY <2>1, <3>1, <3>2 DEF AgentStates
  <2>5. AgentSound(agent') /\ agent.cur <= agent'.cur
    BY <2>1, <2>4, AgentFacts DEF AgentSound
  <2>6. QED
    BY <2>1, <2>3, <2>4, <2>5, AgentGone
<1>2. CASE Drop
  <2>1. /\ UNCHANGED <<hello, disp, actual>> /\ agent.conn # 0 /\ agent.applying = 0
        /\ agent' = [agent EXCEPT !.conn = 0, !.up = FALSE]
        /\ sock' = [sock EXCEPT ![agent.conn].inbound = <<>>]
    BY <1>2 DEF Drop, doVars, dbVars
  <2>2. Rest'
    <3>1. UNCHANGED <<desired, active, wake, alarm>> /\ Fault("drop")
      BY <1>2 DEF Drop, doVars, dbVars
    <3>2. QED
      BY <3>1, RestFacts, FaultRest
  <2>3. /\ agent' \in AgentStates /\ agent'.conn = 0 /\ agent'.up = FALSE
        /\ agent'.cur = agent.cur /\ agent'.cached = agent.cached /\ agent'.applying = 0
    <3>1. agent \in AgentStates /\ 0 \in Versions /\ 0 \in 0..MaxConn
      BY AgentFacts
    <3> HIDE DEF Versions
    <3>2. agent' \in AgentStates
      BY <2>1, <3>1 DEF AgentStates
    <3>3. QED
      BY <2>1, <3>1, <3>2 DEF AgentStates
  <2>4. AgentSound(agent') /\ agent.cur <= agent'.cur
    BY <2>1, <2>3, AgentFacts DEF AgentSound
  <2>5. QED
    BY <2>1, <2>2, <2>3, <2>4, AgentGone
<1>3. CASE AgentRestart
  <2>1. /\ UNCHANGED <<hello, disp, actual>>
        /\ agent' = [agent EXCEPT !.conn = 0, !.up = FALSE, !.applying = 0,
                                  !.cur = agent.cached]
        /\ sock' = IF agent.conn = 0 THEN sock
                   ELSE [sock EXCEPT ![agent.conn].inbound = <<>>]
    BY <1>3 DEF AgentRestart, doVars, dbVars
  <2>2. Rest'
    <3>1. UNCHANGED <<desired, active, wake, alarm>> /\ Fault("agent")
      BY <1>3 DEF AgentRestart, doVars, dbVars
    <3>2. QED
      BY <3>1, RestFacts, FaultRest
  <2>3. /\ agent' \in AgentStates /\ agent'.conn = 0 /\ agent'.up = FALSE
        /\ agent'.cur = agent.cached /\ agent'.cached = agent.cached
        /\ agent'.applying = 0
    <3>1. agent \in AgentStates /\ 0 \in Versions /\ 0 \in 0..MaxConn
      BY AgentFacts
    <3> HIDE DEF Versions
    <3>2. agent' \in AgentStates
      BY <2>1, <3>1 DEF AgentStates
    <3>3. QED
      BY <2>1, <3>1, <3>2 DEF AgentStates
  <2>4. AgentSound(agent') /\ agent.cur <= agent'.cur
    BY <2>1, <2>3, AgentFacts DEF AgentSound
  <2>5. QED
    BY <2>1, <2>2, <2>3, <2>4, AgentGone
<1>4. QED
  BY <1>1, <1>2, <1>3

-----------------------------------------------------------------------------
(* The hello handler's steps. *)

LEMMA IdleHelloSound ==
  ASSUME BridgeInv, UNCHANGED agent, hello' = IdleHello PROVE HelloSound'
<1>1. 0 <= agent'.cur
  BY AgentFacts
<1>2. IdleHello \in HelloStates
  BY Bounds DEF IdleHello, HelloStates, Versions
<1>3. QED
  BY <1>1, <1>2 DEF HelloSound, IdleHello

LEMMA IdleDispatchSound == ASSUME disp' = IdleDispatch PROVE DispatchSound'
<1>1. IdleDispatch \in DispatchStates
  BY Bounds DEF IdleDispatch, DispatchStates, Versions
<1>2. QED
  BY <1>1 DEF DispatchSound, IdleDispatch

(* A step that leaves every socket and the agent alone. *)
LEMMA SameSockets ==
  ASSUME BridgeInv, UNCHANGED <<sock, agent>>
  PROVE  /\ SocketsSound' /\ AgentSound(agent')
         /\ UNCHANGED hello => HelloSound'
         /\ UNCHANGED disp => DispatchSound'
         /\ UNCHANGED actual => RecordSound'
<1>1. SocketsSound' /\ AgentSound(agent')
  BY DEF BridgeInv, SocketsSound
<1>2. UNCHANGED hello => HelloSound'
  BY DEF BridgeInv, HelloSound
<1>3. UNCHANGED disp => DispatchSound'
  BY DEF BridgeInv, DispatchSound
<1>4. UNCHANGED actual => RecordSound'
  BY DEF BridgeInv, RecordSound
<1>5. QED
  BY <1>1, <1>2, <1>3, <1>4

(* The pending attachment: the one client_hello is taken. *)
LEMMA PendingSound ==
  ASSUME NEW c, NEW a, NEW s, Sound(s, c, a), s.srv = "open",
         s.outbound # <<>>, Head(s.outbound).type = "client_hello"
  PROVE  /\ Sound(Pending(s), c, a) /\ ~s.promoted
         /\ Pending(s).session /\ ~Pending(s).promoted /\ Pending(s).srv = "open"
         /\ Len(Pending(s).outbound) = 0
<1>1. s \in SocketStates /\ s.outbound \in Seq(ClientFrames)
  BY DEF Sound, SocketStates
<1>2. s.outbound[1].type = "client_hello" /\ 1 \in 1..Len(s.outbound)
  BY <1>1
<1>3. ~s.session
  BY <1>2 DEF Sound, Shaken
<1>4. ~s.promoted /\ Len(s.outbound) = 1
  BY <1>3 DEF Sound, Shaken
<1>5. Tail(s.outbound) \in Seq(ClientFrames) /\ Len(Tail(s.outbound)) = 0
  BY <1>1, <1>4
<1> DEFINE t == Pending(s)
<1>7. /\ t \in SocketStates /\ t.session = TRUE /\ t.promoted = s.promoted
      /\ t.srv = s.srv /\ Len(t.outbound) = 0 /\ t.inbound = s.inbound
      /\ t.want = s.want /\ t.lastSent = s.lastSent
  BY <1>1, <1>5 DEF SocketStates, Pending
<1> HIDE DEF t
<1>8. Addressed(t, c, a) /\ Shaken(t, c, a)
  BY <1>4, <1>7 DEF Sound, Addressed, Shaken
<1>9. Bounded(t, a) /\ Ordered(t)
  BY <1>7 DEF Bounded, Ordered
<1>10. HelloFirst(t, a) /\ NotLost(t, c, a)
  BY <1>7 DEF Sound, HelloFirst, NotLost
<1>11. QED
  BY <1>4, <1>7, <1>8, <1>9, <1>10 DEF Sound, t

LEMMA StepHelloBegin ==
  ASSUME BridgeInv, NEW c \in Conns, HelloBegin(c) PROVE BridgeInv'
<1> DEFINE s == sock[c]
           t == Pending(s)
           h == Head(s.outbound)
<1>1. /\ hello.pc = "idle" /\ s.srv = "open"
      /\ s.outbound # <<>> /\ h.type = "client_hello"
      /\ hello' = [pc |-> "activate", conn |-> c, prev |-> active,
                   applied |-> h.version, version |-> 0, ok |-> FALSE]
      /\ sock' = [sock EXCEPT ![c] = t]
      /\ UNCHANGED <<desired, active, actual, alarm, disp, wake, agent, faults>>
  BY DEF HelloBegin, HelloFrame, Open, dbVars
<1>2. Sound(s, c, agent) /\ sock = [d \in Conns |-> sock[d]]
  BY AgentFacts
<1>3. /\ Sound(t, c, agent) /\ ~s.promoted /\ t.session /\ ~t.promoted
      /\ t.srv = "open" /\ Len(t.outbound) = 0
  BY <1>1, <1>2, PendingSound
<1> HIDE DEF t
<1>4. sock'[c] = t /\ \A d \in Conns \ {c} : sock'[d] = sock[d]
  BY <1>1, <1>2
<1>5. SocketsSound'
  <2>1. sock' = [d \in Conns |-> sock'[d]]
    BY <1>1, <1>2
  <2>2. \A d \in Conns : Sound(sock'[d], d, agent)
    BY <1>3, <1>4, AgentFacts
  <2>3. QED
    BY <1>1, <2>1, <2>2 DEF SocketsSound
<1>6. HelloSound'
  <2>1. h \in ClientFrames /\ h.version <= agent.cur
    <3>1. s.outbound \in Seq(ClientFrames)
      BY <1>2 DEF Sound, SocketStates
    <3>2. h = s.outbound[1] /\ 1 \in 1..Len(s.outbound) /\ h \in ClientFrames
      BY <1>1, <3>1
    <3>3. QED
      BY <1>2, <3>2 DEF Sound, Bounded
  <2>2. active \in 0..MaxConn /\ c \in 0..MaxConn /\ h.version \in Versions /\ 0 \in Versions
    BY <2>1, Bounds DEF BridgeInv, Rest, Conns, ClientFrames, Versions
  <2> HIDE DEF h, s
  <2>3. hello' \in HelloStates
    BY <1>1, <2>2 DEF HelloStates
  <2>4. /\ hello'.pc = "activate" /\ hello'.conn = c /\ hello'.applied = h.version
    BY <1>1
  <2>5. QED
    BY <1>1, <1>3, <1>4, <2>1, <2>3, <2>4 DEF HelloSound
<1>7. DispatchSound'
  BY <1>1, <1>3, <1>4, DispatchKept DEF BridgeInv
<1>8. RecordSound'
  <2>1. ASSUME NEW d \in Conns, Fresh(sock[d], actual.applied)
        PROVE  Fresh(sock'[d], actual.applied)
    BY <1>3, <1>4, <2>1 DEF Fresh
  <2>2. agent \in AgentStates /\ agent' \in AgentStates /\ agent.cur <= agent'.cur
    BY <1>1, AgentFacts
  <2>3. QED
    BY <1>1, <2>1, <2>2, RecordKept DEF BridgeInv
<1>9. Rest' /\ AgentSound(agent')
  BY <1>1 DEF BridgeInv, Rest
<1>10. QED
  BY <1>5, <1>6, <1>7, <1>8, <1>9 DEF BridgeInv

(* The steps of the hello handler that only talk to the database. *)
LEMMA StepHelloDatabase ==
  ASSUME BridgeInv, HelloActivate \/ HelloReconcile \/ HelloCheck \/ ImagesFail
  PROVE  BridgeInv'
<1> USE Bounds DEF Versions
<1>1. UNCHANGED <<sock, agent, disp, wake, alarm>>
  BY DEF HelloActivate, HelloReconcile, HelloCheck, ImagesFail, HelloFrame
<1>2. SocketsSound' /\ AgentSound(agent') /\ DispatchSound'
  BY <1>1, SameSockets
<1>3. HelloSound /\ hello \in HelloStates
  BY DEF BridgeInv, HelloSound
<1>4. Rest'
  <2>1. desired' \in 1..MaxVersion /\ active' \in 0..MaxConn /\ faults' \in 0..MaxFaults
    <3>1. CASE HelloActivate
      BY <1>3, <3>1, RestFacts DEF HelloActivate, HelloFrame, HelloStates
    <3>2. CASE HelloReconcile
      <4>1. UNCHANGED <<active, faults>>
        BY <3>2 DEF HelloReconcile, HelloFrame
      <4>2. desired' \in {desired, desired + 1} /\ desired' <= MaxVersion
        BY <3>2, RestFacts DEF HelloReconcile
      <4>3. QED
        BY <4>1, <4>2, RestFacts
    <3>3. CASE HelloCheck
      BY <3>3, RestFacts DEF HelloCheck, HelloFrame, dbVars
    <3>4. CASE ImagesFail
      BY <3>4, RestFacts DEF ImagesFail, Fault, dbVars
    <3>5. QED
      BY <3>1, <3>2, <3>3, <3>4
  <2>2. QED
    BY <1>1, <2>1, RestFacts DEF Rest
<1>5. RecordSound'
  <2>1. CASE HelloActivate
    BY <1>1, <2>1, AgentFacts DEF HelloActivate, NoReport, RecordSound
  <2>2. CASE HelloReconcile \/ HelloCheck \/ ImagesFail
    <3>1. UNCHANGED actual
      BY <2>2 DEF HelloReconcile, HelloCheck, ImagesFail, dbVars
    <3>2. QED
      BY <1>1, <3>1, SameSockets
  <2>3. QED
    BY <2>1, <2>2
<1>6. HelloSound'
  <2>1. /\ hello' \in HelloStates /\ hello'.conn = hello.conn
        /\ hello'.applied = hello.applied
        /\ hello.pc \in {"activate", "reconcile", "check"}
        /\ hello'.pc \in {"reconcile", "check", "promote", "rollback"}
    <3>1. CASE HelloActivate
      BY <1>3, <3>1 DEF HelloActivate, HelloStates
    <3>2. CASE HelloReconcile
      <4>1. /\ hello.pc = "reconcile"
            /\ \/ hello' = [hello EXCEPT !.pc = "check", !.version = desired']
               \/ hello' = [hello EXCEPT !.pc = "rollback"]
        BY <3>2 DEF HelloReconcile
      <4>2. desired' \in 0..MaxVersion
        BY <1>4 DEF Rest
      <4>3. QED
        BY <1>3, <4>1, <4>2 DEF HelloStates
    <3>3. CASE HelloCheck
      <4>1. (active = hello.conn) \in BOOLEAN
        OBVIOUS
      <4>2. QED
        BY <1>3, <3>3, <4>1 DEF HelloCheck, HelloStates
    <3>4. CASE ImagesFail
      BY <1>3, <3>4 DEF ImagesFail, HelloStates
    <3>5. QED
      BY <3>1, <3>2, <3>3, <3>4
  <2>2. QED
    BY <1>1, <1>3, <2>1 DEF HelloSound
<1>7. QED
  BY <1>2, <1>4, <1>5, <1>6 DEF BridgeInv

(* A socket promoted, and server_hello sent.  Before, the agent had heard   *)
(* nothing on it; what counts as sent is a version that the agent has.      *)
LEMMA PromotedSound ==
  ASSUME BridgeInv, NEW c \in Conns, NEW s, Sound(s, c, agent), s.srv = "open",
         s.session, ~s.promoted, NEW n \in Versions, n <= agent.cur,
         NEW v \in Versions, NEW t,
         t = Deliver(c, Promoted(s, n),
                     Frame("server_hello", v))
  PROVE  /\ Sound(t, c, agent) /\ t.srv = "open" /\ t.promoted
         /\ t.outbound = s.outbound
<1> DEFINE u == Promoted(s, n)
           f == Frame("server_hello", v)
<1>0. t = Deliver(c, u, f)
  OBVIOUS
<1>1. s \in SocketStates /\ s.inbound = <<>> /\ s.want = "none"
      /\ (agent.conn = c => ~agent.up)
  BY DEF Sound, Shaken, SocketStates
<1>2. /\ u \in SocketStates /\ u.srv = "open" /\ u.session = s.session
      /\ u.promoted = TRUE /\ u.lastSent = n /\ u.want = "none"
      /\ u.inbound = <<>> /\ u.outbound = s.outbound
  BY <1>1 DEF SocketStates, Promoted
<1>3. f \in ServerFrames /\ f.type = "server_hello"
  BY DEF Frame, ServerFrames
<1>4. /\ Append(<<>>, f) \in Seq(ServerFrames) /\ Len(Append(<<>>, f)) = 1
      /\ Append(<<>>, f)[1] = f /\ Append(<<>>, f) # <<>>
  BY <1>3
<1> HIDE DEF u, f
<1>5. /\ t \in SocketStates /\ t.srv = "open" /\ t.session = s.session
      /\ t.promoted = TRUE /\ t.lastSent = n /\ t.want = "none"
      /\ t.outbound = s.outbound
      /\ t.inbound = IF agent.conn = c THEN Append(<<>>, f) ELSE <<>>
  <2>1. CASE agent.conn = c
    <3>1. t = [u EXCEPT !.inbound = Append(<<>>, f)]
      BY <1>0, <1>2, <2>1 DEF Deliver, SocketStates
    <3>2. QED
      BY <1>2, <1>4, <2>1, <3>1 DEF SocketStates
  <2>2. CASE agent.conn # c
    BY <1>0, <1>2, <2>2 DEF Deliver
  <2>3. QED
    BY <2>1, <2>2
<1>6. Addressed(t, c, agent) /\ Shaken(t, c, agent)
  BY <1>1, <1>4, <1>5 DEF Sound, Addressed, Shaken
<1>7. Bounded(t, agent) /\ Ordered(t)
  BY <1>5 DEF Sound, Bounded, Ordered
<1>8. HelloFirst(t, agent)
  <2>1. CASE agent.conn = c
    <3>1. Len(t.inbound) = 1 /\ t.inbound[1] = f /\ \A k \in 1..1 : k = 1
      BY <1>4, <1>5, <2>1
    <3>2. QED
      BY <1>1, <1>3, <2>1, <3>1 DEF HelloFirst
  <2>2. CASE agent.conn # c
    BY <1>5, <2>2 DEF HelloFirst
  <2>3. QED
    BY <2>1, <2>2
<1>9. NotLost(t, c, agent)
  <2>1. n <= agent.cached
    BY AgentFacts, Bounds DEF AgentSound, Versions
  <2>2. QED
    BY <1>5, <2>1 DEF NotLost
<1>10. QED
  BY <1>5, <1>6, <1>7, <1>8, <1>9 DEF Sound

LEMMA StepHelloPromote == ASSUME BridgeInv, HelloPromote PROVE BridgeInv'
<1> USE Bounds DEF Versions
<1> DEFINE c == hello.conn
           n == IF hello.applied = hello.version THEN hello.version ELSE 0
           t == Deliver(c, Promoted(sock[c], n),
                        Frame("server_hello", hello.version))
<1>1. /\ hello.pc = "promote"
      /\ UNCHANGED <<desired, active, actual, alarm, disp, wake, agent, faults>>
  BY DEF HelloPromote, HelloFrame, dbVars
<1>2. /\ HelloSound /\ hello \in HelloStates /\ c \in Conns
      /\ hello.version \in Versions /\ hello.applied \in Versions
  BY <1>1 DEF BridgeInv, HelloSound, HelloStates
<1>3. Rest' /\ AgentSound(agent')
  BY <1>1 DEF BridgeInv, Rest
<1>4. CASE hello.ok /\ Open(c)
  <2>1. /\ sock' = [sock EXCEPT ![c] = t]
        /\ hello' = [hello EXCEPT !.pc = "close"]
    BY <1>4 DEF HelloPromote
  <2>2. /\ Sound(sock[c], c, agent) /\ sock[c].srv = "open"
        /\ sock[c].session /\ ~sock[c].promoted
    BY <1>1, <1>2, <1>4, AgentFacts DEF HelloSound, Open
  <2>3. n \in Versions /\ n <= agent.cur
    BY <1>2, AgentFacts DEF HelloSound
  <2> HIDE DEF n
  <2>4. /\ Sound(t, c, agent) /\ t.srv = "open" /\ t.promoted
        /\ t.outbound = sock[c].outbound
    <3> DEFINE v == hello.version
               s == sock[c]
    <3>1. t = Deliver(c, Promoted(s, n),
                      Frame("server_hello", v))
      OBVIOUS
    <3>2. /\ c \in Conns /\ v \in Versions /\ Sound(s, c, agent) /\ s.srv = "open"
          /\ s.session /\ ~s.promoted
      BY <1>2, <2>2
    <3> HIDE DEF t, c, v, s, Versions
    <3>3. Sound(t, c, agent) /\ t.srv = "open" /\ t.promoted /\ t.outbound = s.outbound
      BY <2>3, <3>1, <3>2, PromotedSound
    <3>4. QED
      BY <3>3 DEF s
  <2>5. hello' \in HelloStates /\ hello'.pc = "close" /\ hello'.conn = c
        /\ hello'.applied = hello.applied
    BY <1>2, <2>1 DEF HelloStates
  <2> HIDE DEF t, c
  <2>6. /\ sock'[c] = t /\ \A d \in Conns \ {c} : sock'[d] = sock[d]
        /\ sock' = [d \in Conns |-> sock'[d]]
    BY <1>2, <2>1, AgentFacts
  <2>7. SocketsSound'
    <3>1. \A d \in Conns : Sound(sock'[d], d, agent)
      BY <2>4, <2>6, AgentFacts
    <3>2. QED
      BY <1>1, <2>6, <3>1 DEF SocketsSound
  <2>8. HelloSound'
    BY <1>1, <1>2, <2>4, <2>5, <2>6 DEF HelloSound
  <2>9. DispatchSound'
    BY <1>1, <2>2, <2>4, <2>6, DispatchKept DEF BridgeInv
  <2>10. RecordSound'
    <3>1. ASSUME NEW d \in Conns, Fresh(sock[d], actual.applied)
          PROVE  Fresh(sock'[d], actual.applied)
      BY <2>4, <2>6, <3>1 DEF Fresh
    <3>2. agent \in AgentStates /\ agent' \in AgentStates /\ agent.cur <= agent'.cur
      BY <1>1, AgentFacts
    <3>3. QED
      BY <1>1, <3>1, <3>2, RecordKept DEF BridgeInv
  <2>11. QED
    BY <1>3, <2>7, <2>8, <2>9, <2>10 DEF BridgeInv
<1>5. CASE ~(hello.ok /\ Open(c))
  <2>1. sock' = sock /\ hello' = [hello EXCEPT !.pc = "rollback"]
    BY <1>5 DEF HelloPromote
  <2>2. SocketsSound' /\ DispatchSound' /\ RecordSound'
    BY <1>1, <2>1, SameSockets
  <2>3. HelloSound'
    <3>1. /\ hello' \in HelloStates /\ hello'.pc = "rollback" /\ hello'.conn = c
          /\ hello'.applied = hello.applied
      BY <1>2, <2>1 DEF HelloStates
    <3>2. QED
      BY <1>1, <1>2, <3>1 DEF HelloSound
  <2>4. QED
    BY <1>3, <2>2, <2>3 DEF BridgeInv
<1>6. QED
  BY <1>4, <1>5

(* The end of a hello: each socket is closed, asked for or left alone.     *)
LEMMA HelloEnds ==
  ASSUME BridgeInv, Rest', UNCHANGED <<agent, disp, actual>>, hello' = IdleHello,
         sock' = [c \in Conns |-> sock'[c]],
         \A c \in Conns : Sound(sock'[c], c, agent) /\ Calm(sock[c], sock'[c], agent.cur)
  PROVE  BridgeInv'
<1>1. SocketsSound' /\ AgentSound(agent') /\ HelloSound'
  BY IdleHelloSound DEF SocketsSound, BridgeInv
<1>2. DispatchSound'
  BY DispatchKept DEF BridgeInv, Calm
<1>3. RecordSound'
  <2>1. actual.applied \in Versions /\ actual.applied <= agent.cur
    BY DEF BridgeInv, RecordSound
  <2>2. agent \in AgentStates /\ agent' \in AgentStates /\ agent.cur <= agent'.cur
    BY AgentFacts
  <2>3. QED
    BY <2>1, <2>2, RecordKept DEF BridgeInv, Calm
<1>4. QED
  BY <1>1, <1>2, <1>3 DEF BridgeInv

LEMMA StepHelloEnds == ASSUME BridgeInv, HelloRollback \/ HelloClose PROVE BridgeInv'
<1>1. UNCHANGED <<agent, disp, actual, wake, faults, desired>> /\ hello' = IdleHello
  BY DEF HelloRollback, HelloClose, HelloFrame, dbVars
<1>2. Rest'
  <2>1. active' \in 0..MaxConn
    <3>1. active' \in {0, active}
      BY DEF HelloRollback, HelloClose, dbVars
    <3>2. QED
      BY <3>1, Bounds, RestFacts
  <2>2. alarm' \in BOOLEAN
    <3>1. alarm' = alarm \/ alarm' = TRUE
      BY DEF HelloRollback, HelloClose
    <3>2. QED
      BY <3>1, RestFacts
  <2>3. QED
    BY <1>1, <2>1, <2>2, RestFacts DEF Rest
<1>3. sock' = [d \in Conns |-> sock'[d]]
  BY DEF HelloRollback, HelloClose
<1>4. ASSUME NEW d \in Conns
      PROVE  Sound(sock'[d], d, agent) /\ Calm(sock[d], sock'[d], agent.cur)
  <2>1. Sound(sock[d], d, agent)
    BY AgentFacts
  <2>2. /\ Sound(Closed(sock[d]), d, agent)
        /\ Calm(sock[d], Closed(sock[d]), agent.cur)
        /\ Calm(sock[d], sock[d], agent.cur)
    BY <2>1, ClosedSound, CalmSame
  <2>3. CASE HelloRollback
    <3>1. sock'[d] \in {sock[d], Closed(sock[d])}
      BY <2>3 DEF HelloRollback
    <3>2. QED
      BY <2>1, <2>2, <3>1
  <2>4. CASE HelloClose
    <3>1. CASE d # hello.conn \/ ~Open(d)
      <4>1. sock'[d] \in {sock[d], Closed(sock[d])}
        BY <2>4, <3>1 DEF HelloClose
      <4>2. QED
        BY <2>1, <2>2, <4>1
    <3>2. CASE d = hello.conn /\ Open(d)
      <4>1. sock'[d] = Wanted(sock[d], FALSE) /\ hello.pc = "close"
        BY <2>4, <3>2 DEF HelloClose
      <4>2. sock[d].srv = "open" /\ sock[d].promoted
        BY <3>2, <4>1 DEF BridgeInv, HelloSound, Open
      <4>3. QED
        BY <2>1, <4>1, <4>2, WantedSound
    <3>3. QED
      BY <3>1, <3>2
  <2>5. QED
    BY <2>3, <2>4
<1>5. QED
  BY <1>1, <1>2, <1>3, <1>4, HelloEnds

-----------------------------------------------------------------------------
(* The dispatch. *)

(* A version pushed is in flight, behind server_hello. *)
LEMMA PushedSound ==
  ASSUME BridgeInv, NEW c \in Conns, NEW s, Sound(s, c, agent), s.srv = "open",
         s.promoted, NEW v \in Versions, NEW t,
         t = Deliver(c, [s EXCEPT !.lastSent = v], Frame("desired_state", v))
  PROVE  Sound(t, c, agent) /\ Calm(s, t, agent.cur)
<1> DEFINE u == [s EXCEPT !.lastSent = v]
           f == Frame("desired_state", v)
           q == Append(s.inbound, f)
<1>1. s \in SocketStates /\ s.inbound \in Seq(ServerFrames) /\ Len(s.inbound) \in Nat
  BY DEF Sound, SocketStates
<1>2. /\ u \in SocketStates /\ u.srv = s.srv /\ u.session = s.session
      /\ u.promoted = s.promoted /\ u.lastSent = v /\ u.want = s.want
      /\ u.inbound = s.inbound /\ u.outbound = s.outbound
  BY <1>1 DEF SocketStates
<1>3. f \in ServerFrames /\ f.type = "desired_state"
  BY DEF Frame, ServerFrames
<1> HIDE DEF f
<1>4. /\ q \in Seq(ServerFrames) /\ Len(q) = Len(s.inbound) + 1 /\ q # <<>>
      /\ \A k \in 1..Len(s.inbound) : q[k] = s.inbound[k]
      /\ q[Len(s.inbound) + 1] = f
  BY <1>1, <1>3
<1>5. t = Deliver(c, u, f)
  BY DEF f
<1> HIDE DEF u, q
<1>6. /\ t \in SocketStates /\ t.srv = s.srv /\ t.session = s.session
      /\ t.promoted = s.promoted /\ t.lastSent = v /\ t.want = s.want
      /\ t.outbound = s.outbound
      /\ t.inbound = IF agent.conn = c THEN q ELSE s.inbound
  <2>1. CASE agent.conn = c
    <3>1. t = [u EXCEPT !.inbound = q]
      BY <1>2, <1>5, <2>1 DEF Deliver, SocketStates, q
    <3>2. QED
      BY <1>2, <1>4, <2>1, <3>1 DEF SocketStates
  <2>2. CASE agent.conn # c
    BY <1>2, <1>5, <2>2 DEF Deliver
  <2>3. QED
    BY <2>1, <2>2
<1>7. Addressed(t, c, agent) /\ Shaken(t, c, agent)
  BY <1>4, <1>6 DEF Sound, Addressed, Shaken
<1>8. Bounded(t, agent) /\ Ordered(t) /\ Calm(s, t, agent.cur)
  <2>1. Bounded(t, agent) /\ Ordered(t)
    BY <1>6 DEF Sound, Bounded, Ordered
  <2>2. Calm(s, t, agent.cur)
    BY <1>6 DEF Calm, Fresh
  <2>3. QED
    BY <2>1, <2>2
<1>9. HelloFirst(t, agent)
  <2>1. CASE agent.conn = c
    <3>1. ~agent.up => Len(s.inbound) # 0
      <4>1. ~agent.up => s.inbound # <<>>
        BY <2>1 DEF Sound, Shaken
      <4>2. QED
        BY <1>1, <4>1
    <3>2. ASSUME NEW k \in 1..Len(q)
          PROVE  q[k].type = "server_hello" <=> (k = 1 /\ ~agent.up)
      <4>1. CASE k \in 1..Len(s.inbound)
        BY <1>4, <4>1 DEF Sound, HelloFirst
      <4>2. CASE k = Len(s.inbound) + 1
        BY <1>1, <1>3, <1>4, <3>1, <4>2
      <4>3. QED
        BY <1>1, <1>4, <4>1, <4>2
    <3>3. QED
      BY <1>6, <2>1, <3>2 DEF HelloFirst
  <2>2. CASE agent.conn # c
    BY <1>6, <2>2 DEF Sound, HelloFirst
  <2>3. QED
    BY <2>1, <2>2
<1>10. NotLost(t, c, agent)
  <2>1. SUFFICES ASSUME agent.conn = c
                 PROVE  \E k \in 1..Len(t.inbound) :
                          t.inbound[k] = Frame("desired_state", t.lastSent)
    BY DEF NotLost
  <2>2. Len(s.inbound) + 1 \in 1..Len(q) /\ q[Len(s.inbound) + 1] = f
    BY <1>1, <1>4
  <2>3. QED
    BY <1>6, <2>1, <2>2 DEF f
<1>11. QED
  BY <1>6, <1>7, <1>8, <1>9, <1>10 DEF Sound

(* A step of the server that ends or begins a dispatch. *)
LEMMA DispatchStep ==
  ASSUME BridgeInv, Rest', UNCHANGED <<agent, hello, actual>>, DispatchSound',
         NEW c \in Conns, NEW t, sock' = [sock EXCEPT ![c] = t],
         Sound(t, c, agent), Calm(sock[c], t, agent.cur)
  PROVE  BridgeInv'
<1>1. /\ sock = [d \in Conns |-> sock[d]]
      /\ \A d \in Conns : Sound(sock[d], d, agent)
      /\ agent \in AgentStates /\ agent' \in AgentStates /\ agent.cur <= agent'.cur
      /\ AgentSound(agent')
  BY AgentFacts
<1>2. ASSUME NEW d \in Conns
      PROVE  Sound(sock'[d], d, agent') /\ Calm(sock[d], sock'[d], agent.cur)
  <2>1. CASE d = c
    BY <1>1, <2>1
  <2>2. CASE d # c
    BY <1>1, <2>2, CalmSame
  <2>3. QED
    BY <2>1, <2>2
<1>3. SocketsSound'
  BY <1>1, <1>2 DEF SocketsSound
<1>4. HelloSound'
  BY <1>1, <1>2, HelloKept DEF BridgeInv, Calm
<1>5. RecordSound'
  <2>1. actual.applied \in Versions /\ actual.applied <= agent.cur
    BY DEF BridgeInv, RecordSound
  <2>2. QED
    BY <1>1, <1>2, <2>1, RecordKept DEF BridgeInv, Calm
<1>6. QED
  BY <1>1, <1>3, <1>4, <1>5 DEF BridgeInv

LEMMA StepDispatchBegin ==
  ASSUME BridgeInv, NEW c \in Conns, DispatchBegin(c) PROVE BridgeInv'
<1> DEFINE s == sock[c]
           t == [s EXCEPT !.want = "none"]
           d == [pc |-> "check", conn |-> c, version |-> desired, ok |-> FALSE]
<1>1. /\ UNCHANGED <<desired, active, actual, hello, wake, alarm, agent, faults>>
      /\ s.want # "none" /\ sock' = [sock EXCEPT ![c] = t]
      /\ disp' \in {disp, d}
  BY DEF DispatchBegin, DispatchFrame, dbVars
<1>2. Rest'
  BY <1>1, RestFacts DEF Rest
<1>3. Sound(s, c, agent) /\ s.srv = "open" /\ s.promoted
  BY <1>1, AgentFacts DEF Sound, Shaken
<1>4. Sound(t, c, agent) /\ Calm(s, t, agent.cur)
  BY <1>3, WantSound
<1>5. sock'[c] = t /\ t.promoted = s.promoted /\ t.srv = s.srv
      /\ \A e \in Conns \ {c} : sock'[e] = sock[e]
  BY <1>1, AgentFacts DEF SocketStates
<1>6. DispatchSound'
  <2>1. CASE disp' = disp
    BY <1>3, <1>5, <2>1, DispatchKept DEF BridgeInv
  <2>2. CASE disp' = d
    <3>1. d \in DispatchStates
      BY RestFacts, Bounds DEF DispatchStates, Conns, Versions
    <3>2. QED
      BY <1>3, <1>5, <2>2, <3>1 DEF DispatchSound
  <2>3. QED
    BY <1>1, <2>1, <2>2
<1> HIDE DEF t
<1>7. QED
  BY <1>1, <1>2, <1>4, <1>6, DispatchStep

LEMMA StepDispatchCheck == ASSUME BridgeInv, DispatchCheck PROVE BridgeInv'
<1>1. /\ UNCHANGED <<desired, active, actual, sock, hello, wake, alarm, agent, faults>>
      /\ disp.pc = "check"
      /\ disp' = [disp EXCEPT !.pc = "send", !.ok = active = disp.conn]
  BY DEF DispatchCheck, DispatchFrame, dbVars
<1>2. Rest'
  BY <1>1, RestFacts DEF Rest
<1>3. SocketsSound' /\ AgentSound(agent') /\ HelloSound' /\ RecordSound'
  BY <1>1, SameSockets
<1>4. DispatchSound'
  <2>1. DispatchSound /\ disp \in DispatchStates /\ (active = disp.conn) \in BOOLEAN
    BY DEF BridgeInv, DispatchSound
  <2>2. disp' \in DispatchStates /\ disp'.pc = "send" /\ disp'.conn = disp.conn
    BY <1>1, <2>1 DEF DispatchStates
  <2>3. QED
    BY <1>1, <2>1, <2>2 DEF DispatchSound
<1>5. QED
  BY <1>2, <1>3, <1>4 DEF BridgeInv

LEMMA StepDispatchSend == ASSUME BridgeInv, DispatchSend PROVE BridgeInv'
<1> DEFINE c == disp.conn
           t == Deliver(c, [sock[c] EXCEPT !.lastSent = disp.version],
                        Frame("desired_state", disp.version))
<1>1. /\ UNCHANGED <<desired, active, actual, hello, wake, alarm, agent, faults>>
      /\ disp.pc = "send" /\ disp' = IdleDispatch
  BY DEF DispatchSend, DispatchFrame, dbVars
<1>2. Rest' /\ DispatchSound'
  BY <1>1, RestFacts, IdleDispatchSound DEF Rest
<1>3. c \in Conns /\ disp.version \in Versions /\ Sound(sock[c], c, agent)
  BY <1>1, AgentFacts DEF BridgeInv, DispatchSound, DispatchStates
<1>4. CASE disp.ok /\ Open(c)
  <2>1. sock' = [sock EXCEPT ![c] = t]
    BY <1>4 DEF DispatchSend
  <2>2. sock[c].srv = "open" /\ sock[c].promoted
    BY <1>1, <1>4 DEF BridgeInv, DispatchSound, Open
  <2>3. Sound(t, c, agent) /\ Calm(sock[c], t, agent.cur)
    BY <1>3, <2>2, PushedSound
  <2> HIDE DEF t
  <2>4. QED
    BY <1>1, <1>2, <1>3, <2>1, <2>3, DispatchStep
<1>5. CASE ~(disp.ok /\ Open(c))
  <2>1. sock' = sock
    BY <1>5 DEF DispatchSend
  <2>2. SocketsSound' /\ AgentSound(agent') /\ HelloSound' /\ RecordSound'
    BY <1>1, <2>1, SameSockets
  <2>3. QED
    BY <1>2, <2>2 DEF BridgeInv
<1>6. QED
  BY <1>4, <1>5

-----------------------------------------------------------------------------
(* What asks for a dispatch, and what is received. *)

LEMMA ReadyActive ==
  ASSUME Ready # {}
  PROVE  FindActiveSocket \in Ready /\ (active \in Ready => FindActiveSocket = active)
BY DEF FindActiveSocket

(* reconcileHost asks for a dispatch to a promoted socket, or for none. *)
LEMMA ReconciledOne ==
  ASSUME NEW next, NEW socks, Reconciled(next, socks)
  PROVE  \/ next = socks
         \/ /\ Ready # {}
            /\ \E force \in {FALSE, Lagging} :
                 next = [socks EXCEPT ![FindActiveSocket] =
                           Wanted(socks[FindActiveSocket], force)]
BY DEF Reconciled

(* A step that asks for a dispatch, or asks for nothing. *)
LEMMA AskStep ==
  ASSUME BridgeInv, Rest', UNCHANGED <<agent, hello, disp, actual>>,
         \/ sock' = sock
         \/ /\ Ready # {}
            /\ \E force \in {FALSE, Lagging} :
                 sock' = [sock EXCEPT ![FindActiveSocket] =
                            Wanted(sock[FindActiveSocket], force)]
  PROVE  BridgeInv'
<1>1. CASE sock' = sock
  <2>1. /\ SocketsSound' /\ AgentSound(agent') /\ HelloSound' /\ DispatchSound'
        /\ RecordSound'
    BY <1>1, SameSockets
  <2>2. QED
    BY <2>1 DEF BridgeInv
<1>2. ASSUME Ready # {}, NEW force,
             sock' = [sock EXCEPT ![FindActiveSocket] =
                        Wanted(sock[FindActiveSocket], force)]
      PROVE  BridgeInv'
  <2> DEFINE c == FindActiveSocket
  <2>1. c \in Ready
    BY <1>2, ReadyActive
  <2>2. c \in Conns /\ sock[c].srv = "open" /\ sock[c].promoted
    BY <2>1 DEF Ready, Open
  <2>3. Sound(sock[c], c, agent)
    BY <2>2, AgentFacts
  <2> DEFINE t == Wanted(sock[c], force)
  <2>4. Sound(t, c, agent) /\ Calm(sock[c], t, agent.cur)
    BY <2>2, <2>3, WantedSound
  <2>5. sock' = [sock EXCEPT ![c] = t]
    BY <1>2
  <2> HIDE DEF c, t
  <2>6. QED
    BY <2>2, <2>4, <2>5, ServerStep
<1>3. QED
  BY <1>1, <1>2

(* A commit, the sweep, a wake on its way, lost or handled, the alarm. *)
LEMMA StepAsk ==
  ASSUME BridgeInv, Commit \/ Sweep \/ LoseWake \/ HandleWake \/ Alarm
  PROVE  BridgeInv'
<1>1. UNCHANGED <<agent, hello, disp, actual, active>>
  BY DEF Commit, Sweep, LoseWake, HandleWake, Alarm, dbVars
<1>2. Rest'
  <2>1. desired' \in 1..MaxVersion
    <3>1. CASE Commit
      BY <3>1, RestFacts, Bounds DEF Commit
    <3>2. CASE Sweep \/ LoseWake \/ HandleWake \/ Alarm
      BY <3>2, RestFacts DEF Sweep, LoseWake, HandleWake, Alarm, dbVars
    <3>3. QED
      BY <3>1, <3>2
  <2>2. faults' \in 0..MaxFaults
    <3>1. CASE LoseWake
      BY <3>1, RestFacts, Bounds DEF LoseWake, Fault
    <3>2. CASE Commit \/ Sweep \/ HandleWake \/ Alarm
      BY <3>2, RestFacts DEF Commit, Sweep, HandleWake, Alarm
    <3>3. QED
      BY <3>1, <3>2
  <2>3. wake' \in {wake, TRUE, FALSE}
    BY DEF Commit, Sweep, LoseWake, HandleWake, Alarm
  <2>4. alarm' \in {alarm, TRUE, FALSE}
    BY DEF Commit, Sweep, LoseWake, HandleWake, Alarm
  <2>5. QED
    BY <1>1, <2>1, <2>2, <2>3, <2>4, RestFacts DEF Rest
<1>3. \/ sock' = sock
      \/ /\ Ready # {}
         /\ \E force \in {FALSE, Lagging} :
              sock' = [sock EXCEPT ![FindActiveSocket] =
                         Wanted(sock[FindActiveSocket], force)]
  <2>1. CASE Commit \/ Sweep \/ LoseWake
    BY <2>1 DEF Commit, Sweep, LoseWake
  <2>2. CASE HandleWake
    BY <2>2 DEF HandleWake
  <2>3. CASE Alarm
    <3>1. Reconciled(sock', sock)
      BY <2>3 DEF Alarm
    <3>2. QED
      BY <3>1, ReconciledOne
  <2>4. QED
    BY <2>1, <2>2, <2>3
<1>4. QED
  BY <1>1, <1>2, <1>3, AskStep

(* Messages that are left when the i-th has been handled. *)
LEMMA HandledSound ==
  ASSUME NEW c, NEW a \in AgentStates, NEW s, NEW m, Sound(s, c, a), s.srv = "open",
         s.session, NEW i \in 1..Len(s.outbound), NEW t,
         t = [s EXCEPT !.outbound = Handled(s.outbound, i)]
  PROVE  /\ Sound(t, c, a) /\ Calm(s, t, m)
         /\ t.srv = "open" /\ t.promoted = s.promoted
         /\ s.outbound[i].type = "state_report" => Fresh(t, s.outbound[i].version)
<1> DEFINE p == s.outbound
           q == Handled(p, i)
<1>1. s \in SocketStates /\ p \in Seq(ClientFrames) /\ Len(p) \in Nat
  BY DEF Sound, SocketStates
<1>2. Len(p) - 1 \in Nat /\ i \in Nat
  BY <1>1
<1>3. ASSUME NEW k \in 1..(Len(p) - 1)
      PROVE  /\ k \in 1..Len(p) /\ k + 1 \in 1..Len(p)
             /\ p[k] \in ClientFrames /\ p[k + 1] \in ClientFrames
  BY <1>1
<1>4. ASSUME NEW k \in 1..(Len(p) - 1)
      PROVE  [p[k] EXCEPT !.late = TRUE] \in ClientFrames
  BY <1>3 DEF ClientFrames
<1>5. /\ q \in Seq(ClientFrames) /\ Len(q) = Len(p) - 1
      /\ \A k \in 1..Len(q) :
           q[k] = IF k < i THEN [p[k] EXCEPT !.late = TRUE] ELSE p[k + 1]
  <2>1. q = [k \in 1..(Len(p) - 1) |->
               IF k < i THEN [p[k] EXCEPT !.late = TRUE] ELSE p[k + 1]]
    BY DEF Handled
  <2>2. q \in [1..(Len(p) - 1) -> ClientFrames]
    BY <1>3, <1>4, <2>1
  <2>3. q \in Seq(ClientFrames) /\ Len(q) = Len(p) - 1
    BY <1>2, <2>2
  <2>4. QED
    BY <2>1, <2>3
<1> DEFINE pos(k) == IF k < i THEN k ELSE k + 1
<1> HIDE DEF q
<1>6. ASSUME NEW k \in 1..Len(q)
      PROVE  /\ pos(k) \in 1..Len(p)
             /\ q[k].type = p[pos(k)].type /\ q[k].version = p[pos(k)].version
             /\ ~q[k].late => k >= i /\ q[k] = p[k + 1]
  <2>1. k \in 1..(Len(p) - 1)
    BY <1>5
  <2>2. /\ k \in 1..Len(p) /\ k + 1 \in 1..Len(p)
        /\ p[k] \in ClientFrames /\ p[k + 1] \in ClientFrames
    BY <1>3, <2>1
  <2>3. CASE k < i
    <3>1. q[k] = [p[k] EXCEPT !.late = TRUE]
      BY <1>5, <2>3
    <3>2. q[k].late = TRUE /\ q[k].type = p[k].type /\ q[k].version = p[k].version
      BY <2>2, <3>1 DEF ClientFrames
    <3>3. pos(k) = k
      BY <2>3
    <3> HIDE DEF pos
    <3>4. QED
      BY <2>2, <3>2, <3>3
  <2>4. CASE ~(k < i)
    <3>0. k >= i
      BY <1>2, <2>1, <2>4
    <3>1. q[k] = p[k + 1]
      BY <1>5, <2>4
    <3>2. pos(k) = k + 1
      BY <2>4
    <3> HIDE DEF pos
    <3>3. QED
      BY <2>2, <3>0, <3>1, <3>2
  <2>5. QED
    BY <2>3, <2>4
<1> HIDE DEF pos
<1>7. /\ t \in SocketStates /\ t.srv = s.srv /\ t.session = s.session
      /\ t.promoted = s.promoted /\ t.lastSent = s.lastSent /\ t.want = s.want
      /\ t.inbound = s.inbound /\ t.outbound = q
  <2>1. t = [s EXCEPT !.outbound = q]
    BY DEF q
  <2>2. QED
    BY <1>1, <1>5, <2>1 DEF SocketStates
<1>8. Addressed(t, c, a) /\ HelloFirst(t, a) /\ NotLost(t, c, a)
  BY <1>7 DEF Sound, Addressed, HelloFirst, NotLost
<1>9. Shaken(t, c, a)
  <2>1. ASSUME NEW k \in 1..Len(q) PROVE q[k].type # "client_hello"
    BY <1>6 DEF Sound, Shaken
  <2>2. QED
    BY <1>7, <2>1 DEF Sound, Shaken
<1>10. Bounded(t, a)
  <2>1. ASSUME NEW k \in 1..Len(q) PROVE q[k].version <= a.cur
    BY <1>6 DEF Sound, Bounded
  <2>2. QED
    BY <1>7, <2>1 DEF Bounded
<1>11. Ordered(t)
  <2>1. ASSUME NEW j \in 1..Len(q), NEW k \in 1..Len(q), j < k,
               q[j].type = "state_report", q[k].type = "state_report"
        PROVE  q[j].version <= q[k].version
    <3>1. pos(j) < pos(k)
      BY <1>2, <1>5, <2>1 DEF pos
    <3>2. QED
      BY <1>6, <2>1, <3>1 DEF Sound, Ordered
  <2>2. QED
    BY <1>7, <2>1 DEF Ordered
<1>12. Calm(s, t, m)
  <2>1. ASSUME NEW n \in Versions, Fresh(s, n), NEW k \in 1..Len(q),
               q[k].type = "state_report", ~q[k].late
        PROVE  q[k].version >= n
    <3>1. q[k] = p[k + 1] /\ k + 1 \in 1..Len(p)
      BY <1>5, <1>6, <1>3, <2>1
    <3>2. QED
      BY <2>1, <3>1 DEF Fresh
  <2>2. QED
    BY <1>7, <2>1 DEF Calm, Fresh
<1>13. ASSUME p[i].type = "state_report" PROVE Fresh(t, p[i].version)
  <2>1. ASSUME NEW k \in 1..Len(q), q[k].type = "state_report", ~q[k].late
        PROVE  q[k].version >= p[i].version
    <3>1. k >= i /\ k + 1 \in 1..Len(p) /\ q[k] = p[k + 1]
      BY <1>3, <1>5, <1>6, <2>1
    <3>2. i < k + 1
      BY <1>2, <1>5, <3>1
    <3>3. p[i].version <= p[k + 1].version
      BY <1>13, <2>1, <3>1, <3>2 DEF Sound, Ordered
    <3>4. p[i] \in ClientFrames /\ p[k + 1] \in ClientFrames
      BY <1>1, <3>1
    <3>5. QED
      BY <3>1, <3>3, <3>4, Bounds DEF ClientFrames, Versions
  <2>2. QED
    BY <1>7, <2>1 DEF Fresh
<1>14. QED
  BY <1>7, <1>8, <1>9, <1>10, <1>11, <1>12, <1>13 DEF Sound

(* The handler of a message of the active session: what it asks for, and   *)
(* what it records.                                                        *)
LEMMA StepHandleMessage ==
  ASSUME BridgeInv, NEW c \in Conns, NEW i \in 1..MaxQueue, HandleMessage(c, i)
  PROVE  /\ BridgeInv'
         /\ actual'.session = actual.session => actual'.applied >= actual.applied
<1> DEFINE s == sock[c]
           m == s.outbound[i]
<1>1. /\ c \in Ready /\ i \in 1..Len(s.outbound)
      /\ UNCHANGED <<desired, active, hello, disp, wake, agent, faults>>
      /\ alarm' \in {alarm, TRUE}
  BY DEF HandleMessage
<1>2. Rest'
  BY <1>1, RestFacts DEF Rest
<1>3. s.srv = "open" /\ s.promoted /\ Sound(s, c, agent) /\ s.session
  BY <1>1, AgentFacts DEF Ready, Open, Sound, Shaken
<1>4. actual.applied \in Nat /\ actual.session \in 0..MaxConn
  BY Bounds DEF BridgeInv, RecordSound, Versions
<1>5. CASE active # c
  <2> DEFINE t == [Closed(s) EXCEPT !.outbound = <<>>]
  <2>1. sock' = [sock EXCEPT ![c] = t] /\ UNCHANGED actual
    BY <1>5 DEF HandleMessage
  <2>2. Sound(t, c, agent) /\ Calm(s, t, agent.cur)
    BY <1>3, ClearedSound
  <2> HIDE DEF t
  <2>3. BridgeInv'
    BY <1>1, <1>2, <2>1, <2>2, ServerStep
  <2>4. QED
    BY <1>4, <2>1, <2>3
<1>6. CASE active = c
  <2> DEFINE t == [s EXCEPT !.outbound = Handled(s.outbound, i)]
             socks == [sock EXCEPT ![c].outbound = Handled(s.outbound, i)]
  <2>1. /\ Sound(t, c, agent) /\ Calm(s, t, agent.cur)
        /\ t.srv = "open" /\ t.promoted = s.promoted
        /\ m.type = "state_report" => Fresh(t, m.version)
    BY <1>1, <1>3, AgentFacts, HandledSound
  <2>2. socks = [sock EXCEPT ![c] = t] /\ socks[c] = t
    BY AgentFacts
  <2>3. m \in ClientFrames /\ m.version <= agent.cur /\ m.type # "client_hello"
    <3>1. s.outbound \in Seq(ClientFrames)
      BY <1>3 DEF Sound, SocketStates
    <3>2. m \in ClientFrames
      BY <1>1, <3>1
    <3>3. QED
      BY <1>1, <1>3, <3>2 DEF Sound, Bounded, Shaken
  <2>4. FindActiveSocket = c
    BY <1>1, <1>6, ReadyActive
  <2>5. PICK u : /\ sock' = [sock EXCEPT ![c] = u]
                 /\ \/ u = t
                    \/ \E force : u = Wanted(t, force)
    <3>1. CASE m.type = "sync_request"
      <4>1. sock' = [socks EXCEPT ![c] = Wanted(socks[c], TRUE)]
        BY <1>6, <3>1 DEF HandleMessage
      <4>2. sock' = [sock EXCEPT ![c] = Wanted(t, TRUE)]
        BY <2>2, <4>1, AgentFacts
      <4>3. QED
        BY <4>2
    <3>2. CASE m.type # "sync_request"
      <4>1. Reconciled(sock', socks)
        BY <1>6, <3>2 DEF HandleMessage
      <4> HIDE DEF socks
      <4>2. \/ sock' = socks
            \/ \E force \in {FALSE, Lagging} :
                 sock' = [socks EXCEPT ![c] = Wanted(socks[c], force)]
        <5>1. \/ sock' = socks
              \/ \E force \in {FALSE, Lagging} :
                   sock' = [socks EXCEPT ![FindActiveSocket] =
                              Wanted(socks[FindActiveSocket], force)]
          BY <4>1, ReconciledOne
        <5>2. QED
          BY <2>4, <5>1
      <4>3. CASE sock' = socks
        BY <2>2, <4>3
      <4>4. ASSUME NEW force, sock' = [socks EXCEPT ![c] = Wanted(socks[c], force)]
            PROVE  sock' = [sock EXCEPT ![c] = Wanted(t, force)]
        BY <2>2, <4>4, AgentFacts
      <4>5. QED
        BY <4>2, <4>3, <4>4
    <3>3. QED
      BY <3>1, <3>2
  <2> HIDE DEF t, socks
  <2>6. Sound(u, c, agent) /\ Calm(s, u, agent.cur)
        /\ (m.type = "state_report" => Fresh(u, m.version))
    <3>1. CASE u = t
      BY <2>1, <3>1
    <3>2. ASSUME NEW force, u = Wanted(t, force)
          PROVE  /\ Sound(u, c, agent) /\ Calm(s, u, agent.cur)
                 /\ m.type = "state_report" => Fresh(u, m.version)
      <4>1. Sound(u, c, agent) /\ Calm(t, u, agent.cur)
        BY <1>3, <2>1, <3>2, WantedSound
      <4>2. u.outbound = t.outbound
        BY <2>1, <3>2 DEF Wanted, Sound, SocketStates
      <4>3. Calm(s, u, agent.cur)
        BY <2>1, <4>1 DEF Calm
      <4>4. QED
        BY <2>1, <4>1, <4>2, <4>3 DEF Fresh
    <3>3. QED
      BY <2>5, <3>1, <3>2
  <2>7. CASE UNCHANGED actual
    <3>1. BridgeInv'
      BY <1>1, <1>2, <2>5, <2>6, <2>7, ServerStep
    <3>2. QED
      BY <1>4, <2>7, <3>1
  <2>8. CASE actual' # actual
    <3>1. /\ m.type = "state_report" /\ ~m.late
          /\ actual' = [session |-> c, applied |-> m.version]
      <4>1. m.type # "sync_request"
        BY <1>6, <2>8 DEF HandleMessage
      <4>2. actual' = IF m.late THEN actual ELSE [session |-> c, applied |-> m.version]
        BY <1>6, <4>1 DEF HandleMessage
      <4>3. QED
        BY <2>3, <2>8, <4>1, <4>2 DEF ClientFrames
    <3>2. /\ SocketsSound' /\ HelloSound' /\ DispatchSound' /\ sock'[c] = u
          /\ AgentSound(agent')
      <4>1. /\ sock = [d \in Conns |-> sock[d]] /\ agent \in AgentStates
            /\ agent' \in AgentStates /\ agent.cur <= agent'.cur /\ AgentSound(agent')
            /\ \A d \in Conns : Sound(sock[d], d, agent)
        BY <1>1, AgentFacts
      <4>2. sock' = [d \in Conns |-> sock'[d]] /\ sock'[c] = u
        BY <2>5, <4>1
      <4>3. ASSUME NEW d \in Conns
            PROVE  Sound(sock'[d], d, agent) /\ Calm(sock[d], sock'[d], agent.cur)
        <5>1. CASE d = c
          BY <2>6, <4>2, <5>1
        <5>2. CASE d # c
          BY <2>5, <4>1, <5>2, CalmSame
        <5>3. QED
          BY <5>1, <5>2
      <4>4. SocketsSound'
        BY <1>1, <4>2, <4>3 DEF SocketsSound
      <4>5. HelloSound'
        BY <1>1, <4>1, <4>3, HelloKept DEF BridgeInv, Calm
      <4>6. DispatchSound'
        BY <1>1, <4>3, DispatchKept DEF BridgeInv, Calm
      <4>7. QED
        BY <4>1, <4>2, <4>4, <4>5, <4>6
    <3>3. RecordSound'
      <4>1. /\ actual' \in [session : 0..MaxConn, applied : Versions]
            /\ actual'.session = c /\ actual'.applied = m.version /\ c # 0
        BY <2>3, <3>1, Bounds DEF ClientFrames, Conns
      <4>2. QED
        BY <1>1, <2>3, <2>6, <3>1, <3>2, <4>1 DEF RecordSound
    <3>4. BridgeInv'
      BY <1>2, <3>2, <3>3 DEF BridgeInv
    <3>5. ASSUME actual.session = c PROVE m.version >= actual.applied
      <4>1. Fresh(s, actual.applied)
        BY <3>5, Bounds DEF BridgeInv, RecordSound, Conns
      <4>2. QED
        BY <1>1, <3>1, <4>1 DEF Fresh
    <3>6. QED
      BY <3>1, <3>4, <3>5
  <2>9. QED
    BY <2>7, <2>8
<1>7. QED
  BY <1>5, <1>6

-----------------------------------------------------------------------------
(* The ends of sockets, and the faults of the server. *)

LEMMA StepSocketEnds ==
  ASSUME BridgeInv, NEW c \in Conns,
         NoticeClosed(c) \/ HandleSocketClosed(c) \/ HelloTimeout(c)
  PROVE  BridgeInv'
<1> DEFINE s == sock[c]
<1>1. /\ UNCHANGED <<desired, actual, hello, disp, wake, agent, faults>>
      /\ active' \in {active, 0} /\ alarm' \in {alarm, TRUE, FALSE}
  BY DEF NoticeClosed, HandleSocketClosed, HelloTimeout, dbVars, doVars
<1>2. Rest'
  <2>1. active' \in 0..MaxConn
    BY <1>1, RestFacts, Bounds
  <2>2. QED
    BY <1>1, <2>1, RestFacts DEF Rest
<1>3. Sound(s, c, agent)
  BY AgentFacts
<1>4. CASE NoticeClosed(c)
  <2> DEFINE t == [Closed(s) EXCEPT !.outbound = <<>>]
  <2>1. sock' = [sock EXCEPT ![c] = t] /\ s.srv = "open"
    BY <1>4 DEF NoticeClosed, Open
  <2>2. Sound(t, c, agent) /\ Calm(s, t, agent.cur)
    BY <1>3, <2>1, ClearedSound
  <2> HIDE DEF t
  <2>3. QED
    BY <1>1, <1>2, <2>1, <2>2, ServerStep
<1>5. CASE HandleSocketClosed(c)
  <2> DEFINE t == [NoSocket EXCEPT !.inbound = s.inbound]
  <2>1. sock' = [sock EXCEPT ![c] = t]
    BY <1>5 DEF HandleSocketClosed
  <2>2. Sound(t, c, agent) /\ Calm(s, t, agent.cur)
    BY <1>3, ForgottenSound
  <2> HIDE DEF t
  <2>3. QED
    BY <1>1, <1>2, <2>1, <2>2, ServerStep
<1>6. CASE HelloTimeout(c)
  <2> DEFINE t == Closed(s)
  <2>1. sock' = [sock EXCEPT ![c] = t]
    BY <1>6 DEF HelloTimeout
  <2>2. Sound(t, c, agent) /\ Calm(s, t, agent.cur)
    BY <1>3, ClosedSound
  <2> HIDE DEF t
  <2>3. QED
    BY <1>1, <1>2, <2>1, <2>2, ServerStep
<1>7. QED
  BY <1>4, <1>5, <1>6

LEMMA StepSlowHello == ASSUME BridgeInv, SlowHello PROVE BridgeInv'
<1> DEFINE c == hello.conn
           t == Closed(sock[c])
<1>1. /\ UNCHANGED <<desired, active, actual, hello, disp, wake, alarm, agent>>
      /\ Fault("timeout") /\ hello.pc # "idle" /\ sock' = [sock EXCEPT ![c] = t]
  BY DEF SlowHello, dbVars, doVars
<1>2. Rest'
  BY <1>1, RestFacts, FaultRest
<1>3. c \in Conns /\ Sound(sock[c], c, agent)
  BY <1>1, AgentFacts DEF BridgeInv, HelloSound
<1>4. Sound(t, c, agent) /\ Calm(sock[c], t, agent.cur)
  BY <1>3, ClosedSound
<1> HIDE DEF c, t
<1>5. QED
  BY <1>1, <1>2, <1>3, <1>4, ServerStep

LEMMA StepRelayFails == ASSUME BridgeInv, RelayFails PROVE BridgeInv'
<1> DEFINE c == disp.conn
           t == Closed(sock[c])
<1>1. /\ UNCHANGED <<desired, active, actual, hello, wake, agent>> /\ alarm' = TRUE
      /\ Fault("relay") /\ disp.pc = "check" /\ sock' = [sock EXCEPT ![c] = t]
      /\ disp' = IdleDispatch
  BY DEF RelayFails, dbVars
<1>2. Rest' /\ DispatchSound'
  BY <1>1, RestFacts, FaultRest, IdleDispatchSound
<1>3. c \in Conns /\ Sound(sock[c], c, agent)
  BY <1>1, AgentFacts DEF BridgeInv, DispatchSound
<1>4. Sound(t, c, agent) /\ Calm(sock[c], t, agent.cur)
  BY <1>3, ClosedSound
<1> HIDE DEF c, t
<1>5. QED
  BY <1>1, <1>2, <1>3, <1>4, DispatchStep

LEMMA StepRuntimeRestart == ASSUME BridgeInv, RuntimeRestart PROVE BridgeInv'
<1>1. /\ UNCHANGED <<desired, active, actual, wake, alarm, agent>>
      /\ Fault("runtime") /\ hello' = IdleHello /\ disp' = IdleDispatch
      /\ sock' = [c \in Conns |-> [sock[c] EXCEPT !.want = "none"]]
  BY DEF RuntimeRestart, dbVars
<1>2. Rest' /\ DispatchSound' /\ HelloSound'
  BY <1>1, RestFacts, FaultRest, IdleDispatchSound, IdleHelloSound
<1>3. ASSUME NEW c \in Conns
      PROVE  Sound(sock'[c], c, agent) /\ Calm(sock[c], sock'[c], agent.cur)
  <2> DEFINE t == [sock[c] EXCEPT !.want = "none"]
  <2>1. Sound(sock[c], c, agent)
    BY AgentFacts
  <2>2. Sound(t, c, agent) /\ Calm(sock[c], t, agent.cur)
    BY <2>1, WantSound
  <2>3. sock'[c] = t
    BY <1>1
  <2>4. QED
    BY <2>2, <2>3
<1>4. SocketsSound' /\ AgentSound(agent')
  BY <1>1, <1>3, AgentFacts DEF SocketsSound
<1>5. RecordSound'
  <2>1. actual.applied \in Versions /\ actual.applied <= agent.cur
    BY DEF BridgeInv, RecordSound
  <2>2. agent \in AgentStates /\ agent' \in AgentStates /\ agent.cur <= agent'.cur
    BY <1>1, AgentFacts
  <2>3. QED
    BY <1>1, <1>3, <2>1, <2>2, RecordKept DEF BridgeInv, Calm
<1>6. QED
  BY <1>2, <1>4, <1>5 DEF BridgeInv

-----------------------------------------------------------------------------

LEMMA NextBridge == BridgeInv /\ [Next]_vars => BridgeInv'
<1> SUFFICES ASSUME BridgeInv, [Next]_vars PROVE BridgeInv'
  OBVIOUS
<1>1. ASSUME NEW c \in Conns, HelloBegin(c) \/ DispatchBegin(c) PROVE BridgeInv'
  BY <1>1, StepHelloBegin, StepDispatchBegin
<1>2. CASE HelloSteps
  BY <1>2, StepHelloDatabase, StepHelloPromote, StepHelloEnds DEF HelloSteps
<1>3. CASE DispatchCheck \/ DispatchSend
  BY <1>3, StepDispatchCheck, StepDispatchSend
<1>4. CASE Commit \/ Sweep \/ HandleWake \/ Alarm \/ LoseWake
  BY <1>4, StepAsk
<1>5. ASSUME NEW c \in Conns, NEW i \in 1..MaxQueue, HandleMessage(c, i)
      PROVE  BridgeInv'
  BY <1>5, StepHandleMessage
<1>6. ASSUME NEW c \in Conns,
             NoticeClosed(c) \/ HandleSocketClosed(c) \/ HelloTimeout(c)
      PROVE  BridgeInv'
  BY <1>6, StepSocketEnds
<1>7. CASE Connect \/ AgentHello \/ AgentReceive \/ AgentApply \/ AgentReport
  BY <1>7, StepConnect, StepAgentHello, StepAgentReceive, StepAgentApply, StepAgentReport
<1>8. CASE AgentSeesClose \/ Drop \/ AgentRestart
  BY <1>8, StepAgentGone
<1>9. CASE RuntimeRestart \/ RelayFails \/ SlowHello \/ ImagesFail
  BY <1>9, StepRuntimeRestart, StepRelayFails, StepSlowHello, StepHelloDatabase
<1>10. CASE UNCHANGED vars
  <2>1. /\ SocketsSound' /\ AgentSound(agent') /\ HelloSound' /\ DispatchSound'
        /\ RecordSound'
    BY <1>10, SameSockets DEF vars
  <2>2. Rest'
    BY <1>10, RestFacts DEF Rest, vars
  <2>3. QED
    BY <2>1, <2>2 DEF BridgeInv
<1>11. QED
  BY <1>1, <1>2, <1>3, <1>4, <1>5, <1>6, <1>7, <1>8, <1>9, <1>10 DEF Next

(* Every variable keeps its type; the first frame an agent sees on a       *)
(* connection is server_hello and it sees no second one; and what the      *)
(* runtime recorded as sent on the agent's connection is cached by the     *)
(* agent or still in flight, whatever hellos, wakes, alarms, restarts and  *)
(* lost connections interleave (handleBridgeClientHello,                   *)
(* dispatchBridgeDesiredStateIfNeeded and the agent's connect_once).       *)
THEOREM BridgeCorrect == Spec => []BridgeSound
<1>1. Spec => []BridgeInv
  BY InitBridge, NextBridge, PTL DEF Spec
<1>2. QED
  BY <1>1, BridgeInvSound, PTL

(* Only a report, and the activation of a new session, write the record. *)
LEMMA NextRecorded ==
  BridgeInv /\ [Next]_vars =>
    [actual'.session = actual.session => actual'.applied >= actual.applied]_actual
<1> SUFFICES ASSUME BridgeInv, [Next]_vars
             PROVE  [actual'.session = actual.session =>
                       actual'.applied >= actual.applied]_actual
  OBVIOUS
<1>1. ASSUME NEW c \in Conns, NEW i \in 1..MaxQueue, HandleMessage(c, i)
      PROVE  actual'.session = actual.session => actual'.applied >= actual.applied
  BY <1>1, StepHandleMessage
<1>2. CASE HelloActivate
  <2>1. actual' = NoReport /\ (actual.session = 0 => actual.applied = 0)
    BY <1>2 DEF HelloActivate, BridgeInv, RecordSound
  <2>2. QED
    BY <2>1 DEF NoReport
<1>3. CASE HelloReconcile \/ HelloCheck \/ HelloPromote \/ HelloClose \/ HelloRollback
  BY <1>3 DEF HelloReconcile, HelloCheck, HelloPromote, HelloClose, HelloRollback, dbVars
<1>4. ASSUME NEW c \in Conns,
             \/ HelloBegin(c) \/ DispatchBegin(c) \/ NoticeClosed(c) \/ HelloTimeout(c)
             \/ HandleSocketClosed(c)
      PROVE  UNCHANGED actual
  BY <1>4 DEF HelloBegin, DispatchBegin, DispatchFrame, NoticeClosed, HelloTimeout,
              HandleSocketClosed, dbVars
<1>5. CASE DispatchCheck \/ DispatchSend \/ Commit \/ Sweep \/ HandleWake \/ Alarm
  BY <1>5 DEF DispatchCheck, DispatchSend, DispatchFrame, Commit, Sweep, HandleWake,
              Alarm, dbVars
<1>6. CASE \/ Connect \/ AgentHello \/ AgentReceive \/ AgentApply \/ AgentReport
           \/ AgentSeesClose
  BY <1>6 DEF Connect, AgentHello, AgentReceive, AgentApply, AgentReport,
              AgentSeesClose, AgentFrame, dbVars
<1>7. CASE \/ Drop \/ AgentRestart \/ RuntimeRestart \/ LoseWake \/ RelayFails
           \/ SlowHello \/ ImagesFail
  BY <1>7 DEF Drop, AgentRestart, RuntimeRestart, LoseWake, RelayFails, SlowHello,
              ImagesFail, dbVars
<1>8. CASE UNCHANGED vars
  BY <1>8 DEF vars
<1>9. QED
  BY <1>1, <1>2, <1>3, <1>4, <1>5, <1>6, <1>7, <1>8 DEF Next, HelloSteps

(* Within a session the recorded version never goes back, although the     *)
(* handlers of its reports overtake each other (persistHostReport).        *)
THEOREM RecordedForward == Spec => RecordedVersionForward
<1>1. Spec => []BridgeInv
  BY InitBridge, NextBridge, PTL DEF Spec
<1>2. QED
  BY <1>1, NextRecorded, PTL DEF Spec, RecordedVersionForward

=============================================================================
