----------------------------- MODULE HostRelay -----------------------------
(***************************************************************************)
(* The outbound relay of one personal or organization host.  The host      *)
(* runtime object refreshes a leased grant at Stargate (stargate-relay.ts, *)
(* dispatchBridgeDesiredStateIfNeeded), Stargate holds the grant, the      *)
(* revocations and the host's connection (relay_api.rs, host_relay.rs),    *)
(* and the agent connects with the token it is sent and admits the         *)
(* channels of its own live VMs (relay.rs of the agent and of              *)
(* stargate-core).                                                         *)
(*                                                                         *)
(* A session of the control connection is a number in the order of the     *)
(* hellos; it is the identity of a grant together with the credential      *)
(* generation.  A grant request that timed out at the control plane may    *)
(* still arrive.  An authorization (RelayAuthorization) is an instance with*)
(* its own cancellation token: `auths` numbers them.                       *)
(***************************************************************************)
EXTENDS Naturals, FiniteSets

CONSTANTS
  RelayTargets,      \* VMs the host runs
  Lease,        \* LEASE_MS in clock ticks
  Skew,         \* clock difference a grant tolerates
  MaxSessions, MaxAuths, MaxTime, MaxFaults

VARIABLES
  clock,
  cred,         \* credential generation of the host
  cur,          \* active_session_id, 0 for none
  last,         \* sessions so far
  credOf,       \* credential generation of each session
  allowed,      \* targets the snapshot query returns now
  disp,         \* the dispatch that holds desiredDispatchQueue
  net,          \* grant requests on their way to Stargate
  grant,        \* RelayGrants.0 of this host, or NoGrant
  cancelled,    \* authorizations whose token is cancelled
  auths,        \* authorizations so far
  revoked,      \* RelayGrants.1: identity to deadline
  revokedCred,  \* RelayGrants.2: generation and deadline
  relayConn,         \* authorization to the state of its connection
  hosts,        \* HostRelayRegistry: the authorization that is connected, or 0
  streams,      \* open streams
  agent,        \* the agent's relay: session, token, local targets
  gone,         \* sessions whose revocation Stargate has confirmed
  faults

relayVars == <<clock, cred, cur, last, credOf, allowed, disp, net, grant, cancelled, auths,
          revoked, revokedCred, relayConn, hosts, streams, agent, gone, faults>>
control == <<cred, cur, last, credOf, allowed>>
gateway == <<grant, cancelled, auths, revoked, revokedCred, relayConn, hosts, streams>>

NoGrant == [auth |-> 0, id |-> 0, targets |-> {}, exp |-> 0, rev |-> 0, connected |-> FALSE]
Idle == [pc |-> "idle", id |-> 0, before |-> {}]
NoAgent == [session |-> 0, auth |-> 0, local |-> {}]

Sessions == 1..MaxSessions
Auths == 1..MaxAuths

RelayConstants ==
  /\ Lease \in Nat \ {0} /\ Skew \in Nat
  /\ {MaxSessions, MaxAuths, MaxTime, MaxFaults} \subseteq Nat

Request == [id : Sessions, targets : SUBSET RelayTargets, issued : 0..(MaxTime + Skew),
            exp : 0..(MaxTime + Skew + Lease)]

RelayTypes ==
  /\ clock \in 0..MaxTime /\ cur \in 0..MaxSessions /\ last \in 0..MaxSessions
  /\ allowed \subseteq RelayTargets
  /\ disp.pc \in {"idle", "sent", "granted", "send", "revoke"}
  /\ net \subseteq Request
  /\ grant # NoGrant => /\ grant.auth \in Auths /\ grant.id \in Sessions
                     /\ grant.targets \subseteq RelayTargets
                     /\ grant.exp <= grant.rev + Lease
  /\ cancelled \subseteq Auths
  /\ relayConn \in [Auths -> {"none", "handshake", "serving", "ending"}]
  /\ hosts \in 0..MaxAuths
  /\ hosts # 0 => relayConn[hosts] \in {"serving", "ending"}
  /\ agent.local \subseteq RelayTargets

RelayInit ==
  /\ clock = 0 /\ cred = 1 /\ cur = 0 /\ last = 0 /\ credOf = [s \in Sessions |-> 0]
  /\ allowed = RelayTargets /\ disp = Idle /\ net = {}
  /\ grant = NoGrant /\ cancelled = {} /\ auths = 0
  /\ revoked = [s \in Sessions |-> 0] /\ revokedCred = [gen |-> 0, until |-> 0]
  /\ relayConn = [a \in Auths |-> "none"] /\ hosts = 0 /\ streams = {}
  /\ agent = NoAgent /\ gone = {} /\ faults = 0

----------------------------------------------------------------------------
(* Cancellation.  A stream is a child of its host connection, which is a   *)
(* child of its authorization, and it is bound to the token of its         *)
(* assignment, which refresh cancels when the target leaves the grant.     *)

Live(a) == a # 0 /\ a \notin cancelled /\ relayConn[a] = "serving"

Expired(g) == g.exp <= clock

\* RelayAuthorization::refresh and a cancelled authorization end streams at once
Surviving(dead, targets, a) ==
  {x \in streams : x.auth \notin dead /\ (x.auth = a => x.target \in targets)}

Fault == faults < MaxFaults /\ faults' = faults + 1

----------------------------------------------------------------------------
(* The control plane. *)

\* a client hello: the session becomes the active one
Hello ==
  /\ cur = 0 /\ last < MaxSessions
  /\ last' = last + 1 /\ cur' = last + 1
  /\ credOf' = [credOf EXCEPT ![last + 1] = cred]
  /\ UNCHANGED <<cred, allowed, clock, disp, net, gateway, agent, gone, faults>>

\* a run ends or starts: the snapshot query returns fewer or more targets
ChangeTargets(t) ==
  /\ Fault
  /\ allowed' = IF t \in allowed THEN allowed \ {t} ELSE allowed \cup {t}
  /\ UNCHANGED <<clock, cred, cur, last, credOf, disp, net, gateway, agent, gone>>

\* refreshStargateHostRelay, at every dispatch and at least every 45 s: the
\* snapshot and the request made from it.  The
\* control plane's clock may be ahead of Stargate's.
SendGrant(skew) ==
  /\ disp = Idle /\ cur # 0 /\ credOf[cur] = cred
  /\ disp' = [pc |-> "sent", id |-> cur, before |-> allowed]
  /\ net' = net \cup {[id |-> cur, targets |-> allowed, issued |-> clock + skew,
                       exp |-> clock + skew + Lease]}
  /\ UNCHANGED <<clock, control, gateway, agent, gone, faults>>

\* the second snapshot must equal the first, and the session must still be active
ConfirmGrant ==
  /\ disp.pc = "granted"
  /\ disp' = [disp EXCEPT !.pc = IF disp.before = allowed /\ disp.id = cur
                                 THEN "send" ELSE "revoke"]
  /\ UNCHANGED <<clock, control, net, gateway, agent, gone, faults>>

\* RelayRunner::apply: another token replaces the running relay, the same one
\* keeps it; either way only the VMs that run and are ready stay assigned
Applied == [session |-> cur, auth |-> grant.auth, local |-> allowed]

\* sendBridgeDesiredState: the agent applies the token and its own live VMs
SendDesired ==
  /\ disp.pc = "send"
  /\ disp' = IF disp.id = cur THEN Idle ELSE [disp EXCEPT !.pc = "revoke"]
  /\ agent' = IF disp.id = cur /\ grant # NoGrant /\ grant.id = cur
              THEN Applied
              ELSE agent
  /\ UNCHANGED <<clock, control, net, gateway, gone, faults>>

\* AbortSignal.timeout(5_000): the request stays on its way
GrantTimesOut ==
  /\ Fault /\ disp.pc = "sent"
  /\ disp' = [disp EXCEPT !.pc = "revoke"]
  /\ UNCHANGED <<clock, control, net, gateway, agent, gone>>

\* revoke of relay_api.rs: the grant of the same identity only
RevokedAt(id) ==
  LET hit == IF grant # NoGrant /\ grant.id = id THEN {grant.auth} ELSE {}
  IN  /\ cancelled' = cancelled \cup hit
      /\ hosts' = IF hosts \in hit THEN 0 ELSE hosts
      /\ streams' = Surviving(hit, {}, 0)
      /\ revoked' = [revoked EXCEPT ![id] = clock + Lease + Skew]
      /\ gone' = gone \cup {id}
      /\ UNCHANGED <<grant, auths, revokedCred, relayConn>>

\* a failed or outdated grant is revoked and the control socket is closed
RevokeGrant ==
  /\ disp.pc = "revoke"
  /\ RevokedAt(disp.id)
  /\ disp' = Idle
  /\ cur' = IF cur = disp.id THEN 0 ELSE cur
  /\ agent' = IF agent.session = disp.id THEN NoAgent ELSE agent
  /\ UNCHANGED <<clock, cred, last, credOf, allowed, net, faults>>

\* the control socket closes; handleSocketClosed revokes its own session
SocketClosed(confirmed) ==
  /\ Fault /\ cur # 0
  /\ cur' = 0 /\ agent' = NoAgent
  /\ IF confirmed THEN RevokedAt(cur) ELSE UNCHANGED <<gateway, gone>>
  /\ UNCHANGED <<clock, cred, last, credOf, allowed, disp, net>>

\* revoke_credentials: the host's credential is replaced or the host deleted
RotateCredential ==
  LET hit == IF grant # NoGrant /\ credOf[grant.id] <= cred THEN {grant.auth} ELSE {}
  IN  /\ Fault
      /\ cancelled' = cancelled \cup hit
      /\ hosts' = IF hosts \in hit THEN 0 ELSE hosts
      /\ streams' = Surviving(hit, {}, 0)
      /\ revokedCred' = [gen |-> cred, until |-> clock + Lease + Skew]
      /\ gone' = gone \cup {s \in Sessions : s <= last /\ credOf[s] <= cred}
      /\ cred' = cred + 1 /\ cur' = 0 /\ agent' = NoAgent
      /\ UNCHANGED <<clock, last, credOf, allowed, disp, net, grant, auths, revoked, relayConn>>

----------------------------------------------------------------------------
(* Stargate: grant of relay_api.rs. *)

TimelyAtExpiry(r) ==
  /\ r.issued <= clock + Skew /\ r.issued + Lease >= clock
  /\ r.exp >= clock /\ r.exp <= r.issued + Lease

Timely(r) ==
  /\ r.issued <= clock + Skew /\ r.issued + Lease >= clock
  /\ r.exp > clock /\ r.exp <= r.issued + Lease

NotRevoked(r) ==
  /\ revoked[r.id] <= clock
  /\ ~(revokedCred.until > clock /\ revokedCred.gen >= credOf[r.id])

\* a grant that expired is dropped, and its authorization cancelled, first
Held == IF grant # NoGrant /\ ~Expired(grant) THEN grant ELSE NoGrant
Swept == IF grant # NoGrant /\ Expired(grant) THEN {grant.auth} ELSE {}

\* an older request of the same identity, or of an older session, is stale
Newer(r) ==
  \/ Held = NoGrant
  \/ /\ Held.id = r.id
     /\ Held.auth \notin cancelled
     /\ r.issued > Held.rev \/ (r.issued = Held.rev /\ r.targets = Held.targets)
  \/ /\ Held # NoGrant /\ Held.id # r.id
     /\ credOf[r.id] >= credOf[Held.id] /\ r.id > Held.id

Accepts(r) == Timely(r) /\ NotRevoked(r) /\ Newer(r)

RefreshKeepsStreams(r) ==
  /\ Accepts(r) /\ Held # NoGrant /\ Held.id = r.id
  /\ grant' = [grant EXCEPT !.targets = r.targets, !.exp = r.exp, !.rev = r.issued]
  /\ UNCHANGED <<cancelled, auths, hosts, streams>>

RefreshGrant(r) ==
  /\ Accepts(r) /\ Held # NoGrant /\ Held.id = r.id
  /\ grant' = [grant EXCEPT !.targets = r.targets, !.exp = r.exp, !.rev = r.issued]
  /\ streams' = Surviving({}, r.targets, grant.auth)
  /\ UNCHANGED <<cancelled, auths, hosts>>

NewGrantKeepsEntry(r) ==
  /\ Accepts(r) /\ (Held = NoGrant \/ Held.id # r.id)
  /\ auths < MaxAuths /\ auths' = auths + 1
  /\ streams' = IF grant = NoGrant THEN streams ELSE Surviving({grant.auth}, {}, 0)
  /\ UNCHANGED <<cancelled, hosts>>
  /\ grant' = [auth |-> auths + 1, id |-> r.id, targets |-> r.targets, exp |-> r.exp,
               rev |-> r.issued, connected |-> FALSE]

NewGrant(r) ==
  /\ Accepts(r) /\ (Held = NoGrant \/ Held.id # r.id)
  /\ auths < MaxAuths /\ auths' = auths + 1
  /\ LET old == IF grant = NoGrant THEN {} ELSE {grant.auth}
     IN  /\ cancelled' = cancelled \cup old
         /\ hosts' = IF hosts \in old \ Swept THEN 0 ELSE hosts
         /\ streams' = Surviving(old, {}, 0)
  /\ grant' = [auth |-> auths + 1, id |-> r.id, targets |-> r.targets, exp |-> r.exp,
               rev |-> r.issued, connected |-> FALSE]

RefuseGrant(r) ==
  /\ ~Accepts(r)
  /\ UNCHANGED <<grant, cancelled, auths, hosts, streams>>

HandleGrant(r) ==
  /\ r \in net
  /\ \/ (RefreshGrant(r) \/ NewGrant(r)) /\ disp' =
          IF disp.pc = "sent" /\ disp.id = r.id THEN [disp EXCEPT !.pc = "granted"] ELSE disp
     \/ RefuseGrant(r) /\ disp' =
          IF disp.pc = "sent" /\ disp.id = r.id THEN [disp EXCEPT !.pc = "revoke"] ELSE disp
  /\ net' = net \ {r}
  /\ UNCHANGED <<clock, control, revoked, revokedCred, relayConn, agent, gone, faults>>

----------------------------------------------------------------------------
(* The connection of the host: websocket of relay_api.rs and              *)
(* serve_authorized of host_relay.rs.                                      *)

AgentConnect ==
  /\ agent.auth # 0 /\ grant # NoGrant /\ grant.auth = agent.auth
  /\ ~grant.connected /\ grant.auth \notin cancelled /\ ~Expired(grant)
  /\ relayConn[grant.auth] = "none"
  /\ grant' = [grant EXCEPT !.connected = TRUE]
  /\ relayConn' = [relayConn EXCEPT ![grant.auth] = "handshake"]
  /\ UNCHANGED <<clock, control, disp, net, cancelled, auths, revoked, revokedCred, hosts,
                 streams, agent, gone, faults>>

\* a late handshake cannot replace an active host connection
Authenticated(a) ==
  /\ relayConn[a] = "handshake"
  /\ IF hosts = 0 /\ a \notin cancelled
     THEN hosts' = a /\ relayConn' = [relayConn EXCEPT ![a] = "serving"]
     ELSE hosts' = hosts /\ relayConn' = [relayConn EXCEPT ![a] = "ending"]
  /\ UNCHANGED <<clock, control, disp, net, grant, cancelled, auths, revoked, revokedCred,
                 streams, agent, gone, faults>>

EndsWithoutDrop(a) ==
  /\ relayConn[a] = "serving" /\ a \in cancelled
  /\ relayConn' = [relayConn EXCEPT ![a] = "none"]
  /\ streams' = Surviving({a}, {}, 0)
  /\ UNCHANGED <<clock, control, disp, net, grant, cancelled, auths, revoked, revokedCred,
                 hosts, agent, gone, faults>>

DropRemovesAny(a) ==
  /\ relayConn[a] \in {"handshake", "serving"}
  /\ \/ a \in cancelled /\ UNCHANGED faults
     \/ grant # NoGrant /\ grant.auth = a /\ Expired(grant) /\ UNCHANGED faults
     \/ Fault
  /\ relayConn' = [relayConn EXCEPT ![a] = "ending"]
  /\ streams' = Surviving({a}, {}, 0)
  /\ hosts' = 0
  /\ UNCHANGED <<clock, control, disp, net, grant, cancelled, auths, revoked, revokedCred,
                 agent, gone>>

\* the connection ends: cancelled, expired, or the transport failed.  The drop
\* of the registration removes only its own entry.
ConnectionEnds(a) ==
  /\ relayConn[a] \in {"handshake", "serving"}
  /\ \/ a \in cancelled /\ UNCHANGED faults
     \/ grant # NoGrant /\ grant.auth = a /\ Expired(grant) /\ UNCHANGED faults
     \/ Fault
  /\ relayConn' = [relayConn EXCEPT ![a] = "ending"]
  /\ streams' = Surviving({a}, {}, 0)
  /\ hosts' = IF hosts = a THEN 0 ELSE hosts
  /\ UNCHANGED <<clock, control, disp, net, grant, cancelled, auths, revoked, revokedCred,
                 agent, gone>>

FlagKept(a) ==
  /\ relayConn[a] = "ending"
  /\ relayConn' = [relayConn EXCEPT ![a] = "none"]
  /\ UNCHANGED <<clock, control, disp, net, grant, cancelled, auths, revoked, revokedCred,
                 hosts, streams, agent, gone, faults>>

\* the socket task resets the flag of the grant it belongs to
ConnectionClosed(a) ==
  /\ relayConn[a] = "ending"
  /\ relayConn' = [relayConn EXCEPT ![a] = "none"]
  /\ grant' = IF grant # NoGrant /\ grant.auth = a
              THEN [grant EXCEPT !.connected = FALSE] ELSE grant
  /\ UNCHANGED <<clock, control, disp, net, cancelled, auths, revoked, revokedCred, hosts,
                 streams, agent, gone, faults>>

\* the agent accepts a channel only for an assignment of its own identity
AgentAdmits(t) == agent.auth = hosts /\ t \in agent.local

\* open of host_relay.rs
OpenStream(t) ==
  /\ Live(hosts) /\ grant # NoGrant /\ grant.auth = hosts /\ ~Expired(grant)
  /\ t \in grant.targets /\ AgentAdmits(t)
  /\ streams' = streams \cup {[auth |-> hosts, target |-> t]}
  /\ UNCHANGED <<clock, control, disp, net, grant, cancelled, auths, revoked, revokedCred,
                 relayConn, hosts, agent, gone, faults>>

\* Stargate restarts: nothing is restored from disk
RestartGateway ==
  /\ Fault
  /\ grant' = NoGrant /\ cancelled' = 1..auths /\ hosts' = 0 /\ streams' = {}
  /\ revoked' = [s \in Sessions |-> 0] /\ revokedCred' = [gen |-> 0, until |-> 0]
  /\ relayConn' = [a \in Auths |-> "none"] /\ net' = {} /\ gone' = {}
  /\ disp' = IF disp.pc = "sent" THEN [disp EXCEPT !.pc = "revoke"] ELSE disp
  /\ UNCHANGED <<clock, control, auths, agent>>

\* the timers of the leases fire with the clock: the task of a grant cancels it
Tick ==
  /\ clock < MaxTime /\ clock' = clock + 1
  /\ LET due == IF grant # NoGrant /\ grant.exp <= clock + 1 THEN {grant.auth} ELSE {}
     IN  /\ cancelled' = cancelled \cup due
         /\ streams' = Surviving(due, {}, 0)
  /\ UNCHANGED <<control, disp, net, grant, auths, revoked, revokedCred, relayConn, hosts, agent,
                 gone, faults>>

----------------------------------------------------------------------------
Control == Hello \/ (\E k \in {0, Skew} : SendGrant(k)) \/ ConfirmGrant \/ SendDesired \/ RevokeGrant
Relay ==
  \/ \E r \in net : HandleGrant(r)
  \/ AgentConnect
  \/ \E a \in Auths : Authenticated(a) \/ ConnectionClosed(a)
Faulty ==
  \/ \E t \in RelayTargets : ChangeTargets(t)
  \/ GrantTimesOut \/ RotateCredential \/ RestartGateway
  \/ \E confirmed \in BOOLEAN : SocketClosed(confirmed)

RelayNext ==
  \/ Control \/ Relay \/ Faulty \/ Tick
  \/ \E a \in Auths : ConnectionEnds(a)
  \/ \E t \in RelayTargets : OpenStream(t)

\* the control plane and the tasks of Stargate keep running; a cancelled
\* connection ends
RelayFairness ==
  /\ WF_relayVars(Control) /\ WF_relayVars(AgentConnect) /\ WF_relayVars(\E r \in net : HandleGrant(r))
  /\ \A a \in Auths : /\ WF_relayVars(Authenticated(a)) /\ WF_relayVars(ConnectionClosed(a))
                      /\ WF_relayVars(a \in cancelled /\ ConnectionEnds(a))

RelaySpec == RelayInit /\ [][RelayNext]_relayVars

FairRelaySpec == RelaySpec /\ RelayFairness

----------------------------------------------------------------------------
(* Properties. *)

(* Every open stream belongs to the connected host, to the grant that holds *)
(* now and to a target of it (refresh and revocation cancel the rest).      *)
StreamsGranted ==
  \A x \in streams :
    /\ x.auth = hosts /\ x.auth \notin cancelled
    /\ grant # NoGrant /\ grant.auth = x.auth /\ x.target \in grant.targets

(* A session whose revocation Stargate confirmed never serves streams again:*)
(* a grant request that was delayed behind the revocation is refused for as *)
(* long as it could still be timely (LEASE_MS + 5 s in relay_api.rs).       *)
RevokedStaysOut ==
  grant # NoGrant /\ grant.id \in gone => grant.auth \in cancelled

(* The registry of the host never names a connection that has ended, and a  *)
(* connection that serves without being cancelled is the registered one.    *)
OneConnection ==
  \A a \in Auths : Live(a) => hosts = a

(* The host is not locked out: while its current session holds a grant that *)
(* is neither cancelled nor expired and the agent has its token, either the *)
(* host is connected, or a connection is still on its way in or out, or the *)
(* token is accepted.                                                       *)
TokenUsable ==
  grant # NoGrant /\ grant.auth = agent.auth /\ grant.auth \notin cancelled /\ ~Expired(grant) =>
    \/ relayConn[grant.auth] # "none"
    \/ ~grant.connected

(* Streams to a host run under its current grant, a revoked session stays   *)
(* out however late its grant request arrives, a host has one registered    *)
(* connection, and the token it holds is usable.                            *)
RelayGranted ==
  RelayTypes /\ StreamsGranted /\ RevokedStaysOut /\ OneConnection /\ TokenUsable

(* Whatever was lost, revoked, restarted or rotated on the way, the host    *)
(* ends up connected under its current session: a refused or timed-out      *)
(* grant costs it a control session, never the relay.                       *)
HostSettles ==
  <>[](cur # 0 /\ hosts # 0 /\ grant.auth = hosts /\ grant.id = cur /\ agent.session = cur)
=============================================================================
