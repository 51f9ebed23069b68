--------------------------- MODULE GatewayProofs ---------------------------
(***************************************************************************)
(* The components behind the gateway, for every size of their instances.   *)
(*                                                                         *)
(* The terminal route of Stargate, for any number of browser sockets,      *)
(* native connections, generations, targets and admin calls.               *)
(* ShellsAuthorized is not inductive.  A shell comes from a session that   *)
(* read the route earlier, so the invariant speaks of every session that   *)
(* may still become a shell; and that the owed revocation reaches it rests *)
(* on the lease it took before it read.  That no activation is lost rests  *)
(* on the subscription taken before the read.                              *)
(*                                                                         *)
(* The workspace route of WorkspaceApp, for any number of concurrent admin *)
(* operations, requests, targets and issues.  RequestsCurrent is not       *)
(* inductive: that a revocation reaches a request rests on the lease the   *)
(* request took before it read the route, and that a create finds no       *)
(* request of a deleted route rests on the versions never being 0.         *)
(*                                                                         *)
(* The outbound relay of HostRelay, for any number of sessions, authoriza- *)
(* tions and faults.  That a revoked session stays out is not inductive:   *)
(* it rests on the requests still in flight, each of which expires before  *)
(* the fence that its revocation, or its credential's, has put up.         *)
(***************************************************************************)
EXTENDS Stargate, WorkspaceApp, HostRelay, TLAPS

(* The terminal route. *)

Registries == [gen : Nat, entries : SUBSET Leases]

SocketStates ==
  [pc : SocketSteps, token : Gens \cup {None}, seen : Route \cup {None}, lgen : Nat,
   cancelled : BOOLEAN, woken : BOOLEAN, claim : Gens \cup {None}]

ConnStates ==
  [pc : ConnSteps, seen : Route \cup {None}, lgen : Nat, cancelled : BOOLEAN]

GateShapes ==
  /\ route \in Route \cup {None}
  /\ route # None => (route.kind = "missing" <=> route.target = None)
  /\ lock \in {"free", "terminate", "notify"}
  /\ registry \in Registries
  /\ waiters \subseteq Sockets
  /\ sock \in [Sockets -> SocketStates] /\ conn \in [Conns -> ConnStates]
  /\ issues \in 0..MaxIssues /\ admin \in 0..MaxAdmin

(* The registry advances its generation once per owed revocation, and a     *)
(* revocation is owed by an issue, a delete or an expiry.                    *)
Owed == (IF lock = "terminate" THEN 1 ELSE 0)
          + (IF route # None /\ route.expired THEN 1 ELSE 0)

Budget == registry.gen + Owed <= issues + admin

(* The lease by which a revocation finds a session. *)
LeaseOf(c) == IF conn[c].pc = "offered" THEN "admission" ELSE "connection"

SessionsRegistered ==
  /\ \A s \in Sockets : sock[s].pc # "idle" /\ ~sock[s].cancelled =>
       <<s, "admission">> \in registry.entries
  /\ \A c \in Conns : conn[c].pc # "idle" /\ ~conn[c].cancelled =>
       <<c, LeaseOf(c)>> \in registry.entries

(* A socket between its subscription and its target is subscribed. *)
Subscribed == \A s \in Sockets : sock[s].pc \in {"read", "wait"} => s \in waiters

(* What the stored route owes to a session that is not revoked. *)
Agrees(seen) == SameAuthorization(route, seen) /\ route.kind = "active"

SocketAgrees(s) ==
  ~sock[s].cancelled =>
    /\ sock[s].pc \in {"open", "pty"} => Agrees(sock[s].seen)
    /\ sock[s].pc = "wait" =>
         route # None /\ (route.kind = "active" => sock[s].woken \/ lock = "notify")

ConnAgrees(c) == conn[c].pc # "idle" /\ ~conn[c].cancelled => Agrees(conn[c].seen)

SessionsAuthorized ==
  lock # "terminate" => (\A s \in Sockets : SocketAgrees(s)) /\ (\A c \in Conns : ConnAgrees(c))

(* The inductive invariant. *)
GateInv == GateShapes /\ Budget /\ SessionsRegistered /\ Subscribed /\ SessionsAuthorized

-----------------------------------------------------------------------------
LEMMA InitGate == ASSUME StargateConstants PROVE Init => GateInv
<1> SUFFICES ASSUME Init PROVE GateInv
  OBVIOUS
<1>1. NoSocket \in SocketStates /\ NoConn \in ConnStates
  BY DEF NoSocket, NoConn, SocketStates, ConnStates, SocketSteps, ConnSteps
<1>2. GateShapes
  BY <1>1 DEF StargateConstants, Init, GateShapes, Registries
<1>3. Budget
  BY DEF Init, Budget, Owed
<1>4. SessionsRegistered /\ Subscribed /\ SessionsAuthorized
  BY DEF Init, SessionsRegistered, Subscribed, SessionsAuthorized, SocketAgrees, ConnAgrees, NoSocket, NoConn
<1>5. QED
  BY <1>2, <1>3, <1>4 DEF GateInv

(* A lease that is dropped takes only itself out of the registry. *)
LEMMA Dropped ==
  ASSUME NEW reg \in Registries, NEW dropped
  PROVE  /\ Unregister(reg, dropped) \in Registries
         /\ Unregister(reg, dropped).entries = reg.entries \ dropped
         /\ Unregister(reg, dropped).gen <= reg.gen
BY DEF Registries, Unregister

(* Registering a lease adds it and nothing else. *)
LEMMA Added ==
  ASSUME registry \in Registries, NEW who \in Sockets \cup Conns,
         NEW kind \in {"admission", "connection", "bridge"}
  PROVE  /\ Register(who, kind) \in Registries
         /\ Register(who, kind).entries = registry.entries \cup {<<who, kind>>}
         /\ Register(who, kind).gen = registry.gen
BY DEF Registries, Register, Leases

-----------------------------------------------------------------------------
(* Admin operations.  The write of the row touches no session; what it       *)
(* invalidates is covered by the revocation it owes.                         *)

(* A write that owes nothing keeps the authorization of every route that    *)
(* was active and wakes whoever waits for the one that becomes active.      *)
LEMMA WriteKept ==
  ASSUME StargateConstants, GateShapes, GateShapes',
         UNCHANGED <<registry, waiters, sock, conn>>,
         Budget', SessionsRegistered, Subscribed, SessionsAuthorized,
         \/ lock' = "terminate"
         \/ /\ lock # "terminate"
            /\ route # None =>
                 /\ route' # None /\ route'.meta = route.meta /\ route'.mode = route.mode
                 /\ route.kind = "active" =>
                      /\ route'.kind = "active" /\ route'.target = route.target
                      /\ lock = "notify" => lock' = "notify"
                 /\ route'.kind = "active" => route.kind = "active" \/ lock' = "notify"
  PROVE  GateInv'
<1>1. SessionsRegistered' /\ Subscribed'
  BY DEF SessionsRegistered, Subscribed, LeaseOf
<1>2. ASSUME lock' # "terminate", NEW s \in Sockets
      PROVE  SocketAgrees(s)'
  <2>1. SocketAgrees(s)
    BY <1>2 DEF SessionsAuthorized
  <2>2. QED
    BY <1>2, <2>1 DEF SocketAgrees, Agrees, SameAuthorization
<1>3. ASSUME lock' # "terminate", NEW c \in Conns
      PROVE  ConnAgrees(c)'
  <2>1. ConnAgrees(c)
    BY <1>3 DEF SessionsAuthorized
  <2>2. QED
    BY <1>3, <2>1 DEF ConnAgrees, Agrees, SameAuthorization
<1>4. QED
  BY <1>1, <1>2, <1>3 DEF GateInv, SessionsAuthorized

LEMMA IssueGate ==
  ASSUME StargateConstants, GateInv, NEW g \in Gens, NEW mode \in Modes, NEW m \in Metas,
         NEW t \in Targets, IssueRoute(g, mode, m, t)
  PROVE  GateInv'
<1> DEFINE new == [gen |-> g, mode |-> mode, meta |-> m,
                   kind |-> IF mode = "native" THEN "active" ELSE "missing",
                   target |-> IF mode = "native" THEN t ELSE None,
                   attachment |-> 0, expired |-> FALSE]
<1>1. /\ lock = "free" /\ issues < MaxIssues /\ issues' = issues + 1 /\ route' = new
      /\ lock' = IF AuthorizationChanged(route, new) THEN "terminate" ELSE "free"
      /\ UNCHANGED <<registry, waiters, sock, conn, admin>>
  BY DEF IssueRoute
<1>2. new \in Route /\ new # None
  <2>1. 0 \in 0..MaxAdmin
    BY DEF StargateConstants
  <2>2. new \in Route
    BY <2>1 DEF Route, TargetKinds
  <2> HIDE DEF new
  <2>3. QED
    BY <2>2 DEF StargateConstants
<1>3. /\ new.meta = m /\ new.mode = mode /\ new.expired = FALSE
      /\ new.kind \in {"active", "missing"}
      /\ new.kind = "missing" <=> new.target = None
  BY DEF StargateConstants
<1> HIDE DEF new
<1>4. GateShapes'
  BY <1>1, <1>2, <1>3 DEF GateInv, GateShapes, StargateConstants
<1>5. Budget'
  BY <1>1, <1>2, <1>3 DEF GateInv, GateShapes, Budget, Owed, Registries, StargateConstants
<1>6. \/ lock' = "terminate"
      \/ route # None => /\ new.meta = route.meta /\ new.mode = route.mode
                         /\ \/ route.kind = "missing" /\ new.kind = "missing"
                            \/ /\ route.kind = "active" /\ new.kind = "active"
                               /\ new.target = route.target
  BY <1>1 DEF AuthorizationChanged
<1>7. \/ lock' = "terminate"
      \/ /\ lock # "terminate"
         /\ route # None =>
              /\ route' # None /\ route'.meta = route.meta /\ route'.mode = route.mode
              /\ route.kind = "active" =>
                   /\ route'.kind = "active" /\ route'.target = route.target
                   /\ lock = "notify" => lock' = "notify"
              /\ route'.kind = "active" => route.kind = "active" \/ lock' = "notify"
  BY <1>1, <1>2, <1>6
<1>8. QED
  BY <1>1, <1>4, <1>5, <1>7, WriteKept DEF GateInv

LEMMA TargetGate ==
  ASSUME StargateConstants, GateInv, NEW g \in Gens, NEW m \in Metas,
         \/ \E t \in Targets : StageTarget(g, m, t)
         \/ \E a \in 1..MaxAdmin : ActivateTarget(g, m, a)
  PROVE  GateInv'
<1>1. /\ lock = "free" /\ admin < MaxAdmin /\ admin' = admin + 1
      /\ route \in Route /\ route # None /\ ~route.expired
      /\ UNCHANGED <<registry, waiters, sock, conn, issues>>
  BY DEF StageTarget, ActivateTarget, Calls, GetRoute, GateInv, GateShapes
<1>2. CASE \E t \in Targets : StageTarget(g, m, t)
  <2>1. PICK t \in Targets : StageTarget(g, m, t)
    BY <1>2
  <2>2. /\ route.kind = "missing" /\ UNCHANGED lock
        /\ route' = [route EXCEPT !.kind = "staged", !.target = t, !.attachment = admin + 1]
    BY <2>1 DEF StageTarget
  <2>3. t # None /\ admin + 1 \in 0..MaxAdmin
    BY <1>1 DEF StargateConstants, GateInv, GateShapes
  <2>4. /\ route' \in Route /\ route'.kind = "staged" /\ route'.target = t
        /\ route'.meta = route.meta /\ route'.mode = route.mode
        /\ route'.expired = route.expired
    BY <1>1, <2>2, <2>3 DEF Route, TargetKinds
  <2>5. route' # None
    BY <2>4 DEF StargateConstants
  <2>6. GateShapes'
    BY <1>1, <2>2, <2>3, <2>4 DEF GateInv, GateShapes, StargateConstants
  <2>7. Budget'
    BY <1>1, <2>2, <2>4, <2>5 DEF GateInv, GateShapes, Budget, Owed, Registries, StargateConstants
  <2>8. QED
    BY <1>1, <2>2, <2>4, <2>5, <2>6, <2>7, WriteKept DEF GateInv
<1>3. CASE \E a \in 1..MaxAdmin : ActivateTarget(g, m, a)
  <2>1. /\ route.kind # "missing" /\ lock' = "notify"
        /\ route' = [route EXCEPT !.kind = "active"]
    BY <1>3 DEF ActivateTarget
  <2>2. /\ route' \in Route /\ route'.kind = "active" /\ route'.target = route.target
        /\ route'.meta = route.meta /\ route'.mode = route.mode
        /\ route'.expired = route.expired
    BY <1>1, <2>1 DEF Route, TargetKinds
  <2>3. route' # None
    BY <2>2 DEF StargateConstants
  <2>4. GateShapes'
    BY <1>1, <2>1, <2>2 DEF GateInv, GateShapes, StargateConstants
  <2>5. Budget'
    BY <1>1, <2>1, <2>2, <2>3 DEF GateInv, GateShapes, Budget, Owed, Registries, StargateConstants
  <2>6. QED
    BY <1>1, <2>1, <2>2, <2>3, <2>4, <2>5, WriteKept DEF GateInv
<1>4. QED
  BY <1>2, <1>3

LEMMA DeleteGate ==
  ASSUME StargateConstants, GateInv,
         (\E g \in Gens \cup {None} : DeleteRoute(g)) \/ SweepExpired
  PROVE  GateInv'
<1>1. /\ lock = "free" /\ route # None /\ route' = None /\ lock' = "terminate"
      /\ UNCHANGED <<registry, waiters, sock, conn, issues>>
      /\ \/ admin < MaxAdmin /\ admin' = admin + 1
         \/ admin' = admin /\ route.expired
  BY DEF DeleteRoute, SweepExpired, Calls
<1>2. GateShapes'
  BY <1>1 DEF GateInv, GateShapes, StargateConstants
<1>3. Budget'
  BY <1>1 DEF GateInv, GateShapes, Budget, Owed, Registries, StargateConstants
<1>4. QED
  BY <1>1, <1>2, <1>3, WriteKept DEF GateInv

LEMMA ExpireGate ==
  ASSUME StargateConstants, GateInv, ExpireRoute
  PROVE  GateInv'
<1>1. /\ admin < MaxAdmin /\ admin' = admin + 1
      /\ route \in Route /\ route # None /\ ~route.expired
      /\ route' = [route EXCEPT !.expired = TRUE]
      /\ UNCHANGED <<lock, registry, waiters, sock, conn, issues>>
  BY DEF ExpireRoute, Calls, GetRoute, GateInv, GateShapes
<1>2. /\ route' \in Route /\ route'.kind = route.kind /\ route'.target = route.target
      /\ route'.meta = route.meta /\ route'.mode = route.mode /\ route'.expired = TRUE
  BY <1>1 DEF Route
<1>3. route' # None
  BY <1>2 DEF StargateConstants
<1>4. GateShapes'
  BY <1>1, <1>2 DEF GateInv, GateShapes, StargateConstants
<1>5. Budget'
  BY <1>1, <1>2, <1>3 DEF GateInv, GateShapes, Budget, Owed, Registries, StargateConstants
<1>6. \/ lock' = "terminate"
      \/ /\ lock # "terminate" /\ lock' = lock
         /\ route' # None /\ route'.meta = route.meta /\ route'.mode = route.mode
         /\ route'.kind = route.kind /\ route'.target = route.target
  BY <1>1, <1>2, <1>3
<1>7. QED
  BY <1>1, <1>4, <1>5, <1>6, WriteKept DEF GateInv

-----------------------------------------------------------------------------
(* The second halves of the operations, and the restart. *)

(* A revocation cancels every session that is in the registry, and every    *)
(* session that is not cancelled is.                                        *)
LEMMA RevokeGate ==
  ASSUME StargateConstants, GateInv, RevokeSessions
  PROVE  GateInv'
<1> DEFINE cut == {l[1] : l \in registry.entries}
<1>1. /\ lock = "terminate" /\ lock' = "free"
      /\ registry' = [gen |-> registry.gen + 1, entries |-> {}]
      /\ sock' = [s \in Sockets |->
                    IF s \in cut THEN [sock[s] EXCEPT !.cancelled = TRUE] ELSE sock[s]]
      /\ conn' = [c \in Conns |->
                    IF c \in cut THEN [conn[c] EXCEPT !.cancelled = TRUE] ELSE conn[c]]
      /\ UNCHANGED <<route, waiters, issues, admin>>
  BY DEF RevokeSessions, Terminate
<1>2. ASSUME NEW s \in Sockets, sock[s].pc # "idle", ~sock[s].cancelled
      PROVE  s \in cut
  <2>1. <<s, "admission">> \in registry.entries
    BY <1>2 DEF GateInv, SessionsRegistered
  <2>2. QED
    BY <2>1
<1>3. ASSUME NEW c \in Conns, conn[c].pc # "idle", ~conn[c].cancelled
      PROVE  c \in cut
  <2>1. <<c, LeaseOf(c)>> \in registry.entries
    BY <1>3 DEF GateInv, SessionsRegistered
  <2>2. QED
    BY <2>1
<1> HIDE DEF cut
<1>4. ASSUME NEW s \in Sockets
      PROVE  /\ sock'[s] \in SocketStates /\ sock'[s].pc = sock[s].pc
             /\ sock'[s].pc # "idle" => sock'[s].cancelled
  <2>1. sock[s] \in SocketStates
    BY DEF GateInv, GateShapes
  <2>2. QED
    BY <1>1, <1>2, <2>1 DEF SocketStates
<1>5. ASSUME NEW c \in Conns
      PROVE  /\ conn'[c] \in ConnStates
             /\ conn'[c].pc # "idle" => conn'[c].cancelled
  <2>1. conn[c] \in ConnStates
    BY DEF GateInv, GateShapes
  <2>2. QED
    BY <1>1, <1>3, <2>1 DEF ConnStates
<1>6. GateShapes'
  <2>1. sock' \in [Sockets -> SocketStates] /\ conn' \in [Conns -> ConnStates]
    BY <1>1, <1>4, <1>5
  <2>2. registry' \in Registries
    BY <1>1 DEF GateInv, GateShapes, Registries
  <2>3. QED
    BY <1>1, <2>1, <2>2 DEF GateInv, GateShapes
<1>7. Budget'
  BY <1>1 DEF GateInv, GateShapes, Budget, Owed, Registries, StargateConstants
<1>8. SessionsRegistered' /\ SessionsAuthorized'
  BY <1>4, <1>5 DEF SessionsRegistered, SessionsAuthorized, SocketAgrees, ConnAgrees
<1>9. Subscribed'
  BY <1>1, <1>4 DEF GateInv, Subscribed
<1>10. QED
  BY <1>6, <1>7, <1>8, <1>9 DEF GateInv

(* A notification wakes every socket that waits. *)
LEMMA NotifyGate ==
  ASSUME StargateConstants, GateInv, NotifyWaiters
  PROVE  GateInv'
<1>1. /\ lock = "notify" /\ lock' = "free"
      /\ sock' = [s \in Sockets |->
                    IF s \in waiters THEN [sock[s] EXCEPT !.woken = TRUE] ELSE sock[s]]
      /\ UNCHANGED <<route, registry, waiters, conn, issues, admin>>
  BY DEF NotifyWaiters
<1>2. ASSUME NEW s \in Sockets
      PROVE  /\ sock'[s] \in SocketStates /\ sock'[s].pc = sock[s].pc
             /\ sock'[s].cancelled = sock[s].cancelled /\ sock'[s].seen = sock[s].seen
             /\ s \in waiters => sock'[s].woken
  <2>1. sock[s] \in SocketStates
    BY DEF GateInv, GateShapes
  <2>2. QED
    BY <1>1, <2>1 DEF SocketStates
<1>3. GateShapes'
  <2>1. sock' \in [Sockets -> SocketStates]
    BY <1>1, <1>2
  <2>2. QED
    BY <1>1, <2>1 DEF GateInv, GateShapes
<1>4. Budget'
  BY <1>1 DEF GateInv, GateShapes, Budget, Owed, Registries, StargateConstants
<1>5. SessionsRegistered' /\ Subscribed'
  BY <1>1, <1>2 DEF GateInv, SessionsRegistered, Subscribed, LeaseOf
<1>6. ASSUME NEW s \in Sockets PROVE SocketAgrees(s)'
  BY <1>1, <1>2 DEF GateInv, SessionsAuthorized, Subscribed, SocketAgrees, Agrees, SameAuthorization
<1>7. ASSUME NEW c \in Conns PROVE ConnAgrees(c)'
  BY <1>1 DEF GateInv, SessionsAuthorized, ConnAgrees, Agrees, SameAuthorization
<1>8. QED
  BY <1>3, <1>4, <1>5, <1>6, <1>7 DEF GateInv, SessionsAuthorized

LEMMA RestartGate ==
  ASSUME StargateConstants, GateInv, Restart
  PROVE  GateInv'
<1>1. /\ admin < MaxAdmin /\ admin' = admin + 1
      /\ registry' = [gen |-> 0, entries |-> {}] /\ waiters' = {}
      /\ sock' = [s \in Sockets |-> NoSocket] /\ conn' = [c \in Conns |-> NoConn]
      /\ UNCHANGED <<route, lock, issues>>
  BY DEF Restart, Calls
<1>2. NoSocket \in SocketStates /\ NoConn \in ConnStates
  BY DEF NoSocket, NoConn, SocketStates, ConnStates, SocketSteps, ConnSteps
<1>3. GateShapes'
  BY <1>1, <1>2 DEF StargateConstants, GateInv, GateShapes, Registries
<1>4. Budget'
  BY <1>1 DEF GateInv, GateShapes, Budget, Owed, Registries, StargateConstants
<1>5. SessionsRegistered' /\ Subscribed' /\ SessionsAuthorized'
  BY <1>1 DEF SessionsRegistered, Subscribed, SessionsAuthorized, SocketAgrees, ConnAgrees, NoSocket, NoConn
<1>6. QED
  BY <1>3, <1>4, <1>5 DEF GateInv

-----------------------------------------------------------------------------
(* Browser sockets. *)

(* What one socket does while it stays connected: it keeps its lease, and   *)
(* what it is about to rely on is what the route says now.                  *)
LEMMA SocketStays ==
  ASSUME StargateConstants, GateInv, NEW s \in Sockets, NEW new \in SocketStates,
         sock' = [sock EXCEPT ![s] = new],
         UNCHANGED <<route, lock, conn, issues, admin>>,
         registry' \in Registries, registry'.gen = registry.gen,
         registry.entries \subseteq registry'.entries,
         waiters' \subseteq Sockets, waiters \ {s} \subseteq waiters',
         new.pc # "idle" /\ ~new.cancelled => <<s, "admission">> \in registry'.entries,
         new.pc \in {"read", "wait"} => s \in waiters',
         lock # "terminate" /\ ~new.cancelled =>
           /\ new.pc \in {"open", "pty"} => Agrees(new.seen)
           /\ new.pc = "wait" =>
                route # None /\ (route.kind = "active" => new.woken \/ lock = "notify")
  PROVE  GateInv'
<1>1. sock'[s] = new /\ \A o \in Sockets \ {s} : sock'[o] = sock[o]
  BY DEF GateInv, GateShapes
<1>2. GateShapes'
  BY DEF GateInv, GateShapes
<1>3. Budget'
  BY DEF GateInv, Budget, Owed
<1>4. SessionsRegistered' /\ Subscribed'
  BY <1>1 DEF GateInv, SessionsRegistered, Subscribed, LeaseOf
<1>5. ASSUME lock' # "terminate", NEW o \in Sockets
      PROVE  SocketAgrees(o)'
  <2>1. CASE o = s
    BY <1>1, <1>5, <2>1 DEF SocketAgrees, Agrees, SameAuthorization
  <2>2. CASE o # s
    BY <1>1, <1>5, <2>2 DEF GateInv, SessionsAuthorized, SocketAgrees, Agrees, SameAuthorization
  <2>3. QED
    BY <2>1, <2>2
<1>6. ASSUME lock' # "terminate", NEW c \in Conns
      PROVE  ConnAgrees(c)'
  BY <1>6 DEF GateInv, SessionsAuthorized, ConnAgrees, Agrees, SameAuthorization
<1>7. QED
  BY <1>2, <1>3, <1>4, <1>5, <1>6 DEF GateInv, SessionsAuthorized

(* A socket that leaves takes its own leases and its own subscription. *)
LEMMA SocketLeft ==
  ASSUME StargateConstants, GateInv, NEW s \in Sockets, SocketLeaves(s),
         UNCHANGED <<route, lock, conn, issues, admin>>
  PROVE  GateInv'
<1>1. registry \in Registries
  BY DEF GateInv, GateShapes
<1>2. /\ registry' \in Registries /\ registry'.entries = registry.entries \ LeasesOf(s)
      /\ registry'.gen <= registry.gen
  BY <1>1, Dropped DEF SocketLeaves
<1>3. /\ sock' = [sock EXCEPT ![s] = NoSocket] /\ waiters' = waiters \ {s}
      /\ NoSocket \in SocketStates /\ NoSocket.pc = "idle"
  BY DEF SocketLeaves, NoSocket, SocketStates, SocketSteps
<1>4. sock'[s] = NoSocket /\ \A o \in Sockets \ {s} : sock'[o] = sock[o]
  BY <1>3 DEF GateInv, GateShapes
<1>5. GateShapes'
  BY <1>2, <1>3 DEF GateInv, GateShapes
<1>6. Budget'
  BY <1>1, <1>2 DEF GateInv, GateShapes, Budget, Owed, Registries, StargateConstants
<1>7. ASSUME NEW x, NEW kind, x # s, <<x, kind>> \in registry.entries
      PROVE  <<x, kind>> \in registry'.entries
  BY <1>2, <1>7 DEF LeasesOf
<1>8. SessionsRegistered' /\ Subscribed'
  <2>1. ASSUME NEW o \in Sockets, sock'[o].pc # "idle", ~sock'[o].cancelled
        PROVE  <<o, "admission">> \in registry'.entries
    BY <1>3, <1>4, <1>7, <2>1 DEF GateInv, SessionsRegistered
  <2>2. ASSUME NEW c \in Conns, conn'[c].pc # "idle", ~conn'[c].cancelled
        PROVE  <<c, LeaseOf(c)'>> \in registry'.entries
    <3>1. <<c, LeaseOf(c)>> \in registry.entries /\ LeaseOf(c)' = LeaseOf(c)
      BY <2>2 DEF GateInv, SessionsRegistered, LeaseOf
    <3>2. c # s
      BY DEF StargateConstants
    <3>3. QED
      BY <1>7, <3>1, <3>2
  <2>3. Subscribed'
    BY <1>3, <1>4 DEF GateInv, Subscribed
  <2>4. QED
    BY <2>1, <2>2, <2>3 DEF SessionsRegistered
<1>9. ASSUME lock' # "terminate", NEW o \in Sockets
      PROVE  SocketAgrees(o)'
  BY <1>3, <1>4, <1>9 DEF GateInv, SessionsAuthorized, SocketAgrees, Agrees, SameAuthorization
<1>10. ASSUME lock' # "terminate", NEW c \in Conns
       PROVE  ConnAgrees(c)'
  BY <1>10 DEF GateInv, SessionsAuthorized, ConnAgrees, Agrees, SameAuthorization
<1>11. QED
  BY <1>5, <1>6, <1>8, <1>9, <1>10 DEF GateInv, SessionsAuthorized

LEMMA SocketGate ==
  ASSUME StargateConstants, GateInv, NEW s \in Sockets,
         Connect(s) \/ SocketStep(s) \/ EndSocket(s)
  PROVE  GateInv'
<1> USE DEF SocketSteps
<1>0. /\ sock[s] \in SocketStates /\ registry \in Registries
      /\ waiters \subseteq Sockets /\ route \in Route \cup {None}
  BY DEF GateInv, GateShapes
<1>1. CASE Connect(s)
  <2> DEFINE new == [NoSocket EXCEPT !.pc = "admit", !.token = route.gen, !.lgen = registry.gen]
  <2>1. /\ route # None /\ sock' = [sock EXCEPT ![s] = new]
        /\ registry' = Register(s, "admission")
        /\ UNCHANGED <<route, lock, waiters, conn, issues, admin>>
    BY <1>1 DEF Connect
  <2>2. route.gen \in Gens /\ registry.gen \in Nat
    BY <1>0, <2>1 DEF Route, Registries
  <2>3. NoSocket \in SocketStates
    BY DEF NoSocket, SocketStates
  <2>4. new \in SocketStates /\ new.pc = "admit"
    BY <2>2, <2>3 DEF SocketStates
  <2> HIDE DEF new
  <2>5. /\ registry' \in Registries /\ registry'.gen = registry.gen
        /\ registry'.entries = registry.entries \cup {<<s, "admission">>}
    BY <1>0, <2>1, Added
  <2>6. QED
    BY <1>0, <2>1, <2>4, <2>5, SocketStays
<1>2. CASE LookupRoute(s)
  <2> DEFINE new == [sock[s] EXCEPT !.pc = "check", !.seen = GetRoute]
  <2>1. /\ sock' = [sock EXCEPT ![s] = new] /\ sock[s].pc = "admit"
        /\ UNCHANGED <<route, lock, registry, waiters, conn, issues, admin>>
    BY <1>2 DEF LookupRoute, GateInv, GateShapes
  <2>2. GetRoute \in Route \cup {None}
    BY <1>0 DEF GetRoute
  <2>3. new \in SocketStates /\ new.pc = "check" /\ new.cancelled = sock[s].cancelled
    BY <1>0, <2>2 DEF SocketStates
  <2> HIDE DEF new
  <2>4. ~sock[s].cancelled => <<s, "admission">> \in registry.entries
    BY <2>1 DEF GateInv, SessionsRegistered
  <2>5. QED
    BY <1>0, <2>1, <2>3, <2>4, SocketStays
<1>3. ASSUME ClaimSocket(s), ~SocketLeaves(s)
      PROVE  GateInv'
  <2> DEFINE new == [sock[s] EXCEPT !.pc = "subscribe", !.claim = sock[s].seen.gen]
  <2>1. /\ sock' = [sock EXCEPT ![s] = new] /\ sock[s].pc = "check" /\ sock[s].seen # None
        /\ UNCHANGED <<route, lock, registry, waiters, conn, issues, admin>>
    BY <1>3 DEF ClaimSocket, Admitted, GateInv, GateShapes
  <2>2. sock[s].seen.gen \in Gens
    BY <1>0, <2>1 DEF SocketStates, Route
  <2>3. new \in SocketStates /\ new.pc = "subscribe" /\ new.cancelled = sock[s].cancelled
    BY <1>0, <2>2 DEF SocketStates
  <2> HIDE DEF new
  <2>4. ~sock[s].cancelled => <<s, "admission">> \in registry.entries
    BY <2>1 DEF GateInv, SessionsRegistered
  <2>5. QED
    BY <1>0, <2>1, <2>3, <2>4, SocketStays
<1>4. CASE Subscribe(s)
  <2> DEFINE new == [sock[s] EXCEPT !.pc = "read", !.woken = FALSE]
  <2>1. /\ sock' = [sock EXCEPT ![s] = new] /\ sock[s].pc = "subscribe"
        /\ waiters' = waiters \cup {s}
        /\ UNCHANGED <<route, lock, registry, conn, issues, admin>>
    BY <1>4 DEF Subscribe, GateInv, GateShapes
  <2>2. new \in SocketStates /\ new.pc = "read" /\ new.cancelled = sock[s].cancelled
    BY <1>0 DEF SocketStates
  <2> HIDE DEF new
  <2>3. ~sock[s].cancelled => <<s, "admission">> \in registry.entries
    BY <2>1 DEF GateInv, SessionsRegistered
  <2>4. QED
    BY <1>0, <2>1, <2>2, <2>3, SocketStays
<1>5. ASSUME ReadTarget(s), ~SocketLeaves(s)
      PROVE  GateInv'
  <2> DEFINE new == [sock[s] EXCEPT !.pc = IF Ready(route) THEN "open" ELSE "wait",
                                    !.seen = route]
  <2>1. /\ sock' = [sock EXCEPT ![s] = new] /\ sock[s].pc = "read"
        /\ waiters' = IF Ready(route) THEN waiters \ {s} ELSE waiters
        /\ GetRoute # None
        /\ UNCHANGED <<route, lock, registry, conn, issues, admin>>
    BY <1>5 DEF ReadTarget, GateInv, GateShapes
  <2>2. route # None /\ route \in Route
    BY <1>0, <2>1 DEF GetRoute
  <2>3. /\ new \in SocketStates /\ new.cancelled = sock[s].cancelled /\ new.seen = route
        /\ new.pc = IF Ready(route) THEN "open" ELSE "wait"
    BY <1>0, <2>2 DEF SocketStates
  <2> HIDE DEF new
  <2>4. s \in waiters /\ (~sock[s].cancelled => <<s, "admission">> \in registry.entries)
    BY <2>1 DEF GateInv, SessionsRegistered, Subscribed
  <2>5. CASE Ready(route)
    <3>1. Agrees(route) /\ new.pc = "open"
      BY <2>2, <2>3, <2>5 DEF Ready, Agrees, SameAuthorization
    <3>2. QED
      BY <1>0, <2>1, <2>3, <2>4, <2>5, <3>1, SocketStays
  <2>6. CASE ~Ready(route)
    <3>1. new.pc = "wait" /\ route.kind # "active"
      BY <2>2, <2>3, <2>6 DEF Ready
    <3>2. QED
      BY <1>0, <2>1, <2>2, <2>3, <2>4, <2>6, <3>1, SocketStays
  <2>7. QED
    BY <2>5, <2>6
<1>6. CASE Wake(s)
  <2> DEFINE new == [sock[s] EXCEPT !.pc = "read", !.woken = FALSE]
  <2>1. /\ sock' = [sock EXCEPT ![s] = new] /\ sock[s].pc = "wait"
        /\ UNCHANGED <<route, lock, registry, waiters, conn, issues, admin>>
    BY <1>6 DEF Wake, GateInv, GateShapes
  <2>2. new \in SocketStates /\ new.pc = "read" /\ new.cancelled = sock[s].cancelled
    BY <1>0 DEF SocketStates
  <2> HIDE DEF new
  <2>3. s \in waiters /\ (~sock[s].cancelled => <<s, "admission">> \in registry.entries)
    BY <2>1 DEF GateInv, SessionsRegistered, Subscribed
  <2>4. QED
    BY <1>0, <2>1, <2>2, <2>3, SocketStays
<1>7. ASSUME OpenPty(s), ~SocketLeaves(s)
      PROVE  GateInv'
  <2> DEFINE new == [sock[s] EXCEPT !.pc = "pty"]
  <2>1. /\ sock' = [sock EXCEPT ![s] = new] /\ sock[s].pc = "open"
        /\ registry' = Register(s, "bridge")
        /\ UNCHANGED <<route, lock, waiters, conn, issues, admin>>
    BY <1>7 DEF OpenPty, GoTo, GateInv, GateShapes
  <2>2. /\ new \in SocketStates /\ new.pc = "pty" /\ new.cancelled = sock[s].cancelled
        /\ new.seen = sock[s].seen
    BY <1>0 DEF SocketStates
  <2> HIDE DEF new
  <2>3. /\ registry' \in Registries /\ registry'.gen = registry.gen
        /\ registry.entries \subseteq registry'.entries
    BY <1>0, <2>1, Added
  <2>4. /\ ~sock[s].cancelled => <<s, "admission">> \in registry.entries
        /\ lock # "terminate" /\ ~sock[s].cancelled => Agrees(sock[s].seen)
    BY <2>1 DEF GateInv, SessionsRegistered, SessionsAuthorized, SocketAgrees
  <2>5. QED
    BY <1>0, <2>1, <2>2, <2>3, <2>4, SocketStays
<1>8. ASSUME SocketLeaves(s), UNCHANGED <<route, lock, conn, issues, admin>>
      PROVE  GateInv'
  BY <1>8, SocketLeft
<1>9. QED
  BY <1>1, <1>2, <1>3, <1>4, <1>5, <1>6, <1>7, <1>8
     DEF SocketStep, EndSocket, ClaimSocket, ReadTarget, OpenPty

-----------------------------------------------------------------------------
(* Native connections. *)

(* A connection that stays hands its lease over without a gap. *)
LEMMA ConnStays ==
  ASSUME StargateConstants, GateInv, NEW c \in Conns, NEW new \in ConnStates,
         conn' = [conn EXCEPT ![c] = new],
         UNCHANGED <<route, lock, waiters, sock, issues, admin>>,
         registry' \in Registries, registry'.gen <= registry.gen,
         \A x, kind : x # c /\ <<x, kind>> \in registry.entries
                        => <<x, kind>> \in registry'.entries,
         new.pc # "idle" /\ ~new.cancelled =>
           <<c, IF new.pc = "offered" THEN "admission" ELSE "connection">> \in registry'.entries,
         lock # "terminate" /\ new.pc # "idle" /\ ~new.cancelled => Agrees(new.seen)
  PROVE  GateInv'
<1>1. conn'[c] = new /\ \A o \in Conns \ {c} : conn'[o] = conn[o]
  BY DEF GateInv, GateShapes
<1>2. GateShapes'
  BY DEF GateInv, GateShapes
<1>3. Budget'
  BY DEF GateInv, GateShapes, Budget, Owed, Registries, StargateConstants
<1>4. ASSUME NEW s \in Sockets, sock'[s].pc # "idle", ~sock'[s].cancelled
      PROVE  <<s, "admission">> \in registry'.entries
  <2>1. s # c
    BY DEF StargateConstants
  <2>2. <<s, "admission">> \in registry.entries
    BY <1>4 DEF GateInv, SessionsRegistered
  <2>3. QED
    BY <2>1, <2>2
<1>5. ASSUME NEW o \in Conns, conn'[o].pc # "idle", ~conn'[o].cancelled
      PROVE  <<o, LeaseOf(o)'>> \in registry'.entries
  <2>1. CASE o = c
    BY <1>1, <1>5, <2>1 DEF LeaseOf
  <2>2. CASE o # c
    <3>1. <<o, LeaseOf(o)>> \in registry.entries /\ LeaseOf(o)' = LeaseOf(o)
      BY <1>1, <1>5, <2>2 DEF GateInv, SessionsRegistered, LeaseOf
    <3>2. QED
      BY <2>2, <3>1
  <2>3. QED
    BY <2>1, <2>2
<1>6. SessionsRegistered' /\ Subscribed'
  BY <1>4, <1>5 DEF GateInv, SessionsRegistered, Subscribed
<1>7. ASSUME lock' # "terminate", NEW s \in Sockets
      PROVE  SocketAgrees(s)'
  BY <1>7 DEF GateInv, SessionsAuthorized, SocketAgrees, Agrees, SameAuthorization
<1>8. ASSUME lock' # "terminate", NEW o \in Conns
      PROVE  ConnAgrees(o)'
  BY <1>1, <1>8 DEF GateInv, SessionsAuthorized, ConnAgrees, Agrees, SameAuthorization
<1>9. QED
  BY <1>2, <1>3, <1>6, <1>7, <1>8 DEF GateInv, SessionsAuthorized

LEMMA ConnGate ==
  ASSUME StargateConstants, GateInv, NEW c \in Conns, ConnStep(c)
  PROVE  GateInv'
<1> USE DEF ConnSteps
<1>0. /\ conn[c] \in ConnStates /\ registry \in Registries
      /\ route \in Route \cup {None}
  BY DEF GateInv, GateShapes
<1>1. ASSUME ConnLeaves(c), UNCHANGED <<route, lock, waiters, sock, issues, admin>>
      PROVE  GateInv'
  <2>1. /\ conn' = [conn EXCEPT ![c] = NoConn]
        /\ NoConn \in ConnStates /\ NoConn.pc = "idle"
    BY <1>1 DEF ConnLeaves, NoConn, ConnStates
  <2>2. /\ registry' \in Registries /\ registry'.gen <= registry.gen
        /\ registry'.entries = registry.entries \ LeasesOf(c)
    BY <1>0, <1>1, Dropped DEF ConnLeaves
  <2>3. \A x, kind : x # c /\ <<x, kind>> \in registry.entries
                       => <<x, kind>> \in registry'.entries
    BY <2>2 DEF LeasesOf
  <2>4. QED
    BY <1>1, <2>1, <2>2, <2>3, ConnStays
<1>2. ASSUME NEW t \in Targets, OfferKey(c, t)
      PROVE  GateInv'
  <2> DEFINE new == [pc |-> "offered", seen |-> route, lgen |-> registry.gen,
                     cancelled |-> FALSE]
  <2>1. /\ conn' = [conn EXCEPT ![c] = new] /\ registry' = Register(c, "admission")
        /\ UNCHANGED <<route, lock, waiters, sock, issues, admin>>
    BY <1>2 DEF OfferKey
  <2>2. route # None /\ route.kind = "active"
    BY <1>2 DEF OfferKey, Ready, GetRoute
  <2>3. Agrees(route)
    BY <2>2 DEF Agrees, SameAuthorization
  <2>4. new \in ConnStates /\ new.pc = "offered" /\ new.seen = route
    BY <1>0 DEF ConnStates, Registries
  <2> HIDE DEF new
  <2>5. /\ registry' \in Registries /\ registry'.gen <= registry.gen
        /\ registry'.entries = registry.entries \cup {<<c, "admission">>}
    BY <1>0, <2>1, Added DEF Registries
  <2>6. QED
    BY <2>1, <2>3, <2>4, <2>5, ConnStays
<1>3. ASSUME AuthSucceeded(c), ~ConnLeaves(c)
      PROVE  GateInv'
  <2> DEFINE new == [conn[c] EXCEPT !.pc = "connected"]
             reg == Register(c, "connection")
  <2>1. /\ conn' = [conn EXCEPT ![c] = new] /\ conn[c].pc = "offered"
        /\ registry' = Unregister(reg, {<<c, "admission">>})
        /\ UNCHANGED <<route, lock, waiters, sock, issues, admin>>
    BY <1>3 DEF AuthSucceeded, GateInv, GateShapes
  <2>2. /\ new \in ConnStates /\ new.pc = "connected" /\ new.seen = conn[c].seen
        /\ new.cancelled = conn[c].cancelled
    BY <1>0 DEF ConnStates
  <2>3. /\ reg \in Registries /\ reg.gen = registry.gen
        /\ reg.entries = registry.entries \cup {<<c, "connection">>}
    BY <1>0, Added
  <2> HIDE DEF new, reg
  <2>4. /\ registry' \in Registries /\ registry'.gen <= registry.gen
        /\ registry'.entries = (registry.entries \cup {<<c, "connection">>})
                                 \ {<<c, "admission">>}
    BY <2>1, <2>3, Dropped
  <2>5. /\ <<c, "connection">> \in registry'.entries
        /\ \A x, kind : x # c /\ <<x, kind>> \in registry.entries
                           => <<x, kind>> \in registry'.entries
    BY <2>4
  <2>6. lock # "terminate" /\ ~conn[c].cancelled => Agrees(conn[c].seen)
    BY <2>1 DEF GateInv, SessionsAuthorized, ConnAgrees
  <2>7. QED
    BY <2>1, <2>2, <2>4, <2>5, <2>6, ConnStays
<1>4. ASSUME OpenShell(c), ~ConnLeaves(c)
      PROVE  GateInv'
  <2> DEFINE new == [conn[c] EXCEPT !.pc = "shell"]
  <2>1. /\ conn' = [conn EXCEPT ![c] = new] /\ conn[c].pc = "connected"
        /\ registry' = Register(c, "bridge")
        /\ UNCHANGED <<route, lock, waiters, sock, issues, admin>>
    BY <1>4 DEF OpenShell, GateInv, GateShapes
  <2>2. /\ new \in ConnStates /\ new.pc = "shell" /\ new.seen = conn[c].seen
        /\ new.cancelled = conn[c].cancelled
    BY <1>0 DEF ConnStates
  <2> HIDE DEF new
  <2>3. /\ registry' \in Registries /\ registry'.gen <= registry.gen
        /\ registry.entries \subseteq registry'.entries
    BY <1>0, <2>1, Added DEF Registries
  <2>4. ~conn[c].cancelled =>
          /\ <<c, "connection">> \in registry.entries
          /\ lock # "terminate" => Agrees(conn[c].seen)
    BY <2>1 DEF GateInv, SessionsRegistered, LeaseOf, SessionsAuthorized, ConnAgrees
  <2>5. QED
    BY <2>1, <2>2, <2>3, <2>4, ConnStays
<1>5. QED
  BY <1>1, <1>2, <1>3, <1>4 DEF ConnStep, EndConn, AuthSucceeded, OpenShell

-----------------------------------------------------------------------------
LEMMA NextGate == ASSUME StargateConstants PROVE GateInv /\ [Next]_vars => GateInv'
<1> SUFFICES ASSUME GateInv, [Next]_vars
             PROVE  GateInv'
  OBVIOUS
<1>1. CASE UNCHANGED vars
  BY <1>1 DEF vars, GateInv, GateShapes, Budget, Owed, SessionsRegistered, LeaseOf, Subscribed, SessionsAuthorized,
              SocketAgrees, ConnAgrees, Agrees, SameAuthorization
<1>2. CASE AdminStep
  BY <1>2, IssueGate, TargetGate, DeleteGate, ExpireGate, RevokeGate, NotifyGate, RestartGate
     DEF AdminStep
<1>3. CASE \E s \in Sockets : Connect(s) \/ SocketStep(s) \/ EndSocket(s)
  BY <1>3, SocketGate
<1>4. CASE \E c \in Conns : ConnStep(c)
  BY <1>4, ConnGate
<1>5. QED
  BY <1>1, <1>2, <1>3, <1>4 DEF Next

(* What the invariant says of shells, waiting sockets and leases. *)
LEMMA GateImplied == ASSUME StargateConstants PROVE GateInv => TerminalsAuthorized
<1> SUFFICES ASSUME GateInv PROVE TerminalsAuthorized
  OBVIOUS
<1>1. ASSUME NEW s \in Sockets PROVE sock[s] \in SocketStates
  BY DEF GateInv, GateShapes
<1>2. ASSUME NEW c \in Conns PROVE conn[c] \in ConnStates
  BY DEF GateInv, GateShapes
<1>3. TypeOK
  <2>1. registry.gen \in 0..(MaxIssues + MaxAdmin)
    BY DEF StargateConstants, GateInv, GateShapes, Budget, Owed, Registries
  <2>2. QED
    BY <1>1, <1>2, <2>1 DEF GateInv, GateShapes, TypeOK, Registries, SocketStates, ConnStates
<1>4. ShellsAuthorized
  <2>1. ASSUME lock = "free", NEW s \in Sockets, Dials(sock[s])
        PROVE  SameAuthorization(route, sock[s].seen)
    <3>1. sock[s].pc = "pty" /\ ~sock[s].cancelled
      BY <1>1, <2>1 DEF Dials, SocketStates, SocketSteps
    <3>2. QED
      BY <2>1, <3>1 DEF GateInv, SessionsAuthorized, SocketAgrees, Agrees
  <2>2. ASSUME lock = "free", NEW c \in Conns, Dials(conn[c])
        PROVE  SameAuthorization(route, conn[c].seen)
    BY <2>2 DEF GateInv, SessionsAuthorized, ConnAgrees, Agrees, Dials
  <2>3. QED
    BY <2>1, <2>2 DEF ShellsAuthorized
<1>5. NoLostWake
  BY DEF GateInv, SessionsAuthorized, SocketAgrees, NoLostWake, Ready, GetRoute
<1>6. SessionsReachable
  <2>1. ASSUME NEW x, NEW kind \in {"admission", "connection", "bridge"},
               <<x, kind>> \in registry.entries
        PROVE  LeasesOf(x) \cap registry.entries # {}
    BY <2>1 DEF LeasesOf
  <2>2. ASSUME NEW s \in Sockets, sock[s].pc # "idle", ~sock[s].cancelled
        PROVE  LeasesOf(s) \cap registry.entries # {}
    <3>1. <<s, "admission">> \in registry.entries
      BY <2>2 DEF GateInv, SessionsRegistered
    <3>2. QED
      BY <2>1, <3>1
  <2>3. ASSUME NEW c \in Conns, conn[c].pc # "idle", ~conn[c].cancelled
        PROVE  LeasesOf(c) \cap registry.entries # {}
    <3>1. <<c, LeaseOf(c)>> \in registry.entries /\ LeaseOf(c) \in {"admission", "connection"}
      BY <2>3 DEF GateInv, SessionsRegistered, LeaseOf
    <3>2. QED
      BY <2>1, <3>1
  <2>4. QED
    BY <2>2, <2>3 DEF SessionsReachable
<1>7. QED
  BY <1>3, <1>4, <1>5, <1>6 DEF TerminalsAuthorized

(* However issues, stagings, activations, deletes, expiries and restarts    *)
(* interleave with admissions that take no lock: with the mutex free a      *)
(* running shell is authorized by the stored route, an activation wakes     *)
(* every socket that waits for it, and every session a revocation must      *)
(* close is in the registry it searches.                                    *)
THEOREM TerminalsCorrect == ASSUME StargateConstants PROVE Spec => []TerminalsAuthorized
<1>1. Init => GateInv
  BY InitGate
<1>2. GateInv /\ [Next]_vars => GateInv'
  BY NextGate
<1>3. GateInv => TerminalsAuthorized
  BY GateImplied
<1>4. QED
  BY <1>1, <1>2, <1>3, PTL DEF Spec

(* The workspace route. *)

Endpoints == Guests \cup {{}}

RequestStates ==
  [pc : {"idle", "admit", "authorized", "proxy"}, cookie : Nat, seen : Nat,
   target : Endpoints, cancelled : BOOLEAN]

Shapes ==
  /\ appRoute \in [version : 0..MaxVersions, target : Endpoints]
  /\ versions \in 0..MaxVersions
  /\ bootstrap \in {0, appRoute.version}
  /\ browser \subseteq {appRoute.version} \ {0}
  /\ op \in [Ops -> {"idle", "terminate", "invalidate"}]
  /\ req \in [Requests -> RequestStates]
  /\ leases \subseteq Requests

(* A request that was not revoked can be: its lease is registered. *)
Leased ==
  \A r \in Requests : req[r].pc # "idle" /\ ~req[r].cancelled => r \in leases

Running(r) == req[r].pc \in {"authorized", "proxy"} /\ ~req[r].cancelled

Current(r) == req[r].seen = appRoute.version /\ req[r].target = appRoute.target

(* A running request was authorized by a stored route, and by the one       *)
(* stored now unless an operation has still to revoke it.                   *)
Authorized ==
  \A r \in Requests : Running(r) => req[r].seen # 0 /\ (Settled => Current(r))

(* The inductive invariant. *)
AppInv == Shapes /\ Leased /\ Authorized

-----------------------------------------------------------------------------
(* Nothing has been issued and nobody has asked for anything. *)
LEMMA InitApp == ASSUME WorkspaceConstants PROVE AppInit => AppInv
BY DEF WorkspaceConstants, AppInit, AppInv, Shapes, Leased, Authorized, Running, Endpoints,
       RequestStates, NoRequest

(* An issue and a delete write the route; what they invalidate is covered   *)
(* by the revocation they still owe, and a create finds no request to cover.*)
LEMMA WriteApp ==
  ASSUME WorkspaceConstants, AppInv, NEW o \in Ops,
         \/ \E t \in Guests, create \in BOOLEAN : Issue(o, t, create)
         \/ Delete(o)
  PROVE  AppInv'
<1>1. Shapes'
  <2>1. CASE \E t \in Guests, create \in BOOLEAN : Issue(o, t, create)
    <3>1. PICK t \in Guests, create \in BOOLEAN : Issue(o, t, create)
      BY <2>1
    <3>2. QED
      BY <3>1 DEF WorkspaceConstants, AppInv, Shapes, Issue, Endpoints
  <2>2. CASE Delete(o)
    BY <2>2 DEF WorkspaceConstants, AppInv, Shapes, Delete, Endpoints
  <2>3. QED
    BY <2>1, <2>2
<1>2. UNCHANGED <<req, leases>>
  BY DEF Issue, Delete
<1>3. Leased'
  BY <1>2 DEF AppInv, Leased
<1>4. ASSUME NEW r \in Requests, Running(r)'
      PROVE  req[r].seen # 0 /\ ~Settled'
  <2>1. Running(r)
    BY <1>2, <1>4 DEF Running
  <2>2. req[r].seen # 0 /\ (Settled => Current(r))
    BY <2>1 DEF AppInv, Authorized
  <2>3. CASE op'[o] = "terminate"
    BY <2>2, <2>3 DEF Settled
  <2>4. CASE op' = [op EXCEPT ![o] = "idle"] /\ op[o] = "idle" /\ appRoute.version = 0
    <3>1. ~Settled
      BY <2>2, <2>4 DEF Current
    <3>2. QED
      BY <2>2, <2>4, <3>1 DEF Settled, AppInv, Shapes
  <2>5. QED
    BY <2>3, <2>4 DEF Issue, Delete, AppInv, Shapes
<1>5. Authorized'
  BY <1>2, <1>4 DEF Authorized
<1>6. QED
  BY <1>1, <1>3, <1>5 DEF AppInv

(* A revocation cancels every request that has a lease. *)
LEMMA TerminateApp ==
  ASSUME WorkspaceConstants, AppInv, NEW o \in Ops, TerminateUsername(o)
  PROVE  AppInv'
<1>1. Shapes'
  BY DEF AppInv, Shapes, TerminateUsername, RequestStates
<1>2. \A r \in Requests : req'[r].pc # "idle" => req'[r].cancelled
  BY DEF AppInv, Shapes, Leased, TerminateUsername, RequestStates
<1>3. QED
  BY <1>1, <1>2 DEF AppInv, Leased, Authorized, Running

(* The pool, the browser session and the token decide nothing about a       *)
(* request that runs.                                                       *)
LEMMA AsideApp ==
  ASSUME WorkspaceConstants, AppInv,
         (\E o \in Ops : Invalidate(o)) \/ SessionExpires \/ Exchange \/ SessionLost
  PROVE  AppInv'
<1>1. UNCHANGED <<appRoute, versions, req, leases>>
  BY DEF Invalidate, SessionExpires, Exchange, SessionLost
<1>2. Shapes'
  BY DEF AppInv, Shapes, Invalidate, SessionExpires, Exchange, SessionLost
<1>3. Settled' => Settled
  BY DEF AppInv, Shapes, Settled, Invalidate, SessionExpires, Exchange, SessionLost
<1>4. QED
  BY <1>1, <1>2, <1>3 DEF AppInv, Leased, Authorized, Running, Current

(* A request takes its lease before it reads the route, and leaves with it. *)
LEMMA RequestApp ==
  ASSUME WorkspaceConstants, AppInv, NEW r \in Requests,
         \/ \E v \in 1..versions : Admit(r, v)
         \/ Authorize(r) \/ OpenTunnel(r) \/ EndRequest(r)
  PROVE  AppInv'
<1>1. UNCHANGED <<appRoute, versions, bootstrap, browser, op>>
  BY DEF Admit, Authorize, OpenTunnel, EndRequest
<1>2. ASSUME NEW v \in 1..versions, Admit(r, v)
      PROVE  AppInv'
  <2> DEFINE new == [NoRequest EXCEPT !.pc = "admit", !.cookie = v]
  <2>1. v \in Nat
    BY DEF WorkspaceConstants, AppInv, Shapes
  <2>2. NoRequest \in RequestStates
    BY DEF NoRequest, RequestStates, Endpoints
  <2>3. new \in RequestStates /\ new.pc = "admit"
    BY <2>1, <2>2 DEF RequestStates
  <2>4. req' = [req EXCEPT ![r] = new] /\ leases' = leases \cup {r}
    BY <1>2 DEF Admit
  <2> HIDE DEF new
  <2>5. req' \in [Requests -> RequestStates] /\ req'[r] = new
    BY <2>3, <2>4 DEF AppInv, Shapes
  <2>6. \A q \in Requests \ {r} : req'[q] = req[q]
    BY <2>4 DEF AppInv, Shapes
  <2>7. Shapes' /\ Leased'
    BY <1>1, <2>4, <2>5, <2>6 DEF AppInv, Shapes, Leased
  <2>8. Authorized'
    BY <1>1, <2>3, <2>5, <2>6 DEF AppInv, Authorized, Running, Current, Settled
  <2>9. QED
    BY <2>7, <2>8 DEF AppInv
<1>3. ASSUME Leave(r)
      PROVE  AppInv'
  BY <1>1, <1>3 DEF AppInv, Shapes, Leased, Authorized, Running, Current, Settled, Leave,
                    NoRequest, RequestStates, Endpoints
<1>4. ASSUME Authorize(r), ~Leave(r)
      PROVE  AppInv'
  <2>1. /\ req' = [req EXCEPT ![r].pc = "authorized", ![r].seen = appRoute.version,
                              ![r].target = appRoute.target]
        /\ leases' = leases /\ req[r].pc = "admit"
        /\ ~req[r].cancelled /\ appRoute.version # 0
    BY <1>4 DEF Authorize, AppInv, Shapes
  <2>2. appRoute.version \in Nat /\ appRoute.target \in Endpoints /\ req[r] \in RequestStates
    BY DEF AppInv, Shapes
  <2>3. /\ req'[r] \in RequestStates
        /\ req'[r].seen = appRoute.version /\ req'[r].target = appRoute.target
    BY <2>1, <2>2 DEF AppInv, Shapes, RequestStates
  <2>4. \A q \in Requests \ {r} : req'[q] = req[q]
    BY <2>1 DEF AppInv, Shapes
  <2>5. Shapes' /\ Leased'
    BY <1>1, <2>1, <2>3, <2>4 DEF AppInv, Shapes, Leased
  <2>6. Authorized'
    BY <1>1, <2>1, <2>3, <2>4 DEF AppInv, Authorized, Running, Current, Settled
  <2>7. QED
    BY <2>5, <2>6 DEF AppInv
<1>5. CASE OpenTunnel(r)
  <2>1. Pooled(r).target = req[r].target
    BY DEF Pooled
  <2>2. req' = [req EXCEPT ![r].pc = "proxy", ![r].target = req[r].target]
        /\ leases' = leases /\ req[r].pc = "authorized"
    BY <1>5, <2>1 DEF OpenTunnel
  <2>3. QED
    BY <1>1, <2>2 DEF AppInv, Shapes, Leased, Authorized, Running, Current, Settled,
                      RequestStates
<1>6. QED
  BY <1>2, <1>3, <1>4, <1>5 DEF EndRequest

(* Every step of the route and its requests keeps the invariant. *)
LEMMA NextApp == ASSUME WorkspaceConstants PROVE AppInv /\ [AppNext]_appVars => AppInv'
<1> SUFFICES ASSUME AppInv, [AppNext]_appVars
             PROVE  AppInv'
  OBVIOUS
<1>1. CASE UNCHANGED appVars
  BY <1>1 DEF appVars, AppInv, Shapes, Leased, Authorized, Running, Current, Settled
<1>2. CASE AppNext
  BY <1>2, WriteApp, TerminateApp, AsideApp, RequestApp DEF AppNext
<1>3. QED
  BY <1>1, <1>2

(* What the invariant says of the stored route and its requests. *)
LEMMA AppImplied == ASSUME WorkspaceConstants PROVE AppInv => AppRequestsCurrent
BY DEF WorkspaceConstants, AppInv, Shapes, Leased, Authorized, Running, Current,
       RequestStates, AppRequestsCurrent, AppTypeOK, RequestsCurrent, TunnelTarget

(* However many admin operations write, revoke and invalidate at the same   *)
(* time, and whatever the requests do in between: once the revocations are  *)
(* done, every running request was authorized by the stored version of the  *)
(* route and its tunnel goes to that version's target.                      *)
THEOREM AppCorrect == ASSUME WorkspaceConstants PROVE AppSpec => []AppRequestsCurrent
<1>1. AppInit => AppInv
  BY InitApp
<1>2. AppInv /\ [AppNext]_appVars => AppInv'
  BY NextApp
<1>3. AppInv => AppRequestsCurrent
  BY AppImplied
<1>4. QED
  BY <1>1, <1>2, <1>3, PTL DEF AppSpec

-----------------------------------------------------------------------------
(* The outbound relay. *)

(* The states of a grant, a dispatch, the control plane and Stargate. *)
Grants ==
  [auth : 0..MaxAuths, id : 0..MaxSessions, targets : SUBSET RelayTargets, exp : Nat, rev : Nat,
   connected : BOOLEAN]

Dispatches ==
  [pc : {"idle", "sent", "granted", "send", "revoke"}, id : 0..MaxSessions,
   before : SUBSET RelayTargets]

ControlShapes ==
  /\ clock \in 0..MaxTime /\ cred \in Nat /\ last \in 0..MaxSessions /\ cur \in 0..last
  /\ credOf \in [Sessions -> Nat] /\ allowed \subseteq RelayTargets
  /\ disp \in Dispatches /\ (disp.pc # "idle" => disp.id \in 1..last)
  /\ agent \in [session : 0..MaxSessions, auth : 0..MaxAuths, local : SUBSET RelayTargets]

GatewayShapes ==
  /\ grant \in Grants /\ cancelled \subseteq Auths /\ auths \in 0..MaxAuths
  /\ revoked \in [Sessions -> Nat] /\ revokedCred \in [gen : Nat, until : Nat]
  /\ relayConn \in [Auths -> {"none", "handshake", "serving", "ending"}]
  /\ hosts \in 0..MaxAuths

(* A grant that is held has an authorization of its own and was timely. *)
GrantHeld ==
  grant # NoGrant =>
    grant.auth \in Auths /\ grant.id \in Sessions /\ grant.exp <= grant.rev + Lease

(* The registered connection serves, and only it. *)
Registered ==
  /\ hosts # 0 => relayConn[hosts] = "serving"
  /\ OneConnection

(* The flag of a grant stands for a connection that has still to close. *)
FlagIsConnection == grant.connected => relayConn[grant.auth] # "none"

(* A request is no younger than the clock skew allows. *)
RequestsDated == net \subseteq Request /\ \A r \in net : r.exp <= clock + Skew + Lease

(* A request that Stargate refuses for as long as it is timely. *)
Barred(r) ==
  \/ r.exp <= revoked[r.id]
  \/ revokedCred.gen >= credOf[r.id] /\ r.exp <= revokedCred.until

(* A revoked session is over, and what it still has in flight is refused.   *)
(* The fences only grow.                                                    *)
Fenced ==
  /\ gone \subseteq 1..last /\ cur \notin gone
  /\ \A r \in net : r.id \in gone => Barred(r)
  /\ \A s \in Sessions : credOf[s] <= cred /\ revoked[s] <= clock + Lease + Skew

(* The inductive invariant. *)
RelayInv ==
  /\ ControlShapes /\ GatewayShapes /\ GrantHeld /\ Registered /\ StreamsGranted
  /\ FlagIsConnection /\ RequestsDated /\ Fenced /\ RevokedStaysOut

-----------------------------------------------------------------------------
(* There is no session and no grant. *)
LEMMA InitRelay == ASSUME RelayConstants PROVE RelayInit => RelayInv
<1> SUFFICES ASSUME RelayInit PROVE RelayInv
  OBVIOUS
<1> USE DEF RelayConstants, RelayInit
<1>1. ControlShapes
  BY DEF ControlShapes, Dispatches, Idle, NoAgent, Sessions
<1>2. GatewayShapes /\ GrantHeld
  BY DEF GatewayShapes, GrantHeld, Grants, NoGrant, Sessions, Auths
<1>3. Registered /\ StreamsGranted /\ FlagIsConnection /\ RequestsDated
  BY DEF Registered, OneConnection, Live, StreamsGranted, FlagIsConnection, NoGrant, RequestsDated
<1>4. Fenced /\ RevokedStaysOut
  BY DEF Fenced, RevokedStaysOut, Sessions
<1>5. QED
  BY <1>1, <1>2, <1>3, <1>4 DEF RelayInv

(* A new session is none of the revoked ones. *)
LEMMA HelloRelay == ASSUME RelayConstants, RelayInv, Hello PROVE RelayInv'
<1>1. UNCHANGED <<cred, allowed, clock, disp, net, gateway, agent, gone, faults>>
  BY DEF Hello
<1>2. last + 1 \in Sessions /\ last' = last + 1 /\ cur' = last + 1
      /\ credOf' = [credOf EXCEPT ![last + 1] = cred]
  BY DEF Hello, RelayConstants, RelayInv, ControlShapes, Sessions
<1>3. ControlShapes'
  BY <1>1, <1>2 DEF RelayConstants, RelayInv, ControlShapes, Sessions, Dispatches
<1>4. (GatewayShapes /\ GrantHeld /\ Registered /\ StreamsGranted /\ FlagIsConnection
       /\ RequestsDated /\ RevokedStaysOut)'
  BY <1>1 DEF gateway, RelayInv, GatewayShapes, GrantHeld, Registered, OneConnection, Live,
              StreamsGranted, FlagIsConnection, RequestsDated, RevokedStaysOut
<1>5. \A s \in gone : credOf'[s] = credOf[s]
  BY <1>2 DEF RelayInv, ControlShapes, Fenced, Sessions
<1>6. Fenced'
  <2>1. (gone \subseteq 1..last /\ cur \notin gone)'
    BY <1>1, <1>2 DEF RelayInv, ControlShapes, Fenced
  <2>2. \A r \in net' : r.id \in gone' => Barred(r)'
    BY <1>1, <1>5 DEF RelayInv, Fenced, Barred, gateway
  <2>3. \A s \in Sessions : credOf'[s] <= cred' /\ revoked'[s] <= clock' + Lease + Skew
    BY <1>1, <1>2 DEF RelayInv, ControlShapes, Fenced, gateway
  <2>4. QED
    BY <2>1, <2>2, <2>3 DEF Fenced
<1>7. QED
  BY <1>3, <1>4, <1>6 DEF RelayInv

(* The steps of the control plane that leave Stargate, the sessions and the *)
(* requests as they are.                                                    *)
LEMMA AsideRelay ==
  ASSUME RelayConstants, RelayInv, ControlShapes',
         UNCHANGED <<clock, cred, cur, last, credOf, net, gateway, gone>>
  PROVE  RelayInv'
<1>1. (GatewayShapes /\ GrantHeld /\ Registered /\ StreamsGranted /\ FlagIsConnection
       /\ RequestsDated /\ RevokedStaysOut)'
  BY DEF gateway, RelayInv, GatewayShapes, GrantHeld, Registered, OneConnection, Live,
         StreamsGranted, FlagIsConnection, RequestsDated, RevokedStaysOut
<1>2. Fenced'
  BY DEF RelayInv, Fenced, Barred, gateway
<1>3. QED
  BY <1>1, <1>2 DEF RelayInv

(* The dispatch and the snapshot query touch nothing at Stargate. *)
LEMMA DispatchRelay ==
  ASSUME RelayConstants, RelayInv,
         \/ \E t \in RelayTargets : ChangeTargets(t)
         \/ ConfirmGrant \/ SendDesired \/ GrantTimesOut
  PROVE  RelayInv'
<1>1. UNCHANGED <<clock, cred, cur, last, credOf, net, gateway, gone>>
  BY DEF ChangeTargets, ConfirmGrant, SendDesired, GrantTimesOut, control
<1>2. CASE \E t \in RelayTargets : ChangeTargets(t)
  <2>1. UNCHANGED <<disp, agent>> /\ allowed' \subseteq RelayTargets
    BY <1>2 DEF ChangeTargets, RelayInv, ControlShapes
  <2>2. ControlShapes'
    BY <1>1, <2>1 DEF RelayInv, ControlShapes
  <2>3. QED
    BY <1>1, <2>2, AsideRelay
<1>3. CASE ConfirmGrant \/ GrantTimesOut
  <2>1. disp' \in Dispatches /\ disp'.id = disp.id /\ disp.pc # "idle"
    BY <1>3 DEF ConfirmGrant, GrantTimesOut, RelayInv, ControlShapes, Dispatches
  <2>2. ControlShapes'
    BY <1>1, <1>3, <2>1 DEF RelayInv, ControlShapes, ConfirmGrant, GrantTimesOut, control
  <2>3. QED
    BY <1>1, <2>2, AsideRelay
<1>4. CASE SendDesired
  <2>1. disp' \in Dispatches /\ (disp'.pc # "idle" => disp'.id = disp.id /\ disp.pc # "idle")
    BY <1>4 DEF SendDesired, RelayInv, ControlShapes, Dispatches, Idle, RelayConstants
  <2>2. Applied \in [session : 0..MaxSessions, auth : 0..MaxAuths, local : SUBSET RelayTargets]
    BY DEF Applied, RelayInv, ControlShapes, GatewayShapes, Grants, RelayConstants
  <2>3. ControlShapes'
    BY <1>1, <1>4, <2>1, <2>2 DEF RelayInv, ControlShapes, SendDesired, control
  <2>4. QED
    BY <1>1, <2>3, AsideRelay
<1>5. QED
  BY <1>2, <1>3, <1>4

(* A request leaves for the active session, which is not revoked. *)
LEMMA SendRelay ==
  ASSUME RelayConstants, RelayInv, NEW k \in {0, Skew}, SendGrant(k) PROVE RelayInv'
<1> DEFINE q == [id |-> cur, targets |-> allowed, issued |-> clock + k,
                 exp |-> clock + k + Lease]
<1>1. /\ UNCHANGED <<clock, cred, cur, last, credOf, allowed, gateway, agent, gone>>
      /\ cur # 0 /\ net' = net \cup {q}
  BY DEF SendGrant, control
<1>2. q \in Request /\ q.exp <= clock + Skew + Lease /\ q.id = cur
  BY <1>1 DEF Request, RelayConstants, RelayInv, ControlShapes, Sessions
<1>3. ControlShapes'
  BY <1>1 DEF SendGrant, RelayInv, ControlShapes, Dispatches, RelayConstants
<1> HIDE DEF q
<1>4. (GatewayShapes /\ GrantHeld /\ Registered /\ StreamsGranted /\ FlagIsConnection
       /\ RevokedStaysOut)'
  BY <1>1 DEF gateway, RelayInv, GatewayShapes, GrantHeld, Registered, OneConnection, Live,
              StreamsGranted, FlagIsConnection, RevokedStaysOut
<1>5. RequestsDated'
  BY <1>1, <1>2 DEF RelayInv, RequestsDated
<1>6. Fenced'
  BY <1>1, <1>2 DEF RelayInv, Fenced, Barred, gateway
<1>7. QED
  BY <1>3, <1>4, <1>5, <1>6 DEF RelayInv

-----------------------------------------------------------------------------
(* Cancelling an authorization ends its streams; the streams that are left  *)
(* are of the grant that holds, and the registered connection is not lost.  *)
LEMMA CutRelay ==
  ASSUME RelayConstants, RelayInv, NEW hit, hit \subseteq {grant.auth},
         UNCHANGED <<grant, relayConn>>, cancelled' = cancelled \cup hit,
         hosts' \in {hosts, IF hosts \in hit THEN 0 ELSE hosts},
         streams' = Surviving(hit, {}, 0)
  PROVE  Registered' /\ StreamsGranted'
<1>1. Registered'
  BY DEF RelayInv, Registered, OneConnection, Live
<1>2. \A x \in streams' : x \in streams /\ x.auth \notin hit
  BY DEF Surviving
<1>3. StreamsGranted'
  BY <1>2 DEF RelayInv, StreamsGranted
<1>4. QED
  BY <1>1, <1>3

(* A revocation puts up a fence no request of the session gets over. *)
LEMMA RevokeRelay ==
  ASSUME RelayConstants, RelayInv, NEW id \in 1..last, RevokedAt(id), id # cur',
         UNCHANGED <<clock, cred, last, credOf, net>>, cur' \in {0, cur}, ControlShapes'
  PROVE  RelayInv'
<1> DEFINE hit == IF grant # NoGrant /\ grant.id = id THEN {grant.auth} ELSE {}
<1>0. /\ cancelled' = cancelled \cup hit
      /\ hosts' = IF hosts \in hit THEN 0 ELSE hosts
      /\ streams' = Surviving(hit, {}, 0)
      /\ revoked' = [revoked EXCEPT ![id] = clock + Lease + Skew]
      /\ gone' = gone \cup {id}
      /\ UNCHANGED <<grant, auths, revokedCred, relayConn>>
  BY DEF RevokedAt
<1>1. /\ hit \subseteq {grant.auth} /\ hit \subseteq Auths
      /\ (grant # NoGrant /\ grant.id = id => grant.auth \in hit)
  BY DEF RelayInv, GrantHeld
<1> HIDE DEF hit
<1>2. Registered' /\ StreamsGranted'
  BY <1>0, <1>1, CutRelay
<1>3. id \in Sessions /\ clock + Lease + Skew \in Nat
  BY DEF RelayConstants, RelayInv, ControlShapes, Sessions
<1>4. GatewayShapes' /\ GrantHeld'
  BY <1>0, <1>1, <1>3 DEF RelayInv, GatewayShapes, GrantHeld, RelayConstants
<1>5. FlagIsConnection' /\ RequestsDated'
  BY <1>0 DEF RelayInv, FlagIsConnection, RequestsDated
<1>6. RevokedStaysOut'
  BY <1>0, <1>1 DEF RelayInv, RevokedStaysOut
<1>7. Fenced'
  <2>1. (gone \subseteq 1..last /\ cur \notin gone)'
    BY <1>0 DEF RelayInv, Fenced, ControlShapes
  <2>2. \A s \in Sessions : revoked'[s] <= clock + Lease + Skew /\ revoked[s] <= revoked'[s]
    BY <1>0, <1>3 DEF RelayInv, GatewayShapes, Fenced
  <2>3. revoked'[id] = clock + Lease + Skew
    BY <1>0, <1>3 DEF RelayInv, GatewayShapes
  <2>4. ASSUME NEW r \in net, r.id \in gone' PROVE Barred(r)'
    <3>1. r.id \in Sessions /\ r.exp \in Nat /\ r.exp <= clock + Lease + Skew
      BY DEF RelayInv, RequestsDated, Request, RelayConstants, ControlShapes
    <3>2. CASE r.id = id
      BY <2>3, <3>1, <3>2 DEF Barred
    <3>3. CASE r.id # id
      <4>1. Barred(r) /\ revoked'[r.id] = revoked[r.id]
        BY <1>0, <2>4, <3>1, <3>3 DEF RelayInv, Fenced, GatewayShapes
      <4>2. QED
        BY <1>0, <4>1 DEF Barred
    <3>4. QED
      BY <3>2, <3>3
  <2>5. QED
    BY <2>1, <2>2, <2>4 DEF RelayInv, Fenced
<1>8. QED
  BY <1>2, <1>4, <1>5, <1>6, <1>7 DEF RelayInv

(* A failed or outdated grant is revoked and its session ends. *)
LEMMA RevokeGrantRelay == ASSUME RelayConstants, RelayInv, RevokeGrant PROVE RelayInv'
<1>1. /\ RevokedAt(disp.id) /\ disp.id \in 1..last
      /\ disp' = Idle /\ cur' = (IF cur = disp.id THEN 0 ELSE cur)
      /\ agent' = (IF agent.session = disp.id THEN NoAgent ELSE agent)
      /\ UNCHANGED <<clock, cred, last, credOf, allowed, net>>
  BY DEF RevokeGrant, RelayInv, ControlShapes
<1>2. Idle \in Dispatches /\ Idle.pc = "idle"
      /\ NoAgent \in [session : 0..MaxSessions, auth : 0..MaxAuths, local : SUBSET RelayTargets]
  BY DEF Idle, Dispatches, NoAgent, RelayConstants
<1>3. ControlShapes'
  BY <1>1, <1>2 DEF RelayInv, ControlShapes
<1>4. cur' # disp.id /\ cur' \in {0, cur}
  BY <1>1 DEF RelayInv, ControlShapes
<1>5. QED
  BY <1>1, <1>3, <1>4, RevokeRelay

(* A closed control socket ends its session, confirmed at Stargate or not. *)
LEMMA ClosedRelay ==
  ASSUME RelayConstants, RelayInv, NEW confirmed \in BOOLEAN, SocketClosed(confirmed)
  PROVE  RelayInv'
<1>1. /\ cur \in 1..last /\ cur' = 0 /\ agent' = NoAgent
      /\ IF confirmed THEN RevokedAt(cur) ELSE UNCHANGED <<gateway, gone>>
      /\ UNCHANGED <<clock, cred, last, credOf, allowed, disp, net>>
  BY DEF SocketClosed, RelayInv, ControlShapes
<1>2. NoAgent \in [session : 0..MaxSessions, auth : 0..MaxAuths, local : SUBSET RelayTargets]
  BY DEF NoAgent, RelayConstants
<1>3. ControlShapes'
  BY <1>1, <1>2 DEF RelayInv, ControlShapes
<1>4. CASE confirmed
  BY <1>1, <1>3, <1>4, RevokeRelay
<1>5. CASE ~confirmed
  <2>1. UNCHANGED <<gateway, gone>>
    BY <1>1, <1>5
  <2>2. (GatewayShapes /\ GrantHeld /\ Registered /\ StreamsGranted /\ FlagIsConnection
         /\ RequestsDated /\ RevokedStaysOut)'
    BY <1>1, <2>1 DEF gateway, RelayInv, GatewayShapes, GrantHeld, Registered, OneConnection, Live,
           StreamsGranted, FlagIsConnection, RequestsDated, RevokedStaysOut
  <2>3. Fenced'
    BY <1>1, <2>1 DEF RelayInv, ControlShapes, Fenced, Barred, gateway
  <2>4. QED
    BY <1>3, <2>2, <2>3 DEF RelayInv
<1>6. QED
  BY <1>4, <1>5

(* The fence of a credential covers every session there has been. *)
LEMMA RotateRelay == ASSUME RelayConstants, RelayInv, RotateCredential PROVE RelayInv'
<1> DEFINE hit == IF grant # NoGrant /\ credOf[grant.id] <= cred THEN {grant.auth} ELSE {}
<1>0. /\ cancelled' = cancelled \cup hit
      /\ hosts' = IF hosts \in hit THEN 0 ELSE hosts
      /\ streams' = Surviving(hit, {}, 0)
      /\ revokedCred' = [gen |-> cred, until |-> clock + Lease + Skew]
      /\ gone' = gone \cup {s \in Sessions : s <= last /\ credOf[s] <= cred}
      /\ cred' = cred + 1 /\ cur' = 0 /\ agent' = NoAgent
      /\ UNCHANGED <<clock, last, credOf, allowed, disp, net, grant, auths, revoked, relayConn>>
  BY DEF RotateCredential
<1>1. /\ hit \subseteq {grant.auth} /\ hit \subseteq Auths
      /\ (grant # NoGrant => grant.auth \in hit)
  BY DEF RelayInv, GrantHeld, Fenced
<1> HIDE DEF hit
<1>2. Registered' /\ StreamsGranted'
  BY <1>0, <1>1, CutRelay
<1>3. ControlShapes'
  BY <1>0 DEF RelayInv, ControlShapes, NoAgent, RelayConstants
<1>4. GatewayShapes' /\ GrantHeld'
  BY <1>0, <1>1 DEF RelayInv, GatewayShapes, GrantHeld, ControlShapes, RelayConstants
<1>5. FlagIsConnection' /\ RequestsDated' /\ RevokedStaysOut'
  <2>1. FlagIsConnection' /\ RequestsDated'
    BY <1>0 DEF RelayInv, FlagIsConnection, RequestsDated
  <2>2. RevokedStaysOut'
    BY <1>0, <1>1 DEF RelayInv, RevokedStaysOut
  <2>3. QED
    BY <2>1, <2>2
<1>6. Fenced'
  <2>1. (gone \subseteq 1..last /\ cur \notin gone)'
    <3>1. {s \in Sessions : s <= last /\ credOf[s] <= cred} \subseteq 1..last
      BY DEF RelayInv, ControlShapes, Sessions, RelayConstants
    <3>2. gone' \subseteq 1..last
      BY <1>0, <3>1 DEF RelayInv, Fenced
    <3>3. 0 \notin 1..last
      BY DEF RelayInv, ControlShapes
    <3>4. QED
      BY <1>0, <3>2, <3>3
  <2>2. \A s \in Sessions : credOf[s] <= cred + 1
    BY DEF RelayInv, Fenced, ControlShapes
  <2>3. ASSUME NEW r \in net PROVE Barred(r)'
    <3>1. r.id \in Sessions /\ r.exp \in Nat /\ r.exp <= clock + Lease + Skew
      BY DEF RelayInv, RequestsDated, Request, RelayConstants, ControlShapes
    <3>2. revokedCred'.gen >= credOf[r.id] /\ r.exp <= revokedCred'.until
      BY <1>0, <3>1 DEF RelayInv, Fenced, ControlShapes
    <3>3. QED
      BY <1>0, <3>2 DEF Barred
  <2>4. QED
    BY <1>0, <2>1, <2>2, <2>3 DEF RelayInv, Fenced
<1>7. QED
  BY <1>2, <1>3, <1>4, <1>5, <1>6 DEF RelayInv

-----------------------------------------------------------------------------
(* Stargate accepts no request of a revoked session. *)
LEMMA AcceptedNotGone ==
  ASSUME RelayConstants, RelayInv, NEW r \in net, Accepts(r)
  PROVE  r.id \notin gone
<1>1. r.id \in Sessions /\ r.exp \in Nat
  BY DEF RelayInv, RequestsDated, Request, RelayConstants, ControlShapes
<1>2. revoked[r.id] \in Nat /\ revokedCred.gen \in Nat /\ revokedCred.until \in Nat
      /\ credOf[r.id] \in Nat /\ clock \in Nat
  BY <1>1 DEF RelayInv, GatewayShapes, ControlShapes, RelayConstants
<1>3. ~Barred(r)
  BY <1>1, <1>2 DEF Accepts, Timely, NotRevoked, Barred
<1>4. QED
  BY <1>3 DEF RelayInv, Fenced

(* What every answer to a grant request leaves alone. *)
LEMMA AnsweredRelay ==
  ASSUME RelayConstants, RelayInv, NEW r \in net, HandleGrant(r),
         GatewayShapes', GrantHeld', Registered', StreamsGranted', FlagIsConnection',
         RevokedStaysOut'
  PROVE  RelayInv'
<1>1. /\ UNCHANGED <<clock, cred, cur, last, credOf, allowed, revoked, revokedCred, relayConn,
                     agent, gone>>
      /\ net' = net \ {r}
  BY DEF HandleGrant, control
<1>2. disp' \in Dispatches /\ disp'.id = disp.id /\ (disp'.pc # "idle" => disp.pc # "idle")
  BY DEF HandleGrant, RelayInv, ControlShapes, Dispatches
<1>3. ControlShapes'
  BY <1>1, <1>2 DEF RelayInv, ControlShapes
<1>4. RequestsDated' /\ Fenced'
  BY <1>1 DEF RelayInv, RequestsDated, Fenced, Barred
<1>5. QED
  BY <1>3, <1>4 DEF RelayInv

(* A grant request is refused, refreshes the grant or replaces it. *)
LEMMA HandleGrantRelay ==
  ASSUME RelayConstants, RelayInv, NEW r \in net, HandleGrant(r)
  PROVE  RelayInv'
<1>1. UNCHANGED <<clock, credOf, revoked, revokedCred, relayConn, gone>>
  BY DEF HandleGrant, control
<1>2. /\ r.id \in Sessions /\ r.id \in 0..MaxSessions /\ r.targets \subseteq RelayTargets
      /\ r.issued \in Nat /\ r.exp \in Nat
  BY DEF RelayInv, RequestsDated, Request, RelayConstants, Sessions
<1>3. CASE RefuseGrant(r)
  <2>1. UNCHANGED <<grant, cancelled, auths, hosts, streams>>
    BY <1>3 DEF RefuseGrant
  <2>2. (GatewayShapes /\ GrantHeld /\ Registered /\ StreamsGranted /\ FlagIsConnection
         /\ RevokedStaysOut)'
    BY <1>1, <2>1 DEF RelayInv, GatewayShapes, GrantHeld, Registered, OneConnection, Live,
           StreamsGranted, FlagIsConnection, RevokedStaysOut
  <2>3. QED
    BY <2>2, AnsweredRelay
<1>4. CASE RefreshGrant(r)
  <2>1. /\ grant # NoGrant /\ grant.id = r.id /\ r.exp <= r.issued + Lease
        /\ grant' = [grant EXCEPT !.targets = r.targets, !.exp = r.exp, !.rev = r.issued]
        /\ streams' = Surviving({}, r.targets, grant.auth)
        /\ UNCHANGED <<cancelled, auths, hosts>>
    BY <1>4 DEF RefreshGrant, Held, Accepts, Timely
  <2>2. /\ grant' \in Grants /\ grant'.auth = grant.auth /\ grant'.id = grant.id
        /\ grant'.targets = r.targets /\ grant'.exp = r.exp /\ grant'.rev = r.issued
        /\ grant'.connected = grant.connected
    BY <1>2, <2>1 DEF RelayInv, GatewayShapes, Grants
  <2>3. grant.auth \in Auths /\ grant.auth # 0
    BY <2>1 DEF RelayInv, GrantHeld, Auths, RelayConstants
  <2>4. grant' # NoGrant
    BY <2>2, <2>3 DEF NoGrant
  <2>5. GatewayShapes' /\ GrantHeld' /\ FlagIsConnection'
    BY <1>1, <1>2, <2>1, <2>2, <2>3 DEF RelayInv, GatewayShapes, GrantHeld, FlagIsConnection
  <2>6. Registered'
    BY <1>1, <2>1 DEF RelayInv, Registered, OneConnection, Live
  <2>7. \A x \in streams' : x \in streams /\ (x.auth = grant.auth => x.target \in r.targets)
    BY <2>1 DEF Surviving
  <2>8. StreamsGranted'
    BY <2>1, <2>2, <2>4, <2>7 DEF RelayInv, StreamsGranted
  <2>9. RevokedStaysOut'
    BY <1>1, <2>1, <2>2 DEF RelayInv, RevokedStaysOut
  <2>10. QED
    BY <2>5, <2>6, <2>8, <2>9, AnsweredRelay
<1>5. CASE NewGrant(r)
  <2> DEFINE old == IF grant = NoGrant THEN {} ELSE {grant.auth}
             new == [auth |-> auths + 1, id |-> r.id, targets |-> r.targets, exp |-> r.exp,
                     rev |-> r.issued, connected |-> FALSE]
  <2>1. /\ Accepts(r) /\ auths < MaxAuths /\ auths' = auths + 1
        /\ cancelled' = cancelled \cup old
        /\ hosts' \in {hosts, IF hosts \in old THEN 0 ELSE hosts}
        /\ streams' = Surviving(old, {}, 0)
        /\ grant' = new
    BY <1>5 DEF NewGrant
  <2>2. auths + 1 \in Auths /\ auths + 1 \in 0..MaxAuths
    BY <2>1 DEF RelayInv, GatewayShapes, Auths, RelayConstants
  <2>3. new \in Grants /\ new.auth = auths + 1 /\ new.id = r.id /\ new.connected = FALSE
        /\ new.exp = r.exp /\ new.rev = r.issued
    BY <1>2, <2>2 DEF Grants
  <2>4. old \subseteq Auths /\ (grant # NoGrant => grant.auth \in old)
    BY DEF RelayInv, GrantHeld
  <2> HIDE DEF old, new
  <2>5. GatewayShapes'
    BY <1>1, <2>1, <2>2, <2>3, <2>4 DEF RelayInv, GatewayShapes, RelayConstants
  <2>6. GrantHeld' /\ FlagIsConnection'
    BY <1>2, <2>1, <2>2, <2>3 DEF GrantHeld, FlagIsConnection, Accepts, Timely
  <2>7. Registered'
    BY <1>1, <2>1 DEF RelayInv, Registered, OneConnection, Live
  <2>8. StreamsGranted'
    <3>1. \A x \in streams' : x \in streams /\ x.auth \notin old
      BY <2>1 DEF Surviving
    <3>2. streams' = {}
      BY <2>4, <3>1 DEF RelayInv, StreamsGranted
    <3>3. QED
      BY <3>2 DEF StreamsGranted
  <2>9. RevokedStaysOut'
    BY <1>1, <2>1, <2>3, AcceptedNotGone DEF RevokedStaysOut
  <2>10. QED
    BY <2>5, <2>6, <2>7, <2>8, <2>9, AnsweredRelay
<1>6. QED
  BY <1>3, <1>4, <1>5 DEF HandleGrant

-----------------------------------------------------------------------------
(* What the steps of a connection and of a stream leave alone. *)
LEMMA ConnectionRelay ==
  ASSUME RelayConstants, RelayInv,
         UNCHANGED <<clock, cred, cur, last, credOf, allowed, disp, net, cancelled, auths,
                     revoked, revokedCred, agent, gone>>,
         grant' \in Grants, grant'.auth = grant.auth, grant'.id = grant.id,
         grant'.exp = grant.exp, grant'.rev = grant.rev, grant' = NoGrant <=> grant = NoGrant,
         relayConn' \in [Auths -> {"none", "handshake", "serving", "ending"}],
         hosts' \in 0..MaxAuths, Registered', StreamsGranted', FlagIsConnection'
  PROVE  RelayInv'
<1>1. ControlShapes' /\ RequestsDated' /\ Fenced'
  BY DEF RelayInv, ControlShapes, RequestsDated, Fenced, Barred
<1>2. GatewayShapes' /\ GrantHeld' /\ RevokedStaysOut'
  BY DEF RelayInv, GatewayShapes, GrantHeld, RevokedStaysOut
<1>3. QED
  BY <1>1, <1>2 DEF RelayInv

(* The token opens one connection at a time. *)
LEMMA ConnectRelay == ASSUME RelayConstants, RelayInv, AgentConnect PROVE RelayInv'
<1>1. /\ grant # NoGrant /\ relayConn[grant.auth] = "none"
      /\ grant' = [grant EXCEPT !.connected = TRUE]
      /\ relayConn' = [relayConn EXCEPT ![grant.auth] = "handshake"]
      /\ UNCHANGED <<clock, cred, cur, last, credOf, allowed, disp, net, cancelled, auths,
                     revoked, revokedCred, hosts, streams, agent, gone>>
  BY DEF AgentConnect, control
<1>2. grant.auth \in Auths /\ grant.auth # 0
  BY <1>1 DEF RelayInv, GrantHeld, Auths, RelayConstants
<1>3. /\ grant' \in Grants /\ grant'.auth = grant.auth /\ grant'.id = grant.id
      /\ grant'.exp = grant.exp /\ grant'.rev = grant.rev /\ grant'.targets = grant.targets
  BY <1>1 DEF RelayInv, GatewayShapes, Grants
<1>4. grant' # NoGrant
  BY <1>2, <1>3 DEF NoGrant
<1>5. relayConn' \in [Auths -> {"none", "handshake", "serving", "ending"}]
      /\ relayConn'[grant.auth] = "handshake"
      /\ \A b \in Auths : b # grant.auth => relayConn'[b] = relayConn[b]
  BY <1>1, <1>2 DEF RelayInv, GatewayShapes
<1>6. Registered'
  <2>1. hosts' # 0 => hosts \in Auths /\ hosts # grant.auth /\ relayConn'[hosts] = "serving"
    BY <1>1, <1>5 DEF RelayInv, Registered, GatewayShapes, Auths, RelayConstants
  <2>2. OneConnection'
    BY <1>1, <1>5 DEF RelayInv, Registered, OneConnection, Live
  <2>3. QED
    BY <1>1, <2>1, <2>2 DEF Registered
<1>7. StreamsGranted'
  BY <1>1, <1>3, <1>4 DEF RelayInv, StreamsGranted
<1>8. FlagIsConnection'
  BY <1>3, <1>5 DEF FlagIsConnection
<1>9. hosts' \in 0..MaxAuths
  BY <1>1 DEF RelayInv, GatewayShapes
<1>10. QED
  BY <1>1, <1>3, <1>4, <1>5, <1>6, <1>7, <1>8, <1>9, ConnectionRelay

(* A handshake is registered only when nothing is. *)
LEMMA AuthenticatedRelay ==
  ASSUME RelayConstants, RelayInv, NEW a \in Auths, Authenticated(a)
  PROVE  RelayInv'
<1>1. /\ relayConn[a] = "handshake"
      /\ UNCHANGED <<clock, cred, cur, last, credOf, allowed, disp, net, grant, cancelled, auths,
                     revoked, revokedCred, streams, agent, gone>>
  BY DEF Authenticated, control
<1>2. /\ relayConn' \in [Auths -> {"none", "handshake", "serving", "ending"}]
      /\ relayConn'[a] # "none"
      /\ \A b \in Auths : b # a => relayConn'[b] = relayConn[b]
  BY DEF Authenticated, RelayInv, GatewayShapes
<1>3. a # 0 /\ a \in 0..MaxAuths
  BY DEF Auths, RelayConstants
<1>4. FlagIsConnection'
  BY <1>1, <1>2 DEF RelayInv, FlagIsConnection, GatewayShapes, GrantHeld, NoGrant
<1>5. grant \in Grants
  BY DEF RelayInv, GatewayShapes
<1>6. CASE hosts = 0 /\ a \notin cancelled
  <2>1. hosts' = a /\ relayConn'[a] = "serving"
    BY <1>6 DEF Authenticated, RelayInv, GatewayShapes
  <2>2. Registered'
    BY <1>1, <1>2, <1>6, <2>1 DEF RelayInv, Registered, OneConnection, Live
  <2>3. streams = {}
    BY <1>6 DEF RelayInv, StreamsGranted, GrantHeld, Auths, RelayConstants
  <2>4. StreamsGranted'
    BY <1>1, <2>3 DEF StreamsGranted
  <2>5. QED
    BY <1>1, <1>2, <1>3, <1>4, <1>5, <2>1, <2>2, <2>4, ConnectionRelay
<1>7. CASE ~(hosts = 0 /\ a \notin cancelled)
  <2>1. hosts' = hosts /\ relayConn'[a] = "ending"
    BY <1>7 DEF Authenticated, RelayInv, GatewayShapes
  <2>2. hosts # 0 => hosts \in Auths /\ hosts # a
    BY <1>1 DEF RelayInv, Registered, GatewayShapes, Auths, RelayConstants
  <2>3. Registered'
    BY <1>1, <1>2, <2>1, <2>2 DEF RelayInv, Registered, OneConnection, Live
  <2>4. StreamsGranted'
    BY <1>1, <2>1 DEF RelayInv, StreamsGranted
  <2>5. hosts' \in 0..MaxAuths
    BY <2>1 DEF RelayInv, GatewayShapes
  <2>6. QED
    BY <1>1, <1>2, <1>4, <1>5, <2>3, <2>4, <2>5, ConnectionRelay
<1>8. QED
  BY <1>6, <1>7

(* A connection that ends takes its streams and its own entry with it. *)
LEMMA EndsRelay ==
  ASSUME RelayConstants, RelayInv, NEW a \in Auths, ConnectionEnds(a)
  PROVE  RelayInv'
<1>1. /\ relayConn' = [relayConn EXCEPT ![a] = "ending"]
      /\ streams' = Surviving({a}, {}, 0)
      /\ hosts' = (IF hosts = a THEN 0 ELSE hosts)
      /\ UNCHANGED <<clock, cred, cur, last, credOf, allowed, disp, net, grant, cancelled, auths,
                     revoked, revokedCred, agent, gone>>
  BY DEF ConnectionEnds, control
<1>2. /\ relayConn' \in [Auths -> {"none", "handshake", "serving", "ending"}]
      /\ relayConn'[a] = "ending"
      /\ \A b \in Auths : b # a => relayConn'[b] = relayConn[b]
  BY <1>1 DEF RelayInv, GatewayShapes
<1>3. hosts # 0 => hosts \in Auths
  BY DEF RelayInv, GatewayShapes, Auths, RelayConstants
<1>4. Registered'
  BY <1>1, <1>2, <1>3 DEF RelayInv, Registered, OneConnection, Live
<1>5. FlagIsConnection'
  BY <1>1, <1>2 DEF RelayInv, FlagIsConnection, GatewayShapes, GrantHeld, NoGrant
<1>6. \A x \in streams' : x \in streams /\ x.auth # a
  BY <1>1 DEF Surviving
<1>7. StreamsGranted'
  BY <1>1, <1>6 DEF RelayInv, StreamsGranted
<1>8. grant \in Grants /\ hosts' \in 0..MaxAuths
  BY <1>1 DEF RelayInv, GatewayShapes, RelayConstants
<1>9. QED
  BY <1>1, <1>2, <1>4, <1>5, <1>7, <1>8, ConnectionRelay

(* A closed connection gives the token back. *)
LEMMA ClosesRelay ==
  ASSUME RelayConstants, RelayInv, NEW a \in Auths, ConnectionClosed(a)
  PROVE  RelayInv'
<1>1. /\ relayConn[a] = "ending" /\ relayConn' = [relayConn EXCEPT ![a] = "none"]
      /\ grant' = (IF grant # NoGrant /\ grant.auth = a
                   THEN [grant EXCEPT !.connected = FALSE] ELSE grant)
      /\ UNCHANGED <<clock, cred, cur, last, credOf, allowed, disp, net, cancelled, auths,
                     revoked, revokedCred, hosts, streams, agent, gone>>
  BY DEF ConnectionClosed, control
<1>2. /\ relayConn' \in [Auths -> {"none", "handshake", "serving", "ending"}]
      /\ relayConn'[a] = "none"
      /\ \A b \in Auths : b # a => relayConn'[b] = relayConn[b]
  BY <1>1 DEF RelayInv, GatewayShapes
<1>3. /\ grant' \in Grants /\ grant'.auth = grant.auth /\ grant'.id = grant.id
      /\ grant'.exp = grant.exp /\ grant'.rev = grant.rev /\ grant'.targets = grant.targets
  BY <1>1 DEF RelayInv, GatewayShapes, Grants
<1>4. a # 0
  BY DEF Auths, RelayConstants
<1>5. grant' = NoGrant <=> grant = NoGrant
  BY <1>1, <1>3, <1>4 DEF NoGrant
<1>6. hosts # 0 => hosts \in Auths /\ hosts # a
  BY <1>1 DEF RelayInv, Registered, GatewayShapes, Auths, RelayConstants
<1>7. Registered'
  BY <1>1, <1>2, <1>6 DEF RelayInv, Registered, OneConnection, Live
<1>8. StreamsGranted'
  BY <1>1, <1>3, <1>5 DEF RelayInv, StreamsGranted
<1>9. FlagIsConnection'
  <2>1. CASE grant = NoGrant
    BY <1>5, <2>1 DEF FlagIsConnection, NoGrant
  <2>2. CASE grant # NoGrant /\ grant.auth = a
    BY <1>1, <2>2 DEF FlagIsConnection, RelayInv, GatewayShapes, Grants
  <2>3. CASE grant # NoGrant /\ grant.auth # a
    BY <1>1, <1>2, <2>3 DEF FlagIsConnection, RelayInv, GrantHeld
  <2>4. QED
    BY <2>1, <2>2, <2>3
<1>10. hosts' \in 0..MaxAuths
  BY <1>1 DEF RelayInv, GatewayShapes
<1>11. QED
  BY <1>1, <1>2, <1>3, <1>5, <1>7, <1>8, <1>9, <1>10, ConnectionRelay

(* A stream opens under the grant, to a target of it. *)
LEMMA OpenRelay ==
  ASSUME RelayConstants, RelayInv, NEW t \in RelayTargets, OpenStream(t)
  PROVE  RelayInv'
<1>1. /\ Live(hosts) /\ grant # NoGrant /\ grant.auth = hosts /\ t \in grant.targets
      /\ streams' = streams \cup {[auth |-> hosts, target |-> t]}
      /\ UNCHANGED <<clock, cred, cur, last, credOf, allowed, disp, net, grant, cancelled, auths,
                     revoked, revokedCred, relayConn, hosts, agent, gone>>
  BY DEF OpenStream, control
<1>2. StreamsGranted'
  BY <1>1 DEF RelayInv, StreamsGranted, Live
<1>3. Registered' /\ FlagIsConnection'
  BY <1>1 DEF RelayInv, Registered, OneConnection, Live, FlagIsConnection
<1>4. /\ grant \in Grants /\ hosts' \in 0..MaxAuths
      /\ relayConn' \in [Auths -> {"none", "handshake", "serving", "ending"}]
  BY <1>1 DEF RelayInv, GatewayShapes
<1>5. QED
  BY <1>1, <1>2, <1>3, <1>4, ConnectionRelay

-----------------------------------------------------------------------------
(* A restart forgets the grants, and with them everyone who used one. *)
LEMMA RestartRelay == ASSUME RelayConstants, RelayInv, RestartGateway PROVE RelayInv'
<1>1. /\ grant' = NoGrant /\ cancelled' = 1..auths /\ hosts' = 0 /\ streams' = {}
      /\ revoked' = [s \in Sessions |-> 0] /\ revokedCred' = [gen |-> 0, until |-> 0]
      /\ relayConn' = [a \in Auths |-> "none"] /\ net' = {} /\ gone' = {}
      /\ UNCHANGED <<clock, cred, cur, last, credOf, allowed, auths, agent>>
  BY DEF RestartGateway, control
<1>2. disp' \in Dispatches /\ disp'.id = disp.id /\ (disp'.pc # "idle" => disp.pc # "idle")
  BY DEF RestartGateway, RelayInv, ControlShapes, Dispatches
<1>3. ControlShapes'
  BY <1>1, <1>2 DEF RelayInv, ControlShapes
<1>4. GatewayShapes' /\ GrantHeld'
  <2>1. 1..auths \subseteq Auths
    BY DEF RelayInv, GatewayShapes, Auths, RelayConstants
  <2>2. QED
    BY <1>1, <2>1 DEF RelayInv, GatewayShapes, GrantHeld, Grants, NoGrant, RelayConstants
<1>5. Registered' /\ StreamsGranted' /\ FlagIsConnection' /\ RequestsDated' /\ RevokedStaysOut'
  BY <1>1 DEF Registered, OneConnection, Live, StreamsGranted, FlagIsConnection, NoGrant,
              RequestsDated, RevokedStaysOut
<1>6. Fenced'
  BY <1>1 DEF RelayInv, ControlShapes, Fenced, RelayConstants
<1>7. QED
  BY <1>3, <1>4, <1>5, <1>6 DEF RelayInv

(* The lease of the grant runs out with the clock. *)
LEMMA TickRelay == ASSUME RelayConstants, RelayInv, Tick PROVE RelayInv'
<1> DEFINE due == IF grant # NoGrant /\ grant.exp <= clock + 1 THEN {grant.auth} ELSE {}
<1>1. /\ clock < MaxTime /\ clock' = clock + 1
      /\ cancelled' = cancelled \cup due /\ streams' = Surviving(due, {}, 0)
      /\ UNCHANGED <<cred, cur, last, credOf, allowed, disp, net, grant, auths, revoked,
                     revokedCred, relayConn, hosts, agent, gone>>
  BY DEF Tick, control
<1>2. due \subseteq {grant.auth} /\ due \subseteq Auths
  BY DEF RelayInv, GrantHeld
<1> HIDE DEF due
<1>3. Registered' /\ StreamsGranted'
  BY <1>1, <1>2, CutRelay
<1>4. ControlShapes'
  BY <1>1 DEF RelayInv, ControlShapes, RelayConstants
<1>5. GatewayShapes' /\ GrantHeld' /\ FlagIsConnection' /\ RevokedStaysOut'
  BY <1>1, <1>2 DEF RelayInv, GatewayShapes, GrantHeld, FlagIsConnection, RevokedStaysOut
<1>6. RequestsDated'
  BY <1>1 DEF RelayInv, RequestsDated, Request, ControlShapes, RelayConstants
<1>7. Fenced'
  BY <1>1 DEF RelayInv, Fenced, Barred, ControlShapes, GatewayShapes, RelayConstants
<1>8. QED
  BY <1>3, <1>4, <1>5, <1>6, <1>7 DEF RelayInv

(* Every step of the relay keeps the invariant. *)
LEMMA NextRelay == ASSUME RelayConstants PROVE RelayInv /\ [RelayNext]_relayVars => RelayInv'
<1> SUFFICES ASSUME RelayInv, [RelayNext]_relayVars
             PROVE  RelayInv'
  OBVIOUS
<1>1. CASE UNCHANGED relayVars
  BY <1>1, AsideRelay DEF relayVars, gateway, RelayInv, ControlShapes
<1>2. CASE Control
  BY <1>2, HelloRelay, SendRelay, DispatchRelay, RevokeGrantRelay DEF Control
<1>3. CASE Relay
  BY <1>3, HandleGrantRelay, ConnectRelay, AuthenticatedRelay, ClosesRelay DEF Relay
<1>4. CASE Faulty
  BY <1>4, DispatchRelay, RotateRelay, RestartRelay, ClosedRelay DEF Faulty
<1>5. CASE Tick \/ (\E a \in Auths : ConnectionEnds(a)) \/ (\E t \in RelayTargets : OpenStream(t))
  BY <1>5, TickRelay, EndsRelay, OpenRelay
<1>6. QED
  BY <1>1, <1>2, <1>3, <1>4, <1>5 DEF RelayNext

(* What the invariant says of the relay. *)
LEMMA RelayImplied == ASSUME RelayConstants PROVE RelayInv => RelayGranted
<1> SUFFICES ASSUME RelayInv PROVE RelayGranted
  OBVIOUS
<1>1. RelayTypes
  BY DEF RelayTypes, RelayInv, ControlShapes, GatewayShapes, Dispatches, Grants, GrantHeld,
         Registered, RequestsDated, RelayConstants
<1>2. StreamsGranted /\ RevokedStaysOut /\ OneConnection
  BY DEF RelayInv, Registered
<1>3. TokenUsable
  BY DEF RelayInv, FlagIsConnection, TokenUsable, GatewayShapes, Grants
<1>4. QED
  BY <1>1, <1>2, <1>3 DEF RelayGranted

(* For any number of sessions, authorizations, targets and faults, any      *)
(* lease and any clock skew: streams run under the grant that holds, a      *)
(* revoked session never serves again however late its requests arrive, a   *)
(* host has one registered connection, and a token it holds is usable.      *)
THEOREM RelayCorrect == ASSUME RelayConstants PROVE RelaySpec => []RelayGranted
<1>1. RelayInit => RelayInv
  BY InitRelay
<1>2. RelayInv /\ [RelayNext]_relayVars => RelayInv'
  BY NextRelay
<1>3. RelayInv => RelayGranted
  BY RelayImplied
<1>4. QED
  BY <1>1, <1>2, <1>3, PTL DEF RelaySpec
=============================================================================
