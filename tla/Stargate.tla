------------------------------ MODULE Stargate ------------------------------
(***************************************************************************)
(* One terminal route of the Stargate gateway: the stored route and its    *)
(* target (store.rs), the admin operations that replace, stage, activate   *)
(* and delete it (admin.rs, lib.rs), the registry of leases that revokes   *)
(* the sessions a route authorized (session_registry.rs), the browser      *)
(* sockets that wait for a target (webssh.rs, terminal_registry.rs) and    *)
(* the native SSH connections (ssh.rs).                                    *)
(*                                                                         *)
(* The admin operations hold terminal_route_mutation; a step of this       *)
(* module is what such an operation does between two points at which       *)
(* another thread can see it: first the SQLite write, then the revocation  *)
(* or the wake-up, with `lock` naming what is still owed.  Browser         *)
(* admission takes no lock at all.                                         *)
(***************************************************************************)
EXTENDS Naturals, FiniteSets

CONSTANTS
  Gens,        \* route generations the control plane issues
  Metas,       \* run, VM, user and host a route is bound to
  Targets,     \* guest endpoints with the client key they admit
  Sockets,     \* browser sockets
  Conns,       \* native SSH connections
  None,
  MaxIssues, MaxAdmin   \* bounds: issues, and stage/activate/delete/expiry calls

VARIABLES
  route,       \* the row of `routes` joined with its target, or None
  lock,        \* what the holder of terminal_route_mutation still has to do
  registry,    \* generation and leases of the route's entry in SessionRegistry
  waiters,     \* sockets subscribed to TerminalRouteTargetRegistry
  sock,        \* the browser sockets
  conn,        \* the native connections
  issues, admin

vars == <<route, lock, registry, waiters, sock, conn, issues, admin>>

(***************************************************************************)
(* StoredTerminalRoute.  `kind` is the class of StoredTarget; an attachment*)
(* identifier is fresh for every stage, here the number of admin calls.    *)
(***************************************************************************)
TargetKinds == {"missing", "staged", "active"}
Modes == {"browser", "native"}

Route == [gen : Gens, mode : Modes, meta : Metas, kind : TargetKinds,
          target : Targets \cup {None}, attachment : 0..MaxAdmin, expired : BOOLEAN]

StargateConstants ==
  /\ MaxIssues \in Nat /\ MaxAdmin \in Nat
  /\ None \notin Gens \cup Metas \cup Targets \cup Sockets \cup Conns \cup Route
  /\ Sockets \cap Conns = {}

(* A lease: a socket or a connection holds an admission lease and, below   *)
(* it, the lease of its bridge.                                            *)
Leases == (Sockets \cup Conns) \X {"admission", "connection", "bridge"}

NoSocket == [pc |-> "idle", token |-> None, seen |-> None, lgen |-> 0,
             cancelled |-> FALSE, woken |-> FALSE, claim |-> None]
NoConn == [pc |-> "idle", seen |-> None, lgen |-> 0, cancelled |-> FALSE]

SocketSteps == {"idle", "admit", "check", "subscribe", "read", "wait", "open", "pty"}
ConnSteps == {"idle", "offered", "connected", "shell"}

TypeOK ==
  /\ route \in Route \cup {None}
  /\ route # None => (route.kind = "missing" <=> route.target = None)
  /\ lock \in {"free", "terminate", "notify"}
  /\ registry.gen \in 0..(MaxIssues + MaxAdmin) /\ registry.entries \subseteq Leases
  /\ waiters \subseteq Sockets
  /\ \A s \in Sockets : /\ sock[s].pc \in SocketSteps
                        /\ sock[s].token \in Gens \cup {None}
                        /\ sock[s].claim \in Gens \cup {None}
                        /\ sock[s].seen \in Route \cup {None}
  /\ \A c \in Conns : conn[c].pc \in ConnSteps /\ conn[c].seen \in Route \cup {None}
  /\ issues \in 0..MaxIssues /\ admin \in 0..MaxAdmin

Init ==
  /\ route = None /\ lock = "free"
  /\ registry = [gen |-> 0, entries |-> {}]
  /\ waiters = {}
  /\ sock = [s \in Sockets |-> NoSocket] /\ conn = [c \in Conns |-> NoConn]
  /\ issues = 0 /\ admin = 0

----------------------------------------------------------------------------
(* Reads of the store. *)

\* get_route: the live row, whose expiry has not passed
GetRoute == IF route # None /\ ~route.expired THEN route ELSE None

\* ready_target: only an active target is dialled
Ready(r) == r # None /\ r.kind = "active"

----------------------------------------------------------------------------
(* SessionRegistry. *)

Register(who, kind) == [registry EXCEPT !.entries = @ \cup {<<who, kind>>}]

\* register_child: refused when the parent was cancelled or the generation moved
ChildAllowed(session) == ~session.cancelled /\ session.lgen = registry.gen

\* Drop of a lease: an entry that becomes empty is removed with its generation
Unregister(reg, gone) ==
  LET left == reg.entries \ gone
  IN  IF left = {} THEN [gen |-> 0, entries |-> {}] ELSE [reg EXCEPT !.entries = left]

LeasesOf(who) == {<<who, kind>> : kind \in {"admission", "connection", "bridge"}}

\* terminate_username: the generation advances and every lease is cancelled
Terminate ==
  LET cut == {l[1] : l \in registry.entries}
  IN  /\ registry' = [gen |-> registry.gen + 1, entries |-> {}]
      /\ sock' = [s \in Sockets |->
                    IF s \in cut THEN [sock[s] EXCEPT !.cancelled = TRUE] ELSE sock[s]]
      /\ conn' = [c \in Conns |->
                    IF c \in cut THEN [conn[c] EXCEPT !.cancelled = TRUE] ELSE conn[c]]

----------------------------------------------------------------------------
(* Admin operations. *)

Calls == admin < MaxAdmin /\ admin' = admin + 1

TargetIgnored(old, new) ==
  /\ old # None
  /\ old.meta # new.meta \/ old.mode # new.mode

\* terminal_route_authorization_changed: the generation is not compared
AuthorizationChanged(old, new) ==
  /\ old # None
  /\ \/ old.meta # new.meta \/ old.mode # new.mode
     \/ ~ \/ old.kind = "missing" /\ new.kind = "missing"
          \/ old.kind = "active" /\ new.kind = "active" /\ old.target = new.target

IssueKeepsTarget(g, mode, m, t) ==
  /\ lock = "free" /\ issues < MaxIssues
  /\ issues' = issues + 1
  /\ LET new == [gen |-> g, mode |-> mode, meta |-> m,
                 kind |-> IF mode = "native" THEN "active" ELSE "missing",
                 target |-> IF mode = "native" THEN t
                            ELSE IF route = None THEN None ELSE route.target,
                 attachment |-> 0, expired |-> FALSE]
     IN  /\ route' = new
         /\ lock' = IF AuthorizationChanged(route, new) THEN "terminate" ELSE "free"
  /\ UNCHANGED <<registry, waiters, sock, conn, admin>>

\* issue_terminal_session and replace_terminal_route.  A browser route is
\* created without a target, a native route with its active target.
IssueRoute(g, mode, m, t) ==
  /\ lock = "free" /\ issues < MaxIssues
  /\ issues' = issues + 1
  /\ LET new == [gen |-> g, mode |-> mode, meta |-> m,
                 kind |-> IF mode = "native" THEN "active" ELSE "missing",
                 target |-> IF mode = "native" THEN t ELSE None,
                 attachment |-> 0, expired |-> FALSE]
     IN  /\ route' = new
         /\ lock' = IF AuthorizationChanged(route, new) THEN "terminate" ELSE "free"
  /\ UNCHANGED <<registry, waiters, sock, conn, admin>>

\* stage_route_target: an identical repeat changes nothing, another target is a conflict
StageTarget(g, m, t) ==
  /\ lock = "free" /\ Calls
  /\ GetRoute # None /\ route.gen = g /\ route.meta = m /\ route.kind = "missing"
  /\ route' = [route EXCEPT !.kind = "staged", !.target = t, !.attachment = admin + 1]
  /\ UNCHANGED <<lock, registry, waiters, sock, conn, issues>>

ActivateSilently(g, m, a) ==
  /\ lock = "free" /\ Calls
  /\ GetRoute # None /\ route.gen = g /\ route.meta = m /\ route.kind # "missing"
  /\ route.attachment = a
  /\ route' = [route EXCEPT !.kind = "active"]
  /\ UNCHANGED <<lock, registry, waiters, sock, conn, issues>>

\* activate_staged_target: the row first, the waiting sockets after it.  A
\* repeat for the active attachment wakes them again.
ActivateTarget(g, m, a) ==
  /\ lock = "free" /\ Calls
  /\ GetRoute # None /\ route.gen = g /\ route.meta = m /\ route.kind # "missing"
  /\ route.attachment = a
  /\ route' = [route EXCEPT !.kind = "active"]
  /\ lock' = "notify"
  /\ UNCHANGED <<registry, waiters, sock, conn, issues>>

\* delete_route, fenced by a generation or not
DeleteRoute(g) ==
  /\ lock = "free" /\ Calls
  /\ route # None /\ g \in {None, route.gen}
  /\ route' = None /\ lock' = "terminate"
  /\ UNCHANGED <<registry, waiters, sock, conn, issues>>

\* the expiry of the row passes; the sweep deletes it, then revokes
ExpireRoute ==
  /\ Calls /\ GetRoute # None
  /\ route' = [route EXCEPT !.expired = TRUE]
  /\ UNCHANGED <<lock, registry, waiters, sock, conn, issues>>

SweepExpired ==
  /\ lock = "free" /\ route # None /\ route.expired
  /\ route' = None /\ lock' = "terminate"
  /\ UNCHANGED <<registry, waiters, sock, conn, issues, admin>>

\* the second half of an operation that holds terminal_route_mutation
RevokeSessions ==
  /\ lock = "terminate"
  /\ Terminate /\ lock' = "free"
  /\ UNCHANGED <<route, waiters, issues, admin>>

NotifyWaiters ==
  /\ lock = "notify"
  /\ sock' = [s \in Sockets |->
                IF s \in waiters THEN [sock[s] EXCEPT !.woken = TRUE] ELSE sock[s]]
  /\ lock' = "free"
  /\ UNCHANGED <<route, registry, waiters, conn, issues, admin>>

----------------------------------------------------------------------------
(* A browser socket: terminal_websocket, run_terminal_socket,              *)
(* run_attached_terminal and wait_for_target.                              *)

SocketLeaves(s) ==
  /\ sock' = [sock EXCEPT ![s] = NoSocket]
  /\ registry' = Unregister(registry, LeasesOf(s))
  /\ waiters' = waiters \ {s}

GoTo(s, pc) == sock' = [sock EXCEPT ![s].pc = pc]

\* the token names the generation it was minted for; the lease is taken first
Connect(s) ==
  /\ sock[s].pc = "idle"
  /\ route # None /\ route.mode = "browser"
  /\ sock' = [sock EXCEPT ![s] = [NoSocket EXCEPT !.pc = "admit", !.token = route.gen,
                                                  !.lgen = registry.gen]]
  /\ registry' = Register(s, "admission")
  /\ UNCHANGED <<route, lock, waiters, conn, issues, admin>>

LookupRoute(s) ==
  /\ sock[s].pc = "admit"
  /\ sock' = [sock EXCEPT ![s].pc = "check", ![s].seen = GetRoute]
  /\ UNCHANGED <<route, lock, registry, waiters, conn, issues, admin>>

AdmittedTwice(s) ==
  /\ sock[s].seen # None /\ ~sock[s].cancelled
  /\ sock[s].seen.gen = sock[s].token

\* the admission: not revoked, the token's generation, one socket per generation
Admitted(s) ==
  /\ sock[s].seen # None /\ ~sock[s].cancelled
  /\ sock[s].seen.gen = sock[s].token
  /\ \A o \in Sockets : sock[o].claim # sock[s].seen.gen

ClaimSocket(s) ==
  /\ sock[s].pc = "check"
  /\ IF Admitted(s)
     THEN /\ sock' = [sock EXCEPT ![s].pc = "subscribe", ![s].claim = sock[s].seen.gen]
          /\ UNCHANGED <<registry, waiters>>
     ELSE SocketLeaves(s)
  /\ UNCHANGED <<route, lock, conn, issues, admin>>

\* wait_for_target subscribes before its first read
Subscribe(s) ==
  /\ sock[s].pc = "subscribe"
  /\ waiters' = waiters \cup {s}
  /\ sock' = [sock EXCEPT ![s].pc = "read", ![s].woken = FALSE]
  /\ UNCHANGED <<route, lock, registry, conn, issues, admin>>

ReadSnapshot(s) ==
  /\ sock[s].pc = "read"
  /\ GoTo(s, IF Ready(sock[s].seen) THEN "open" ELSE "wait")
  /\ UNCHANGED <<route, lock, registry, waiters, conn, issues, admin>>

ReadTarget(s) ==
  /\ sock[s].pc = "read"
  /\ IF GetRoute = None
     THEN SocketLeaves(s)
     ELSE /\ sock' = [sock EXCEPT ![s].pc = IF Ready(route) THEN "open" ELSE "wait",
                                  ![s].seen = route]
          /\ waiters' = IF Ready(route) THEN waiters \ {s} ELSE waiters
          /\ UNCHANGED registry
  /\ UNCHANGED <<route, lock, conn, issues, admin>>

Wake(s) ==
  /\ sock[s].pc = "wait" /\ sock[s].woken
  /\ sock' = [sock EXCEPT ![s].pc = "read", ![s].woken = FALSE]
  /\ UNCHANGED <<route, lock, registry, waiters, conn, issues, admin>>

\* the PTY is a child of the admission; the dial uses the route that was read
OpenPty(s) ==
  /\ sock[s].pc = "open"
  /\ IF ChildAllowed(sock[s])
     THEN /\ GoTo(s, "pty")
          /\ registry' = Register(s, "bridge")
          /\ UNCHANGED waiters
     ELSE SocketLeaves(s)
  /\ UNCHANGED <<route, lock, conn, issues, admin>>

\* the socket ends: cancelled, closed, idle, expired or out of attach time
EndSocket(s) ==
  /\ sock[s].pc # "idle"
  /\ SocketLeaves(s)
  /\ UNCHANGED <<route, lock, conn, issues, admin>>

----------------------------------------------------------------------------
(* A native connection. *)

ConnLeaves(c) ==
  /\ conn' = [conn EXCEPT ![c] = NoConn]
  /\ registry' = Unregister(registry, LeasesOf(c))

\* load_route_with_admission registers and reads under the mutex, then the key
\* of the client is compared with the target's
OfferKey(c, t) ==
  /\ lock = "free" /\ conn[c].pc = "idle"
  /\ Ready(GetRoute) /\ route.target = t
  /\ conn' = [conn EXCEPT ![c] = [pc |-> "offered", seen |-> route, lgen |-> registry.gen,
                                  cancelled |-> FALSE]]
  /\ registry' = Register(c, "admission")
  /\ UNCHANGED <<route, lock, waiters, sock, issues, admin>>

AdmissionDroppedFirst(c) ==
  /\ conn[c].pc = "offered"
  /\ IF ChildAllowed(conn[c])
     THEN /\ conn' = [conn EXCEPT ![c].pc = "connected"]
          /\ registry' = Unregister(registry, {<<c, "admission">>})
     ELSE ConnLeaves(c)
  /\ UNCHANGED <<route, lock, waiters, sock, issues, admin>>

\* auth_succeeded: the connection lease is registered before the admission is dropped
AuthSucceeded(c) ==
  /\ conn[c].pc = "offered"
  /\ IF ChildAllowed(conn[c])
     THEN /\ conn' = [conn EXCEPT ![c].pc = "connected"]
          /\ registry' = Unregister(Register(c, "connection"), {<<c, "admission">>})
     ELSE ConnLeaves(c)
  /\ UNCHANGED <<route, lock, waiters, sock, issues, admin>>

\* shell_request and exec_request
OpenShell(c) ==
  /\ conn[c].pc = "connected"
  /\ IF ChildAllowed(conn[c])
     THEN /\ conn' = [conn EXCEPT ![c].pc = "shell"]
          /\ registry' = Register(c, "bridge")
     ELSE ConnLeaves(c)
  /\ UNCHANGED <<route, lock, waiters, sock, issues, admin>>

EndConn(c) ==
  /\ conn[c].pc # "idle"
  /\ ConnLeaves(c)
  /\ UNCHANGED <<route, lock, waiters, sock, issues, admin>>

\* the gateway restarts: the database stays, every session is gone
Restart ==
  /\ Calls /\ lock = "free"
  /\ registry' = [gen |-> 0, entries |-> {}] /\ waiters' = {}
  /\ sock' = [s \in Sockets |-> NoSocket] /\ conn' = [c \in Conns |-> NoConn]
  /\ UNCHANGED <<route, lock, issues>>

----------------------------------------------------------------------------
AdminStep ==
  \/ \E g \in Gens, mode \in Modes, m \in Metas, t \in Targets : IssueRoute(g, mode, m, t)
  \/ \E g \in Gens, m \in Metas : \/ \E t \in Targets : StageTarget(g, m, t)
                                  \/ \E a \in 1..MaxAdmin : ActivateTarget(g, m, a)
  \/ \E g \in Gens \cup {None} : DeleteRoute(g)
  \/ ExpireRoute \/ SweepExpired \/ RevokeSessions \/ NotifyWaiters \/ Restart

SocketStep(s) ==
  \/ LookupRoute(s) \/ ClaimSocket(s) \/ Subscribe(s) \/ ReadTarget(s) \/ Wake(s)
  \/ OpenPty(s)

ConnStep(c) ==
  \/ \E t \in Targets : OfferKey(c, t)
  \/ AuthSucceeded(c) \/ OpenShell(c) \/ EndConn(c)

Next ==
  \/ AdminStep
  \/ \E s \in Sockets : Connect(s) \/ SocketStep(s) \/ EndSocket(s)
  \/ \E c \in Conns : ConnStep(c)

\* a holder of the mutex finishes, and the tasks of a socket are polled
Fairness ==
  /\ WF_vars(RevokeSessions) /\ WF_vars(NotifyWaiters)
  /\ \A s \in Sockets : WF_vars(SocketStep(s))

Spec == Init /\ [][Next]_vars

FairSpec == Spec /\ Fairness

----------------------------------------------------------------------------
(* Properties. *)

Dials(session) == session.pc \in {"pty", "shell"} /\ ~session.cancelled

SameAuthorization(r, seen) ==
  r # None /\ r.meta = seen.meta /\ r.mode = seen.mode /\ r.target = seen.target

(* With the mutex free, every shell that is still running was authorized by *)
(* the route that is stored now: its user, its mode, its target and its key *)
(* (replace_terminal_route, delete_route and the sweep revoke the rest, and *)
(* no admission that races them survives).                                  *)
ShellsAuthorized ==
  lock = "free" =>
    /\ \A s \in Sockets : Dials(sock[s]) => SameAuthorization(route, sock[s].seen)
    /\ \A c \in Conns : Dials(conn[c]) => SameAuthorization(route, conn[c].seen)

(* An activation is never lost on a socket that waits for it: once the      *)
(* operation has released the mutex, the socket is awake or was cancelled   *)
(* (wait_for_target subscribes before it reads).                            *)
NoLostWake ==
  \A s \in Sockets :
    sock[s].pc = "wait" /\ lock = "free" /\ Ready(GetRoute) /\ ~sock[s].cancelled =>
      sock[s].woken

(* Every running session can be reached by a revocation: while it is not    *)
(* cancelled, one of its leases is in the registry (auth_succeeded and      *)
(* register_child hand over without a gap).                                 *)
SessionsReachable ==
  /\ \A s \in Sockets : sock[s].pc # "idle" /\ ~sock[s].cancelled =>
       LeasesOf(s) \cap registry.entries # {}
  /\ \A c \in Conns : conn[c].pc # "idle" /\ ~conn[c].cancelled =>
       LeasesOf(c) \cap registry.entries # {}

(* A shell runs only under an authorization that still exists, a session    *)
(* that a revocation must close is in the registry it searches, and a       *)
(* waiting socket does not miss the activation of its target.               *)
TerminalsAuthorized ==
  TypeOK /\ ShellsAuthorized /\ NoLostWake /\ SessionsReachable

(* A socket that waits on a route whose target is active does not wait for  *)
(* ever: it opens its shell, reads again or ends.                           *)
WaitEnds ==
  \A s \in Sockets :
    (sock[s].pc = "wait" /\ Ready(route)) ~> (sock[s].pc # "wait" \/ ~Ready(GetRoute) \/ sock[s].cancelled)

(* webssh.rs: "One live socket per route generation", so that two sockets   *)
(* cannot race for one PTY: no two shells were dialled for one generation.  *)
OneShellPerGeneration ==
  \A s, o \in Sockets :
    s # o /\ Dials(sock[s]) /\ Dials(sock[o]) => sock[s].seen.gen # sock[o].seen.gen
=============================================================================
