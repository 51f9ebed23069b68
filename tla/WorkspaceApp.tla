---------------------------- MODULE WorkspaceApp ----------------------------
(***************************************************************************)
(* One workspace application route of the Stargate gateway: the stored     *)
(* route with its one-time bootstrap token and its browser sessions        *)
(* (store.rs), the admin operations (admin.rs), the proxied requests       *)
(* (workspace_app.rs) and the pool of SSH sessions they share              *)
(* (outbound.rs).  No mutex orders the admin operations here: each one     *)
(* writes, then revokes the leases, then invalidates the pool.             *)
(***************************************************************************)
EXTENDS Naturals, FiniteSets

CONSTANTS
  Ops,          \* admin operations that may run at the same time
  Requests,     \* browser requests
  Guests,       \* guest endpoints
  MaxVersions   \* bound: issues of the route

VARIABLES
  appRoute,     \* version and target of the stored route; version 0 is none
  versions,     \* issues so far
  bootstrap,    \* version whose bootstrap token is unused, or 0
  browser,      \* versions that have a browser session
  op,           \* what each admin operation still has to do
  req,          \* the requests
  leases,       \* requests whose leases are in the session registry
  pool          \* target of the pooled SSH session, or NoSession

appVars == <<appRoute, versions, bootstrap, browser, op, req, leases, pool>>

WorkspaceConstants == MaxVersions \in Nat /\ Ops \cap Requests = {}

NoSession == [target |-> {}, up |-> FALSE]
NoRequest == [pc |-> "idle", cookie |-> 0, seen |-> 0, target |-> {}, cancelled |-> FALSE]

AppTypeOK ==
  /\ appRoute.version \in 0..MaxVersions /\ versions \in 0..MaxVersions
  /\ bootstrap \in {0, appRoute.version}
  /\ browser \subseteq {appRoute.version} \ {0}
  /\ op \in [Ops -> {"idle", "terminate", "invalidate"}]
  /\ \A r \in Requests : req[r].pc \in {"idle", "admit", "authorized", "proxy"}
  /\ leases \subseteq Requests

AppInit ==
  /\ appRoute = [version |-> 0, target |-> {}] /\ versions = 0
  /\ bootstrap = 0 /\ browser = {}
  /\ op = [o \in Ops |-> "idle"] /\ req = [r \in Requests |-> NoRequest]
  /\ leases = {} /\ pool = NoSession

----------------------------------------------------------------------------
(* Admin operations. *)

\* upsert_workspace_app_route: a reissue deletes the browser sessions and
\* replaces the bootstrap token in the same transaction
IssueKeepsCookies(o, t, createOnly) ==
  /\ op[o] = "idle" /\ versions < MaxVersions
  /\ createOnly => appRoute.version = 0
  /\ versions' = versions + 1
  /\ appRoute' = [version |-> versions + 1, target |-> t]
  /\ bootstrap' = versions + 1
  /\ op' = [op EXCEPT ![o] = IF createOnly THEN "idle" ELSE "terminate"]
  /\ UNCHANGED <<browser, req, leases, pool>>

Issue(o, t, createOnly) ==
  /\ op[o] = "idle" /\ versions < MaxVersions
  /\ createOnly => appRoute.version = 0
  /\ versions' = versions + 1
  /\ appRoute' = [version |-> versions + 1, target |-> t]
  /\ bootstrap' = versions + 1 /\ browser' = {}
  /\ op' = [op EXCEPT ![o] = IF createOnly THEN "idle" ELSE "terminate"]
  /\ UNCHANGED <<req, leases, pool>>

\* delete_workspace_app_route and the expiry sweep; the sessions of the row go
\* with it
Delete(o) ==
  /\ op[o] = "idle" /\ appRoute.version # 0
  /\ appRoute' = [version |-> 0, target |-> {}]
  /\ bootstrap' = 0 /\ browser' = {}
  /\ op' = [op EXCEPT ![o] = "terminate"]
  /\ UNCHANGED <<versions, req, leases, pool>>

\* terminate_username
TerminateUsername(o) ==
  /\ op[o] = "terminate"
  /\ req' = [r \in Requests |->
               IF r \in leases THEN [req[r] EXCEPT !.cancelled = TRUE] ELSE req[r]]
  /\ leases' = {}
  /\ op' = [op EXCEPT ![o] = "invalidate"]
  /\ UNCHANGED <<appRoute, versions, bootstrap, browser, pool>>

\* WorkspaceAppTunnelPool::invalidate
Invalidate(o) ==
  /\ op[o] = "invalidate"
  /\ pool' = NoSession
  /\ op' = [op EXCEPT ![o] = "idle"]
  /\ UNCHANGED <<appRoute, versions, bootstrap, browser, req, leases>>

\* a browser session expires before its route
SessionExpires ==
  /\ browser # {} /\ browser' = {}
  /\ UNCHANGED <<appRoute, versions, bootstrap, op, req, leases, pool>>

----------------------------------------------------------------------------
(* Requests. *)

\* exchange_workspace_app_bootstrap consumes the token and creates the session
Exchange ==
  /\ bootstrap # 0
  /\ bootstrap' = 0 /\ browser' = {bootstrap}
  /\ UNCHANGED <<appRoute, versions, op, req, leases, pool>>

AdmitWithoutLease(r, v) ==
  /\ req[r].pc = "idle"
  /\ req' = [req EXCEPT ![r] = [NoRequest EXCEPT !.pc = "admit", !.cookie = v]]
  /\ UNCHANGED <<appRoute, versions, bootstrap, browser, op, leases, pool>>

\* proxy_workspace_app takes its leases before it looks at the database
Admit(r, v) ==
  /\ req[r].pc = "idle"
  /\ req' = [req EXCEPT ![r] = [NoRequest EXCEPT !.pc = "admit", !.cookie = v]]
  /\ leases' = leases \cup {r}
  /\ UNCHANGED <<appRoute, versions, bootstrap, browser, op, pool>>

Leave(r) ==
  /\ req' = [req EXCEPT ![r] = NoRequest]
  /\ leases' = leases \ {r}

\* get_authorized_workspace_app_route: the cookie's session and its route
Authorize(r) ==
  /\ req[r].pc = "admit"
  /\ IF req[r].cookie \in browser /\ ~req[r].cancelled
     THEN /\ req' = [req EXCEPT ![r].pc = "authorized", ![r].seen = appRoute.version,
                                ![r].target = appRoute.target]
          /\ UNCHANGED leases
     ELSE Leave(r)
  /\ UNCHANGED <<appRoute, versions, bootstrap, browser, op, pool>>

\* the pool entry of another target is replaced, its session disconnected.  The
\* future may be polled once more after the cancellation.
AnyEntry(r) == IF pool.up THEN pool ELSE [target |-> req[r].target, up |-> TRUE]

Pooled(r) ==
  IF pool.target = req[r].target /\ pool.up THEN pool
  ELSE [target |-> req[r].target, up |-> TRUE]

OpenTunnel(r) ==
  /\ req[r].pc = "authorized"
  /\ pool' = Pooled(r)
  /\ req' = [req EXCEPT ![r].pc = "proxy", ![r].target = Pooled(r).target]
  /\ UNCHANGED <<appRoute, versions, bootstrap, browser, op, leases>>

\* the shared SSH session drops; the next request reconnects
SessionLost ==
  /\ pool.up /\ pool' = NoSession
  /\ UNCHANGED <<appRoute, versions, bootstrap, browser, op, req, leases>>

EndRequest(r) ==
  /\ req[r].pc # "idle"
  /\ Leave(r)
  /\ UNCHANGED <<appRoute, versions, bootstrap, browser, op, pool>>

----------------------------------------------------------------------------
AppNext ==
  \/ \E o \in Ops : \/ \E t \in Guests, create \in BOOLEAN : Issue(o, t, create)
                    \/ Delete(o) \/ TerminateUsername(o) \/ Invalidate(o)
  \/ SessionExpires \/ Exchange \/ SessionLost
  \/ \E r \in Requests : \/ \E v \in 1..versions : Admit(r, v)
                         \/ Authorize(r) \/ OpenTunnel(r) \/ EndRequest(r)

AppSpec == AppInit /\ [][AppNext]_appVars

----------------------------------------------------------------------------
(* Properties. *)

Settled == \A o \in Ops : op[o] # "terminate"

(* Once the operations have revoked what they must, every request that is   *)
(* still running was authorized by the version of the route that is stored: *)
(* a rotation, a delete or an expiry leaves no tunnel of an older one.      *)
RequestsCurrent ==
  Settled => \A r \in Requests :
    req[r].pc \in {"authorized", "proxy"} /\ ~req[r].cancelled => req[r].seen = appRoute.version

(* A running request reaches the guest its route names, although all        *)
(* requests of the route share one pooled SSH session and a request of an   *)
(* older version may put its own target back into the pool.                 *)
TunnelTarget ==
  Settled => \A r \in Requests :
    req[r].pc = "proxy" /\ ~req[r].cancelled => req[r].target = appRoute.target

(* A proxied request runs under the current version of its workspace route  *)
(* and its tunnel goes to the target of that version (admin.rs writes, then *)
(* revokes; workspace_app.rs takes its leases, then reads).                 *)
AppRequestsCurrent == AppTypeOK /\ RequestsCurrent /\ TunnelTarget
=============================================================================
