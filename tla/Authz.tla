-------------------------------- MODULE Authz --------------------------------
(***************************************************************************)
(* require_permission of app/auth/rbac.py, the dependency every authorized *)
(* route stands on: authenticate, resolve the target org, walk the         *)
(* hierarchy, write the audit row; a denial commits it and answers 403, an *)
(* allowed request leaves it to the transaction of its route.  Between two *)
(* statements grants are given and revoked, orgs and drones move.          *)
(***************************************************************************)
EXTENDS Rbac

CONSTANTS
    Drones,      \* the resources an org_resolver looks up
    Requests,
    NoRequest,   \* what a request has not asked yet
    Asked,       \* permissions the routes require in this instance
    Held,        \* roles that are granted in this instance
    MAX_GRANTS   \* bound of the rows of user_roles

ASSUME SubjectAssumption == Drones \cap Users = {}
ASSUME RequestAssumption == NoRequest \notin [user: Users, permission: Permissions, on: Drones \cup Users]
ASSUME AskedAssumption == Asked \subseteq Permissions
ASSUME HeldAssumption == Held \subseteq Roles
ASSUME GrantsAssumption == MAX_GRANTS \in Nat

VARIABLES
    parent,      \* orgs.parent_org_id
    user_roles,  \* the rows of user_roles
    revoked,     \* those with revoked_at
    org_id,      \* users.org_id and drones.org_id
    pc,          \* where a request stands
    req,         \* who asks for which permission on what
    target,      \* target_org_id
    result,      \* what check_permission returned
    audit,       \* the committed rows of audit_log
    effects,     \* requests whose route committed what it did
    moved,       \* history: requests whose resource moved once it was resolved
    powerless    \* history: requests whose user holds no role since they came

vars == <<parent, user_roles, revoked, org_id, pc, req, target, result, audit, effects,
          moved, powerless>>
tables == <<parent, user_roles, revoked, org_id>>

Request == [user: Users, permission: Asked, on: Drones \cup Users]
Undecided == [allowed |-> FALSE, role |-> "none", org |-> NoOrg, reason |-> "none"]
Answers == {"200", "401", "403", "404", "500"}
States == {"idle", "auth", "resolve", "check", "deny", "route"} \cup Answers

AuditRow == [request: Requests, action: {"authz.granted", "authz.denied"},
             user: Users, permission: Asked, target: Orgs,
             role: Roles \cup {"none"}, org: Orgs \cup {NoOrg}]

Active == user_roles \ revoked

Init ==
    /\ parent \in Parents
    /\ user_roles = {}
    /\ revoked = {}
    /\ org_id \in [Drones \cup Users -> Orgs]
    /\ pc = [r \in Requests |-> "idle"]
    /\ req = [r \in Requests |-> NoRequest]
    /\ target = [r \in Requests |-> NoOrg]
    /\ result = [r \in Requests |-> Undecided]
    /\ audit = {}
    /\ effects = {}
    /\ moved = {}
    /\ powerless = {}

-----------------------------------------------------------------------------
(* The dependency.                                                         *)

Go(r, place) == pc' = [pc EXCEPT ![r] = place]

\* A request on a drone comes to a route with an org_resolver, one on a user to
\* a route without: then the user is the one who asks.
Arrive(r, request) ==
    /\ pc[r] = "idle"
    /\ request.on \in Users => request.on = request.user
    /\ Go(r, "auth")
    /\ req' = [req EXCEPT ![r] = request]
    /\ powerless' = IF \E g \in Active : g.user = request.user THEN powerless
                    ELSE powerless \cup {r}
    /\ UNCHANGED <<tables, target, result, audit, effects, moved>>

\* get_current_user, see module Sessions: a user, whose row is read here, or 401.
Authenticate(r) ==
    /\ pc[r] = "auth"
    /\ \/ /\ Go(r, "401")
          /\ UNCHANGED target
       \/ /\ req[r].on \in Drones
          /\ Go(r, "resolve")
          /\ UNCHANGED target
       \/ /\ req[r].on \in Users
          /\ Go(r, "check")
          /\ target' = [target EXCEPT ![r] = org_id[req[r].on]]
    /\ UNCHANGED <<tables, req, result, audit, effects, moved, powerless>>

\* The resolver reads the org of the drone, or finds no drone.
\* mutant: the home org of the user is taken for the org of the drone
ResolvedOrg_home(r) == org_id[req[r].user]
ResolvedOrg(r) == org_id[req[r].on]
Resolve(r) ==
    /\ pc[r] = "resolve"
    /\ \/ /\ Go(r, "404")
          /\ UNCHANGED target
       \/ /\ Go(r, "check")
          /\ target' = [target EXCEPT ![r] = ResolvedOrg(r)]
    /\ UNCHANGED <<tables, req, result, audit, effects, moved, powerless>>

\* The query, and the audit row that is added to the session and not flushed.
\* mutant: a revoked grant counts
Grants_all == user_roles
Grants == Active
Check(r) ==
    /\ pc[r] = "check"
    /\ \E found \in CheckPermission(parent, Grants, req[r].user, req[r].permission, target[r]) :
          /\ result' = [result EXCEPT ![r] = found]
          /\ Go(r, IF found.allowed THEN "route" ELSE "deny")
    /\ UNCHANGED <<tables, req, target, audit, effects, moved, powerless>>

Entry(r) ==
    [request |-> r, action |-> IF result[r].allowed THEN "authz.granted" ELSE "authz.denied",
     user |-> req[r].user, permission |-> req[r].permission, target |-> target[r],
     role |-> result[r].role, org |-> result[r].org]

\* The audit row of a denial is committed before the 403.  If the reply to the
\* COMMIT is lost the answer is 500, although the row is there.
\* mutant: the 403 is raised without the commit
RecordDenial_unsaved(r) == UNCHANGED audit
RecordDenial(r) == audit' = audit \cup {Entry(r)}
Deny(r) ==
    /\ pc[r] = "deny"
    /\ RecordDenial(r)
    /\ \E answer \in {"403", "500"} : Go(r, answer)
    /\ UNCHANGED <<tables, req, target, result, effects, moved, powerless>>

-----------------------------------------------------------------------------
(* A route behind the dependency.  It shares the session with it, and no   *)
(* one but the route commits: get_db only closes the session.              *)

RouteReads(r) ==
    /\ pc[r] = "route"
    /\ Go(r, "200")
    /\ UNCHANGED <<tables, req, target, result, audit, effects, moved, powerless>>

\* What the route did and the row of the decision are one transaction; the
\* answer may be lost after it.
RouteCommits(r) ==
    /\ pc[r] = "route"
    /\ effects' = effects \cup {r}
    /\ audit' = audit \cup {Entry(r)}
    /\ \E answer \in {"200", "500"} : Go(r, answer)
    /\ UNCHANGED <<tables, req, target, result, moved, powerless>>

\* A statement or the route fails: nothing of the transaction stays.
Error(r) ==
    /\ pc[r] \in {"auth", "resolve", "check", "deny", "route"}
    /\ Go(r, "500")
    /\ UNCHANGED <<tables, req, target, result, audit, effects, moved, powerless>>

-----------------------------------------------------------------------------
(* The tables under the feet of the requests.                              *)

\* A new row, or a revoked one whose revoked_at is cleared: the key is (user,
\* org, role).
GrantRole(g) ==
    /\ g \notin Active
    /\ Cardinality(user_roles \cup {g}) <= MAX_GRANTS
    /\ user_roles' = user_roles \cup {g}
    /\ revoked' = revoked \ {g}
    /\ powerless' = {r \in powerless : req[r].user # g.user}
    /\ UNCHANGED <<parent, org_id, pc, req, target, result, audit, effects, moved>>

RevokeGrant(g) ==
    /\ g \in Active
    /\ revoked' = revoked \cup {g}
    /\ UNCHANGED <<parent, user_roles, org_id, pc, req, target, result, audit, effects,
                   moved, powerless>>

Move(x, o) ==
    /\ org_id' = [org_id EXCEPT ![x] = o]
    /\ moved' = moved \cup {r \in Requests : pc[r] = "check" /\ req[r].on = x}
    /\ UNCHANGED <<parent, user_roles, revoked, pc, req, target, result, audit, effects, powerless>>

Reparent(o, p) ==
    /\ parent' = [parent EXCEPT ![o] = p]
    /\ UNCHANGED <<user_roles, revoked, org_id, pc, req, target, result, audit, effects,
                   moved, powerless>>

-----------------------------------------------------------------------------
Next ==
    \/ \E r \in Requests :
          \/ \E request \in Request : Arrive(r, request)
          \/ Authenticate(r)
          \/ Resolve(r)
          \/ Check(r)
          \/ Deny(r)
          \/ RouteReads(r)
          \/ RouteCommits(r)
          \/ Error(r)
    \/ \E g \in [user: Users, org: Orgs, role: Held] : GrantRole(g) \/ RevokeGrant(g)
    \/ \E x \in Drones \cup Users, o \in Orgs : Move(x, o)
    \/ \E o \in Orgs, p \in Orgs \cup {NoOrg} : Reparent(o, p)

Spec == Init /\ [][Next]_vars

-----------------------------------------------------------------------------
(* Properties.                                                             *)

\* Each variable keeps the shape of its table or of its process state.
TypeOK ==
    /\ parent \in Parents
    /\ user_roles \subseteq Grant
    /\ revoked \subseteq user_roles
    /\ org_id \in [Drones \cup Users -> Orgs]
    /\ pc \in [Requests -> States]
    /\ req \in [Requests -> Request \cup {NoRequest}]
    /\ target \in [Requests -> Orgs \cup {NoOrg}]
    /\ result \in [Requests -> Results]
    /\ audit \subseteq AuditRow
    /\ effects \subseteq Requests
    /\ moved \subseteq Requests
    /\ powerless \subseteq Requests

\* A request is allowed only by a grant that is not revoked when the query
\* runs, of a role that bundles the permission, at the org the resource is in
\* or above it: never beside it, never below it (rbac.py:5-7).  The resource
\* is in the org that was resolved unless it moved in between.
AllowedFromAbove ==
    [][\A r \in Requests : pc[r] = "check" /\ pc'[r] = "route" =>
        LET given == [user |-> req[r].user, org |-> result'[r].org, role |-> result'[r].role]
        IN  /\ given \in Active
            /\ req[r].permission \in ROLE_PERMISSIONS[given.role]
            /\ given.org \in Lineage(parent, target[r])
            /\ r \notin moved => target[r] = org_id[req[r].on]]_vars

\* Every request is decided as check_permission promises: "the closest match
\* (smallest depth) wins" (rbac.py:71), also where orgs form a cycle, and a
\* request is denied only if no entitling grant is within the depth of the walk,
\* however deep the tree and however many grants there are.
ClosestGrantWins ==
    [][\A r \in Requests : pc[r] = "check" /\ pc'[r] \in {"route", "deny"} =>
        /\ result'[r] \in Decision(parent, Active, req[r].user, req[r].permission, target[r])
        /\ pc'[r] = IF result'[r].allowed THEN "route" ELSE "deny"]_vars

\* rbac.py:18-19 "A role revocation must take effect immediately": the request
\* of a user who holds no role when it comes and is given none meanwhile gets
\* nowhere, whatever the user held before.
RevocationImmediate ==
    \A r \in powerless : /\ pc[r] \notin {"route", "200"}
                         /\ r \notin effects

\* A 403 was decided by the query and its authz.denied row is committed, with
\* the user, permission and org of the request (rbac.py:192-200).
DenialOnRecord ==
    \A r \in Requests : pc[r] = "403" =>
        /\ ~result[r].allowed
        /\ [request |-> r, action |-> "authz.denied", user |-> req[r].user,
            permission |-> req[r].permission, target |-> target[r],
            role |-> "none", org |-> NoOrg] \in audit

\* audit/log.py:3 "Every authentication and authorization decision is logged",
\* rbac.py:21 "DO audit every decision (allow + deny)".
EveryDecisionAudited ==
    \A r \in Requests : pc[r] \in {"200", "403"} => \E row \in audit : row.request = r
=============================================================================
