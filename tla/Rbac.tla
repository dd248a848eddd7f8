-------------------------------- MODULE Rbac --------------------------------
(***************************************************************************)
(* The permission bundles (app/auth/permissions.py) and check_permission   *)
(* of app/auth/rbac.py: the walk from an org to its ancestors, up to       *)
(* MAX_HIERARCHY_DEPTH, in search of the closest grant.                    *)
(*                                                                         *)
(* The hierarchy is a function from orgs to parents.  It is a tree in      *)
(* production, but nothing in the schema keeps it from having a cycle or   *)
(* from being deeper than the walk, so it is any function here.            *)
(***************************************************************************)
EXTENDS Naturals, FiniteSets

CONSTANTS
    Orgs,
    NoOrg,                \* parent_org_id of a root
    Users,
    MAX_HIERARCHY_DEPTH   \* depth at which the walk stops

ASSUME OrgAssumption == NoOrg \notin Orgs
ASSUME DepthAssumption == MAX_HIERARCHY_DEPTH \in Nat

-----------------------------------------------------------------------------
(* Permissions and the roles that bundle them.                             *)

OperationalReads == {"drone:read", "telemetry:read", "video:read", "mission:read"}
OrgAdmin == {"user:invite", "user:remove", "user:assign_role", "org:settings", "audit:read"}
Platform == {"drone:configure_advanced", "platform:audit_read", "platform:org_manage",
             "platform:drone_manage", "dev:debug"}

Permissions ==
    OperationalReads \cup {"mission:write", "drone:configure"} \cup OrgAdmin \cup Platform

Roles == {"viewer", "operator", "admin", "planner", "technician", "developer"}

ROLE_PERMISSIONS == [
    viewer     |-> OperationalReads,
    operator   |-> OperationalReads \cup {"mission:write"},
    admin      |-> OperationalReads \cup OrgAdmin,
    planner    |-> {},
    technician |-> {},
    developer  |-> OperationalReads \cup {"drone:configure"} \cup Platform]

RolesWithPermission(permission) == {role \in Roles : permission \in ROLE_PERMISSIONS[role]}

-----------------------------------------------------------------------------
(* The recursive query.                                                    *)

Parents == [Orgs -> Orgs \cup {NoOrg}]
Grant == [user: Users, org: Orgs, role: Roles]

IsWalk(parent, target, path, depth) ==
    /\ path[0] = target
    /\ \A i \in 1..depth : path[i] = parent[path[i - 1]]

\* The rows of org_chain.  An org on a cycle comes up again at a larger depth.
\* mutant: the walk stops one parent too early
OrgChain_short(parent, target) ==
    {row \in [id: Orgs, depth: 0..MAX_HIERARCHY_DEPTH] :
        /\ row.depth < MAX_HIERARCHY_DEPTH
        /\ \E path \in [0..row.depth -> Orgs] :
            /\ IsWalk(parent, target, path, row.depth)
            /\ path[row.depth] = row.id}
OrgChain(parent, target) ==
    {row \in [id: Orgs, depth: 0..MAX_HIERARCHY_DEPTH] :
        \E path \in [0..row.depth -> Orgs] :
            /\ IsWalk(parent, target, path, row.depth)
            /\ path[row.depth] = row.id}

Candidates(parent, active, user, eligible, target) ==
    {row \in [role: Roles, org: Orgs, depth: 0..MAX_HIERARCHY_DEPTH] :
        /\ [id |-> row.org, depth |-> row.depth] \in OrgChain(parent, target)
        /\ [user |-> user, org |-> row.org, role |-> row.role] \in active
        /\ row.role \in eligible}

\* ORDER BY depth LIMIT 1: any of the rows at the smallest depth.
\* mutant: LIMIT 1 without ORDER BY
Closest_any(rows) == rows
Closest(rows) == {row \in rows : \A other \in rows : row.depth <= other.depth}

Allowed(row) == [allowed |-> TRUE, role |-> row.role, org |-> row.org, reason |-> "granted_via"]
\* mutant: a denial gives no reason
Denied_mute(why) == [allowed |-> FALSE, role |-> "none", org |-> NoOrg, reason |-> ""]
Denied(why) == [allowed |-> FALSE, role |-> "none", org |-> NoOrg, reason |-> why]

\* The results check_permission can return: more than one when two roles at the
\* same org both match.
CheckPermission(parent, active, user, permission, target) ==
    LET eligible == RolesWithPermission(permission)
        rows == Candidates(parent, active, user, eligible, target)
    IN  IF eligible = {} THEN {Denied("permission_not_in_any_role")}
        ELSE IF rows = {} THEN {Denied("no_matching_role_grant")}
        ELSE {Allowed(row) : row \in Closest(rows)}

Results ==
    [allowed: BOOLEAN, role: Roles \cup {"none"}, org: Orgs \cup {NoOrg},
     reason: {"granted_via", "permission_not_in_any_role", "no_matching_role_grant", "none"}]

-----------------------------------------------------------------------------
(* The reference: "a role granting this permission, at this org or any     *)
(* ancestor of this org", without a walk.                                  *)

ClosedUpwards(parent, S) == \A o \in S : parent[o] \in S \cup {NoOrg}

\* The org and its ancestors: the least set closed under parent.
Lineage(parent, target) ==
    {o \in Orgs : \A S \in SUBSET Orgs :
        target \in S /\ ClosedUpwards(parent, S) => o \in S}

\* p is met before o on the way up: without p's parent, o is not reached.
Before(parent, target, p, o) ==
    /\ p # o
    /\ p \in Lineage(parent, target)
    /\ o \notin Lineage([parent EXCEPT ![p] = NoOrg], target)

Distance(parent, target, o) == Cardinality({p \in Orgs : Before(parent, target, p, o)})

GrantsPermission(active, user, permission, org) ==
    \E role \in Roles : /\ permission \in ROLE_PERMISSIONS[role]
                        /\ [user |-> user, org |-> org, role |-> role] \in active

EntitlingOrgs(parent, active, user, permission, target) ==
    {o \in Lineage(parent, target) : /\ Distance(parent, target, o) <= MAX_HIERARCHY_DEPTH
                                     /\ GrantsPermission(active, user, permission, o)}

\* Of some orgs, those that no other one comes before.
Nearest(parent, target, S) == {o \in S : \A p \in S : ~Before(parent, target, p, o)}

\* "Find the closest ancestor at which the user has an active role grant whose
\* bundle includes permission.  Return that match, or a deny result": the results
\* that answer to it.
Decision(parent, active, user, permission, target) ==
    LET entitling == EntitlingOrgs(parent, active, user, permission, target)
    IN  IF entitling = {} THEN {Denied("no_matching_role_grant")}
        ELSE {Allowed(g) : g \in {g \in Grant \cap active :
                  /\ g.user = user
                  /\ g.org \in Nearest(parent, target, entitling)
                  /\ permission \in ROLE_PERMISSIONS[g.role]}}
=============================================================================
