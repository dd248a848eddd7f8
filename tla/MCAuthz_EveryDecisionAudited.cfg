SPECIFICATION Spec
CONSTANTS
    NoOrg = NoOrg
    NoRequest = NoRequest
    Orgs = {o1, o2}
    Users = {u1}
    MAX_HIERARCHY_DEPTH = 1
    Drones = {d1}
    Requests = {r1}
    Asked = {"mission:write"}
    Held = {"operator"}
    MAX_GRANTS = 1
INVARIANT EveryDecisionAudited
