SPECIFICATION Spec
CONSTANTS
    NoOrg = NoOrg
    NoRequest = NoRequest
    Orgs = {o1, o2, o3}
    Users = {u1}
    MAX_HIERARCHY_DEPTH = 1
    Drones = {d1}
    Requests = {r1}
    Asked = {"mission:write"}
    Held = {"viewer", "operator"}
    MAX_GRANTS = 2
SYMMETRY Symmetric
INVARIANT TypeOK
INVARIANT RevocationImmediate
INVARIANT DenialOnRecord
PROPERTY AllowedFromAbove
PROPERTY ClosestGrantWins
