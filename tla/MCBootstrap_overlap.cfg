SPECIFICATION Spec
CONSTANTS
    NoOrg = NoOrg
    NoUser = NoUser
    Orgs = {o1, o2}
    Users = {u1, u2}
    Emails = {e1, e2}
    Drones = {d1}
    Keys = {k1}
    Tokens = {t1}
    Entries = {a1}
    Runs = {b1, b2}
    REVOCABLE = {"admin"}
SYMMETRY Symmetric
INVARIANT TypeOK
INVARIANT NoDanglingReference
INVARIANT SomeRunProceeds
INVARIANT NoOpWhenStaffed
PROPERTY AuditKept
PROPERTY AtomicSpec
PROPERTY OneBootstrap
