SPECIFICATION Spec
CONSTANTS
    NoUser = NoUser
    Users = {u1}
    Requests = {r1, r2, r3, r4}
    LOCKOUT_THRESHOLD = 2
    LOCKOUT_DURATION = 1
    POOL_LIMIT = 2
    MAX_TIME = 3
SYMMETRY Symmetric
INVARIANT TypeOK
INVARIANT CountBelowThreshold
INVARIANT LockEarned
INVARIANT LoginAtomic
INVARIANT AuditMatchesAnswer
PROPERTY LockKept
