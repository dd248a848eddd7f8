SPECIFICATION Spec
CONSTANTS
    NoUser = NoUser
    Users = {u1}
    Requests = {r1, r2, r3}
    LOCKOUT_THRESHOLD = 2
    LOCKOUT_DURATION = 2
    POOL_LIMIT = 3
    MAX_TIME = 2
INVARIANT FiveInARowLocks
