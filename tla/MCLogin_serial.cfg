SPECIFICATION FairSpec
CONSTANTS
    NoUser = NoUser
    Users = {u1}
    Requests = {r1, r2, r3}
    LOCKOUT_THRESHOLD = 2
    LOCKOUT_DURATION = 1
    POOL_LIMIT = 1
    MAX_TIME = 3
PROPERTY PolicySpec
PROPERTY Answered
