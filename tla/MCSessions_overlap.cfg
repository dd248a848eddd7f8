SPECIFICATION Spec
CONSTANTS
    Forged = Forged
    NoToken = NoToken
    NoUser = NoUser
    Tokens = {s1}
    Users = {u1}
    Requests = {r1, r2}
    TTL = 3
    IDLE = 2
    DEBOUNCE = 1
    LATENCY = 1
    MAX_TIME = 6
SYMMETRY Symmetric
INVARIANT TypeOK
INVARIANT DoomedNeverServed
INVARIANT LogoutRevokes
INVARIANT RevokeAllComplete
INVARIANT RevokedByClaim
INVARIANT KeepAlive
PROPERTY CredentialSpec
