SPECIFICATION Spec
CONSTANTS
    NoKey = NoKey
    NoDrone = NoDrone
    NoPrefix = NoPrefix
    Keys = {k1, k2}
    Drones = {d1}
    Prefixes = {p1}
    Requests = {r1, r2}
    Minters = {m1}
    Revokers = {v1}
    DEBOUNCE = 1
    MAX_TIME = 3
SYMMETRY Symmetric
INVARIANT TypeOK
INVARIANT RevocationImmediate
INVARIANT NoUseAfterRevocation
INVARIANT AtMostOneActiveKey
PROPERTY LastUsedDebounced
PROPERTY CredentialSpec
