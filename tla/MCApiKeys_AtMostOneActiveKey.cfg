SPECIFICATION Spec
CONSTANTS
    NoKey = NoKey
    NoDrone = NoDrone
    NoPrefix = NoPrefix
    Keys = {k1, k2}
    Drones = {d1}
    Prefixes = {p1, p2}
    Requests = {r1}
    Minters = {m1, m2}
    Revokers = {v1}
    DEBOUNCE = 1
    MAX_TIME = 2
INVARIANT AtMostOneActiveKey
