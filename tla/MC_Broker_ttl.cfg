CONSTANTS
    Conns = {c1, c2}
    k1 = k1
    k2 = k2
    k3 = k3
    C1 = C1
    C2 = C2
    Keys = {k1, k2, k3}
    KeyContract <- MCKeyContract
    ValidKeys = {k1, k2}
    AllowAll <- MCAllowAll
    Paths = {pa}
    Wild = wild
    BadPath = bad
    LastOpts = {NoOpt}
    NoOpt = NoOpt
    RetainedTTL = 255
    TTLModulus = 256
    MaxMsgs = 1
    KeyPerms <- MCPlainPerms
    Users = {}
    LinkNames = {}
    ShortcutNames = {}
    TtlOpts = {NoOpt, 256}
SPECIFICATION Spec
SYMMETRY ConnSymmetry
INVARIANTS StoredWhenTTL
