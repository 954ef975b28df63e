CONSTANTS
    Conns = {c1, c2}
    Users = {}
    k1 = k1
    k2 = k2
    k3 = k3
    C1 = C1
    C2 = C2
    Keys = {k1, k2, k3}
    KeyPerms <- MCPlainPerms
    KeyContract <- MCKeyContract
    ValidKeys = {k1, k2}
    AllowAll <- MCAllowAll
    Paths = {pa}
    Wild = wild
    BadPath = bad
    LinkNames = {}
    ShortcutNames = {}
    TtlOpts = {NoOpt}
    LastOpts = {NoOpt}
    NoOpt = NoOpt
    RetainedTTL = 255
    TTLModulus = 256
    MaxMsgs = 1
SPECIFICATION Spec
SYMMETRY ConnSymmetry
INVARIANTS TypeOK ReadAuthorizedDelivery DeliveryAuthInv
