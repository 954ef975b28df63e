CONSTANTS
    Conns = {c1}
    k1 = k1
    k2 = k2
    k3 = k3
    C1 = C1
    C2 = C2
    Keys = {k1, k2, k3}
    KeyContract <- MCKeyContract
    ValidKeys = {k1, k2}
    AllowAll <- MCAllowAll
    Paths = {pa}
    Wild = wild
    BadPath = bad
    LastOpts = {NoOpt}
    NoOpt = NoOpt
    RetainedTTL = 255
    TTLModulus = 256
    MaxMsgs = 1
    KeyPerms <- MCExtPerms
    Users = {u1}
    LinkNames = {"a1", "-"}
    ShortcutNames = {"a1"}
    TtlOpts = {NoOpt}
SPECIFICATION Spec
SYMMETRY ConnSymmetry
INVARIANTS ReadAuthorizedDelivery DeliveryAuthInv
