CONSTANTS
    c1 = c1
    c2 = c2
    pm = pm
    pe = pe
    px = px
    pp = pp
    pu = pu
    Conns = {c1, c2}
    Parents = {pm, pe, px, pp, pu}
    Decryptable = {pm, pe, px, pp}
    Expired = {px}
    Master = {pm}
    Extenders = {pe, px}
    Channels = {"a/", "b/"}
    Types <- MCTypes
    TTLs <- MCTTLs
    Now = 1000
SPECIFICATION Spec
INVARIANTS
    TypeOK
    MintedPermsAsRequested
    MintedFromUsableParent
SYMMETRY ConnSymmetry
