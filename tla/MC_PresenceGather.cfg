CONSTANTS
    n1 = n1
    n2 = n2
    ca = ca
    cb = cb
    Nodes = {n1, n2}
    Self = n1
    Conns = {ca, cb}
    Home <- MCHome
    Deadline = 2
    MaxReqs = 2
SPECIFICATION Spec
INVARIANTS TypeOK WhoSound StableHeardReported
PROPERTIES QuerySpec
