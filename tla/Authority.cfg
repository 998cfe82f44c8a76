SPECIFICATION Spec
CONSTANTS
    o1 = o1
    o2 = o2
    o3 = o3
    w1 = w1
    w2 = w2
    own = own
    m1 = m1
    m2 = m2
    k1 = k1
    k2 = k2
    b1 = b1
    b2 = b2
    r1 = r1
    r2 = r2
    d1 = d1
    d2 = d2
    Owner = own
    Workers = {w1, w2}
    OperationIds = {o1, o2, o3}
    Mutations = {m1}
    Works = {k1, k2}
    Bindings = {b1, b2}
    Roots = {r1}
    Definitions = {d1, d2}
    MaxGeneration = 4
SYMMETRY Symmetry
INVARIANTS
    FrozenIsComplete
    OneClaimPerWork
PROPERTIES
    ImplementsScopeLog
CHECK_DEADLOCK FALSE
