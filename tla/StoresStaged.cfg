SPECIFICATION Spec
CONSTANTS
    s1 = s1
    s2 = s2
    r1 = r1
    r2 = r2
    c1 = c1
    c2 = c2
    a1 = a1
    e1 = e1
    Roots = {r1, r2}
    Creations = {c1, c2}
    Changes = {a1}
    Evidenced = {e1}
    Configs <- AllConfigs
    MaxRevision = 2
SYMMETRY Symmetry
PROPERTIES
    StagedIsCommitted
CHECK_DEADLOCK FALSE
