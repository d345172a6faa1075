SPECIFICATION Spec
CONSTANTS
    k1 = k1  k2 = k2  v1 = v1  v2 = v2  junk = junk  t1 = t1  t2 = t2
    Keys = {k1, k2}
    Values = {v1, v2}
    Junk = junk
    Kinds = {"mmr"}
    Tools = {t1}
    AtOnce = 1
    KillAt = {"create", "open", "operate"}
    MaxRows = 3
SYMMETRY Symmetry
INVARIANT LastRowIsDeleted
