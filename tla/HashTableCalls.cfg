SPECIFICATION Spec
CONSTANTS
    t1 = t1  t2 = t2  t3 = t3  j = j  k = k  NoThread = NoThread  NoKey = NoKey
    Threads = {t1, t2, t3}
    Keys = {j, k}
    Buckets = {0, 1}
    HashOf <- OneBucket
    Calls <- WriteFind
    UnlinksAlone = TRUE
    MaxRows = 4
INVARIANTS FindsAreCurrent NoFault
PROPERTY ImplementsLists
SYMMETRY Symmetry
