SPECIFICATION FairSpec
CONSTANTS
    call1 = call1  call2 = call2  call3 = call3
    t1 = t1  t2 = t2  NoOne = NoOne
    Calls = {call1, call2, call3}
    Threads = {t1, t2}
    Branch <- MCBranch
    MayFail = FALSE
    MayStop = TRUE
    CallersInPool = FALSE
CHECK_DEADLOCK FALSE
PROPERTY HandlerIsAlwaysCalled
