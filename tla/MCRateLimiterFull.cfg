SPECIFICATION Spec
CONSTANTS
    th1 = th1
    th2 = th2
    k1 = k1
    k2 = k2
    k3 = k3
    Nil = Nil
    Threads = {th1, th2}
    Keys = {k1, k2, k3}
    Limit <- MCLimit
    Window = 2
    MaxRecords = 2
    MaxTime = 4
SYMMETRY Interchangeable
PROPERTY RefusedForOwnRequests
