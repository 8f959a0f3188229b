SPECIFICATION AuthSpec
CONSTANTS
    th1 = th1
    th2 = th2
    k1 = k1
    k2 = k2
    k3 = k3
    c1 = c1
    c2 = c2
    c3 = c3
    a1 = a1
    a2 = a2
    p1 = p1
    p2 = p2
    Nil = Nil
    Threads = {th1, th2}
    Keys = {k1, k2, k3}
    Limit <- MCLimit
    Window = 2
    MaxRecords = 2
    MaxTime = 3
    Clients = {c1, c2, c3}
    MaxSessions = 2
    SessionTTL = 2
    MaxSessionTokens = 4
    MaxSessionTime = 4
    Addresses = {a1, a2}
    Ports = {p1, p2}
    CodeTTL = 1
    TokenTTL = 2
    MaxTokens = 3
INVARIANTS
    LimitPerWindow
    AcceptedIsOwn
    UnlockedStaysUnlocked
    FoundIsLatest
    PairedStaysPaired
    RefusedOnlyWhenFull
PROPERTIES
    WindowsApart
    RefusedWithReason
    CodeIsTemporary
