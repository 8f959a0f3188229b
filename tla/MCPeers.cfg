SPECIFICATION PeersSpec
CONSTANTS
    s1 = s1
    s2 = s2
    s3 = s3
    n1 = n1
    n2 = n2
    e1 = e1
    e2 = e2
    e3 = e3
    r1 = r1
    a = a
    b = b
    Nil = Nil
    Services = {s1, s2, s3}
    Names = {n1, n2}
    NameOf <- TwoAndOurs
    LocalName = n2
    Endpoints = {e1, e2, e3}
    Requests = {r1}
    MaxPeers = 2
    MaxChanges = 4
    Nodes = {a, b}
    Offset <- OneAhead
    TokenTTL = 2
    MaxPairings = 2
    MaxRestarts = 1
    MaxTime = 2
INVARIANTS
    OnlineIsAnnounced
    UniqueEntry
    SuccessIsMutual
    RefusedForReason
PROPERTIES
    ImplementsDirectory
    AnnouncedComesOnline
    PairingEnds
CHECK_DEADLOCK FALSE
