SPECIFICATION DiscoveredSpec
CONSTANTS
    s1 = s1
    n1 = n1
    n2 = n2
    e1 = e1
    e2 = e2
    r1 = r1
    Nil = Nil
    Services = {s1}
    Names = {n1, n2}
    NameOf <- OneName
    LocalName = n2
    Endpoints = {e1, e2}
    Requests = {r1}
    MaxPeers = 2
    MaxChanges = 2
INVARIANT SendsOnlyToDiscovered
CHECK_DEADLOCK FALSE
