SPECIFICATION UiSpec
CONSTANTS
    d1 = d1
    d2 = d2
    f1 = f1
    f2 = f2
    Nil = Nil
    MaxTokens = 2
    MaxLoads = 1
    Devices = {d1, d2}
    Files = {f1, f2}
    MaxRequests = 3
PROPERTIES
    LostForReason
    DeadTokenIsDropped
    SentWhereClicked
