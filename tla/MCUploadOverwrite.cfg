SPECIFICATION Spec
CONSTANTS
    u1 = u1
    u2 = u2
    u3 = u3
    a = a
    b = b
    Nil = Nil
    Uploads = {u1, u2, u3}
    Sends = {}
    Names = {a, b}
    MaxFileSize = 1
    StagingRetention = 2
    MaxPiece = 0
    MaxSent = 0
    MaxTime = 1
SYMMETRY Interchangeable
INVARIANT ReceivedIsInDownloads
CHECK_DEADLOCK FALSE
