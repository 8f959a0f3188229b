SPECIFICATION ReceiveSpec
CONSTANTS
    u1 = u1
    u2 = u2
    s1 = s1
    a = a
    Nil = Nil
    y = y
    z = z
    NUL = NUL
    Uploads = {u1, u2}
    Sends = {s1}
    Names = {a}
    MaxFileSize = 1
    StagingRetention = 1
    MaxPiece = 1
    MaxSent = 2
    MaxTime = 1
    Bytes = {y, z}
    dest_size = 4
    MaxLength = 5
    MaxValues = 3
    InitialCapacity = 4
    TokenLength = 3
    MaxMessage = 5
    name_size = 10
    TimeLength = 1
    RandomLength = 1
    NAME_MAX = 9
    MaxName = 10
    MaxNodes = 2
SYMMETRY Interchangeable
INVARIANTS
    NoStrayStage
    HandedOnIsComplete
    CommittedIsKept
    FieldIsCopied
    AnswerIsUnderstood
    NameIsUsable
PROPERTY QueueOwnsFile
CHECK_DEADLOCK FALSE
