SPECIFICATION EndsSpec
CONSTANTS
    r1 = r1
    r2 = r2
    Nil = Nil
    Requests = {r1, r2}
    MaxJobs = 2
    JobRetention = 1
    StagingRetention = 4
    JobTime = 1
    UploadSlack = 0
    MaxTime = 2
    MaxStarts = 2
INVARIANTS
    UsedIsUp
    ExitIsClean
PROPERTIES
    InterruptEnds
    AcceptedJobEnds
    ShutdownReturns
    ImplementsJobQueue
CHECK_DEADLOCK FALSE
