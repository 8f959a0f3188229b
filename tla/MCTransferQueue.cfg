CONSTANTS
    Requests = {r1, r2, r3}
    Nil = Nil
    MaxJobs = 2
    JobRetention = 1
    StagingRetention = 4
    JobTime = 1
    UploadSlack = 0
    MaxTime = 4
    MaxStarts = 2
SPECIFICATION Spec
SYMMETRY RequestSymmetry
INVARIANTS
    TypeOK
    RingMatchesTable
    WorkerOwnsSlot
    QueuedFileKept
    StoppedMeansDrained
    DeliveredOnce
    NoStrayFile
PROPERTIES
    OutcomeIsFinal
