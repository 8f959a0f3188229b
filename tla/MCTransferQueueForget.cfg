CONSTANTS
    Requests = {r1, r2}
    Nil = Nil
    MaxJobs = 2
    JobRetention = 1
    StagingRetention = 4
    JobTime = 1
    UploadSlack = 0
    MaxTime = 4
    MaxStarts = 1
SPECIFICATION FairSpec
PROPERTY ExpiredJobForgotten
