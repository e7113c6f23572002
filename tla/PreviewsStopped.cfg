\* A worker that is stopped while it has a job.
SPECIFICATION FairSpec
CONSTANTS
    Worker = {w1}
    Requester = {r1}
    File = {f1}
    Type = {"metadata"}
    Inode = {1, 2}
    MaxJobs = 2
    MaxAttempts = 2
    Faults = {"stop"}
    Nil = Nil
PROPERTIES JobsEnd
