\* Two workers, two requests at once, every failure, and a cache that is
\* cleared at any time.
SPECIFICATION FairSpec
CONSTANTS
    Worker = {w1, w2}
    Requester = {r1, r2}
    File = {f1}
    Type = {"metadata"}
    Inode = {1, 2, 3}
    MaxJobs = 2
    MaxAttempts = 2
    Faults = {"disk", "db", "stop"}
    Nil = Nil
INVARIANTS TypeOK ExclusiveClaim AttemptsBounded CompletedHasPreview ReadyPreviewIsWhole
PROPERTIES EndedForGood JobsEndUnlessStranded
