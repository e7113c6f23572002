\* One upload, and a disk that may fail.
SPECIFICATION FairSpec
CONSTANTS
    Request = {r1}
    MaxParts = 1
    MaxChunks = 2
    MaxFileSize = 2
    Faults = {"disk"}
    Nil = Nil
PROPERTY UploadsAnswered
CHECK_DEADLOCK FALSE
