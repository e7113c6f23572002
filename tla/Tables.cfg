\* Two requests on a few folders and files, or on two accounts, whose
\* ids are those of the files.
SPECIFICATION MCSpec
CONSTANTS
    Folder = {a, b, c}
    File = {id1, id2}
    Root = Root
    Request = {r1, r2}
    Size = {1}
    Quota = 2
    MaxBytes = 2
    User = {id1, id2}
    Password = {p1, p2}
    Session = {s1}
    None = None
SYMMETRY Symmetry
INVARIANTS Typed UsageAccounted OnlyOverlapLoops SessionsEarned AdminRemains
PROPERTIES DeletedWithContents
\* Without an account in service and an unused id there is nothing to do.
CHECK_DEADLOCK FALSE
