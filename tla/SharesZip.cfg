\* A link at its limit, and a zip of its folder.
SPECIFICATION MCSpec
CONSTANTS
    Link = {l1}
    Visit = {v1}
    Manager = {m1}
    f1 = f1
    p1 = p1
    File = {f1}
    Folder = Folder
    Password = {p1}
    Draft <- Drafts
    Change <- Changes
    Kind = {"zip"}
    Flips = {}
    MaxLimit = 2
    MaxCount = 2
    MaxTime = 1
    None = None
INVARIANTS OverLimitDenied
\* The one token is used up.
CHECK_DEADLOCK FALSE
