\* One request of each kind against everything that changes a link, and two
\* downloads against two patches, according to the plan.
SPECIFICATION MCSpec
CONSTANTS
    Link = {l1}
    Visit = {v1, v2}
    Manager = {m1, m2}
    f1 = f1
    p1 = p1
    File = {f1}
    Folder = Folder
    Password = {p1}
    Draft <- Drafts
    Change <- Changes
    Kind = {"info", "items", "inline", "zip", "download"}
    Flips = {"sharing", "publicPreview"}
    MaxLimit = 2
    MaxCount = 4
    MaxTime = 1
    None = None
SYMMETRY Symmetry
INVARIANTS TypeOK AnsweredOnGrounds DownloadsWithinLimit
\* The one token is used up, the file and the folder are deleted.
CHECK_DEADLOCK FALSE
