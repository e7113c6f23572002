\* One part at a time.
SPECIFICATION MCSpec
CONSTANTS
    Request = {r1}
    MaxParts = 2
    MaxChunks = 3
    MaxFileSize = 2
    Faults = {"disk", "db", "body", "hangup"}
    File = {f1, f2}
    Previewed = f1
    Preview = Preview
    Stream = {s1}
    Archive = {a1}
    MaxSize = 3
    MaxStored = 1
    Caller = {c1, c2}
    Limit = 2
    Window = 2
    MaxRetries = 1
    MaxTime = 4
    MaxCount = 4
    Migrator = {m1, m2}
    Last = 3
    Nil = Nil
    None = None
INVARIANTS Typed RecordedWhole NothingLeftBehind RangeAsRequested ArchiveComplete
INVARIANTS AdmittedWithinWindows RefusalsEnd SchemaInOrder
PROPERTIES  ArchivesEnd
\* Uploads, downloads and the clock come to an end.
CHECK_DEADLOCK FALSE
