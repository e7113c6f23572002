------------------------------ MODULE FileTree ------------------------------
(***************************************************************************)
(* The folders and files of one user (internal/http/folders.go, files.go):  *)
(* creation, move and deletion of folders, multipart upload, move and       *)
(* deletion of files, what of it the account is charged, and the            *)
(* recalculation of that (internal/http/admin.go).                          *)
(*                                                                          *)
(* A request checks first and writes later, in statements of their own; one *)
(* about a row that is deleted when it comes changes nothing and is left    *)
(* out.                                                                     *)
(* The two deletions are transactions: what they have updated is locked,    *)
(* and becomes visible with the commit.  Within a transaction a statement   *)
(* that updates several rows reads a snapshot and then waits for rows that  *)
(* others have locked, so reading and locking are two steps.                *)
(***************************************************************************)
EXTENDS Naturals, Functions

CONSTANTS
    Folder, File,   \* ids
    Root,           \* NULL in parent_id and folder_id
    Request,        \* requests served at the same time
    Size,           \* sizes of uploaded files
    Quota,          \* storage_quota_bytes, or None
    MaxBytes,       \* bound: bytes of all files
    None

Place == Folder \cup {Root}
Item == Folder \cup File

ASSUME NoneAssumption == None \notin Place \cup File \cup Nat
ASSUME RootAssumption == Root \notin Item
ASSUME DisjointAssumption == Folder \cap File = {}
ASSUME SizeAssumption == Size \subseteq Nat
ASSUME BytesAssumption == MaxBytes \in Nat
ASSUME QuotaAssumption == Quota \in Nat \cup {None}

VARIABLES
    folders,     \* table folders, or None
    files,       \* table files, or None
    used,        \* users.used_storage_bytes
    req,         \* what each request is doing
    swept,       \* history: files deleted along with a folder
    stayed,      \* history: what has stayed in a folder while it is being deleted
    overlapped,  \* history: two moves of folders were past their checks together
    overtaken    \* history: the usage was last recalculated from files that had changed

vars == <<folders, files, used, req, swept, stayed, overlapped, overtaken>>

-----------------------------------------------------------------------------
FolderRow == [parent : Place, live : BOOLEAN]
FileRow == [at : Place, size : Size, live : BOOLEAN]

ASSUME RowAssumption == None \notin FolderRow /\ None \notin FileRow

Ops == {"createFolder", "moveFolder", "deleteFolder", "upload", "moveFile", "deleteFile",
        "recalculate"}
Steps == {"subtree", "write", "part", "commit", "lock", "select", "mark", "find", "take",
          "set", "others", "zero"}

(* item: the row it is about; dest: the folder it validated; size: of the   *)
(* part being uploaded; plan: what a running statement has read, a file     *)
(* with its folder; held: the rows its transaction has updated.             *)
Task == [op : Ops, pc : Steps, item : Item \cup {None}, dest : Place \cup {None},
         size : Size \cup {None}, plan : SUBSET (Folder \cup (File \X Place)),
         held : SUBSET Item]

NewTask(op, pc, item, dest) ==
    [op |-> op, pc |-> pc, item |-> item, dest |-> dest, size |-> None, plan |-> {},
     held |-> {}]

At(r, op, pc) == req[r] # None /\ req[r].op = op /\ req[r].pc = pc

Become(r, t) == req' = [req EXCEPT ![r] = t]

Proceed(r, pc) == Become(r, [req[r] EXCEPT !.pc = pc])

End(r) == Become(r, None)

(* Rows that another transaction has updated.                               *)
Locked(r) == UNION {req[q].held : q \in {q \in Request \ {r} : req[q] # None}}

-----------------------------------------------------------------------------
(* The tree.                                                                *)

Born == {f \in Folder : folders[f] # None}
Live == {f \in Born : folders[f].live}
LiveFiles == {x \in File : files[x] # None /\ files[x].live}

(* validateParentOwnership.                                                 *)
Valid(p) == p = Root \/ p \in Live

(* The recursive queries, with and without deleted_at IS NULL: f and the    *)
(* folders of N under it.                                                   *)
Closed(S, N) == \A g \in N : folders[g].parent \in S => g \in S

Below(f, N) ==
    IF f \notin N THEN {}
    ELSE {g \in N : \A S \in SUBSET N : f \in S /\ Closed(S, N) => g \in S}

(* UNION ALL goes round and round if f is under itself.                     *)
Endless(f, N) == f \in N /\ folders[f].parent \in Below(f, N)

(* What a user sees in a folder.                                            *)
Inside(f) ==
    LET S == Below(f, Live) IN S \cup {x \in LiveFiles : files[x].at \in S}

Within(r) == IF req[r] # None /\ req[r].op = "deleteFolder" THEN Inside(req[r].item) ELSE {}

(* The files that bear on the account.                                      *)
Charged == LiveFiles \cup swept

Init ==
    /\ folders = [f \in Folder |-> None]
    /\ files = [x \in File |-> None]
    /\ used = 0
    /\ req = [r \in Request |-> None]
    /\ swept = {}
    /\ stayed = [r \in Request |-> {}]
    /\ overlapped = FALSE
    /\ overtaken = FALSE

-----------------------------------------------------------------------------
(* Folders.                                                                 *)

StartCreateFolder(r, p) ==
    /\ req[r] = None
    /\ Valid(p)
    /\ Become(r, NewTask("createFolder", "write", None, p))
    /\ UNCHANGED <<folders, files, used, swept, overlapped, overtaken>>

(* Not the code: the parent is left out of the INSERT, to None.             *)
BugParentLost(r) ==
    /\ At(r, "createFolder", "write")
    /\ \E f \in Folder \ Born : folders' = [folders EXCEPT ![f] = [parent |-> None, live |-> TRUE]]
    /\ End(r)
    /\ UNCHANGED <<files, used, swept, overlapped, overtaken>>

CreateFolder(r) ==
    /\ At(r, "createFolder", "write")
    /\ \E f \in Folder \ Born :
         folders' = [folders EXCEPT ![f] = [parent |-> req[r].dest, live |-> TRUE]]
    /\ End(r)
    /\ UNCHANGED <<files, used, swept, overlapped, overtaken>>

StartMoveFolder(r, f, p) ==
    /\ req[r] = None
    /\ f \in Live
    /\ p # f
    /\ Valid(p)
    /\ Become(r, NewTask("moveFolder", IF p = Root THEN "write" ELSE "subtree", f, p))
    /\ UNCHANGED <<folders, files, used, swept, overlapped, overtaken>>

(* The moves into folders that are past their check.                        *)
Checked == {q \in Request : At(q, "moveFolder", "write") /\ req[q].dest # Root}

(* Not the code: only the folder's own children are looked at.              *)
BugChildrenOnly(r) ==
    /\ At(r, "moveFolder", "subtree")
    /\ folders[req[r].dest].parent # req[r].item
    /\ Proceed(r, "write")
    /\ overlapped' = (overlapped \/ Checked # {})
    /\ UNCHANGED <<folders, files, used, swept, overtaken>>

CheckSubtree(r) ==
    /\ At(r, "moveFolder", "subtree")
    /\ ~Endless(req[r].item, Live)
    /\ req[r].dest \notin Below(req[r].item, Live)
    /\ Proceed(r, "write")
    /\ overlapped' = (overlapped \/ Checked # {})
    /\ UNCHANGED <<folders, files, used, swept, overtaken>>

MoveFolder(r) ==
    /\ At(r, "moveFolder", "write")
    /\ req[r].item \in Live \ Locked(r)
    /\ folders' = [folders EXCEPT ![req[r].item].parent = req[r].dest]
    /\ End(r)
    /\ UNCHANGED <<files, used, swept, overlapped, overtaken>>

(* deleteFolder begins its transaction with a look at the folder.           *)
StartDeleteFolder(r, f) ==
    /\ req[r] = None
    /\ f \in Live
    /\ Become(r, NewTask("deleteFolder", "select", f, None))
    /\ UNCHANGED <<folders, files, used, swept, overlapped, overtaken>>

SelectFolders(r) ==
    /\ At(r, "deleteFolder", "select")
    /\ ~Endless(req[r].item, Live)
    /\ Become(r, [req[r] EXCEPT !.pc = "mark", !.plan = Below(req[r].item, Live)])
    /\ UNCHANGED <<folders, files, used, swept, overlapped, overtaken>>

(* Folders that were deleted or moved meanwhile are marked all the same.    *)
MarkFolders(r) ==
    /\ At(r, "deleteFolder", "mark")
    /\ req[r].plan \cap Locked(r) = {}
    /\ Become(r, [req[r] EXCEPT !.pc = "find", !.plan = {}, !.held = req[r].plan])
    /\ UNCHANGED <<folders, files, used, swept, overlapped, overtaken>>

(* What the transaction has marked itself it sees as deleted.               *)
SeenLive(r) == Live \ req[r].held

(* Not the code: the second query asks for deleted_at IS NULL, too.         *)
BugFoldersGone(r) == Below(req[r].item, SeenLive(r))

(* The second query takes deleted folders as well.                          *)
SearchedFor(r) == Below(req[r].item, Born)

FindFiles(r) ==
    /\ At(r, "deleteFolder", "find")
    /\ ~Endless(req[r].item, Born)
    /\ LET found == {x \in LiveFiles : files[x].at \in SearchedFor(r)} IN
         Become(r, [req[r] EXCEPT !.pc = "take", !.plan = {<<x, files[x].at>> : x \in found}])
    /\ UNCHANGED <<folders, files, used, swept, overlapped, overtaken>>

(* Rows that changed since the snapshot are looked at again: deleted ones   *)
(* are left alone, moved ones may or may not pass for what they were.       *)
TakeFiles(r) ==
    LET live == {p \in req[r].plan : p[1] \in LiveFiles}
        still == {p \in live : files[p[1]].at = p[2]}
    IN
    /\ At(r, "deleteFolder", "take")
    /\ \A p \in live : p[1] \notin Locked(r)
    /\ \E taken \in SUBSET live :
         /\ still \subseteq taken
         /\ Become(r, [req[r] EXCEPT !.pc = "commit", !.plan = {},
                                     !.held = @ \cup {p[1] : p \in taken}])
    /\ UNCHANGED <<folders, files, used, swept, overlapped, overtaken>>

(* The account is not looked at.                                            *)
CommitDeleteFolder(r) ==
    /\ At(r, "deleteFolder", "commit")
    /\ folders' = [f \in Folder |-> IF f \in req[r].held THEN [folders[f] EXCEPT !.live = FALSE]
                                                         ELSE folders[f]]
    /\ files' = [x \in File |-> IF x \in req[r].held THEN [files[x] EXCEPT !.live = FALSE]
                                                     ELSE files[x]]
    /\ swept' = swept \cup (req[r].held \cap File)
    /\ End(r)
    /\ UNCHANGED <<used, overlapped, overtaken>>

-----------------------------------------------------------------------------
(* Files.                                                                   *)

StartUpload(r, p) ==
    /\ req[r] = None
    /\ Valid(p)
    /\ Become(r, NewTask("upload", "part", None, p))
    /\ UNCHANGED <<folders, files, used, swept, overlapped, overtaken>>

Fits(bytes) == Quota # None => bytes <= Quota

(* A part is in the storage; canUserStoreBytes.                             *)
CheckQuota(r, s) ==
    /\ At(r, "upload", "part")
    /\ Fits(used + s)
    /\ Become(r, [req[r] EXCEPT !.pc = "commit", !.size = s])
    /\ UNCHANGED <<folders, files, used, swept, overlapped, overtaken>>

(* INSERT, UPDATE of the usage, ensureQuotaAllowsSizeTx and the commit: the *)
(* row is new, and the account's row is locked from the UPDATE on.          *)
CommitUpload(r) ==
    /\ At(r, "upload", "commit")
    /\ Fits(used + req[r].size)
    /\ \E x \in {x \in File : files[x] = None} :
         files' = [files EXCEPT ![x] = [at |-> req[r].dest, size |-> req[r].size, live |-> TRUE]]
    /\ used' = used + req[r].size
    /\ Become(r, [req[r] EXCEPT !.pc = "part", !.size = None])
    /\ UNCHANGED <<folders, swept, overlapped, overtaken>>

(* The part is refused, and the request goes on with the next.              *)
SkipPart(r) ==
    /\ At(r, "upload", "commit")
    /\ Become(r, [req[r] EXCEPT !.pc = "part", !.size = None])
    /\ UNCHANGED <<folders, files, used, swept, overlapped, overtaken>>

StartMoveFile(r, x, p) ==
    /\ req[r] = None
    /\ x \in LiveFiles
    /\ Valid(p)
    /\ Become(r, NewTask("moveFile", "write", x, p))
    /\ UNCHANGED <<folders, files, used, swept, overlapped, overtaken>>

MoveFile(r) ==
    /\ At(r, "moveFile", "write")
    /\ req[r].item \in LiveFiles \ Locked(r)
    /\ files' = [files EXCEPT ![req[r].item].at = req[r].dest]
    /\ End(r)
    /\ UNCHANGED <<folders, used, swept, overlapped, overtaken>>

(* deleteFile reads the row, size included, before its transaction.         *)
StartDeleteFile(r, x) ==
    /\ req[r] = None
    /\ x \in LiveFiles
    /\ Become(r, NewTask("deleteFile", "lock", x, None))
    /\ UNCHANGED <<folders, files, used, swept, overlapped, overtaken>>

(* Not the code: the UPDATE does not ask for deleted_at IS NULL.            *)
BugDeletedAgain(r) == req[r].item \notin Locked(r)

StillThere(r) == req[r].item \in LiveFiles \ Locked(r)

LockFile(r) ==
    /\ At(r, "deleteFile", "lock")
    /\ StillThere(r)
    /\ Become(r, [req[r] EXCEPT !.pc = "commit", !.held = {req[r].item}])
    /\ UNCHANGED <<folders, files, used, swept, overlapped, overtaken>>

CommitDeleteFile(r) ==
    LET x == req[r].item IN
    /\ At(r, "deleteFile", "commit")
    /\ files' = [files EXCEPT ![x].live = FALSE]
    /\ used' = IF files[x].size > used THEN 0 ELSE used - files[x].size
    /\ End(r)
    /\ UNCHANGED <<folders, swept, overlapped, overtaken>>

-----------------------------------------------------------------------------
(* adminStorageRecalculate: each of its two UPDATEs reads a snapshot, and   *)
(* may then wait for the account's row, whose value it overwrites.          *)

LivePlaces == {<<x, files[x].at>> : x \in LiveFiles}

(* The first is about owners of live files.                                 *)
StartRecalculate(r) ==
    /\ req[r] = None
    /\ Become(r, [NewTask("recalculate", IF LiveFiles = {} THEN "others" ELSE "set", None, None)
                  EXCEPT !.plan = LivePlaces])
    /\ UNCHANGED <<folders, files, used, swept, overlapped, overtaken>>

SetUsage(r) ==
    LET summed == {p[1] : p \in req[r].plan} IN
    /\ At(r, "recalculate", "set")
    /\ \E total \in 0..MaxBytes :
         /\ total = SumFunction([x \in summed |-> files[x].size])
         /\ used' = total
    /\ swept' = {}
    /\ overtaken' = (LiveFiles # summed)
    /\ Become(r, [req[r] EXCEPT !.pc = "others", !.plan = {}])
    /\ UNCHANGED <<folders, files, overlapped>>

(* The second is about all others.                                          *)
CheckOthers(r) ==
    /\ At(r, "recalculate", "others")
    /\ LiveFiles = {}
    /\ Proceed(r, "zero")
    /\ UNCHANGED <<folders, files, used, swept, overlapped, overtaken>>

ZeroUsage(r) ==
    /\ At(r, "recalculate", "zero")
    /\ used' = 0
    /\ swept' = {}
    /\ overtaken' = (LiveFiles # {})
    /\ End(r)
    /\ UNCHANGED <<folders, files, overlapped>>

-----------------------------------------------------------------------------
(* A check refuses, a name is taken, no row is left to update, a statement  *)
(* fails, or the client or the process is gone: an open transaction is      *)
(* rolled back.                                                             *)
GiveUp(r) ==
    /\ req[r] # None
    /\ End(r)
    /\ UNCHANGED <<folders, files, used, swept, overlapped, overtaken>>

(* The history of a deletion: what it saw inside when it began, less what   *)
(* is not inside any more or was moved.                                     *)
Witness ==
    stayed' = [r \in Request |->
        IF req[r] = None THEN Within(r)'
        ELSE {i \in stayed[r] \cap Within(r)' : (i \in File => files'[i].at = files[i].at)}]

FolderStep(r) ==
    \/ \E p \in Place : StartCreateFolder(r, p)
    \/ \E f \in Folder, p \in Place : StartMoveFolder(r, f, p)
    \/ \E f \in Folder : StartDeleteFolder(r, f)
    \/ CreateFolder(r)
    \/ CheckSubtree(r) \/ MoveFolder(r)
    \/ SelectFolders(r) \/ MarkFolders(r) \/ FindFiles(r) \/ TakeFiles(r)
    \/ CommitDeleteFolder(r)

FileStep(r) ==
    \/ \E p \in Place : StartUpload(r, p)
    \/ \E s \in Size : CheckQuota(r, s)
    \/ CommitUpload(r) \/ SkipPart(r)
    \/ \E x \in File, p \in Place : StartMoveFile(r, x, p)
    \/ MoveFile(r)
    \/ \E x \in File : StartDeleteFile(r, x)
    \/ LockFile(r) \/ CommitDeleteFile(r)

Recalculate(r) ==
    StartRecalculate(r) \/ SetUsage(r) \/ CheckOthers(r) \/ ZeroUsage(r)

Next ==
    /\ \E r \in Request : FolderStep(r) \/ FileStep(r) \/ Recalculate(r) \/ GiveUp(r)
    /\ Witness

Spec == Init /\ [][Next]_vars

-----------------------------------------------------------------------------
TypeOK ==
    /\ folders \in [Folder -> FolderRow \cup {None}]
    /\ files \in [File -> FileRow \cup {None}]
    /\ used \in Nat
    /\ req \in [Request -> Task \cup {None}]
    /\ swept \subseteq File
    /\ stayed \in [Request -> SUBSET Item]
    /\ overlapped \in BOOLEAN
    /\ overtaken \in BOOLEAN

(* The account is charged every live file once and, as deleteFolder leaves  *)
(* it alone, the files deleted along with a folder since it was last        *)
(* recalculated; nothing else, however uploads, the two deletions and       *)
(* recalculations meet, unless the last of these was overtaken: files came  *)
(* or went between its snapshot and its write.                              *)
UsageAccounted ==
    ~overtaken => used = SumFunction([x \in Charged |-> files[x].size])

(* When a folder's deletion commits, every folder and file that was inside  *)
(* it all the time is deleted, whatever was created in, moved in and moved  *)
(* out between its statements.                                              *)
DeletedWithContents ==
    [][\A r \in Request : At(r, "deleteFolder", "commit") /\ CommitDeleteFolder(r)
         => stayed[r] \cap (Live' \cup LiveFiles') = {}]_vars

(* No folder comes to lie under itself, where the recursive queries would   *)
(* never end, as long as no two moves of folders are past their checks at   *)
(* the same time: creations and deletions do no harm.                       *)
OnlyOverlapLoops == ~overlapped => \A f \in Live : ~Endless(f, Live)
=============================================================================
