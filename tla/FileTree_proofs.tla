--------------------------- MODULE FileTree_proofs ---------------------------
(***************************************************************************)
(* Theorems about FileTree for any folders, files, sizes and requests.      *)
(***************************************************************************)
EXTENDS FileTree, Sums_proofs

USE NoneAssumption, RootAssumption, DisjointAssumption, SizeAssumption, RowAssumption,
    BytesAssumption

BornFiles == {x \in File : files[x] # None}

(* What a task names is there, and fits its operation and step.             *)
Sound(t) ==
    /\ t.op \in {"createFolder", "moveFolder", "upload", "moveFile"} => t.dest \in Born \cup {Root}
    /\ t.op \in {"moveFolder", "deleteFolder"} => t.item \in Born
    /\ t.op \in {"moveFile", "deleteFile"} => t.item \in BornFiles
    /\ t.op = "upload" /\ t.pc = "commit" => t.size \in Size
    /\ t.pc = "mark" => t.plan \subseteq Born
    /\ t.pc = "take" => t.plan \subseteq BornFiles \X Place
    /\ t.held \subseteq Born \cup BornFiles

Rooted == \A f \in Born : folders[f].parent \in Born \cup {Root}

Placed == Rooted /\ \A r \in Request : req[r] # None => Sound(req[r])

-----------------------------------------------------------------------------
(* Types.                                                                   *)

(* The tables keep their rows, and the rows their shape.                    *)
Tables ==
    /\ folders \in [Folder -> FolderRow \cup {None}]
    /\ files \in [File -> FileRow \cup {None}]
    /\ used \in Nat
    /\ swept \subseteq File
    /\ overlapped \in BOOLEAN
    /\ overtaken \in BOOLEAN
    /\ Rooted

Grown == Born \subseteq Born' /\ BornFiles \subseteq BornFiles'

LEMMA StartType ==
  ASSUME NEW op \in Ops, NEW pc \in Steps, NEW item \in Item \cup {None},
         NEW dest \in Place \cup {None}
  PROVE  NewTask(op, pc, item, dest) \in Task
  BY DEF NewTask, Task

LEMMA SoundStays ==
  ASSUME TypeOK, Grown, NEW t \in Task, Sound(t)
  PROVE  Sound(t)'
  <1>1. BornFiles \X Place \subseteq BornFiles' \X Place
    BY DEF Grown
  <1> QED
    BY <1>1 DEF Sound, Grown

(* A step of a request leaves the others' tasks sound.                      *)
LEMMA TaskStep ==
  ASSUME TypeOK, Placed, NEW r \in Request, NEW t \in Task \cup {None}, Become(r, t),
         Tables', Grown, t # None => Sound(t)'
  PROVE  req' \in [Request -> Task \cup {None}] /\ Placed'
  <1>1. req' = [req EXCEPT ![r] = t] /\ req' \in [Request -> Task \cup {None}]
    BY DEF Become, TypeOK
  <1>2. ASSUME NEW q \in Request, req'[q] # None PROVE Sound(req[q])'
    <2>1. CASE q = r
      <3>1. req'[q] = t
        BY <1>1, <2>1 DEF TypeOK
      <3> QED
        BY <1>2, <3>1 DEF Sound
    <2>2. CASE q # r
      <3>1. req'[q] = req[q] /\ req[q] \in Task /\ Sound(req[q])
        BY <1>1, <1>2, <2>2 DEF TypeOK, Placed
      <3>2. Sound(req[q])'
        <4> DEFINE u == req[q]
        <4>1. Sound(u) /\ u \in Task
          BY <3>1
        <4>2. \A s \in Task : Sound(s) => Sound(s)'
          BY SoundStays
        <4> QED
          BY <3>1, <4>2 DEF Sound
      <3> QED
        BY <3>2
    <2> QED
      BY <2>1, <2>2
  <1> QED
    BY <1>1, <1>2 DEF Placed, Tables

(* Steps that leave the tables' rows alone.                                 *)
LEMMA RowsStep ==
  ASSUME TypeOK, Placed, NEW r \in Request, NEW t \in Task \cup {None},
         t # None => Sound(t), Become(r, t), UNCHANGED <<folders, files>>,
         used' \in Nat, swept' \subseteq File, overlapped' \in BOOLEAN, overtaken' \in BOOLEAN
  PROVE  Tables' /\ Grown /\ req' \in [Request -> Task \cup {None}] /\ Placed'
  <1>1. Born' = Born /\ BornFiles' = BornFiles
    BY DEF Born, BornFiles
  <1>2. Tables' /\ Grown
    BY <1>1 DEF Tables, Grown, TypeOK, Placed, Rooted
  <1>3. t # None => Sound(t)'
    BY <1>2, SoundStays
  <1> QED
    BY <1>2, <1>3, TaskStep

(* Most steps change nothing but the request.                               *)
LEMMA StartStep ==
  ASSUME TypeOK, Placed, NEW r \in Request, NEW t \in Task \cup {None},
         t # None => Sound(t), Become(r, t),
         UNCHANGED <<folders, files, used, swept, overtaken>>, overlapped' \in BOOLEAN
  PROVE  Tables' /\ Grown /\ req' \in [Request -> Task \cup {None}] /\ Placed'
  <1>1. used' \in Nat /\ swept' \subseteq File /\ overtaken' \in BOOLEAN
    BY DEF TypeOK
  <1> QED
    BY <1>1, RowsStep

LEMMA BelowIn == ASSUME NEW f, NEW N PROVE Below(f, N) \subseteq N
  BY DEF Below

LEMMA FolderStepType ==
  ASSUME TypeOK, Placed, NEW r \in Request, FolderStep(r)
  PROVE  Tables' /\ Grown /\ req' \in [Request -> Task \cup {None}] /\ Placed'
  <1>t. /\ req[r] # None => req[r] \in Task /\ Sound(req[r])
        /\ overlapped \in BOOLEAN
    BY DEF TypeOK, Placed
  <1>1. ASSUME NEW p \in Place, StartCreateFolder(r, p)
        PROVE  Tables' /\ Grown /\ req' \in [Request -> Task \cup {None}] /\ Placed'
    <2> DEFINE t == NewTask("createFolder", "write", None, p)
    <2>1. t \in Task
      BY StartType DEF Ops, Steps
    <2>2. Sound(t)
      BY <1>1 DEF StartCreateFolder, Valid, Live, Sound, NewTask
    <2>3. Become(r, t) /\ UNCHANGED <<folders, files, used, swept, overlapped, overtaken>>
      BY <1>1 DEF StartCreateFolder
    <2> QED
      BY <1>t, <2>1, <2>2, <2>3, StartStep
  <1>2. ASSUME NEW f \in Folder, NEW p \in Place, StartMoveFolder(r, f, p)
        PROVE  Tables' /\ Grown /\ req' \in [Request -> Task \cup {None}] /\ Placed'
    <2> DEFINE t == NewTask("moveFolder", IF p = Root THEN "write" ELSE "subtree", f, p)
    <2>1. t \in Task
      BY StartType DEF Ops, Steps, Item
    <2>2. Sound(t)
      BY <1>2 DEF StartMoveFolder, Valid, Live, Sound, NewTask
    <2>3. Become(r, t) /\ UNCHANGED <<folders, files, used, swept, overlapped, overtaken>>
      BY <1>2 DEF StartMoveFolder
    <2> QED
      BY <1>t, <2>1, <2>2, <2>3, StartStep
  <1>3. ASSUME NEW f \in Folder, StartDeleteFolder(r, f)
        PROVE  Tables' /\ Grown /\ req' \in [Request -> Task \cup {None}] /\ Placed'
    <2> DEFINE t == NewTask("deleteFolder", "select", f, None)
    <2>1. t \in Task
      BY StartType DEF Ops, Steps, Item
    <2>2. Sound(t)
      BY <1>3 DEF StartDeleteFolder, Live, Sound, NewTask
    <2>3. Become(r, t) /\ UNCHANGED <<folders, files, used, swept, overlapped, overtaken>>
      BY <1>3 DEF StartDeleteFolder
    <2> QED
      BY <1>t, <2>1, <2>2, <2>3, StartStep
  <1>4. ASSUME CheckSubtree(r)
        PROVE  Tables' /\ Grown /\ req' \in [Request -> Task \cup {None}] /\ Placed'
    <2> DEFINE t == [req[r] EXCEPT !.pc = "write"]
    <2>0. req[r] # None /\ req[r].op = "moveFolder"
      BY <1>4 DEF CheckSubtree, At
    <2>1. t \in Task
      BY <1>t, <2>0 DEF Task, Steps
    <2>2. Sound(t)
      BY <1>t, <2>0 DEF Sound, Task
    <2>3. /\ Become(r, t) /\ UNCHANGED <<folders, files, used, swept, overtaken>>
          /\ overlapped' \in BOOLEAN
      BY <1>4, <1>t DEF CheckSubtree, Proceed
    <2> QED
      BY <2>1, <2>2, <2>3, StartStep
  <1>5. ASSUME SelectFolders(r)
        PROVE  Tables' /\ Grown /\ req' \in [Request -> Task \cup {None}] /\ Placed'
    <2> DEFINE B == Below(req[r].item, Live)
               t == [req[r] EXCEPT !.pc = "mark", !.plan = B]
    <2>0. req[r] # None /\ req[r].op = "deleteFolder"
      BY <1>5 DEF SelectFolders, At
    <2>b. B \subseteq Born /\ Born \subseteq Folder
      BY BelowIn DEF Live, Born
    <2>3. Become(r, t) /\ UNCHANGED <<folders, files, used, swept, overlapped, overtaken>>
      BY <1>5 DEF SelectFolders
    <2> HIDE DEF B
    <2>1. t \in Task
      BY <1>t, <2>0, <2>b DEF Task, Steps
    <2>2. Sound(t)
      BY <1>t, <2>0, <2>b DEF Sound, Task
    <2> QED
      BY <1>t, <2>1, <2>2, <2>3, StartStep
  <1>6. ASSUME MarkFolders(r)
        PROVE  Tables' /\ Grown /\ req' \in [Request -> Task \cup {None}] /\ Placed'
    <2> DEFINE t == [req[r] EXCEPT !.pc = "find", !.plan = {}, !.held = req[r].plan]
    <2>0. req[r] # None /\ req[r].op = "deleteFolder" /\ req[r].pc = "mark"
      BY <1>6 DEF MarkFolders, At
    <2>b. req[r].plan \subseteq Born /\ Born \subseteq Item
      BY <1>t, <2>0 DEF Sound, Born, Item
    <2>1. t \in Task
      BY <1>t, <2>0, <2>b DEF Task, Steps
    <2>2. Sound(t)
      BY <1>t, <2>0, <2>b DEF Sound, Task
    <2>3. Become(r, t) /\ UNCHANGED <<folders, files, used, swept, overlapped, overtaken>>
      BY <1>6 DEF MarkFolders
    <2> QED
      BY <1>t, <2>1, <2>2, <2>3, StartStep
  <1>7. ASSUME FindFiles(r)
        PROVE  Tables' /\ Grown /\ req' \in [Request -> Task \cup {None}] /\ Placed'
    <2> DEFINE found == {x \in LiveFiles : files[x].at \in SearchedFor(r)}
               P == {<<x, files[x].at>> : x \in found}
               t == [req[r] EXCEPT !.pc = "take", !.plan = P]
    <2>0. req[r] # None /\ req[r].op = "deleteFolder"
      BY <1>7 DEF FindFiles, At
    <2>b. P \subseteq BornFiles \X Place /\ BornFiles \subseteq File
      <3>1. ASSUME NEW x \in found PROVE x \in BornFiles /\ files[x].at \in Place
        BY DEF LiveFiles, BornFiles, TypeOK, FileRow
      <3> QED
        BY <3>1 DEF BornFiles
    <2>3. Become(r, t) /\ UNCHANGED <<folders, files, used, swept, overlapped, overtaken>>
      BY <1>7 DEF FindFiles
    <2> HIDE DEF P
    <2>1. t \in Task
      <3>1. P \in SUBSET (Folder \cup File \X Place)
        BY <2>b
      <3> QED
        BY <1>t, <2>0, <3>1 DEF Task, Steps
    <2>2. Sound(t)
      BY <1>t, <2>0, <2>b DEF Sound, Task
    <2> QED
      BY <1>t, <2>1, <2>2, <2>3, StartStep
  <1>8. ASSUME TakeFiles(r)
        PROVE  Tables' /\ Grown /\ req' \in [Request -> Task \cup {None}] /\ Placed'
    <2> DEFINE live == {p \in req[r].plan : p[1] \in LiveFiles}
    <2>0. req[r] # None /\ req[r].op = "deleteFolder" /\ req[r].pc = "take"
      BY <1>8 DEF TakeFiles, At
    <2>1. PICK taken \in SUBSET live :
            Become(r, [req[r] EXCEPT !.pc = "commit", !.plan = {},
                                     !.held = @ \cup {p[1] : p \in taken}])
      BY <1>8 DEF TakeFiles
    <2> DEFINE K == {p[1] : p \in taken}
               t == [req[r] EXCEPT !.pc = "commit", !.plan = {}, !.held = @ \cup K]
    <2>b. K \subseteq BornFiles /\ K \subseteq Item
      BY DEF LiveFiles, BornFiles, Item
    <2>2. Become(r, t) /\ UNCHANGED <<folders, files, used, swept, overlapped, overtaken>>
      BY <1>8, <2>1 DEF TakeFiles
    <2> HIDE DEF K
    <2>3. t \in Task
      BY <1>t, <2>0, <2>b DEF Task, Steps
    <2>4. Sound(t)
      BY <1>t, <2>0, <2>b DEF Sound, Task
    <2> QED
      BY <1>t, <2>2, <2>3, <2>4, StartStep
  <1>9. ASSUME CreateFolder(r)
        PROVE  Tables' /\ Grown /\ req' \in [Request -> Task \cup {None}] /\ Placed'
    <2>0. req[r] # None /\ req[r].op = "createFolder"
      BY <1>9 DEF CreateFolder, At
    <2>1. PICK f \in Folder \ Born :
            folders' = [folders EXCEPT ![f] = [parent |-> req[r].dest, live |-> TRUE]]
      BY <1>9 DEF CreateFolder
    <2>2. req[r].dest \in Born \cup {Root}
      BY <1>t, <2>0 DEF Sound
    <2>3. [parent |-> req[r].dest, live |-> TRUE] \in FolderRow
      BY <2>2 DEF Born, FolderRow, Place
    <2>4. folders' \in [Folder -> FolderRow \cup {None}]
      BY <2>1, <2>3 DEF TypeOK
    <2>5. Born' = Born \cup {f} /\ BornFiles' = BornFiles
      <3>1. folders' = [folders EXCEPT ![f] = [parent |-> req[r].dest, live |-> TRUE]]
        BY <2>1
      <3>2. files' = files
        BY <1>9 DEF CreateFolder
      <3>3. [parent |-> req[r].dest, live |-> TRUE] # None
        BY <2>3
      <3> QED
        BY <3>1, <3>2, <3>3 DEF Born, BornFiles, TypeOK
    <2>6. Rooted'
      BY <2>1, <2>2, <2>5 DEF Rooted, Placed, TypeOK, Born
    <2>7. Tables' /\ Grown
      BY <1>9, <2>4, <2>5, <2>6 DEF Tables, Grown, CreateFolder, TypeOK
    <2> QED
      BY <1>9, <2>7, TaskStep DEF CreateFolder, End
  <1>10. ASSUME MoveFolder(r)
        PROVE  Tables' /\ Grown /\ req' \in [Request -> Task \cup {None}] /\ Placed'
    <2> DEFINE f == req[r].item
    <2>0. req[r] # None /\ req[r].op = "moveFolder"
      BY <1>10 DEF MoveFolder, At
    <2>1. f \in Born /\ folders[f] \in FolderRow /\ req[r].dest \in Born \cup {Root}
      BY <1>t, <2>0 DEF Sound, Born, TypeOK
    <2> DEFINE w == [folders[f] EXCEPT !.parent = req[r].dest]
    <2>2. w \in FolderRow /\ w.parent = req[r].dest
      BY <2>1 DEF Born, FolderRow, Place
    <2>3. folders' = [folders EXCEPT ![f] = w]
      BY <1>10 DEF MoveFolder
    <2> HIDE DEF w
    <2>4. folders' \in [Folder -> FolderRow \cup {None}]
      BY <2>2, <2>3 DEF TypeOK
    <2>5. Born' = Born /\ BornFiles' = BornFiles
      BY <1>10, <2>1, <2>2, <2>3 DEF MoveFolder, Born, BornFiles, TypeOK
    <2>6. Rooted'
      BY <2>1, <2>2, <2>3, <2>5 DEF Rooted, Placed, TypeOK, Born
    <2>7. Tables' /\ Grown
      BY <1>10, <2>4, <2>5, <2>6 DEF Tables, Grown, MoveFolder, TypeOK
    <2> QED
      BY <1>10, <2>7, TaskStep DEF MoveFolder, End
  <1>11. ASSUME CommitDeleteFolder(r)
        PROVE  Tables' /\ Grown /\ req' \in [Request -> Task \cup {None}] /\ Placed'
    <2> DEFINE H == req[r].held
    <2>0. req[r] # None
      BY <1>11 DEF CommitDeleteFolder, At
    <2>1. H \subseteq Born \cup BornFiles /\ Born \subseteq Folder /\ BornFiles \subseteq File
      BY <1>t, <2>0 DEF Sound, Born, BornFiles
    <2> HIDE DEF H
    <2>2. ASSUME NEW f \in Folder
          PROVE  /\ folders'[f] \in FolderRow \cup {None}
                 /\ f \in Born => folders'[f] \in FolderRow /\ folders'[f].parent = folders[f].parent
                 /\ f \notin Born => folders'[f] = None
      <3>1. folders'[f] = IF f \in H THEN [folders[f] EXCEPT !.live = FALSE] ELSE folders[f]
        BY <1>11 DEF CommitDeleteFolder, H
      <3>2. f \in H => f \in Born
        BY <2>1
      <3>3. f \in Born => folders[f] \in FolderRow
        BY DEF Born, TypeOK
      <3> QED
        BY <3>1, <3>2, <3>3 DEF Born, FolderRow, TypeOK
    <2>3. ASSUME NEW x \in File
          PROVE  /\ files'[x] \in FileRow \cup {None}
                 /\ x \in BornFiles => files'[x] \in FileRow
                 /\ x \notin BornFiles => files'[x] = None
      <3>1. files'[x] = IF x \in H THEN [files[x] EXCEPT !.live = FALSE] ELSE files[x]
        BY <1>11 DEF CommitDeleteFolder, H
      <3>2. x \in H => x \in BornFiles
        BY <2>1
      <3>3. x \in BornFiles => files[x] \in FileRow
        BY DEF BornFiles, TypeOK
      <3> QED
        BY <3>1, <3>2, <3>3 DEF BornFiles, FileRow, TypeOK
    <2>4. folders' \in [Folder -> FolderRow \cup {None}] /\ files' \in [File -> FileRow \cup {None}]
      BY <1>11, <2>2, <2>3 DEF CommitDeleteFolder
    <2>5. Born' = Born /\ BornFiles' = BornFiles
      BY <2>2, <2>3 DEF Born, BornFiles
    <2>6. Rooted'
      BY <2>1, <2>2, <2>5 DEF Rooted, Placed
    <2>7. Tables' /\ Grown
      BY <1>11, <2>4, <2>5, <2>6 DEF Tables, Grown, CommitDeleteFolder, TypeOK
    <2> QED
      BY <1>11, <2>7, TaskStep DEF CommitDeleteFolder, End
  <1> QED
    BY <1>1, <1>2, <1>3, <1>4, <1>5, <1>6, <1>7, <1>8, <1>9, <1>10, <1>11 DEF FolderStep

LEMMA FileStepType ==
  ASSUME TypeOK, Placed, NEW r \in Request, FileStep(r)
  PROVE  Tables' /\ Grown /\ req' \in [Request -> Task \cup {None}] /\ Placed'
  <1>t. /\ req[r] # None => req[r] \in Task /\ Sound(req[r])
        /\ overlapped \in BOOLEAN
    BY DEF TypeOK, Placed
  <1>1. ASSUME NEW p \in Place, StartUpload(r, p)
        PROVE  Tables' /\ Grown /\ req' \in [Request -> Task \cup {None}] /\ Placed'
    <2> DEFINE t == NewTask("upload", "part", None, p)
    <2>1. t \in Task
      BY StartType DEF Ops, Steps
    <2>2. Sound(t)
      BY <1>1 DEF StartUpload, Valid, Live, Sound, NewTask
    <2>3. Become(r, t) /\ UNCHANGED <<folders, files, used, swept, overlapped, overtaken>>
      BY <1>1 DEF StartUpload
    <2> QED
      BY <1>t, <2>1, <2>2, <2>3, StartStep
  <1>2. ASSUME NEW s \in Size, CheckQuota(r, s)
        PROVE  Tables' /\ Grown /\ req' \in [Request -> Task \cup {None}] /\ Placed'
    <2> DEFINE t == [req[r] EXCEPT !.pc = "commit", !.size = s]
    <2>0. req[r] # None /\ req[r].op = "upload"
      BY <1>2 DEF CheckQuota, At
    <2>1. t \in Task
      BY <1>t, <2>0 DEF Task, Steps
    <2>2. Sound(t)
      BY <1>t, <2>0 DEF Sound, Task
    <2>3. Become(r, t) /\ UNCHANGED <<folders, files, used, swept, overlapped, overtaken>>
      BY <1>2 DEF CheckQuota
    <2> QED
      BY <1>t, <2>1, <2>2, <2>3, StartStep
  <1>3. ASSUME CommitUpload(r)
        PROVE  Tables' /\ Grown /\ req' \in [Request -> Task \cup {None}] /\ Placed'
    <2> DEFINE t == [req[r] EXCEPT !.pc = "part", !.size = None]
               w == [at |-> req[r].dest, size |-> req[r].size, live |-> TRUE]
    <2>0. req[r] # None /\ req[r].op = "upload" /\ req[r].pc = "commit"
      BY <1>3 DEF CommitUpload, At
    <2>1. req[r].dest \in Place /\ req[r].size \in Size
      BY <1>t, <2>0 DEF Sound, Born, Place
    <2>2. t \in Task
      BY <1>t, <2>0 DEF Task, Steps
    <2>3. Sound(t)
      BY <1>t, <2>0 DEF Sound, Task
    <2>d. w \in FileRow
      BY <2>1 DEF FileRow
    <2>4. w \in FileRow /\ w # None
      BY <2>d
    <2>5. PICK x \in {x \in File : files[x] = None} : files' = [files EXCEPT ![x] = w]
      BY <1>3 DEF CommitUpload
    <2>6. /\ used' = used + req[r].size /\ UNCHANGED <<folders, swept, overlapped, overtaken>>
          /\ Become(r, t)
      BY <1>3 DEF CommitUpload
    <2> HIDE DEF w, t
    <2>7. files' \in [File -> FileRow \cup {None}] /\ used' \in Nat
      BY <2>1, <2>4, <2>5, <2>6 DEF TypeOK
    <2>8. Born' = Born /\ BornFiles' = BornFiles \cup {x}
      <3>1. Born' = Born
        BY <2>6 DEF Born
      <3>2. BornFiles' = BornFiles \cup {x}
        BY <2>4, <2>5 DEF BornFiles, TypeOK
      <3> QED
        BY <3>1, <3>2
    <2>9. Tables' /\ Grown
      BY <2>6, <2>7, <2>8 DEF Tables, Grown, TypeOK, Placed, Rooted
    <2> QED
      BY <2>2, <2>3, <2>6, <2>9, SoundStays, TaskStep
  <1>4. ASSUME SkipPart(r)
        PROVE  Tables' /\ Grown /\ req' \in [Request -> Task \cup {None}] /\ Placed'
    <2> DEFINE t == [req[r] EXCEPT !.pc = "part", !.size = None]
    <2>0. req[r] # None /\ req[r].op = "upload"
      BY <1>4 DEF SkipPart, At
    <2>1. t \in Task
      BY <1>t, <2>0 DEF Task, Steps
    <2>2. Sound(t)
      BY <1>t, <2>0 DEF Sound, Task
    <2>3. Become(r, t) /\ UNCHANGED <<folders, files, used, swept, overlapped, overtaken>>
      BY <1>4 DEF SkipPart
    <2> QED
      BY <1>t, <2>1, <2>2, <2>3, StartStep
  <1>5. ASSUME NEW x \in File, NEW p \in Place, StartMoveFile(r, x, p)
        PROVE  Tables' /\ Grown /\ req' \in [Request -> Task \cup {None}] /\ Placed'
    <2> DEFINE t == NewTask("moveFile", "write", x, p)
    <2>1. t \in Task
      BY StartType DEF Ops, Steps, Item
    <2>2. Sound(t)
      BY <1>5 DEF StartMoveFile, Valid, Live, LiveFiles, BornFiles, Sound, NewTask
    <2>3. Become(r, t) /\ UNCHANGED <<folders, files, used, swept, overlapped, overtaken>>
      BY <1>5 DEF StartMoveFile
    <2> QED
      BY <1>t, <2>1, <2>2, <2>3, StartStep
  <1>6. ASSUME NEW x \in File, StartDeleteFile(r, x)
        PROVE  Tables' /\ Grown /\ req' \in [Request -> Task \cup {None}] /\ Placed'
    <2> DEFINE t == NewTask("deleteFile", "lock", x, None)
    <2>1. t \in Task
      BY StartType DEF Ops, Steps, Item
    <2>2. Sound(t)
      BY <1>6 DEF StartDeleteFile, LiveFiles, BornFiles, Sound, NewTask
    <2>3. Become(r, t) /\ UNCHANGED <<folders, files, used, swept, overlapped, overtaken>>
      BY <1>6 DEF StartDeleteFile
    <2> QED
      BY <1>t, <2>1, <2>2, <2>3, StartStep
  <1>7. ASSUME LockFile(r)
        PROVE  Tables' /\ Grown /\ req' \in [Request -> Task \cup {None}] /\ Placed'
    <2> DEFINE t == [req[r] EXCEPT !.pc = "commit", !.held = {req[r].item}]
    <2>0. req[r] # None /\ req[r].op = "deleteFile"
      BY <1>7 DEF LockFile, At
    <2>b. req[r].item \in BornFiles /\ BornFiles \subseteq Item
      BY <1>t, <2>0 DEF Sound, BornFiles, Item
    <2>1. t \in Task
      BY <1>t, <2>0, <2>b DEF Task, Steps
    <2>2. Sound(t)
      BY <1>t, <2>0, <2>b DEF Sound, Task
    <2>3. Become(r, t) /\ UNCHANGED <<folders, files, used, swept, overlapped, overtaken>>
      BY <1>7 DEF LockFile
    <2> QED
      BY <1>t, <2>1, <2>2, <2>3, StartStep
  <1>8. ASSUME NEW x \in BornFiles, NEW w \in FileRow, files' = [files EXCEPT ![x] = w],
               used' \in Nat, UNCHANGED <<folders, swept, overlapped, overtaken>>, End(r)
        PROVE  Tables' /\ Grown /\ req' \in [Request -> Task \cup {None}] /\ Placed'
    <2>1. files' \in [File -> FileRow \cup {None}]
      BY <1>8 DEF TypeOK
    <2>2. Born' = Born /\ BornFiles' = BornFiles
      BY <1>8 DEF Born, BornFiles, TypeOK
    <2>3. Tables' /\ Grown
      BY <1>8, <2>1, <2>2 DEF Tables, Grown, TypeOK, Placed, Rooted
    <2> QED
      BY <1>8, <2>3, TaskStep DEF End
  <1>9. ASSUME MoveFile(r)
        PROVE  Tables' /\ Grown /\ req' \in [Request -> Task \cup {None}] /\ Placed'
    <2> DEFINE x == req[r].item
               w == [files[x] EXCEPT !.at = req[r].dest]
    <2>0. req[r] # None /\ req[r].op = "moveFile"
      BY <1>9 DEF MoveFile, At
    <2>1. x \in BornFiles /\ files[x] \in FileRow /\ req[r].dest \in Place
      BY <1>t, <2>0 DEF Sound, Born, BornFiles, Place, TypeOK
    <2>2. w \in FileRow
      BY <2>1 DEF FileRow
    <2>3. /\ files' = [files EXCEPT ![x] = w] /\ UNCHANGED <<folders, used, swept, overlapped, overtaken>>
          /\ End(r)
      BY <1>9 DEF MoveFile
    <2>4. used' \in Nat
      BY <2>3 DEF TypeOK
    <2> HIDE DEF w
    <2> QED
      BY <2>1, <2>2, <2>3, <2>4, <1>8
  <1>10. ASSUME CommitDeleteFile(r)
        PROVE  Tables' /\ Grown /\ req' \in [Request -> Task \cup {None}] /\ Placed'
    <2> DEFINE x == req[r].item
               w == [files[x] EXCEPT !.live = FALSE]
    <2>0. req[r] # None /\ req[r].op = "deleteFile"
      BY <1>10 DEF CommitDeleteFile, At
    <2>1. x \in BornFiles /\ files[x] \in FileRow
      BY <1>t, <2>0 DEF Sound, BornFiles, TypeOK
    <2>2. w \in FileRow /\ files[x].size \in Nat
      BY <2>1 DEF FileRow
    <2>3. /\ files' = [files EXCEPT ![x] = w] /\ UNCHANGED <<folders, swept, overlapped, overtaken>>
          /\ End(r)
          /\ used' = IF files[x].size > used THEN 0 ELSE used - files[x].size
      BY <1>10 DEF CommitDeleteFile
    <2>4. used' \in Nat
      BY <2>2, <2>3 DEF TypeOK
    <2> HIDE DEF w
    <2> QED
      BY <2>1, <2>2, <2>3, <2>4, <1>8
  <1> QED
    BY <1>1, <1>2, <1>3, <1>4, <1>5, <1>6, <1>7, <1>9, <1>10 DEF FileStep

(* A recalculation changes no row of folders or files.                      *)
LEMMA RecalculateStep ==
  ASSUME TypeOK, Placed, NEW r \in Request, Recalculate(r)
  PROVE  \E t \in Task \cup {None} :
           /\ Become(r, t)
           /\ t # None => t.op = "recalculate" /\ Sound(t)
           /\ UNCHANGED <<folders, files, overlapped>>
           /\ used' \in Nat /\ swept' \subseteq File /\ overtaken' \in BOOLEAN
  <1>t. /\ req[r] # None => req[r] \in Task /\ Sound(req[r])
        /\ used \in Nat /\ swept \subseteq File /\ overtaken \in BOOLEAN
    BY DEF TypeOK, Placed
  <1>1. CASE StartRecalculate(r)
    <2> DEFINE pc == IF LiveFiles = {} THEN "others" ELSE "set"
               b == NewTask("recalculate", pc, None, None)
               P == LivePlaces
               t == [b EXCEPT !.plan = P]
    <2>p. pc \in {"others", "set"} /\ pc \in Steps /\ "recalculate" \in Ops
      BY DEF Ops, Steps
    <2>1. b \in Task /\ b.op = "recalculate" /\ b.pc \in {"others", "set"} /\ b.held = {}
      <3> HIDE DEF pc
      <3>1. b \in Task
        BY <2>p, StartType
      <3>2. b.op = "recalculate" /\ b.pc = pc /\ b.held = {}
        BY DEF NewTask
      <3> QED
        BY <2>p, <3>1, <3>2
    <2>2. P \in SUBSET (Folder \cup (File \X Place))
      BY DEF LivePlaces, LiveFiles, TypeOK, FileRow
    <2>3. Become(r, t) /\ UNCHANGED <<folders, files, used, swept, overlapped, overtaken>>
      BY <1>1 DEF StartRecalculate
    <2> HIDE DEF b, P
    <2>4. t \in Task /\ t.op = "recalculate" /\ t.pc = b.pc /\ t.held = b.held
      BY <2>1, <2>2 DEF Task
    <2> HIDE DEF t
    <2>5. Sound(t)
      BY <2>1, <2>4 DEF Sound
    <2> QED
      BY <1>t, <2>3, <2>4, <2>5
  <1>2. CASE SetUsage(r)
    <2> DEFINE t == [req[r] EXCEPT !.pc = "others", !.plan = {}]
    <2>1. req[r] \in Task /\ req[r].op = "recalculate" /\ Sound(req[r])
      BY <1>2, <1>t DEF SetUsage, At
    <2>2. t \in Task /\ t.op = "recalculate" /\ t.pc = "others" /\ t.held = req[r].held
      BY <2>1 DEF Task, Steps
    <2>3. /\ Become(r, t) /\ UNCHANGED <<folders, files, overlapped>>
          /\ used' \in Nat /\ swept' \subseteq File /\ overtaken' \in BOOLEAN
      BY <1>2 DEF SetUsage
    <2> HIDE DEF t
    <2>4. Sound(t)
      BY <2>1, <2>2 DEF Sound
    <2> QED
      BY <2>2, <2>3, <2>4
  <1>3. CASE CheckOthers(r)
    <2> DEFINE t == [req[r] EXCEPT !.pc = "zero"]
    <2>1. req[r] \in Task /\ req[r].op = "recalculate" /\ Sound(req[r])
      BY <1>3, <1>t DEF CheckOthers, At
    <2>2. t \in Task /\ t.op = "recalculate" /\ t.pc = "zero" /\ t.held = req[r].held
      BY <2>1 DEF Task, Steps
    <2>3. Become(r, t) /\ UNCHANGED <<folders, files, used, swept, overlapped, overtaken>>
      BY <1>3 DEF CheckOthers, Proceed
    <2> HIDE DEF t
    <2>4. Sound(t)
      BY <2>1, <2>2 DEF Sound
    <2> QED
      BY <1>t, <2>2, <2>3, <2>4
  <1>4. CASE ZeroUsage(r)
    BY <1>4 DEF ZeroUsage, End
  <1> QED
    BY <1>1, <1>2, <1>3, <1>4 DEF Recalculate

LEMMA StepType == TypeOK /\ Placed /\ [Next]_vars => TypeOK' /\ Placed'
  <1> SUFFICES ASSUME TypeOK, Placed, [Next]_vars PROVE TypeOK' /\ Placed'
    OBVIOUS
  <1>1. ASSUME NEW r \in Request, FolderStep(r) \/ FileStep(r) \/ Recalculate(r) \/ GiveUp(r)
        PROVE  Tables' /\ req' \in [Request -> Task \cup {None}] /\ Placed'
    <2>1. CASE GiveUp(r)
      BY <2>1, StartStep DEF GiveUp, End, TypeOK
    <2>2. CASE Recalculate(r)
      <3>1. PICK t \in Task \cup {None} :
              /\ Become(r, t)
              /\ t # None => Sound(t)
              /\ UNCHANGED <<folders, files, overlapped>>
              /\ used' \in Nat /\ swept' \subseteq File /\ overtaken' \in BOOLEAN
        BY <2>2, RecalculateStep
      <3> QED
        BY <3>1, RowsStep DEF TypeOK
    <2> QED
      BY <1>1, <2>1, <2>2, FolderStepType, FileStepType
  <1>2. ASSUME Witness PROVE stayed' \in [Request -> SUBSET Item]
    <2>1. \A r \in Request : Within(r)' \subseteq Item
      BY DEF Within, Inside, Below, Live, Born, LiveFiles, Item
    <2> QED
      BY <1>2, <2>1 DEF Witness, TypeOK
  <1>3. CASE UNCHANGED vars
    <2>1. Born' = Born /\ BornFiles' = BornFiles
      BY <1>3 DEF vars, Born, BornFiles
    <2>2. \A r \in Request : Sound(req[r])' <=> Sound(req[r])
      BY <1>3, <2>1 DEF vars, Sound
    <2>3. Rooted'
      BY <1>3, <2>1 DEF vars, Rooted, Placed
    <2> QED
      BY <1>3, <2>2, <2>3 DEF vars, TypeOK, Placed
  <1>4. CASE Next
    BY <1>1, <1>2, <1>4 DEF Next, Tables, TypeOK
  <1> QED
    BY <1>3, <1>4

LEMMA InitType == Init => TypeOK /\ Placed
  <1> SUFFICES ASSUME Init PROVE TypeOK /\ Placed
    OBVIOUS
  <1>1. TypeOK
    BY DEF Init, TypeOK
  <1>2. \A r \in Request : req[r] = None
    BY DEF Init
  <1>3. Born = {}
    BY DEF Init, Born
  <1> QED
    BY <1>1, <1>2, <1>3 DEF Placed, Rooted

(* The tables and the requests keep their shapes.                           *)
THEOREM TypeCorrect == Spec => []TypeOK
  <1>1. TypeOK /\ Placed /\ [Next]_vars => (TypeOK /\ Placed)'
    BY StepType
  <1> QED
    BY <1>1, InitType, PTL DEF Spec

-----------------------------------------------------------------------------
(* Loops.                                                                   *)

(* Live folders whose parents are all among them.                           *)
Circle(S) == S # {} /\ S \subseteq Live /\ \A g \in S : folders[g].parent \in S

(* d is outside some set of live folders that has f and what is under it.   *)
Apart(f, d) ==
    f \in Live /\ d \in Live => \E S \in SUBSET Live : f \in S /\ Closed(S, Live) /\ d \notin S

LoopInv ==
    ~overlapped => /\ \A S \in SUBSET Folder : ~Circle(S)
                   /\ \A q, r \in Checked : q = r
                   /\ \A r \in Checked : Apart(req[r].item, req[r].dest)

LEMMA LoopIsCircle ==
  ASSUME NEW f \in Live, Endless(f, Live)
  PROVE  \E S \in SUBSET Folder : Circle(S)
  <1> DEFINE B == Below(f, Live)
  <1>1. f \in Live /\ folders[f].parent \in B /\ B \subseteq Live
    BY BelowIn DEF Endless
  <1>2. \A g : g \in B <=> g \in Live /\ \A S \in SUBSET Live : f \in S /\ Closed(S, Live) => g \in S
    BY DEF Below
  <1> HIDE DEF B
  <1>3. f \in B
    BY <1>1, <1>2
  <1>4. Closed(B, Live)
    BY <1>2 DEF Closed
  <1>5. ASSUME NEW g \in B, g # f, folders[g].parent \notin B PROVE FALSE
    <2>1. Closed(B \ {g}, Live)
      BY <1>4, <1>5 DEF Closed
    <2>2. B \ {g} \in SUBSET Live /\ f \in B \ {g}
      BY <1>1, <1>3, <1>5
    <2>3. g \in B \ {g}
      BY <1>2, <2>1, <2>2
    <2> QED
      BY <2>3
  <1>6. Circle(B) /\ B \in SUBSET Folder
    BY <1>1, <1>3, <1>5 DEF Circle, Live, Born
  <1> QED
    BY <1>6

LEMMA NotBelowApart ==
  ASSUME NEW f, NEW d, d \notin Below(f, Live)
  PROVE  Apart(f, d)
  BY DEF Apart, Below

(* A step after which no folder but f has another parent and none is live   *)
(* that was not, except a new one, f, under which there is nothing.         *)
LEMMA NewLeaf ==
  ASSUME TypeOK, Placed, NEW f \in Folder \ Born, NEW p \in Born \cup {Root},
         folders' = [folders EXCEPT ![f] = [parent |-> p, live |-> TRUE]]
  PROVE  /\ (\A S \in SUBSET Folder : ~Circle(S)) => \A S \in SUBSET Folder : ~Circle(S)'
         /\ \A a \in Born, b \in Born : Apart(a, b) => Apart(a, b)'
  <1>1. /\ Live' = Live \cup {f}
        /\ f \notin Live /\ folders'[f].parent = p /\ p # f
        /\ \A g \in Live : folders'[g].parent = folders[g].parent /\ folders[g].parent # f
    <2>1. [parent |-> p, live |-> TRUE] # None
      <3>1. [parent |-> p, live |-> TRUE] \in FolderRow
        BY DEF FolderRow, Place, Born
      <3> QED
        BY <3>1
    <2>2. folders'[f] = [parent |-> p, live |-> TRUE] /\ \A g \in Folder \ {f} : folders'[g] = folders[g]
      BY DEF TypeOK
    <2>3. \A g \in Live : g \in Folder /\ g # f /\ folders[g].parent # f
      BY DEF Live, Born, Placed, Rooted, Item
    <2>4. Live' = Live \cup {f}
      BY <2>1, <2>2 DEF Live, Born
    <2>5. p # f /\ f \notin Live
      BY DEF Live, Born, Item
    <2> QED
      BY <2>2, <2>3, <2>4, <2>5
  <1>2. ASSUME NEW S \in SUBSET Folder, Circle(S)' PROVE Circle(S \ {f})
    <2>1. S # {} /\ S \subseteq Live \cup {f} /\ \A g \in S : folders'[g].parent \in S
      BY <1>1, <1>2 DEF Circle
    <2>2. \A g \in S \ {f} : folders[g].parent \in S \ {f}
      BY <1>1, <2>1
    <2>3. S \ {f} # {}
      BY <1>1, <2>1
    <2> QED
      BY <2>1, <2>2, <2>3 DEF Circle
  <1>3. ASSUME NEW a \in Born, NEW b \in Born, Apart(a, b), a \in Live', b \in Live'
        PROVE  \E S \in SUBSET Live' : a \in S /\ Closed(S, Live)' /\ b \notin S
    <2>1. a # f /\ b # f /\ a \in Live /\ b \in Live
      BY <1>1, <1>3
    <2>2. PICK S \in SUBSET Live : a \in S /\ Closed(S, Live) /\ b \notin S
      BY <1>3, <2>1 DEF Apart
    <2> DEFINE T == IF p \in S THEN S \cup {f} ELSE S
    <2>3. T \in SUBSET Live' /\ a \in T /\ b \notin T
      BY <1>1, <2>1, <2>2
    <2>4. \A g \in Live' : folders'[g].parent \in T => g \in T
      BY <1>1, <2>2 DEF Closed
    <2> QED
      BY <2>3, <2>4 DEF Closed
  <1> QED
    BY <1>2, <1>3 DEF Apart

(* A step after which no folder has another parent and none is live that    *)
(* was not.                                                                 *)
LEMMA FewerFolders ==
  ASSUME Live' \subseteq Live, \A g \in Live' : folders'[g].parent = folders[g].parent
  PROVE  /\ (\A S \in SUBSET Folder : ~Circle(S)) => \A S \in SUBSET Folder : ~Circle(S)'
         /\ \A a, b : Apart(a, b) => Apart(a, b)'
  <1>1. ASSUME NEW S \in SUBSET Folder, Circle(S)' PROVE Circle(S)
    BY <1>1 DEF Circle
  <1>2. ASSUME NEW a, NEW b, Apart(a, b), a \in Live', b \in Live'
        PROVE  \E S \in SUBSET Live' : a \in S /\ Closed(S, Live)' /\ b \notin S
    <2>1. PICK S \in SUBSET Live : a \in S /\ Closed(S, Live) /\ b \notin S
      BY <1>2 DEF Apart
    <2>2. \A g \in Live' : folders'[g].parent \in S \cap Live' => g \in S \cap Live'
      BY <2>1 DEF Closed
    <2> QED
      BY <1>2, <2>1, <2>2 DEF Closed
  <1> QED
    BY <1>1, <1>2 DEF Apart

LEMMA MovedRow ==
  ASSUME TypeOK, NEW f \in Live, NEW p \in Place, folders' = [folders EXCEPT ![f].parent = p]
  PROVE  /\ Live' = Live /\ folders'[f].parent = p /\ Live \subseteq Folder
         /\ \A g \in Live \ {f} : folders'[g].parent = folders[g].parent
  <1>1. folders[f] \in FolderRow
    BY DEF Live, Born, TypeOK
  <1>2. [folders[f] EXCEPT !.parent = p] \in FolderRow
    BY <1>1 DEF FolderRow
  <1>3. /\ folders'[f] = [folders[f] EXCEPT !.parent = p]
          /\ \A g \in Folder \ {f} : folders'[g] = folders[g]
    BY DEF Live, Born, TypeOK
  <1>4. folders'[f].live = folders[f].live /\ folders'[f].parent = p
    BY <1>1, <1>3 DEF FolderRow
  <1>n. folders'[f] # None /\ folders[f] # None
    BY <1>1, <1>2, <1>3
  <1>5. \A g \in Folder : /\ folders'[g] # None <=> folders[g] # None
                            /\ folders'[g].live = folders[g].live
    BY <1>3, <1>4, <1>n
  <1>6. Live' = Live
    BY <1>5 DEF Live, Born
  <1> QED
    BY <1>3, <1>4, <1>6 DEF Live, Born

LEMMA RootMove ==
  ASSUME TypeOK, NEW f \in Live, folders' = [folders EXCEPT ![f].parent = Root]
  PROVE  \A a, b : Apart(a, b) => Apart(a, b)'
  <1>1. /\ Live' = Live /\ folders'[f].parent = Root /\ Live \subseteq Folder
        /\ \A g \in Live \ {f} : folders'[g].parent = folders[g].parent
    BY MovedRow DEF Place
  <1>2. ASSUME NEW a, NEW b, Apart(a, b), a \in Live', b \in Live'
        PROVE  \E S \in SUBSET Live' : a \in S /\ Closed(S, Live)' /\ b \notin S
    <2>1. PICK S \in SUBSET Live : a \in S /\ Closed(S, Live) /\ b \notin S
      BY <1>1, <1>2 DEF Apart
    <2>2. \A g \in Live' : folders'[g].parent \in S => g \in S
      BY <1>1, <2>1 DEF Closed, Item
    <2> QED
      BY <1>1, <2>1, <2>2 DEF Closed
  <1> QED
    BY <1>2 DEF Apart

(* A move to where nothing is under the folder makes no circle.             *)
LEMMA SafeMove ==
  ASSUME TypeOK, NEW f \in Live, NEW p \in Place, Apart(f, p),
         folders' = [folders EXCEPT ![f].parent = p],
         \A S \in SUBSET Folder : ~Circle(S)
  PROVE  \A S \in SUBSET Folder : ~Circle(S)'
  <1>1. /\ Live' = Live /\ folders'[f].parent = p /\ Live \subseteq Folder
        /\ \A g \in Live \ {f} : folders'[g].parent = folders[g].parent
    BY MovedRow
  <1>2. ASSUME NEW S \in SUBSET Folder, Circle(S)' PROVE FALSE
    <2>1. S # {} /\ S \subseteq Live /\ \A g \in S : folders'[g].parent \in S
      BY <1>1, <1>2 DEF Circle
    <2>2. CASE f \notin S
      <3>1. Circle(S)
        BY <1>1, <2>1, <2>2 DEF Circle
      <3> QED
        BY <3>1
    <2>3. CASE f \in S
      <3>1. p \in S
        BY <1>1, <2>1, <2>3
      <3>2. PICK T \in SUBSET Live : f \in T /\ Closed(T, Live) /\ p \notin T
        BY <2>1, <3>1 DEF Apart
      <3>3. \A g \in S \ T : folders[g].parent \in S \ T
        BY <1>1, <2>1, <3>2 DEF Closed
      <3>4. Circle(S \ T) /\ S \ T \in SUBSET Folder
        BY <2>1, <3>1, <3>2, <3>3 DEF Circle
      <3> QED
        BY <3>4
    <2> QED
      BY <2>2, <2>3
  <1> QED
    BY <1>2

Stays(r) == \A q \in Checked' : q \in Checked /\ q # r /\ req'[q] = req[q]

(* What becomes of r is not a move into a folder that is past its check.    *)
LEMMA CheckedStays ==
  ASSUME TypeOK, NEW r \in Request, NEW t, Become(r, t),
         t # None => ~(t.op = "moveFolder" /\ t.pc = "write" /\ t.dest # Root)
  PROVE  Stays(r)
  <1>1. req'[r] = t /\ \A q \in Request \ {r} : req'[q] = req[q]
    BY DEF Become, TypeOK
  <1>2. r \notin Checked'
    BY <1>1 DEF Checked, At
  <1>3. \A q \in Checked' : q \in Request /\ q # r
    BY <1>2 DEF Checked
  <1> QED
    BY <1>1, <1>3 DEF Stays, Checked, At

LEMMA QuietStays ==
  ASSUME TypeOK, Placed, NEW r \in Request,
         FolderStep(r) \/ FileStep(r) \/ Recalculate(r) \/ GiveUp(r), ~CheckSubtree(r)
  PROVE  Stays(r) /\ overlapped' = overlapped
  <1>t. req[r] # None => req[r] \in Task
    BY DEF TypeOK
  <1>e. ASSUME End(r) PROVE Stays(r)
    BY <1>e, CheckedStays DEF End
  <1>1. ASSUME NEW p \in Place, StartCreateFolder(r, p) PROVE Stays(r) /\ overlapped' = overlapped
    BY <1>1, CheckedStays DEF StartCreateFolder, NewTask
  <1>2. ASSUME NEW f \in Folder, NEW p \in Place, StartMoveFolder(r, f, p)
        PROVE  Stays(r) /\ overlapped' = overlapped
    BY <1>2, CheckedStays DEF StartMoveFolder, NewTask
  <1>3. ASSUME NEW f \in Folder, StartDeleteFolder(r, f) PROVE Stays(r) /\ overlapped' = overlapped
    BY <1>3, CheckedStays DEF StartDeleteFolder, NewTask
  <1>4. CASE CreateFolder(r) \/ MoveFolder(r) \/ CommitDeleteFolder(r) \/ MoveFile(r)
               \/ CommitDeleteFile(r) \/ GiveUp(r)
    BY <1>4, <1>e DEF CreateFolder, MoveFolder, CommitDeleteFolder, MoveFile, CommitDeleteFile, GiveUp
  <1>6. CASE SelectFolders(r)
    <2> DEFINE B == Below(req[r].item, Live)
               t == [req[r] EXCEPT !.pc = "mark", !.plan = B]
    <2>1. req[r] \in Task /\ req[r].op = "deleteFolder"
      BY <1>6, <1>t DEF SelectFolders, At
    <2>2. t.op = req[r].op
      BY <2>1 DEF Task
    <2>3. Become(r, t) /\ overlapped' = overlapped
      BY <1>6 DEF SelectFolders
    <2> HIDE DEF t
    <2> QED
      BY <2>1, <2>2, <2>3, CheckedStays
  <1>7. CASE MarkFolders(r)
    <2> DEFINE t == [req[r] EXCEPT !.pc = "find", !.plan = {}, !.held = req[r].plan]
    <2>1. req[r] \in Task /\ req[r].op = "deleteFolder"
      BY <1>7, <1>t DEF MarkFolders, At
    <2>2. t.op = req[r].op
      BY <2>1 DEF Task
    <2>3. Become(r, t) /\ overlapped' = overlapped
      BY <1>7 DEF MarkFolders
    <2> HIDE DEF t
    <2> QED
      BY <2>1, <2>2, <2>3, CheckedStays
  <1>8. CASE FindFiles(r)
    <2> DEFINE found == {x \in LiveFiles : files[x].at \in SearchedFor(r)}
               P == {<<x, files[x].at>> : x \in found}
               t == [req[r] EXCEPT !.pc = "take", !.plan = P]
    <2>1. req[r] \in Task /\ req[r].op = "deleteFolder"
      BY <1>8, <1>t DEF FindFiles, At
    <2>2. t.op = req[r].op
      BY <2>1 DEF Task
    <2>3. Become(r, t) /\ overlapped' = overlapped
      BY <1>8 DEF FindFiles
    <2> HIDE DEF t
    <2> QED
      BY <2>1, <2>2, <2>3, CheckedStays
  <1>9. CASE TakeFiles(r)
    <2> DEFINE live == {p \in req[r].plan : p[1] \in LiveFiles}
    <2>1. req[r] \in Task /\ req[r].op = "deleteFolder" /\ overlapped' = overlapped
      BY <1>9, <1>t DEF TakeFiles, At
    <2>2. PICK taken \in SUBSET live :
            Become(r, [req[r] EXCEPT !.pc = "commit", !.plan = {},
                                     !.held = @ \cup {p[1] : p \in taken}])
      BY <1>9 DEF TakeFiles
    <2> DEFINE t == [req[r] EXCEPT !.pc = "commit", !.plan = {},
                                   !.held = @ \cup {p[1] : p \in taken}]
    <2>3. t.op = req[r].op
      BY <2>1 DEF Task
    <2>4. Become(r, t)
      BY <2>2
    <2> HIDE DEF t
    <2> QED
      BY <2>1, <2>3, <2>4, CheckedStays
  <1>10. ASSUME NEW p \in Place, StartUpload(r, p) PROVE Stays(r) /\ overlapped' = overlapped
    BY <1>10, CheckedStays DEF StartUpload, NewTask
  <1>11. ASSUME NEW s \in Size, CheckQuota(r, s) PROVE Stays(r) /\ overlapped' = overlapped
    <2> DEFINE t == [req[r] EXCEPT !.pc = "commit", !.size = s]
    <2>1. req[r] \in Task /\ req[r].op = "upload"
      BY <1>11, <1>t DEF CheckQuota, At
    <2>2. t.op = req[r].op
      BY <2>1 DEF Task
    <2>3. Become(r, t) /\ overlapped' = overlapped
      BY <1>11 DEF CheckQuota
    <2> HIDE DEF t
    <2> QED
      BY <2>1, <2>2, <2>3, CheckedStays
  <1>12. CASE CommitUpload(r) \/ SkipPart(r)
    <2> DEFINE t == [req[r] EXCEPT !.pc = "part", !.size = None]
    <2>1. req[r] \in Task /\ req[r].op = "upload"
      BY <1>12, <1>t DEF CommitUpload, SkipPart, At
    <2>2. t.op = req[r].op
      BY <2>1 DEF Task
    <2>3. Become(r, t) /\ overlapped' = overlapped
      BY <1>12 DEF CommitUpload, SkipPart
    <2> HIDE DEF t
    <2> QED
      BY <2>1, <2>2, <2>3, CheckedStays
  <1>13. ASSUME NEW x \in File, NEW p \in Place, StartMoveFile(r, x, p)
         PROVE  Stays(r) /\ overlapped' = overlapped
    BY <1>13, CheckedStays DEF StartMoveFile, NewTask
  <1>14. ASSUME NEW x \in File, StartDeleteFile(r, x) PROVE Stays(r) /\ overlapped' = overlapped
    BY <1>14, CheckedStays DEF StartDeleteFile, NewTask
  <1>15. CASE LockFile(r)
    <2> DEFINE t == [req[r] EXCEPT !.pc = "commit", !.held = {req[r].item}]
    <2>1. req[r] \in Task /\ req[r].op = "deleteFile"
      BY <1>15, <1>t DEF LockFile, At
    <2>2. t.op = req[r].op
      BY <2>1 DEF Task
    <2>3. Become(r, t) /\ overlapped' = overlapped
      BY <1>15 DEF LockFile
    <2> HIDE DEF t
    <2> QED
      BY <2>1, <2>2, <2>3, CheckedStays
  <1>16. CASE Recalculate(r)
    <2>1. PICK t \in Task \cup {None} :
            Become(r, t) /\ (t # None => t.op = "recalculate") /\ overlapped' = overlapped
      BY <1>16, RecalculateStep
    <2> QED
      BY <2>1, CheckedStays
  <1> QED
    BY <1>1, <1>2, <1>3, <1>4, <1>6, <1>7, <1>8, <1>9, <1>10, <1>11, <1>12, <1>13, <1>14,
       <1>15, <1>16 DEF FolderStep, FileStep

LEMMA LoopCarries ==
  ASSUME TypeOK, Placed, LoopInv, NEW r \in Request, Stays(r), overlapped' = overlapped,
         ~overlapped =>
           /\ \A S \in SUBSET Folder : ~Circle(S)'
           /\ \A q \in Checked' : LET a == req[q].item  b == req[q].dest
                                  IN  \A f \in Born, d \in Born :
                                        f = a /\ d = b /\ Apart(f, d) => Apart(f, d)'
  PROVE  LoopInv'
  <1> SUFFICES ASSUME ~overlapped
               PROVE  /\ \A q, s \in Checked' : q = s
                      /\ \A q \in Checked' : Apart(req[q].item, req[q].dest)'
    BY DEF LoopInv
  <1>1. \A q, s \in Checked' : q = s
    BY DEF Stays, LoopInv
  <1>2. ASSUME NEW q \in Checked' PROVE Apart(req[q].item, req[q].dest)'
    <2>1. q \in Checked /\ req'[q] = req[q]
      BY DEF Stays
    <2>2. PICK f \in Born, d \in Born : f = req[q].item /\ d = req[q].dest
      BY <2>1 DEF Checked, At, Placed, Sound
    <2>3. Apart(f, d)
      BY <2>1, <2>2 DEF LoopInv
    <2>4. Apart(f, d)'
      BY <2>2, <2>3
    <2>5. req'[q].item = f /\ req'[q].dest = d
      BY <2>1, <2>2
    <2> QED
      BY <2>4, <2>5 DEF Apart
  <1> QED
    BY <1>1, <1>2

LEMMA StepLoops ==
  ASSUME TypeOK, Placed, LoopInv, NEW r \in Request,
         FolderStep(r) \/ FileStep(r) \/ Recalculate(r) \/ GiveUp(r)
  PROVE  LoopInv'
  <1>1. CASE CheckSubtree(r)
    <2>1. /\ req[r] # None /\ req[r] \in Task /\ req[r].op = "moveFolder"
          /\ folders' = folders
          /\ req' = [req EXCEPT ![r] = [req[r] EXCEPT !.pc = "write"]]
          /\ overlapped' = (overlapped \/ Checked # {})
      BY <1>1 DEF CheckSubtree, At, Proceed, Become, TypeOK
    <2> SUFFICES ASSUME ~overlapped'
                 PROVE  /\ \A S \in SUBSET Folder : ~Circle(S)'
                        /\ \A q, s \in Checked' : q = s
                        /\ \A q \in Checked' : Apart(req[q].item, req[q].dest)'
      BY DEF LoopInv
    <2>2. ~overlapped /\ Checked = {}
      BY <2>1 DEF TypeOK
    <2>3. Live' = Live
      BY <2>1 DEF Live, Born
    <2>4. \A S \in SUBSET Folder : ~Circle(S)'
      BY <2>1, <2>2, <2>3 DEF LoopInv, Circle
    <2>5. Checked' \subseteq {r}
      <3>1. \A q \in Request \ {r} : req'[q] = req[q]
        BY <2>1 DEF TypeOK
      <3> QED
        BY <2>2, <3>1 DEF Checked, At
    <2>6. PICK f, d : f = req[r].item /\ d = req[r].dest
      OBVIOUS
    <2>7. req'[r].item = f /\ req'[r].dest = d
      BY <2>1, <2>6 DEF TypeOK, Task
    <2>8. Apart(f, d)
      BY <1>1, <2>6, NotBelowApart DEF CheckSubtree
    <2>9. Apart(f, d)'
      BY <2>1, <2>3, <2>8 DEF Apart, Closed
    <2> QED
      BY <2>4, <2>5, <2>7, <2>9 DEF Apart
  <1>2. CASE ~CheckSubtree(r)
    <2>1. Stays(r) /\ overlapped' = overlapped
      BY <1>2, QuietStays
    <2> SUFFICES ASSUME ~overlapped
                 PROVE  /\ \A S \in SUBSET Folder : ~Circle(S)'
                        /\ \A q \in Checked' : LET a == req[q].item  b == req[q].dest
                                               IN  \A f \in Born, d \in Born :
                                                     f = a /\ d = b /\ Apart(f, d) => Apart(f, d)'
      BY <2>1, LoopCarries
    <2>2. \A S \in SUBSET Folder : ~Circle(S)
      BY DEF LoopInv
    <2>3. ASSUME folders' = folders
          PROVE  /\ \A S \in SUBSET Folder : ~Circle(S)'
                 /\ \A a, b : Apart(a, b) => Apart(a, b)'
      <3>1. Live' = Live
        BY <2>3 DEF Live, Born
      <3> QED
        BY <2>2, <2>3, <3>1 DEF Circle, Apart, Closed
    <2>4. CASE CreateFolder(r)
      <3>1. req[r] # None /\ req[r].dest \in Born \cup {Root}
        BY <2>4 DEF CreateFolder, At, Placed, Sound
      <3>2. PICK f \in Folder \ Born :
              folders' = [folders EXCEPT ![f] = [parent |-> req[r].dest, live |-> TRUE]]
        BY <2>4 DEF CreateFolder
      <3> QED
        BY <2>2, <3>1, <3>2, NewLeaf
    <2>5. CASE MoveFolder(r)
      <3>1. PICK f \in Live, p \in Place : f = req[r].item /\ p = req[r].dest
        <4>1. req[r] # None /\ req[r].op = "moveFolder" /\ req[r].item \in Live
          BY <2>5 DEF MoveFolder, At
        <4> QED
          BY <4>1 DEF Placed, Sound, Born, Place
      <3>2. folders' = [folders EXCEPT ![f].parent = p]
        BY <2>5, <3>1 DEF MoveFolder
      <3>3. Apart(f, p)
        <4>1. CASE p = Root
          BY <4>1 DEF Apart, Live, Born, Item
        <4>2. CASE p # Root
          <5>1. r \in Checked
            BY <2>5, <3>1, <4>2 DEF MoveFolder, Checked
          <5> QED
            BY <3>1, <5>1 DEF LoopInv
        <4> QED
          BY <4>1, <4>2
      <3>4. \A S \in SUBSET Folder : ~Circle(S)'
        BY <2>2, <3>2, <3>3, SafeMove
      <3>5. ASSUME NEW q \in Checked' PROVE p = Root
        <4>1. q \in Checked /\ q # r
          BY <2>1 DEF Stays
        <4>2. r \notin Checked
          BY <4>1 DEF LoopInv
        <4> QED
          BY <2>5, <3>1, <4>2 DEF MoveFolder, Checked
      <3>6. CASE p = Root
        <4>1. folders' = [folders EXCEPT ![f].parent = Root]
          BY <3>2, <3>6
        <4> QED
          BY <3>4, <4>1, RootMove
      <3> QED
        BY <3>4, <3>5, <3>6
    <2>6. CASE CommitDeleteFolder(r)
      <3>1. ASSUME NEW g \in Live' PROVE g \in Live /\ folders'[g].parent = folders[g].parent
        <4>1. g \in Folder /\ folders'[g] # None /\ folders'[g].live
          BY DEF Live, Born
        <4>2. folders'[g] = IF g \in req[r].held THEN [folders[g] EXCEPT !.live = FALSE]
                                                 ELSE folders[g]
          BY <2>6, <4>1 DEF CommitDeleteFolder
        <4>3. g \notin req[r].held
          <5>1. SUFFICES ASSUME g \in req[r].held PROVE FALSE
            OBVIOUS
          <5>2. g \in Born
            BY <2>6, <4>1, <5>1 DEF CommitDeleteFolder, At, Placed, Sound, BornFiles
          <5>3. folders[g] \in FolderRow
            BY <5>2 DEF Born, TypeOK
          <5> QED
            BY <4>1, <4>2, <5>1, <5>3 DEF FolderRow
        <4> QED
          BY <4>1, <4>2, <4>3 DEF Live, Born
      <3> QED
        BY <2>2, <3>1, FewerFolders
    <2>7. CASE ~(CreateFolder(r) \/ MoveFolder(r) \/ CommitDeleteFolder(r))
      <3>1. folders' = folders
        <4>1. CASE FolderStep(r)
          BY <1>2, <2>7, <4>1 DEF FolderStep, StartCreateFolder, StartMoveFolder, StartDeleteFolder,
             SelectFolders, MarkFolders, FindFiles, TakeFiles
        <4>2. CASE FileStep(r)
          BY <4>2 DEF FileStep, StartUpload, CheckQuota, CommitUpload, SkipPart, StartMoveFile,
             MoveFile, StartDeleteFile, LockFile, CommitDeleteFile
        <4>3. CASE Recalculate(r)
          BY <4>3, RecalculateStep
        <4> QED
          BY <4>1, <4>2, <4>3 DEF GiveUp
      <3> QED
        BY <2>3, <3>1
    <2> QED
      BY <2>4, <2>5, <2>6, <2>7
  <1> QED
    BY <1>1, <1>2

LEMMA InitLoops == Init => LoopInv
  <1> SUFFICES ASSUME Init PROVE LoopInv
    OBVIOUS
  <1>1. Live = {} /\ Checked = {}
    BY DEF Init, Live, Born, Checked, At
  <1> QED
    BY <1>1 DEF LoopInv, Circle

(* However folders and files are created, moved and deleted by however many *)
(* requests, no live folder comes to lie under itself unless two moves of   *)
(* folders were past their checks at the same time.                         *)
THEOREM NoLoopsAlone == Spec => []OnlyOverlapLoops
  <1> DEFINE Inv == TypeOK /\ Placed /\ LoopInv
  <1>1. Init => Inv
    BY InitType, InitLoops
  <1>2. Inv /\ [Next]_vars => Inv'
    <2>1. CASE UNCHANGED vars
      <3>1. Live' = Live /\ Checked' = Checked
        BY <2>1 DEF vars, Live, Born, Checked, At
      <3>2. LoopInv => LoopInv'
        BY <2>1, <3>1 DEF vars, LoopInv, Circle, Apart, Closed
      <3> QED
        BY <2>1, <3>2, StepType
    <2>2. CASE Next
      BY <2>2, StepType, StepLoops DEF Next
    <2> QED
      BY <2>1, <2>2
  <1>3. Inv => OnlyOverlapLoops
    BY LoopIsCircle DEF LoopInv, OnlyOverlapLoops
  <1> QED
    BY <1>1, <1>2, <1>3, PTL DEF Spec

-----------------------------------------------------------------------------
(* Deletions.                                                               *)

(* What a deletion has read and locked so far has in it what stayed.        *)
Covers(r) ==
    req[r] # None /\ req[r].op = "deleteFolder" =>
      /\ stayed[r] \subseteq Within(r)
      /\ req[r].pc = "mark" => stayed[r] \cap Folder \subseteq req[r].plan
      /\ req[r].pc \in {"find", "take", "commit"} => stayed[r] \cap Folder \subseteq req[r].held
      /\ req[r].pc = "take" => \A x \in stayed[r] \cap File : <<x, files[x].at>> \in req[r].plan
      /\ req[r].pc = "commit" => stayed[r] \cap File \subseteq req[r].held

DeleteInv == \A r \in Request : Covers(r)

LEMMA BelowMore ==
  ASSUME NEW f \in Live
  PROVE  Below(f, Live) \subseteq Below(f, Born)
  <1>1. Live \subseteq Born /\ f \in Born
    BY DEF Live
  <1>2. ASSUME NEW g \in Below(f, Live), NEW S \in SUBSET Born, f \in S, Closed(S, Born)
        PROVE  g \in S
    <2>1. S \cap Live \in SUBSET Live /\ f \in S \cap Live
      BY <1>2
    <2>2. Closed(S \cap Live, Live)
      BY <1>1, <1>2 DEF Closed
    <2> QED
      BY <2>1, <2>2 DEF Below
  <1>3. Below(f, Live) \subseteq Born
    BY <1>1, BelowIn
  <1> QED
    BY <1>1, <1>2, <1>3 DEF Below

LEMMA WhatStays ==
  ASSUME TypeOK, Witness, NEW r \in Request
  PROVE  /\ stayed'[r] \subseteq Within(r)'
         /\ req[r] # None => /\ stayed'[r] \subseteq stayed[r]
                             /\ \A x \in stayed'[r] \cap File : files'[x].at = files[x].at
  BY DEF Witness, TypeOK

(* The steps of other requests.                                             *)
LEMMA CoversOn ==
  ASSUME TypeOK, Witness, NEW r \in Request, Covers(r), req'[r] = req[r]
  PROVE  Covers(r)'
  BY WhatStays DEF Covers

(* The steps of the deletion itself.                                        *)
LEMMA CoversStep ==
  ASSUME TypeOK, Placed, Witness, NEW r \in Request, Covers(r),
         FolderStep(r) \/ FileStep(r) \/ Recalculate(r) \/ GiveUp(r)
  PROVE  Covers(r)'
  <1>w. stayed'[r] \subseteq Within(r)'
    BY WhatStays
  <1>n. ASSUME NEW t, req'[r] = t, t.op # "deleteFolder" PROVE Covers(r)'
    BY <1>n DEF Covers
  <1>e. ASSUME End(r) PROVE Covers(r)'
    <2>1. req'[r] = None
      BY <1>e DEF End, Become, TypeOK
    <2> QED
      BY <2>1 DEF Covers
  <1>b. ASSUME NEW t, Become(r, t) PROVE req'[r] = t
    BY <1>b DEF Become, TypeOK
  <1>t. req[r] # None => req[r] \in Task
    BY DEF TypeOK
  <1>1. ASSUME NEW f \in Folder, StartDeleteFolder(r, f) PROVE Covers(r)'
    <2>1. req'[r] = NewTask("deleteFolder", "select", f, None)
      BY <1>1, <1>b DEF StartDeleteFolder
    <2> QED
      BY <1>w, <2>1 DEF Covers, NewTask
  <1>2. CASE SelectFolders(r)
    <2> DEFINE B == Below(req[r].item, Live)
    <2>1. /\ req[r] \in Task /\ req[r].op = "deleteFolder" /\ req[r] # None
          /\ req'[r] = [req[r] EXCEPT !.pc = "mark", !.plan = B]
      BY <1>2, <1>t, <1>b DEF SelectFolders, At
    <2>2. req'[r].pc = "mark" /\ req'[r].plan = B
      BY <2>1 DEF Task
    <2>3. stayed'[r] \cap Folder \subseteq B
      <3>1. stayed'[r] \subseteq stayed[r] /\ stayed[r] \subseteq Inside(req[r].item)
        BY <2>1, WhatStays DEF Covers, Within
      <3> QED
        BY <3>1 DEF Inside, LiveFiles
    <2> QED
      BY <1>w, <2>2, <2>3 DEF Covers
  <1>3. CASE MarkFolders(r)
    <2>1. /\ req[r] \in Task /\ req[r].op = "deleteFolder" /\ req[r] # None /\ req[r].pc = "mark"
          /\ req'[r] = [req[r] EXCEPT !.pc = "find", !.plan = {}, !.held = req[r].plan]
      BY <1>3, <1>t, <1>b DEF MarkFolders, At
    <2>2. req'[r].pc = "find" /\ req'[r].held = req[r].plan
      BY <2>1 DEF Task
    <2>3. stayed'[r] \cap Folder \subseteq req[r].plan
      BY <2>1, WhatStays DEF Covers
    <2> QED
      BY <1>w, <2>2, <2>3 DEF Covers
  <1>4. CASE FindFiles(r)
    <2> DEFINE f == req[r].item
               found == {x \in LiveFiles : files[x].at \in SearchedFor(r)}
               P == {<<x, files[x].at>> : x \in found}
    <2>1. /\ req[r] \in Task /\ req[r].op = "deleteFolder" /\ req[r] # None /\ req[r].pc = "find"
          /\ req'[r] = [req[r] EXCEPT !.pc = "take", !.plan = P] /\ files' = files
      BY <1>4, <1>t, <1>b DEF FindFiles, At
    <2>2. req'[r].pc = "take" /\ req'[r].plan = P /\ req'[r].held = req[r].held
      BY <2>1 DEF Task
    <2>3. stayed'[r] \subseteq stayed[r] /\ stayed[r] \subseteq Inside(f)
      BY <2>1, WhatStays DEF Covers, Within
    <2>4. ASSUME NEW x \in stayed'[r] \cap File PROVE x \in found
      <3>1. x \in Inside(f) /\ x \notin Below(f, Live)
        BY <2>3, <2>4, BelowIn DEF Live, Born
      <3>2. x \in LiveFiles /\ files[x].at \in Below(f, Live)
        BY <3>1 DEF Inside
      <3>3. f \in Live
        BY <3>2 DEF Below
      <3> QED
        BY <3>2, <3>3, BelowMore DEF SearchedFor
    <2>5. stayed'[r] \cap Folder \subseteq req[r].held
      BY <2>1, <2>3 DEF Covers
    <2> HIDE DEF P, found
    <2>6. \A x \in stayed'[r] \cap File : <<x, files'[x].at>> \in P
      BY <2>1, <2>4 DEF P
    <2> QED
      BY <1>w, <2>2, <2>5, <2>6 DEF Covers
  <1>5. CASE TakeFiles(r)
    <2> DEFINE live == {p \in req[r].plan : p[1] \in LiveFiles}
               still == {p \in live : files[p[1]].at = p[2]}
    <2>1. PICK taken \in SUBSET live :
            /\ still \subseteq taken
            /\ Become(r, [req[r] EXCEPT !.pc = "commit", !.plan = {},
                                        !.held = @ \cup {p[1] : p \in taken}])
      BY <1>5 DEF TakeFiles
    <2> DEFINE K == {p[1] : p \in taken}
    <2>2. /\ req[r] \in Task /\ req[r].op = "deleteFolder" /\ req[r] # None /\ req[r].pc = "take"
          /\ req'[r] = [req[r] EXCEPT !.pc = "commit", !.plan = {}, !.held = @ \cup K]
      BY <1>5, <1>t, <1>b, <2>1 DEF TakeFiles, At
    <2>3. req'[r].pc = "commit" /\ req'[r].held = req[r].held \cup K
      <3> HIDE DEF K
      <3> QED
        BY <2>2 DEF Task
    <2>4. stayed'[r] \subseteq stayed[r] /\ stayed[r] \subseteq Inside(req[r].item)
      BY <2>2, WhatStays DEF Covers, Within
    <2>5. ASSUME NEW x \in stayed'[r] \cap File PROVE x \in K
      <3> DEFINE p == <<x, files[x].at>>
      <3>1. p \in req[r].plan
        BY <2>2, <2>4, <2>5 DEF Covers
      <3>2. x \in LiveFiles
        BY <2>4, <2>5, BelowIn DEF Inside, Live, Born
      <3>3. p \in still /\ p[1] = x
        BY <3>1, <3>2
      <3> QED
        BY <2>1, <3>3
    <2>6. stayed'[r] \cap Folder \subseteq req[r].held
      BY <2>2, <2>4 DEF Covers
    <2> HIDE DEF K
    <2> QED
      BY <1>w, <2>3, <2>5, <2>6 DEF Covers
  <1>6. ASSUME NEW t, Become(r, t), t.op # "deleteFolder" PROVE Covers(r)'
    BY <1>6, <1>b, <1>n
  <1>7. ASSUME req[r] # None, req[r].op # "deleteFolder", NEW t \in Task, t.op = req[r].op,
               Become(r, t)
        PROVE  Covers(r)'
    BY <1>6, <1>7
  <1>8. CASE CreateFolder(r) \/ MoveFolder(r) \/ CommitDeleteFolder(r) \/ MoveFile(r)
               \/ CommitDeleteFile(r) \/ GiveUp(r)
    BY <1>8, <1>e DEF CreateFolder, MoveFolder, CommitDeleteFolder, MoveFile, CommitDeleteFile, GiveUp
  <1>9. CASE \/ \E p \in Place : StartCreateFolder(r, p) \/ StartUpload(r, p)
             \/ \E f \in Folder, p \in Place : StartMoveFolder(r, f, p)
             \/ \E x \in File, p \in Place : StartMoveFile(r, x, p)
             \/ \E x \in File : StartDeleteFile(r, x)
    BY <1>6, <1>9 DEF StartCreateFolder, StartUpload, StartMoveFolder, StartMoveFile,
       StartDeleteFile, NewTask
  <1>10. CASE CheckSubtree(r) \/ (\E s \in Size : CheckQuota(r, s)) \/ CommitUpload(r)
              \/ SkipPart(r) \/ LockFile(r)
    <2>1. req[r] \in Task /\ req[r] # None /\ req[r].op # "deleteFolder"
      BY <1>10, <1>t DEF CheckSubtree, CheckQuota, CommitUpload, SkipPart, LockFile, At
    <2>2. ASSUME NEW s, NEW pc, NEW h
          PROVE  /\ [req[r] EXCEPT !.pc = pc].op = req[r].op
                 /\ [req[r] EXCEPT !.pc = pc, !.size = s].op = req[r].op
                 /\ [req[r] EXCEPT !.pc = pc, !.held = h].op = req[r].op
      BY <2>1 DEF Task
    <2> QED
      BY <1>6, <1>10, <2>1, <2>2 DEF CheckSubtree, Proceed, CheckQuota, CommitUpload, SkipPart, LockFile
  <1>11. CASE Recalculate(r)
    <2>1. PICK t \in Task \cup {None} : Become(r, t) /\ (t # None => t.op = "recalculate")
      BY <1>11, RecalculateStep
    <2>2. req'[r] = t
      BY <2>1, <1>b
    <2> QED
      BY <2>1, <2>2 DEF Covers
  <1> QED
    BY <1>1, <1>2, <1>3, <1>4, <1>5, <1>8, <1>9, <1>10, <1>11 DEF FolderStep, FileStep

LEMMA StepDeletes == TypeOK /\ Placed /\ DeleteInv /\ [Next]_vars => DeleteInv'
  <1> SUFFICES ASSUME TypeOK, Placed, DeleteInv, [Next]_vars, NEW q \in Request PROVE Covers(q)'
    BY DEF DeleteInv
  <1>1. Covers(q)
    BY DEF DeleteInv
  <1>2. CASE UNCHANGED vars
    <2>1. Within(q)' = Within(q)
      BY <1>2 DEF vars, Within, Inside, Below, Closed, Live, Born, LiveFiles
    <2> QED
      BY <1>1, <1>2, <2>1 DEF vars, Covers
  <1>3. ASSUME NEW r \in Request, FolderStep(r) \/ FileStep(r) \/ Recalculate(r) \/ GiveUp(r),
               Witness, r # q
        PROVE  req'[q] = req[q]
    <2>1. ASSUME NEW t, Become(r, t) PROVE req'[q] = req[q]
      BY <1>3, <2>1 DEF Become, TypeOK
    <2>2. CASE FolderStep(r)
      BY <2>1, <2>2 DEF FolderStep, StartCreateFolder, StartMoveFolder, StartDeleteFolder,
         CreateFolder, CheckSubtree, Proceed, MoveFolder, End, SelectFolders, MarkFolders,
         FindFiles, TakeFiles, CommitDeleteFolder
    <2>3. CASE FileStep(r)
      BY <2>1, <2>3 DEF FileStep, StartUpload, CheckQuota, CommitUpload, SkipPart, StartMoveFile,
         MoveFile, End, StartDeleteFile, LockFile, CommitDeleteFile
    <2>4. CASE Recalculate(r)
      BY <2>1, <2>4, RecalculateStep
    <2> QED
      BY <1>3, <2>1, <2>2, <2>3, <2>4 DEF GiveUp, End
  <1>4. CASE Next
    BY <1>1, <1>3, <1>4, CoversOn, CoversStep DEF Next
  <1> QED
    BY <1>2, <1>4

LEMMA CommitDeletesAll ==
  ASSUME TypeOK, Placed, DeleteInv, NEW r \in Request, At(r, "deleteFolder", "commit"),
         CommitDeleteFolder(r)
  PROVE  stayed[r] \cap (Live' \cup LiveFiles') = {}
  <1>1. req[r] # None /\ req[r].op = "deleteFolder" /\ req[r].pc = "commit"
    BY DEF At
  <1>2. stayed[r] \subseteq req[r].held
    <2>1. stayed[r] \subseteq Item
      BY DEF TypeOK
    <2> QED
      BY <1>1, <2>1 DEF DeleteInv, Covers, Item
  <1>3. req[r].held \subseteq Born \cup BornFiles
    BY <1>1 DEF Placed, Sound
  <1>4. ASSUME NEW f \in Live', f \in req[r].held PROVE FALSE
    <2>1. f \in Born
      BY <1>3, <1>4 DEF Live, Born, BornFiles
    <2>2. f \in Folder /\ folders[f] \in FolderRow
      BY <2>1 DEF Born, TypeOK
    <2>3. folders'[f] = [folders[f] EXCEPT !.live = FALSE]
      BY <1>4, <2>2 DEF CommitDeleteFolder
    <2>4. ~folders'[f].live
      BY <2>2, <2>3 DEF FolderRow
    <2> QED
      BY <1>4, <2>4 DEF Live
  <1>5. ASSUME NEW x \in LiveFiles', x \in req[r].held PROVE FALSE
    <2>1. x \in BornFiles
      BY <1>3, <1>5 DEF LiveFiles, Born, BornFiles
    <2>2. x \in File /\ files[x] \in FileRow
      BY <2>1 DEF BornFiles, TypeOK
    <2>3. files'[x] = [files[x] EXCEPT !.live = FALSE]
      BY <1>5, <2>2 DEF CommitDeleteFolder
    <2>4. ~files'[x].live
      BY <2>2, <2>3 DEF FileRow
    <2> QED
      BY <1>5, <2>4 DEF LiveFiles
  <1> QED
    BY <1>2, <1>4, <1>5

(* When the deletion of a folder commits, everything that was inside it     *)
(* since the deletion began is deleted, whatever other requests did.        *)
THEOREM DeletionsTakeContents == Spec => DeletedWithContents
  <1> DEFINE Inv == TypeOK /\ Placed /\ DeleteInv
  <1>1. Init => Inv
    BY InitType DEF Init, DeleteInv, Covers
  <1>2. Inv /\ [Next]_vars => Inv'
    BY StepType, StepDeletes
  <1>3. Inv => [\A r \in Request : At(r, "deleteFolder", "commit") /\ CommitDeleteFolder(r)
                  => stayed[r] \cap (Live' \cup LiveFiles') = {}]_vars
    BY CommitDeletesAll
  <1> QED
    BY <1>1, <1>2, <1>3, PTL DEF Spec, DeletedWithContents

-----------------------------------------------------------------------------
(* The account.                                                             *)

(* What a transaction has updated is live and updated by no other; the      *)
(* deletion of a file has the file.                                         *)
HeldInv ==
    /\ \A r \in Request : req[r] # None =>
         /\ req[r].held \cap File \subseteq LiveFiles
         /\ At(r, "deleteFile", "commit") => req[r].item \in req[r].held
    /\ \A q, r \in Request : q # r /\ req[q] # None /\ req[r] # None =>
         req[q].held \cap req[r].held \cap File = {}

(* Files that were deleted along with a folder are not live, so none is     *)
(* charged twice.                                                           *)
AccountInv ==
    /\ HeldInv
    /\ IsFiniteSet(BornFiles)
    /\ swept \subseteq BornFiles \ LiveFiles
    /\ UsageAccounted

Bytes(S) == SumFunction([x \in S |-> files[x].size])

LEMMA AccountIs ==
  UsageAccounted <=> (~overtaken => used = Bytes(Charged))
  BY DEF UsageAccounted, Bytes

LEMMA ChargedFiles ==
  ASSUME TypeOK, AccountInv
  PROVE  /\ Charged \subseteq BornFiles /\ IsFiniteSet(Charged)
         /\ \A x \in BornFiles : files[x] \in FileRow /\ files[x].size \in Nat
  <1>1. Charged \subseteq BornFiles
    BY DEF AccountInv, Charged, LiveFiles, BornFiles
  <1>2. IsFiniteSet(Charged)
    BY <1>1, FS_Subset DEF AccountInv
  <1>3. ASSUME NEW x \in BornFiles PROVE files[x] \in FileRow /\ files[x].size \in Nat
    BY <1>3 DEF BornFiles, TypeOK, FileRow
  <1> QED
    BY <1>1, <1>2, <1>3

(* What the request itself holds may stay held.                             *)
LEMMA OwnHeld ==
  ASSUME HeldInv, NEW r \in Request, req[r] # None
  PROVE  req[r].held \cap File \subseteq LiveFiles /\ req[r].held \cap File \cap Locked(r) = {}
  <1>1. ASSUME NEW x \in req[r].held \cap File, x \in Locked(r) PROVE FALSE
    <2>1. PICK H \in {req[p].held : p \in {p \in Request \ {r} : req[p] # None}} : x \in H
      BY <1>1 DEF Locked
    <2>2. PICK q \in Request \ {r} : req[q] # None /\ x \in req[q].held
      BY <2>1
    <2> QED
      BY <1>1, <2>2 DEF HeldInv
  <1> QED
    BY <1>1 DEF HeldInv

LEMMA HeldStep ==
  ASSUME TypeOK, HeldInv, NEW r \in Request, NEW t, Become(r, t),
         t # None =>
             /\ t.held \cap File \subseteq LiveFiles'
             /\ t.held \cap File \cap Locked(r) = {}
             /\ t.op = "deleteFile" /\ t.pc = "commit" => t.item \in t.held,
         \A q \in Request \ {r} : req[q] # None => req[q].held \cap File \subseteq LiveFiles'
  PROVE  HeldInv'
  <1>1. req'[r] = t /\ \A q \in Request \ {r} : req'[q] = req[q]
    BY DEF Become, TypeOK
  <1>2. \A q \in Request \ {r} : req[q] # None => req[q].held \subseteq Locked(r)
    BY DEF Locked
  <1>3. ASSUME NEW q \in Request, req'[q] # None
        PROVE  /\ req'[q].held \cap File \subseteq LiveFiles'
               /\ At(q, "deleteFile", "commit")' => req'[q].item \in req'[q].held
    BY <1>1, <1>3 DEF HeldInv, At
  <1>4. ASSUME NEW q \in Request, NEW p \in Request, q # p, req'[q] # None, req'[p] # None
        PROVE  req'[q].held \cap req'[p].held \cap File = {}
    <2>1. CASE q # r /\ p # r
      BY <1>1, <1>4, <2>1 DEF HeldInv
    <2>2. CASE q = r
      BY <1>1, <1>2, <1>4, <2>2
    <2>3. CASE p = r
      BY <1>1, <1>2, <1>4, <2>3
    <2> QED
      BY <2>1, <2>2, <2>3
  <1> QED
    BY <1>3, <1>4 DEF HeldInv

(* A step that leaves the files and the account alone.                      *)
LEMMA QuietAccount ==
  ASSUME TypeOK, AccountInv, NEW r \in Request, NEW t, Become(r, t),
         UNCHANGED <<files, used, swept, overtaken>>,
         t # None =>
             /\ t.held \cap File \subseteq LiveFiles
             /\ t.held \cap File \cap Locked(r) = {}
             /\ t.op = "deleteFile" /\ t.pc = "commit" => t.item \in t.held
  PROVE  AccountInv'
  <1>1. LiveFiles' = LiveFiles /\ BornFiles' = BornFiles
    BY DEF LiveFiles, BornFiles
  <1>2. HeldInv'
    BY <1>1, HeldStep DEF AccountInv, HeldInv
  <1>3. UsageAccounted'
    BY <1>1 DEF AccountInv, UsageAccounted, Charged
  <1> QED
    BY <1>1, <1>2, <1>3 DEF AccountInv

(* ... in particular one that ends or starts a request or goes on with what *)
(* it holds.                                                                *)
LEMMA GoesOn ==
  ASSUME TypeOK, AccountInv, NEW r \in Request, NEW t, Become(r, t),
         UNCHANGED <<files, used, swept, overtaken>>,
         t # None => /\ t.held = {} \/ (req[r] # None /\ t.held = req[r].held)
                     /\ ~(t.op = "deleteFile" /\ t.pc = "commit")
  PROVE  AccountInv'
  <1>1. ASSUME t # None
        PROVE  t.held \cap File \subseteq LiveFiles /\ t.held \cap File \cap Locked(r) = {}
    BY <1>1, OwnHeld DEF AccountInv
  <1> QED
    BY <1>1, QuietAccount

(* What a task that starts or goes on holds.                                *)
LEMMA NewHolds ==
  ASSUME NEW op, NEW pc, NEW item, NEW dest
  PROVE  /\ NewTask(op, pc, item, dest).held = {}
         /\ NewTask(op, pc, item, dest).op = op /\ NewTask(op, pc, item, dest).pc = pc
  BY DEF NewTask

LEMMA FolderStepAccount ==
  ASSUME TypeOK, Placed, AccountInv, NEW r \in Request, FolderStep(r)
  PROVE  AccountInv'
  <1>t. req[r] # None => req[r] \in Task /\ Sound(req[r])
    BY DEF TypeOK, Placed
  <1>1. ASSUME NEW p \in Place, StartCreateFolder(r, p) PROVE AccountInv'
    BY <1>1, NewHolds, GoesOn DEF StartCreateFolder
  <1>2. ASSUME NEW f \in Folder, NEW p \in Place, StartMoveFolder(r, f, p) PROVE AccountInv'
    <2> PICK pc : pc = IF p = Root THEN "write" ELSE "subtree"
      OBVIOUS
    <2> QED
      BY <1>2, NewHolds, GoesOn DEF StartMoveFolder
  <1>3. ASSUME NEW f \in Folder, StartDeleteFolder(r, f) PROVE AccountInv'
    BY <1>3, NewHolds, GoesOn DEF StartDeleteFolder
  <1>4. CASE CreateFolder(r) \/ MoveFolder(r)
    BY <1>4, GoesOn DEF CreateFolder, MoveFolder, End
  <1>5. CASE CheckSubtree(r)
    <2> PICK t : t = [req[r] EXCEPT !.pc = "write"]
      OBVIOUS
    <2>1. t.held = req[r].held /\ t.op = "moveFolder"
      BY <1>t, <1>5 DEF CheckSubtree, At, Task
    <2> QED
      BY <1>5, <2>1, GoesOn DEF CheckSubtree, At, Proceed
  <1>6. CASE SelectFolders(r)
    <2> PICK t : t = [req[r] EXCEPT !.pc = "mark", !.plan = Below(req[r].item, Live)]
      OBVIOUS
    <2>1. t.held = req[r].held /\ t.op = "deleteFolder"
      BY <1>t, <1>6 DEF SelectFolders, At, Task
    <2> QED
      BY <1>6, <2>1, GoesOn DEF SelectFolders, At
  <1>7. CASE MarkFolders(r)
    <2> PICK t : t = [req[r] EXCEPT !.pc = "find", !.plan = {}, !.held = req[r].plan]
      OBVIOUS
    <2>1. t.held = req[r].plan /\ t.pc = "find"
      BY <1>t, <1>7 DEF MarkFolders, At, Task
    <2>2. req[r].plan \cap File = {}
      BY <1>t, <1>7 DEF MarkFolders, At, Sound, Born
    <2> QED
      BY <1>7, <2>1, <2>2, QuietAccount DEF MarkFolders
  <1>8. CASE FindFiles(r)
    <2> PICK found : found = {x \in LiveFiles : files[x].at \in SearchedFor(r)}
      OBVIOUS
    <2> PICK t : t = [req[r] EXCEPT !.pc = "take", !.plan = {<<x, files[x].at>> : x \in found}]
      OBVIOUS
    <2>1. t.held = req[r].held /\ t.pc = "take" /\ req[r] # None
      BY <1>t, <1>8 DEF FindFiles, At, Task
    <2>2. Become(r, t) /\ UNCHANGED <<folders, files, used, swept, overlapped, overtaken>>
      BY <1>8 DEF FindFiles
    <2> QED
      BY <2>1, <2>2, GoesOn
  <1>9. CASE TakeFiles(r)
    <2> PICK live : live = {p \in req[r].plan : p[1] \in LiveFiles}
      OBVIOUS
    <2>1. PICK taken \in SUBSET live :
            Become(r, [req[r] EXCEPT !.pc = "commit", !.plan = {},
                                     !.held = @ \cup {p[1] : p \in taken}])
      BY <1>9 DEF TakeFiles
    <2> PICK t : t = [req[r] EXCEPT !.pc = "commit", !.plan = {},
                                    !.held = @ \cup {p[1] : p \in taken}]
      OBVIOUS
    <2>2. t.held = req[r].held \cup {p[1] : p \in taken} /\ t.op = "deleteFolder"
      BY <1>t, <1>9 DEF TakeFiles, At, Task
    <2>3. \A p \in taken : p[1] \in LiveFiles /\ p[1] \notin Locked(r)
      BY <1>9 DEF TakeFiles
    <2>4. t.held \cap File \subseteq LiveFiles /\ t.held \cap File \cap Locked(r) = {}
      BY <1>9, <2>2, <2>3, OwnHeld DEF AccountInv, TakeFiles, At
    <2> QED
      BY <1>9, <2>1, <2>2, <2>4, QuietAccount DEF TakeFiles
  <1>10. CASE CommitDeleteFolder(r)
    <2> DEFINE gone == req[r].held \cap File
    <2>1. gone \subseteq LiveFiles
      BY <1>10, OwnHeld DEF AccountInv, CommitDeleteFolder, At
    <2>2. \A x \in BornFiles :
            /\ files'[x] # None /\ files'[x].size = files[x].size
            /\ files'[x].live <=> (x \notin gone /\ files[x].live)
      <3> SUFFICES ASSUME NEW x \in BornFiles
                   PROVE  /\ files'[x] # None /\ files'[x].size = files[x].size
                          /\ files'[x].live <=> (x \notin gone /\ files[x].live)
        OBVIOUS
      <3>1. x \in File /\ files[x] \in FileRow
        BY ChargedFiles DEF BornFiles
      <3>2. files'[x] = IF x \in gone THEN [files[x] EXCEPT !.live = FALSE] ELSE files[x]
        BY <1>10, <3>1 DEF CommitDeleteFolder
      <3>3. [files[x] EXCEPT !.live = FALSE] \in FileRow
        BY <3>1 DEF FileRow
      <3> HIDE DEF gone
      <3>4. CASE x \in gone
        BY <3>1, <3>2, <3>3, <3>4 DEF FileRow
      <3>5. CASE x \notin gone
        BY <3>1, <3>2, <3>5 DEF FileRow
      <3> QED
        BY <3>4, <3>5
    <2>3. \A x \in File \ BornFiles : files'[x] = None
      BY <1>10, <2>1 DEF CommitDeleteFolder, BornFiles, LiveFiles
    <2> HIDE DEF gone
    <2>4. BornFiles' = BornFiles /\ LiveFiles' = LiveFiles \ gone
      <3>1. BornFiles' = BornFiles
        BY <2>2, <2>3 DEF BornFiles
      <3>2. \A x \in File : x \in LiveFiles' <=> x \in LiveFiles \ gone
        BY <2>2, <2>3 DEF BornFiles, LiveFiles
      <3>3. LiveFiles \subseteq File /\ LiveFiles' \subseteq File
        BY DEF LiveFiles
      <3> QED
        BY <3>1, <3>2, <3>3
    <2>5. swept' = swept \cup gone
      BY <1>10 DEF CommitDeleteFolder, gone
    <2>6. Charged' = Charged
      BY <2>1, <2>4, <2>5 DEF Charged
    <2>7. UsageAccounted'
      <3>1. UNCHANGED <<used, overtaken>>
        BY <1>10 DEF CommitDeleteFolder
      <3>2. \A x \in Charged : files'[x].size = files[x].size
        BY <2>2, ChargedFiles
      <3>3. [x \in Charged |-> files[x].size]' = [x \in Charged |-> files[x].size]
        BY <2>6, <3>2
      <3> QED
        BY <3>1, <3>3 DEF AccountInv, UsageAccounted
    <2>8. HeldInv'
      <3>1. \A q \in Request \ {r} : req[q] # None => req[q].held \cap File \subseteq LiveFiles'
        BY <1>10, <2>4 DEF AccountInv, HeldInv, CommitDeleteFolder, At, gone
      <3> QED
        BY <1>10, <3>1, HeldStep DEF AccountInv, CommitDeleteFolder, End
    <2> QED
      BY <2>1, <2>4, <2>5, <2>7, <2>8 DEF AccountInv, LiveFiles, BornFiles
  <1> QED
    BY <1>1, <1>2, <1>3, <1>4, <1>5, <1>6, <1>7, <1>8, <1>9, <1>10 DEF FolderStep

(* A new file is charged with its size.                                     *)
LEMMA UploadAccount ==
  ASSUME TypeOK, Placed, AccountInv, NEW r \in Request, CommitUpload(r)
  PROVE  AccountInv'
  <1> PICK s : s = req[r].size
    OBVIOUS
  <1>1. req[r] \in Task /\ s \in Size /\ s \in Nat
    BY DEF TypeOK, Placed, CommitUpload, At, Sound
  <1>2. PICK x \in {x \in File : files[x] = None} :
          files' = [files EXCEPT ![x] = [at |-> req[r].dest, size |-> s, live |-> TRUE]]
    BY DEF CommitUpload
  <1> PICK row : row = [at |-> req[r].dest, size |-> s, live |-> TRUE]
    OBVIOUS
  <1>3. row \in FileRow /\ row.size = s /\ row.live /\ row # None
    <2>1. req[r].dest \in Place
      BY DEF Placed, CommitUpload, At, Sound, Place, Born
    <2>2. row \in FileRow
      BY <1>1, <2>1 DEF FileRow
    <2> QED
      BY <2>2
  <1>4. files'[x] = row /\ \A y \in File \ {x} : files'[y] = files[y]
    BY <1>2 DEF TypeOK
  <1>5. BornFiles' = BornFiles \cup {x} /\ LiveFiles' = LiveFiles \cup {x} /\ x \notin BornFiles
    <2>1. BornFiles' = BornFiles \cup {x} /\ x \notin BornFiles
      BY <1>2, <1>3, <1>4 DEF BornFiles
    <2>2. \A y \in File : y \in LiveFiles' <=> y \in LiveFiles \cup {x}
      BY <1>2, <1>3, <1>4 DEF LiveFiles
    <2>3. LiveFiles \subseteq File /\ LiveFiles' \subseteq File /\ x \in File
      BY DEF LiveFiles
    <2> QED
      BY <2>1, <2>2, <2>3
  <1>6. /\ used' = used + s /\ UNCHANGED <<swept, overtaken>>
        /\ Become(r, [req[r] EXCEPT !.pc = "part", !.size = None])
    BY DEF CommitUpload
  <1>7. IsFiniteSet(BornFiles') /\ swept' \subseteq BornFiles' \ LiveFiles'
    BY <1>5, <1>6, FS_AddElement DEF AccountInv
  <1>8. HeldInv'
    <2> PICK t : t = [req[r] EXCEPT !.pc = "part", !.size = None]
      OBVIOUS
    <2>1. t.held = req[r].held /\ t.pc = "part" /\ req[r] # None
      BY <1>1 DEF CommitUpload, At, Task
    <2>2. /\ t.held \cap File \subseteq LiveFiles' /\ t.held \cap File \cap Locked(r) = {}
          /\ \A q \in Request \ {r} : req[q] # None => req[q].held \cap File \subseteq LiveFiles'
      BY <1>5, <2>1, OwnHeld DEF AccountInv, HeldInv
    <2> QED
      BY <1>6, <2>1, <2>2, HeldStep DEF AccountInv
  <1>9. UsageAccounted'
    <2> SUFFICES ASSUME ~overtaken PROVE used' = Bytes(Charged)'
      BY <1>6 DEF UsageAccounted, Bytes
    <2> DEFINE a == [y \in Charged |-> files[y].size]
               b == [y \in Charged \cup {x} |-> files'[y].size]
    <2>1. Charged' = Charged \cup {x} /\ x \notin Charged
      BY <1>5, <1>6, ChargedFiles DEF Charged
    <2>2. Bytes(Charged)' = SumFunctionOnSet(b, Charged \cup {x})
      BY <2>1 DEF Bytes, SumFunction
    <2>3. used = SumFunctionOnSet(a, Charged)
      BY DEF AccountInv, UsageAccounted, SumFunction
    <2>4. \A y \in Charged : a[y] = b[y] /\ b[y] \in Nat
      BY <1>4, <2>1, ChargedFiles DEF BornFiles
    <2>5. b[x] = s
      BY <1>3, <1>4
    <2>6. IsFiniteSet(Charged)
      BY ChargedFiles
    <2> HIDE DEF a, b
    <2>7. SumFunctionOnSet(b, Charged \cup {x}) = s + SumFunctionOnSet(b, Charged)
      BY <1>1, <2>1, <2>4, <2>5, <2>6, SumAdd
    <2>8. SumFunctionOnSet(b, Charged) = SumFunctionOnSet(a, Charged)
          /\ SumFunctionOnSet(b, Charged) \in Nat
      BY <2>4, <2>6, SumSame, SumNat
    <2> QED
      BY <1>1, <1>6, <2>2, <2>3, <2>7, <2>8
  <1> QED
    BY <1>7, <1>8, <1>9 DEF AccountInv

(* A deleted file is taken off the account, which never had less.           *)
LEMMA DeletionAccount ==
  ASSUME TypeOK, Placed, AccountInv, NEW r \in Request, CommitDeleteFile(r)
  PROVE  AccountInv'
  <1> PICK x : x = req[r].item
    OBVIOUS
  <1>1. x \in LiveFiles /\ x \in BornFiles /\ x \in req[r].held /\ x \in File
    BY OwnHeld DEF CommitDeleteFile, At, AccountInv, HeldInv, Placed, Sound, BornFiles
  <1>2. files' = [files EXCEPT ![x].live = FALSE] /\ End(r) /\ UNCHANGED <<swept, overtaken>>
    BY DEF CommitDeleteFile
  <1>3. /\ files'[x] # None /\ files'[x].size = files[x].size /\ ~files'[x].live
        /\ \A y \in File \ {x} : files'[y] = files[y]
    <2>1. files[x] \in FileRow
      BY <1>1, ChargedFiles
    <2>2. files'[x] = [files[x] EXCEPT !.live = FALSE] /\ files'[x] \in FileRow
      BY <1>1, <1>2, <2>1 DEF TypeOK, FileRow
    <2> QED
      BY <1>1, <1>2, <2>1, <2>2 DEF TypeOK, FileRow
  <1>4. BornFiles' = BornFiles /\ LiveFiles' = LiveFiles \ {x}
    BY <1>1, <1>3 DEF BornFiles, LiveFiles
  <1>5. HeldInv'
    <2>1. \A q \in Request \ {r} : req[q] # None => req[q].held \cap File \subseteq LiveFiles'
      BY <1>1, <1>4 DEF AccountInv, HeldInv, CommitDeleteFile, At
    <2> QED
      BY <1>2, <2>1, HeldStep DEF AccountInv, End
  <1>6. UsageAccounted'
    <2> SUFFICES ASSUME ~overtaken PROVE used' = Bytes(Charged)'
      BY <1>2 DEF UsageAccounted, Bytes
    <2> DEFINE rest == Charged \ {x}
               a == [y \in Charged |-> files[y].size]
               b == [y \in rest |-> files'[y].size]
    <2>1. Charged' = rest /\ x \in Charged
      BY <1>1, <1>2, <1>4 DEF AccountInv, Charged
    <2>2. Bytes(Charged)' = SumFunctionOnSet(b, rest)
      BY <2>1 DEF Bytes, SumFunction
    <2>3. used = SumFunctionOnSet(a, Charged)
      BY DEF AccountInv, UsageAccounted, SumFunction
    <2>4. /\ \A y \in Charged : a[y] \in Nat
          /\ \A y \in rest : a[y] = b[y]
      BY <1>3, ChargedFiles DEF BornFiles
    <2>5. a[x] = files[x].size /\ a[x] \in Nat
      BY <2>1, <2>4
    <2>6. IsFiniteSet(Charged) /\ IsFiniteSet(rest) /\ rest \subseteq Charged
      BY ChargedFiles, FS_Subset
    <2> HIDE DEF a, b
    <2>7. SumFunctionOnSet(a, Charged) = a[x] + SumFunctionOnSet(a, rest)
      BY <2>1, <2>4, <2>6, SumRemove
    <2>8. SumFunctionOnSet(a, rest) \in Nat /\ SumFunctionOnSet(a, rest) = SumFunctionOnSet(b, rest)
      <3> HIDE DEF rest
      <3> QED BY <2>4, <2>6, SumSame, SumNat
    <2>9. used' = IF files[x].size > used THEN 0 ELSE used - files[x].size
      BY DEF CommitDeleteFile
    <2> HIDE DEF rest
    <2> QED
      BY <2>2, <2>3, <2>5, <2>7, <2>8, <2>9
  <1> QED
    BY <1>1, <1>2, <1>4, <1>5, <1>6 DEF AccountInv

LEMMA FileStepAccount ==
  ASSUME TypeOK, Placed, AccountInv, NEW r \in Request, FileStep(r)
  PROVE  AccountInv'
  <1>t. req[r] # None => req[r] \in Task /\ Sound(req[r])
    BY DEF TypeOK, Placed
  <1>1. ASSUME NEW p \in Place, StartUpload(r, p) PROVE AccountInv'
    BY <1>1, NewHolds, GoesOn DEF StartUpload
  <1>2. ASSUME NEW s \in Size, CheckQuota(r, s) PROVE AccountInv'
    <2> PICK t : t = [req[r] EXCEPT !.pc = "commit", !.size = s]
      OBVIOUS
    <2>1. t.held = req[r].held /\ t.op = "upload"
      BY <1>t, <1>2 DEF CheckQuota, At, Task
    <2> QED
      BY <1>2, <2>1, GoesOn DEF CheckQuota, At
  <1>3. CASE CommitUpload(r)
    BY <1>3, UploadAccount
  <1>4. CASE SkipPart(r)
    <2> PICK t : t = [req[r] EXCEPT !.pc = "part", !.size = None]
      OBVIOUS
    <2>1. t.held = req[r].held /\ t.op = "upload"
      BY <1>t, <1>4 DEF SkipPart, At, Task
    <2> QED
      BY <1>4, <2>1, GoesOn DEF SkipPart, At
  <1>5. ASSUME NEW x \in File, NEW p \in Place, StartMoveFile(r, x, p) PROVE AccountInv'
    BY <1>5, NewHolds, GoesOn DEF StartMoveFile
  <1>6. CASE MoveFile(r)
    <2> PICK x : x = req[r].item
      OBVIOUS
    <2>1. x \in LiveFiles /\ x \in File /\ files[x] \in FileRow
      BY <1>6, ChargedFiles DEF MoveFile, LiveFiles, BornFiles
    <2>2. /\ files'[x] # None /\ files'[x].size = files[x].size /\ files'[x].live
          /\ \A y \in File \ {x} : files'[y] = files[y]
      <3> PICK p : p = req[r].dest
        OBVIOUS
      <3>1. files' = [files EXCEPT ![x].at = p]
        BY <1>6 DEF MoveFile
      <3>2. p \in Place
        BY <1>t, <1>6 DEF MoveFile, At, Sound, Born, Place
      <3>3. files'[x] = [files[x] EXCEPT !.at = p]
        BY <2>1, <3>1 DEF TypeOK
      <3>4. files'[x] \in FileRow
        BY <2>1, <3>2, <3>3 DEF FileRow
      <3>5. files[x].live
        BY <2>1 DEF LiveFiles
      <3>6. \A y \in File \ {x} : files'[y] = files[y]
        BY <3>1 DEF TypeOK
      <3> QED
        BY <2>1, <3>3, <3>4, <3>5, <3>6 DEF FileRow
    <2>3. LiveFiles' = LiveFiles /\ BornFiles' = BornFiles
      BY <2>1, <2>2 DEF LiveFiles, BornFiles
    <2>4. HeldInv'
      BY <1>6, <2>3, HeldStep DEF AccountInv, HeldInv, MoveFile, End
    <2>5. Charged' = Charged /\ UNCHANGED <<used, swept, overtaken>>
      BY <1>6, <2>3 DEF Charged, MoveFile
    <2>6. \A y \in Charged : files'[y].size = files[y].size
      BY <2>2 DEF Charged, LiveFiles, TypeOK
    <2>7. [y \in Charged |-> files[y].size]' = [y \in Charged |-> files[y].size]
      BY <2>5, <2>6
    <2> QED
      BY <2>3, <2>4, <2>5, <2>7 DEF AccountInv, UsageAccounted
  <1>7. ASSUME NEW x \in File, StartDeleteFile(r, x) PROVE AccountInv'
    BY <1>7, NewHolds, GoesOn DEF StartDeleteFile
  <1>8. CASE LockFile(r)
    <2> PICK t : t = [req[r] EXCEPT !.pc = "commit", !.held = {req[r].item}]
      OBVIOUS
    <2>1. t.held = {req[r].item} /\ t.item = req[r].item
      BY <1>t, <1>8 DEF LockFile, At, Task
    <2> QED
      BY <1>8, <2>1, QuietAccount DEF LockFile, StillThere
  <1>9. CASE CommitDeleteFile(r)
    BY <1>9, DeletionAccount
  <1> QED
    BY <1>1, <1>2, <1>3, <1>4, <1>5, <1>6, <1>7, <1>8, <1>9 DEF FileStep

(* A recalculation writes what its snapshot adds up to.                     *)
LEMMA RecalculateAccount ==
  ASSUME TypeOK, Placed, AccountInv, NEW r \in Request, Recalculate(r)
  PROVE  AccountInv'
  <1>t. req[r] # None => req[r] \in Task /\ Sound(req[r])
    BY DEF TypeOK, Placed
  <1>w. ASSUME NEW t, Become(r, t), UNCHANGED files, swept' = {},
               t # None => req[r] # None /\ t.held = req[r].held /\ t.op = "recalculate",
               ~overtaken' => used' = Bytes(LiveFiles)
        PROVE  AccountInv'
    <2>1. LiveFiles' = LiveFiles /\ BornFiles' = BornFiles /\ Charged' = LiveFiles
      BY <1>w DEF LiveFiles, BornFiles, Charged
    <2>2. HeldInv'
      BY <1>w, <2>1, HeldStep, OwnHeld DEF AccountInv, HeldInv
    <2>3. UsageAccounted'
      BY <1>w, <2>1 DEF UsageAccounted, Bytes
    <2> QED
      BY <1>w, <2>1, <2>2, <2>3 DEF AccountInv
  <1>1. CASE StartRecalculate(r)
    <2> PICK pc : pc = IF LiveFiles = {} THEN "others" ELSE "set"
      OBVIOUS
    <2> PICK t : t = [NewTask("recalculate", pc, None, None) EXCEPT !.plan = LivePlaces]
      OBVIOUS
    <2>1. t.held = {} /\ t.op = "recalculate"
      BY DEF NewTask
    <2> QED
      BY <1>1, <2>1, GoesOn DEF StartRecalculate
  <1>2. CASE SetUsage(r)
    <2> PICK summed : summed = {p[1] : p \in req[r].plan}
      OBVIOUS
    <2> PICK t : t = [req[r] EXCEPT !.pc = "others", !.plan = {}]
      OBVIOUS
    <2>1. t.held = req[r].held /\ t.op = "recalculate" /\ req[r] # None
      BY <1>t, <1>2 DEF SetUsage, At, Task
    <2>2. used' = Bytes(summed) /\ overtaken' = (LiveFiles # summed)
      BY <1>2 DEF SetUsage, Bytes
    <2>3. Become(r, t) /\ UNCHANGED files /\ swept' = {}
      BY <1>2 DEF SetUsage
    <2> QED
      BY <1>w, <2>1, <2>2, <2>3
  <1>3. CASE CheckOthers(r)
    <2> PICK t : t = [req[r] EXCEPT !.pc = "zero"]
      OBVIOUS
    <2>1. t.held = req[r].held /\ t.op = "recalculate"
      BY <1>t, <1>3 DEF CheckOthers, At, Task
    <2> QED
      BY <1>3, <2>1, GoesOn DEF CheckOthers, At, Proceed
  <1>4. CASE ZeroUsage(r)
    <2>1. Bytes({}) = 0
      BY SumEmpty DEF Bytes, SumFunction
    <2>2. ~overtaken' => used' = Bytes(LiveFiles)
      BY <1>4, <2>1 DEF ZeroUsage
    <2> QED
      BY <1>4, <1>w, <2>2 DEF ZeroUsage, End
  <1> QED
    BY <1>1, <1>2, <1>3, <1>4 DEF Recalculate

LEMMA StepAccount == TypeOK /\ Placed /\ AccountInv /\ [Next]_vars => AccountInv'
  <1> SUFFICES ASSUME TypeOK, Placed, AccountInv, [Next]_vars PROVE AccountInv'
    OBVIOUS
  <1>1. CASE UNCHANGED vars
    BY <1>1 DEF vars, AccountInv, HeldInv, BornFiles, LiveFiles, UsageAccounted, Charged, At
  <1>2. ASSUME NEW r \in Request, GiveUp(r) PROVE AccountInv'
    BY <1>2, GoesOn DEF GiveUp, End
  <1> QED
    BY <1>1, <1>2, FolderStepAccount, FileStepAccount, RecalculateAccount DEF Next

(* Uploads, the two deletions and recalculations in any number and any      *)
(* interleaving: until a recalculation is overtaken, the account holds the  *)
(* sizes of the live files and of those deleted along with folders since    *)
(* the last one, each once, and nothing else.                               *)
THEOREM UsageIsAccounted == Spec => []UsageAccounted
  <1>1. Init => AccountInv
    <2> SUFFICES ASSUME Init PROVE AccountInv
      OBVIOUS
    <2>1. BornFiles = {} /\ LiveFiles = {} /\ swept = {} /\ used = 0 /\ HeldInv
      BY DEF Init, BornFiles, LiveFiles, HeldInv
    <2>2. UsageAccounted
      BY <2>1, SumEmpty DEF UsageAccounted, SumFunction, Charged
    <2> QED
      BY <2>1, <2>2, FS_EmptySet DEF AccountInv
  <1>2. AccountInv => UsageAccounted
    BY DEF AccountInv
  <1> QED
    BY <1>1, <1>2, InitType, StepType, StepAccount, PTL DEF Spec
=============================================================================
