------------------------ MODULE PreviewQueue_proofs ------------------------
(***************************************************************************)
(* Theorems about PreviewQueue for any number of workers, requests, files,  *)
(* jobs and attempts, and for every set of failures.                        *)
(*                                                                          *)
(* The first invariant, QueueInv, says what a worker's task and the row of  *)
(* its job have to do with each other at each step, and that no two tasks   *)
(* are about one job.  The second, FilesInv, follows the files behind the   *)
(* names from their creation to their publication.                          *)
(***************************************************************************)
EXTENDS PreviewQueue, TLAPS

USE NilAssumption, BoundAssumption, AttemptsAssumption

Busy == Steps \ {"idle", "claim"}

(* A task fits the rows of preview_jobs and the targets that are ready.  A  *)
(* job that was completed without an answer is about to be marked again.    *)
Fit(task, rows, done) ==
    /\ task \in Task
    /\ task.pc # "idle" => task.job \in Job
    /\ task.pc = "claim" => rows[task.job].status = "queued"
    /\ task.pc \in Busy =>
         /\ task.attempts = rows[task.job].attempts
         /\ \/ rows[task.job].status = "processing"
            \/ task.pc = "fail" /\ rows[task.job].status = "completed"
    /\ task.pc \in {"write", "rename"} => task.fd \in Inode
    /\ task.pc = "complete" => rows[task.job].target \in done

TasksInv ==
    \A w \in Worker :
        /\ Fit(wk[w], job, ready)
        /\ \A v \in Worker : v # w /\ wk[v].pc # "idle" /\ wk[w].pc # "idle"
                                => wk[v].job # wk[w].job

(* What a row promises.                                                     *)
Sound(row, done) ==
    /\ row \in Row
    /\ row.status # "absent" => row.target \in Target
    /\ row.status = "queued" => row.attempts < MaxAttempts
    /\ row.status = "completed" => row.target \in done

RowsInv == \A j \in Job : Sound(job[j], ready)

QueueInv == ShapeOK /\ TasksInv /\ RowsInv

-----------------------------------------------------------------------------
(* Replacing the task of one worker, and at most the row of its job.        *)

(* The worker goes on with its job, or is done with it.                     *)
LEMMA TaskReplaced ==
  ASSUME QueueInv, NEW w \in Worker, NEW task,
         wk[w].pc # "idle",
         wk' = [wk EXCEPT ![w] = task],
         Fit(task, job', ready'),
         task.pc # "idle" => task.job = wk[w].job,
         \A j \in Job \ {wk[w].job} : job'[j] = job[j],
         ready \subseteq ready'
  PROVE  TasksInv' /\ wk' \in [Worker -> Task]
  <1>1. wk \in [Worker -> Task] /\ task \in Task
    BY DEF QueueInv, ShapeOK, Fit
  <1>2. wk' \in [Worker -> Task] /\ wk'[w] = task
    BY <1>1
  <1>3. \A v \in Worker \ {w} : wk'[v] = wk[v]
    BY <1>1
  <1>4. ASSUME NEW v \in Worker \ {w}
        PROVE  Fit(wk[v], job', ready')
    <2>1. Fit(wk[v], job, ready)
      BY DEF QueueInv, TasksInv
    <2>2. wk[v].pc # "idle" => wk[v].job \in Job \ {wk[w].job}
      BY <2>1 DEF QueueInv, TasksInv, Fit
    <2>3. wk[v].pc # "idle" => job'[wk[v].job] = job[wk[v].job]
      BY <2>2
    <2> QED
      BY <2>1, <2>3 DEF Fit, Busy
  <1>5. ASSUME NEW u \in Worker, NEW v \in Worker, u # v,
               wk'[u].pc # "idle", wk'[v].pc # "idle"
        PROVE  wk'[u].job # wk'[v].job
    <2>1. \A x \in Worker : wk'[x].pc # "idle" => wk[x].pc # "idle" /\ wk'[x].job = wk[x].job
      BY <1>2, <1>3
    <2> QED
      BY <1>5, <2>1 DEF QueueInv, TasksInv
  <1> QED
    BY <1>2, <1>3, <1>4, <1>5 DEF TasksInv

(* Replacing a row, when the previews only grow.                            *)
LEMMA RowReplaced ==
  ASSUME QueueInv, NEW j \in Job, NEW row, job' = [job EXCEPT ![j] = row],
         Sound(row, ready'), ready \subseteq ready'
  PROVE  RowsInv' /\ job' \in [Job -> Row]
  <1>1. job \in [Job -> Row] /\ row \in Row
    BY DEF QueueInv, ShapeOK, Sound
  <1>2. job' \in [Job -> Row] /\ job'[j] = row /\ \A k \in Job \ {j} : job'[k] = job[k]
    BY <1>1
  <1>3. \A k \in Job : Sound(job[k], ready')
    BY DEF QueueInv, RowsInv, Sound
  <1> QED
    BY <1>2, <1>3 DEF RowsInv

(* Previews that grow keep the rows sound.                                  *)
LEMMA RowsKept ==
  ASSUME QueueInv, UNCHANGED job, ready \subseteq ready'
  PROVE  RowsInv' /\ job' \in [Job -> Row]
  BY DEF QueueInv, ShapeOK, RowsInv, Sound

(* What a worker's job is, once it has one.                                 *)
LEMMA HeldJob ==
  ASSUME QueueInv, NEW w \in Worker, wk[w].pc # "idle"
  PROVE  /\ wk[w] \in Task /\ wk[w].job \in Job
         /\ job[wk[w].job] \in Row /\ Sound(job[wk[w].job], ready)
         /\ TargetOf(w) \in Target
         /\ Fit(wk[w], job, ready)
  <1>1. Fit(wk[w], job, ready) /\ wk[w].job \in Job
    BY DEF QueueInv, TasksInv, Fit
  <1>2. Sound(job[wk[w].job], ready)
    BY <1>1 DEF QueueInv, RowsInv
  <1>3. job[wk[w].job].status # "absent"
    BY <1>1 DEF Fit, Busy, Task
  <1> QED
    BY <1>1, <1>2, <1>3 DEF Sound, Fit, TargetOf

(* A status other than "absent" can be given to a row that is in use.       *)
LEMMA StatusSound ==
  ASSUME NEW row, NEW done, Sound(row, done), row.status # "absent",
         NEW st \in Open \cup Ended,
         st = "queued" => row.attempts < MaxAttempts,
         st = "completed" => row.target \in done
  PROVE  /\ Sound([row EXCEPT !.status = st], done)
         /\ [row EXCEPT !.status = st].status = st
         /\ [row EXCEPT !.status = st].target = row.target
         /\ [row EXCEPT !.status = st].attempts = row.attempts
  BY DEF Sound, Row, Open, Ended

LEMMA NoTaskFits ==
  ASSUME NEW rows, NEW done
  PROVE  Fit(NoTask, rows, done) /\ NoTask.pc = "idle"
  BY DEF Fit, NoTask, Task, Steps, Busy

-----------------------------------------------------------------------------
(* The initial state, and the steps that leave the workers alone.           *)

LEMMA InitQueueInv == Init => QueueInv
  <1> SUFFICES ASSUME Init PROVE QueueInv
    OBVIOUS
  <1>1. ShapeOK
    BY DEF Init, ShapeOK, Row, Open, Ended, NoTask, Task, Steps
  <1>2. TasksInv
    BY NoTaskFits DEF Init, TasksInv
  <1>3. RowsInv
    BY DEF Init, RowsInv, Sound, Row
  <1> QED
    BY <1>1, <1>2, <1>3 DEF QueueInv

LEMMA RequestKeeps ==
  ASSUME QueueInv, NEW r \in Requester, NEW t \in Target, RequestPreview(r, t)
  PROVE  QueueInv'
  BY DEF QueueInv, ShapeOK, TasksInv, RowsInv, RequestPreview

LEMMA DeleteKeeps ==
  ASSUME QueueInv, NEW f \in File, DeleteFile(f)
  PROVE  QueueInv'
  BY DEF QueueInv, ShapeOK, TasksInv, RowsInv, DeleteFile

LEMMA InsertKeeps ==
  ASSUME QueueInv, NEW r \in Requester, InsertJob(r)
  PROVE  QueueInv'
  <1> DEFINE new == [status |-> "queued", target |-> asking[r], attempts |-> 0]
  <1>1. PICK j \in Absent : job' = [job EXCEPT ![j] = new]
    BY DEF InsertJob
  <1>2. j \in Job /\ job[j].status = "absent"
    BY <1>1 DEF Absent
  <1>3. asking[r] \in Target /\ UNCHANGED <<live, ready, object, temp, content, wk>>
    BY DEF InsertJob, QueueInv, ShapeOK
  <1>4. Sound(new, ready')
    BY <1>3 DEF Sound, Row, Open, Ended
  <1>5. RowsInv' /\ job' \in [Job -> Row]
    BY <1>1, <1>2, <1>3, <1>4, RowReplaced
  <1>6. TasksInv'
    <2>1. ASSUME NEW w \in Worker PROVE Fit(wk[w], job', ready)
      <3>1. Fit(wk[w], job, ready)
        BY DEF QueueInv, TasksInv
      <3>2. wk[w].pc # "idle" => wk[w].job # j
        BY <1>2, <3>1 DEF Fit, Busy, Task
      <3>3. wk[w].pc # "idle" => job'[wk[w].job] = job[wk[w].job]
        BY <1>1, <3>1, <3>2 DEF Fit, QueueInv, ShapeOK
      <3> QED
        BY <3>1, <3>3 DEF Fit, Busy
    <2> QED
      BY <1>3, <2>1 DEF QueueInv, TasksInv
  <1>7. asking' \in [Requester -> Target \cup {Nil}]
    BY DEF InsertJob, QueueInv, ShapeOK
  <1> QED
    BY <1>3, <1>5, <1>6, <1>7 DEF QueueInv, ShapeOK

-----------------------------------------------------------------------------
(* The steps of a worker.                                                   *)

LEMMA LockKeeps ==
  ASSUME QueueInv, NEW w \in Worker, LockJob(w)
  PROVE  QueueInv'
  <1>1. PICK j \in Queued : wk' = [wk EXCEPT ![w].pc = "claim", ![w].job = j]
    BY DEF LockJob
  <1>2. wk \in [Worker -> Task] /\ wk[w].pc = "idle" /\ j \in Job /\ job[j].status = "queued"
    BY <1>1 DEF LockJob, Queued, QueueInv, ShapeOK
  <1>3. UNCHANGED <<job, live, ready, object, temp, content, asking>>
    BY DEF LockJob
  <1> DEFINE task == [wk[w] EXCEPT !.pc = "claim", !.job = j]
  <1>4. task \in Task /\ task.pc = "claim" /\ task.job = j
    BY <1>2 DEF Task, Steps
  <1>5. wk' = [wk EXCEPT ![w] = task]
    BY <1>1, <1>2
  <1>6. Fit(task, job, ready)
    BY <1>2, <1>4 DEF Fit, Busy
  <1> HIDE DEF task
  <1>7. wk' \in [Worker -> Task] /\ wk'[w] = task /\ \A v \in Worker \ {w} : wk'[v] = wk[v]
    BY <1>2, <1>4, <1>5
  <1>8. \A v \in Worker \ {w} : wk[v].pc # "idle" => wk[v].job # j
    <2> TAKE v \in Worker \ {w}
    <2>1. Fit(wk[v], job, ready)
      BY DEF QueueInv, TasksInv
    <2>2. ~(wk[v].pc = "claim" /\ wk[v].job = j)
      BY <1>1 DEF Queued, Unlocked
    <2> QED
      BY <1>2, <2>1, <2>2 DEF Fit, Busy, Task
  <1>9. TasksInv'
    BY <1>3, <1>4, <1>6, <1>7, <1>8 DEF QueueInv, TasksInv
  <1> QED
    BY <1>3, <1>7, <1>9 DEF QueueInv, ShapeOK, RowsInv

(* Steps that change neither rows nor previews: the task goes on, fails or  *)
(* is dropped.                                                              *)
LEMMA TaskOnlyKeeps ==
  ASSUME QueueInv, NEW w \in Worker, NEW task, wk[w].pc # "idle",
         wk' = [wk EXCEPT ![w] = task], Fit(task, job, ready),
         task.pc # "idle" => task.job = wk[w].job,
         UNCHANGED <<job, live, ready, asking>>,
         object' \in [Target -> Inode \cup {Nil}], temp' \in [Target -> Inode \cup {Nil}],
         content' \in [Inode -> {"empty", "whole", "mixed"}]
  PROVE  QueueInv'
  <1>1. TasksInv' /\ wk' \in [Worker -> Task]
    <2>1. \A j \in Job \ {wk[w].job} : job'[j] = job[j]
      OBVIOUS
    <2> QED
      BY <2>1, TaskReplaced
  <1>2. RowsInv' /\ job' \in [Job -> Row]
    BY RowsKept
  <1> QED
    BY <1>1, <1>2 DEF QueueInv, ShapeOK

(* A task with another pc and descriptor, for steps that keep the row.      *)
LEMMA TaskMoved ==
  ASSUME QueueInv, NEW w \in Worker, wk[w].pc \in Busy, job[wk[w].job].status = "processing",
         NEW pc \in Busy, NEW fd \in Inode \cup {Nil},
         pc \in {"write", "rename"} => fd \in Inode,
         NEW done, pc = "complete" => TargetOf(w) \in done
  PROVE  /\ Fit([wk[w] EXCEPT !.pc = pc, !.fd = fd], job, done)
         /\ [wk[w] EXCEPT !.pc = pc, !.fd = fd].job = wk[w].job
  <1>1. Fit(wk[w], job, ready)
    BY HeldJob DEF Busy
  <1> QED
    BY <1>1 DEF Fit, Task, Busy, Steps, TargetOf

(* A worker that is busy and not about to fail processes its job.           *)
LEMMA Processing ==
  ASSUME QueueInv, NEW w \in Worker, wk[w].pc \in Busy \ {"fail"}
  PROVE  /\ job[wk[w].job].status = "processing"
         /\ wk[w].pc \in {"write", "rename"} => wk[w].fd \in Inode
  BY HeldJob DEF Fit, Busy

(* Giving the job a status, and the task up or over to markJobFailure.      *)
LEMMA StatusKeeps ==
  ASSUME QueueInv, NEW w \in Worker, wk[w].pc \in Busy,
         NEW st \in {"queued", "completed", "failed"},
         st = "queued" => wk[w].attempts < MaxAttempts,
         st = "completed" => TargetOf(w) \in ready,
         job' = [job EXCEPT ![wk[w].job].status = st],
         \/ wk' = [wk EXCEPT ![w] = NoTask]
         \/ st = "completed" /\ wk' = [wk EXCEPT ![w].pc = "fail", ![w].fd = Nil],
         UNCHANGED <<live, ready, object, temp, content, asking>>
  PROVE  QueueInv'
  <1> DEFINE j == wk[w].job
             row == [job[j] EXCEPT !.status = st]
  <1>1. /\ Fit(wk[w], job, ready) /\ j \in Job /\ Sound(job[j], ready)
        /\ wk[w] \in Task /\ wk \in [Worker -> Task]
    BY HeldJob DEF Busy, QueueInv, ShapeOK
  <1>2. job[j].status # "absent" /\ wk[w].attempts = job[j].attempts
    BY <1>1 DEF Fit
  <1>3. Sound(row, ready) /\ row.status = st /\ row.attempts = job[j].attempts
    <2>1. st \in Open \cup Ended /\ (st = "queued" => job[j].attempts < MaxAttempts)
      BY <1>2 DEF Open, Ended
    <2>2. st = "completed" => job[j].target \in ready
      BY DEF TargetOf
    <2> QED
      BY <1>1, <1>2, <2>1, <2>2, StatusSound, Zenon
  <1>4. job' = [job EXCEPT ![j] = row]
    BY <1>1 DEF QueueInv, ShapeOK
  <1>5. job'[j] = row /\ \A k \in Job \ {j} : job'[k] = job[k]
    BY <1>1, <1>4 DEF QueueInv, ShapeOK
  <1>6. RowsInv' /\ job' \in [Job -> Row]
    BY <1>1, <1>3, <1>4, RowReplaced
  <1>7. TasksInv' /\ wk' \in [Worker -> Task]
    <2>1. CASE wk' = [wk EXCEPT ![w] = NoTask]
      BY <1>5, <2>1, NoTaskFits, TaskReplaced DEF Busy
    <2>2. CASE st = "completed" /\ wk' = [wk EXCEPT ![w].pc = "fail", ![w].fd = Nil]
      <3> DEFINE task == [wk[w] EXCEPT !.pc = "fail", !.fd = Nil]
      <3>1. wk' = [wk EXCEPT ![w] = task]
        BY <1>1, <2>2
      <3>2. task \in Task /\ task.pc = "fail" /\ task.job = j /\ task.attempts = wk[w].attempts
        BY <1>1 DEF Task, Steps
      <3>3. Fit(task, job', ready')
        BY <1>1, <1>2, <1>3, <1>5, <2>2, <3>2 DEF Fit, Busy
      <3> HIDE DEF task
      <3> QED
        BY <1>5, <3>1, <3>2, <3>3, TaskReplaced DEF Busy
    <2> QED
      BY <2>1, <2>2
  <1> QED
    BY <1>6, <1>7 DEF QueueInv, ShapeOK

LEMMA ClaimApplied ==
  ASSUME QueueInv, NEW w \in Worker, wk[w].pc = "claim", ApplyClaim(w), UNCHANGED ready
  PROVE  /\ wk[w].job \in Job
         /\ RowsInv'
         /\ job' \in [Job -> Row]
         /\ \A k \in Job \ {wk[w].job} : job'[k] = job[k]
         /\ job'[wk[w].job].status = "processing"
         /\ job'[wk[w].job].attempts \in 0..MaxAttempts
  <1> DEFINE j == wk[w].job
             row == [job[j] EXCEPT !.status = "processing", !.attempts = @ + 1]
  <1>1. Fit(wk[w], job, ready) /\ j \in Job /\ Sound(job[j], ready)
    BY HeldJob
  <1>2. job[j].status = "queued" /\ job[j].attempts < MaxAttempts /\ job[j] \in Row
    BY <1>1 DEF Fit, Sound
  <1>3. job' = [job EXCEPT ![j] = row]
    BY <1>1 DEF ApplyClaim, QueueInv, ShapeOK
  <1>4. row \in Row /\ row.status = "processing" /\ row.target = job[j].target
    <2>1. job[j].attempts + 1 \in 0..MaxAttempts
      BY <1>2 DEF Row
    <2> QED
      BY <1>2, <2>1 DEF Row, Open
  <1>5. Sound(row, ready)
    BY <1>1, <1>2, <1>4 DEF Sound
  <1>6. RowsInv'
    BY <1>1, <1>3, <1>5, RowReplaced
  <1>7. job' \in [Job -> Row] /\ job'[j] = row /\ \A k \in Job \ {j} : job'[k] = job[k]
    BY <1>1, <1>3, <1>4 DEF QueueInv, ShapeOK
  <1> QED
    BY <1>1, <1>4, <1>6, <1>7 DEF Row

LEMMA ClaimKeeps ==
  ASSUME QueueInv, NEW w \in Worker, ClaimJob(w) \/ ClaimFails(w)
  PROVE  QueueInv'
  <1>1. wk[w].pc = "claim" /\ UNCHANGED <<live, ready, object, temp, content, asking>>
    BY DEF ClaimJob, ClaimFails
  <1>2. wk[w].job \in Job /\ wk[w] \in Task /\ wk \in [Worker -> Task]
    BY <1>1, HeldJob DEF QueueInv, ShapeOK
  <1>3. CASE ClaimJob(w)
    <2> DEFINE task == [wk[w] EXCEPT !.pc = "generate", !.attempts = job'[wk[w].job].attempts]
    <2>1. ApplyClaim(w) /\ wk' = [wk EXCEPT ![w] = task]
      BY <1>2, <1>3 DEF ClaimJob
    <2>2. /\ task \in Task /\ task.pc = "generate" /\ task.job = wk[w].job
          /\ task.attempts = job'[wk[w].job].attempts
      BY <1>1, <1>2, <2>1, ClaimApplied DEF Task, Steps
    <2>3. Fit(task, job', ready')
      BY <1>1, <1>2, <2>1, <2>2, ClaimApplied DEF Fit, Busy
    <2> HIDE DEF task
    <2>4. TasksInv' /\ wk' \in [Worker -> Task]
      BY <1>1, <2>1, <2>2, <2>3, ClaimApplied, TaskReplaced
    <2> QED
      BY <1>1, <2>1, <2>4, ClaimApplied DEF QueueInv, ShapeOK
  <1>4. CASE ClaimFails(w) /\ ApplyClaim(w)
    <2>1. TasksInv' /\ wk' \in [Worker -> Task]
      BY <1>1, <1>4, NoTaskFits, ClaimApplied, TaskReplaced DEF ClaimFails
    <2> QED
      BY <1>1, <1>4, <2>1, ClaimApplied DEF QueueInv, ShapeOK
  <1>5. CASE ClaimFails(w) /\ UNCHANGED job
    <2>1. object' \in [Target -> Inode \cup {Nil}] /\ temp' \in [Target -> Inode \cup {Nil}]
          /\ content' \in [Inode -> {"empty", "whole", "mixed"}]
      BY <1>1 DEF QueueInv, ShapeOK
    <2> QED
      BY <1>1, <1>5, <2>1, NoTaskFits, TaskOnlyKeeps DEF ClaimFails
  <1> QED
    BY <1>3, <1>4, <1>5 DEF ClaimFails, ClaimJob

LEMMA GenerateKeeps ==
  ASSUME QueueInv, NEW w \in Worker, Generate(w)
  PROVE  QueueInv'
  <1> DEFINE task(pc) == [wk[w] EXCEPT !.pc = pc, !.fd = wk[w].fd]
             failed == [wk[w] EXCEPT !.pc = "fail", !.fd = Nil]
  <1>1. wk[w].pc = "generate" /\ UNCHANGED <<job, live, ready, object, temp, content, asking>>
    BY DEF Generate
  <1>2. job[wk[w].job].status = "processing" /\ wk[w] \in Task /\ wk \in [Worker -> Task]
    BY <1>1, Processing, HeldJob DEF Busy, Steps, QueueInv, ShapeOK
  <1>3. wk' = [wk EXCEPT ![w] = task("create")] \/ wk' = [wk EXCEPT ![w] = failed]
    BY <1>2 DEF Generate, Goto, Fails, Task
  <1>4. Fit(task("create"), job, ready) /\ task("create").job = wk[w].job
    BY <1>1, <1>2, TaskMoved DEF Busy, Steps, Task
  <1>5. Fit(failed, job, ready) /\ failed.job = wk[w].job
    BY <1>1, <1>2, TaskMoved DEF Busy, Steps
  <1>6. object' \in [Target -> Inode \cup {Nil}] /\ temp' \in [Target -> Inode \cup {Nil}]
        /\ content' \in [Inode -> {"empty", "whole", "mixed"}]
    BY <1>1 DEF QueueInv, ShapeOK
  <1> HIDE DEF task, failed
  <1> QED
    BY <1>1, <1>3, <1>4, <1>5, <1>6, TaskOnlyKeeps

LEMMA CreateKeeps ==
  ASSUME QueueInv, NEW w \in Worker, CreateTemp(w)
  PROVE  QueueInv'
  <1>1. PICK i \in Inode :
          /\ temp' = [temp EXCEPT ![TargetOf(w)] = i]
          /\ content' = [content EXCEPT ![i] = "empty"]
          /\ wk' = [wk EXCEPT ![w].pc = "write", ![w].fd = i]
    BY DEF CreateTemp
  <1> DEFINE task == [wk[w] EXCEPT !.pc = "write", !.fd = i]
  <1>2. wk[w].pc = "create" /\ UNCHANGED <<job, live, ready, object, asking>>
    BY DEF CreateTemp
  <1>3. job[wk[w].job].status = "processing" /\ wk \in [Worker -> Task]
    BY <1>2, Processing DEF Busy, Steps, QueueInv, ShapeOK
  <1>4. wk' = [wk EXCEPT ![w] = task]
    BY <1>1, <1>3
  <1>5. Fit(task, job, ready) /\ task.job = wk[w].job
    BY <1>2, <1>3, TaskMoved DEF Busy, Steps
  <1>6. object' \in [Target -> Inode \cup {Nil}] /\ temp' \in [Target -> Inode \cup {Nil}]
        /\ content' \in [Inode -> {"empty", "whole", "mixed"}]
    BY <1>1, <1>2 DEF QueueInv, ShapeOK
  <1> HIDE DEF task
  <1> QED
    BY <1>2, <1>4, <1>5, <1>6, TaskOnlyKeeps

LEMMA WriteKeeps ==
  ASSUME QueueInv, NEW w \in Worker, WriteTemp(w)
  PROVE  QueueInv'
  <1> DEFINE task == [wk[w] EXCEPT !.pc = "rename", !.fd = wk[w].fd]
  <1>1. wk[w].pc = "write" /\ UNCHANGED <<job, live, ready, object, temp, asking>>
    BY DEF WriteTemp
  <1>2. job[wk[w].job].status = "processing" /\ wk \in [Worker -> Task] /\ wk[w].fd \in Inode
    BY <1>1, Processing DEF Busy, Steps, QueueInv, ShapeOK
  <1>3. wk' = [wk EXCEPT ![w] = task]
    BY <1>2 DEF WriteTemp, Goto, Task
  <1>4. Fit(task, job, ready) /\ task.job = wk[w].job
    BY <1>1, <1>2, TaskMoved DEF Busy, Steps
  <1>5. object' \in [Target -> Inode \cup {Nil}] /\ temp' \in [Target -> Inode \cup {Nil}]
        /\ content' \in [Inode -> {"empty", "whole", "mixed"}]
    BY <1>1, <1>2 DEF WriteTemp, QueueInv, ShapeOK
  <1> HIDE DEF task
  <1> QED
    BY <1>1, <1>3, <1>4, <1>5, TaskOnlyKeeps

LEMMA PromoteKeeps ==
  ASSUME QueueInv, NEW w \in Worker, PromoteTemp(w)
  PROVE  QueueInv'
  <1> DEFINE task == [wk[w] EXCEPT !.pc = "upsert", !.fd = Nil]
  <1>1. wk[w].pc = "rename" /\ UNCHANGED <<job, live, ready, content, asking>>
    BY DEF PromoteTemp
  <1>2. job[wk[w].job].status = "processing" /\ wk \in [Worker -> Task] /\ TargetOf(w) \in Target
    BY <1>1, Processing, HeldJob DEF Busy, Steps, QueueInv, ShapeOK
  <1>3. wk' = [wk EXCEPT ![w] = task]
    BY <1>2 DEF PromoteTemp
  <1>4. Fit(task, job, ready) /\ task.job = wk[w].job
    BY <1>1, <1>2, TaskMoved DEF Busy, Steps
  <1>5. object' \in [Target -> Inode \cup {Nil}] /\ temp' \in [Target -> Inode \cup {Nil}]
        /\ content' \in [Inode -> {"empty", "whole", "mixed"}]
    BY <1>1, <1>2 DEF PromoteTemp, QueueInv, ShapeOK
  <1> HIDE DEF task
  <1> QED
    BY <1>1, <1>3, <1>4, <1>5, TaskOnlyKeeps

(* A step after which the target may be ready.                              *)
LEMMA ReadyKeeps ==
  ASSUME QueueInv, NEW w \in Worker, wk[w].pc \in Busy,
         NEW task, wk' = [wk EXCEPT ![w] = task], Fit(task, job, ready'),
         task.job = wk[w].job,
         ready' \in {ready, ready \cup {TargetOf(w)}},
         UNCHANGED <<job, live, object, temp, content, asking>>
  PROVE  QueueInv'
  <1>1. ready \subseteq ready' /\ ready' \subseteq Target
    BY HeldJob DEF Busy, QueueInv, ShapeOK
  <1>2. TasksInv' /\ wk' \in [Worker -> Task]
    <2>1. \A j \in Job \ {wk[w].job} : job'[j] = job[j]
      OBVIOUS
    <2> QED
      BY <1>1, <2>1, TaskReplaced DEF Busy
  <1>3. RowsInv' /\ job' \in [Job -> Row]
    BY <1>1, RowsKept
  <1> QED
    BY <1>1, <1>2, <1>3 DEF QueueInv, ShapeOK

LEMMA UpsertKeeps ==
  ASSUME QueueInv, NEW w \in Worker, UpsertPreview(w)
  PROVE  QueueInv'
  <1> DEFINE task == [wk[w] EXCEPT !.pc = "complete", !.fd = wk[w].fd]
  <1>1. /\ wk[w].pc = "upsert" /\ ready' = ready \cup {TargetOf(w)}
        /\ UNCHANGED <<job, live, object, temp, content, asking>>
    BY DEF UpsertPreview
  <1>2. job[wk[w].job].status = "processing" /\ wk \in [Worker -> Task]
    BY <1>1, Processing DEF Busy, Steps, QueueInv, ShapeOK
  <1>3. wk' = [wk EXCEPT ![w] = task]
    BY <1>2 DEF UpsertPreview, Goto, Task
  <1>4. Fit(task, job, ready') /\ task.job = wk[w].job
    BY <1>1, <1>2, TaskMoved DEF Busy, Steps, Task
  <1> HIDE DEF task
  <1> QED
    BY <1>1, <1>3, <1>4, ReadyKeeps DEF Busy, Steps

LEMMA CompleteKeeps ==
  ASSUME QueueInv, NEW w \in Worker, CompleteJob(w)
  PROVE  QueueInv'
  <1>1. wk[w].pc = "complete" /\ TargetOf(w) \in ready
    BY HeldJob DEF CompleteJob, Fit, TargetOf
  <1> QED
    BY <1>1, StatusKeeps DEF CompleteJob, Busy, Steps

(* A busy task that goes over to markJobFailure.                            *)
LEMMA FailedTask ==
  ASSUME QueueInv, NEW w \in Worker, wk[w].pc \in Busy \ {"fail"}, Fails(w), NEW done
  PROVE  LET task == [wk[w] EXCEPT !.pc = "fail", !.fd = Nil] IN
           wk' = [wk EXCEPT ![w] = task] /\ Fit(task, job, done) /\ task.job = wk[w].job
  <1>1. job[wk[w].job].status = "processing" /\ wk \in [Worker -> Task]
    BY Processing DEF QueueInv, ShapeOK
  <1>2. LET task == [wk[w] EXCEPT !.pc = "fail", !.fd = Nil] IN
          Fit(task, job, done) /\ task.job = wk[w].job
    BY <1>1, TaskMoved DEF Busy, Steps
  <1> QED
    BY <1>1, <1>2 DEF Fails

LEMMA WorkFailsKeeps ==
  ASSUME QueueInv, NEW w \in Worker, WorkFails(w)
  PROVE  QueueInv'
  <1> DEFINE task == [wk[w] EXCEPT !.pc = "fail", !.fd = Nil]
  <1>1. /\ wk[w].pc \in Busy \ {"fail"} /\ Fails(w)
        /\ UNCHANGED <<job, live, ready, object, content, asking>>
    BY DEF WorkFails, Busy, Steps
  <1>2. wk' = [wk EXCEPT ![w] = task] /\ Fit(task, job, ready) /\ task.job = wk[w].job
    BY <1>1, FailedTask
  <1>3. object' \in [Target -> Inode \cup {Nil}] /\ temp' \in [Target -> Inode \cup {Nil}]
        /\ content' \in [Inode -> {"empty", "whole", "mixed"}]
    BY <1>1 DEF WorkFails, QueueInv, ShapeOK
  <1> HIDE DEF task
  <1> QED
    BY <1>1, <1>2, <1>3, TaskOnlyKeeps DEF Busy

LEMMA StatementFailsKeeps ==
  ASSUME QueueInv, NEW w \in Worker, StatementFails(w)
  PROVE  QueueInv'
  <1> DEFINE task == [wk[w] EXCEPT !.pc = "fail", !.fd = Nil]
  <1>1. /\ wk[w].pc \in Busy \ {"fail"} /\ Fails(w)
        /\ UNCHANGED <<live, object, temp, content, asking>>
    BY DEF StatementFails, Busy, Steps
  <1>2. CASE wk[w].pc = "complete" /\ job' = [job EXCEPT ![wk[w].job].status = "completed"]
    <2>1. TargetOf(w) \in ready
      BY <1>2, HeldJob DEF Fit, TargetOf
    <2>2. UNCHANGED ready /\ wk' = [wk EXCEPT ![w].pc = "fail", ![w].fd = Nil]
      BY <1>1, <1>2 DEF StatementFails, Fails
    <2> QED
      BY <1>1, <1>2, <2>1, <2>2, StatusKeeps
  <1>3. CASE UNCHANGED job
    <2>1. wk' = [wk EXCEPT ![w] = task] /\ Fit(task, job, ready') /\ task.job = wk[w].job
      BY <1>1, FailedTask
    <2>2. ready' \in {ready, ready \cup {TargetOf(w)}}
      BY DEF StatementFails
    <2> HIDE DEF task
    <2> QED
      BY <1>1, <1>3, <2>1, <2>2, ReadyKeeps DEF Busy
  <1> QED
    BY <1>2, <1>3 DEF StatementFails

LEMMA DroppedTaskKeeps ==
  ASSUME QueueInv, NEW w \in Worker, wk[w].pc # "idle", wk' = [wk EXCEPT ![w] = NoTask],
         temp' \in [Target -> Inode \cup {Nil}],
         UNCHANGED <<job, live, ready, object, content, asking>>
  PROVE  QueueInv'
  <1>1. object' \in [Target -> Inode \cup {Nil}]
        /\ content' \in [Inode -> {"empty", "whole", "mixed"}]
    BY DEF QueueInv, ShapeOK
  <1> QED
    BY <1>1, NoTaskFits, TaskOnlyKeeps

LEMMA MarkKeeps ==
  ASSUME QueueInv, NEW w \in Worker, MarkFailure(w)
  PROVE  QueueInv'
  <1>1. /\ wk[w].pc = "fail" /\ wk' = [wk EXCEPT ![w] = NoTask]
        /\ UNCHANGED <<live, ready, object, temp, content, asking>>
    BY DEF MarkFailure
  <1>2. CASE ApplyFailure(w)
    <2>1. wk[w].attempts \in 0..MaxAttempts
      BY <1>1, HeldJob DEF Task
    <2>2. CASE wk[w].attempts >= MaxAttempts
      <3>1. job' = [job EXCEPT ![wk[w].job].status = "failed"]
        BY <1>2, <2>2 DEF ApplyFailure
      <3> QED
        BY <1>1, <3>1, StatusKeeps DEF Busy, Steps
    <2>3. CASE ~(wk[w].attempts >= MaxAttempts)
      <3>1. job' = [job EXCEPT ![wk[w].job].status = "queued"]
        BY <1>2, <2>3 DEF ApplyFailure
      <3>2. wk[w].attempts < MaxAttempts
        BY <2>1, <2>3
      <3> QED
        BY <1>1, <3>1, <3>2, StatusKeeps DEF Busy, Steps
    <2> QED
      BY <2>2, <2>3
  <1>3. CASE UNCHANGED job
    BY <1>1, <1>3, DroppedTaskKeeps DEF QueueInv, ShapeOK
  <1> QED
    BY <1>2, <1>3 DEF MarkFailure

LEMMA StopKeeps ==
  ASSUME QueueInv, NEW w \in Worker, Stop(w)
  PROVE  QueueInv'
  <1>1. temp' \in [Target -> Inode \cup {Nil}]
    BY DEF Stop, QueueInv, ShapeOK
  <1> QED
    BY <1>1, DroppedTaskKeeps DEF Stop

LEMMA ClearKeeps ==
  ASSUME QueueInv, NEW t \in Target, ClearCache(t)
  PROVE  QueueInv'
  <1>1. object' \in [Target -> Inode \cup {Nil}] /\ temp' \in [Target -> Inode \cup {Nil}]
    BY DEF ClearCache, QueueInv, ShapeOK
  <1> QED
    BY <1>1 DEF ClearCache, QueueInv, ShapeOK, TasksInv, RowsInv

LEMMA StepQueueInv == QueueInv /\ [Next]_vars => QueueInv'
  <1> SUFFICES ASSUME QueueInv, [Next]_vars PROVE QueueInv'
    OBVIOUS
  <1>1. ASSUME NEW w \in Worker, Work(w) PROVE QueueInv'
    <2>1. CASE Poll(w)
      BY <2>1 DEF Poll, vars, QueueInv, ShapeOK, TasksInv, RowsInv
    <2> QED
      BY <1>1, <2>1, LockKeeps, ClaimKeeps, GenerateKeeps, CreateKeeps, WriteKeeps,
         PromoteKeeps, UpsertKeeps, CompleteKeeps, WorkFailsKeeps, StatementFailsKeeps,
         MarkKeeps DEF Work
  <1>2. CASE UNCHANGED vars
    BY <1>2 DEF vars, QueueInv, ShapeOK, TasksInv, RowsInv
  <1> QED
    BY <1>1, <1>2, StopKeeps, InsertKeeps, RequestKeeps, DeleteKeeps, ClearKeeps
    DEF Next, Step

LEMMA QueueInvariant == Spec => []QueueInv
  BY InitQueueInv, StepQueueInv, PTL DEF Spec

-----------------------------------------------------------------------------
(* Every variable keeps its shape: no row has an unknown status or more     *)
(* attempts than PREVIEW_WORKER_MAX_ATTEMPTS.                               *)
THEOREM TypeCorrect == Spec => []TypeOK
  <1> DEFINE Histories == cleared \subseteq Target /\ shared \subseteq Target
  <1>1. Init => Histories
    BY DEF Init
  <1>2. QueueInv /\ Histories /\ [Next]_vars => Histories'
    <2> SUFFICES ASSUME QueueInv, Histories, [Next]_vars PROVE Histories'
      OBVIOUS
    <2>1. shared' \subseteq Target
      BY DEF Next, Witness, vars
    <2>2. cleared' \subseteq Target
      <3>1. \A w \in Worker : Work(w) \/ Stop(w) => cleared' \subseteq cleared
        BY DEF Work, Stop, LockJob, Poll, ClaimJob, ClaimFails, Generate, CreateTemp, WriteTemp,
               PromoteTemp, UpsertPreview, CompleteJob, WorkFails, StatementFails, MarkFailure
      <3>2. \A r \in Requester :
              InsertJob(r) \/ (\E t \in Target : RequestPreview(r, t)) => cleared' = cleared
        BY DEF InsertJob, RequestPreview
      <3>3. \A f \in File : DeleteFile(f) => cleared' = cleared
        BY DEF DeleteFile
      <3>4. \A t \in Target : ClearCache(t) => cleared' \subseteq cleared \cup {t}
        BY DEF ClearCache
      <3>5. Step => cleared' \subseteq Target
        BY <3>1, <3>2, <3>3, <3>4 DEF Step
      <3> QED
        BY <3>5 DEF Next, vars
    <2> QED
      BY <2>1, <2>2
  <1>3. QueueInv /\ Histories => TypeOK
    BY DEF QueueInv, TypeOK
  <1> HIDE DEF Histories
  <1> QED
    BY <1>1, <1>2, <1>3, QueueInvariant, PTL DEF Spec

(* SKIP LOCKED and the status it sets give every job to one worker at most, *)
(* whatever fails.                                                          *)
THEOREM ClaimsExclusive == Spec => []ExclusiveClaim
  <1>1. QueueInv => ExclusiveClaim
    BY DEF QueueInv, TasksInv, Fit, Busy, Task, ExclusiveClaim, Holds
  <1> QED
    BY <1>1, QueueInvariant, PTL

(* A job is queued only while it has an attempt left.                       *)
THEOREM AttemptsWithinBound == Spec => []AttemptsBounded
  <1>1. QueueInv => AttemptsBounded
    BY DEF QueueInv, RowsInv, Sound, Row, AttemptsBounded
  <1> QED
    BY <1>1, QueueInvariant, PTL

(* A completed job has its preview row, although statements fail, workers   *)
(* stop and jobs are duplicated.                                            *)
THEOREM CompletionsHavePreviews == Spec => []CompletedHasPreview
  <1>1. QueueInv => CompletedHasPreview
    BY DEF QueueInv, RowsInv, Sound, CompletedHasPreview
  <1> QED
    BY <1>1, QueueInvariant, PTL

-----------------------------------------------------------------------------
(* Only the worker that a failed answer sends to markJobFailure finds its   *)
(* job ended.                                                               *)
StaysEnded ==
    \A j \in Job : job[j].status \in Ended /\ job'[j].status # job[j].status
        => \E w \in Worker : wk[w].pc = "fail" /\ wk[w].job = j

(* A worker's step that touches the row of its job only.                    *)
LEMMA OwnRowOnly ==
  ASSUME QueueInv, NEW w \in Worker, wk[w].pc # "idle",
         \A j \in Job \ {wk[w].job} : job'[j] = job[j]
  PROVE  StaysEnded
  <1>1. Fit(wk[w], job, ready) /\ wk[w].pc \in Steps
    BY HeldJob DEF Task
  <1>2. wk[w].pc # "fail" => job[wk[w].job].status \notin Ended
    BY <1>1 DEF Fit, Busy, Steps, Ended
  <1> QED
    BY <1>2 DEF StaysEnded

LEMMA WorkStaysEnded ==
  ASSUME QueueInv, NEW w \in Worker, Work(w) \/ Stop(w)
  PROVE  StaysEnded
  <1>1. CASE UNCHANGED job
    BY <1>1 DEF StaysEnded
  <1>2. CASE ~UNCHANGED job
    <2>1. wk[w].pc # "idle"
      BY <1>2 DEF Work, Stop, LockJob, Poll, ClaimJob, ClaimFails, Generate, CreateTemp, WriteTemp,
             PromoteTemp, UpsertPreview, CompleteJob, WorkFails, StatementFails, MarkFailure
    <2>2. job \in [Job -> Row] /\ wk[w].job \in Job
      BY <2>1, HeldJob DEF QueueInv, ShapeOK
    <2>3. \A st \in Open \cup Ended :
            job' = [job EXCEPT ![wk[w].job].status = st]
              => \A j \in Job \ {wk[w].job} : job'[j] = job[j]
      BY <2>2
    <2>4. \A j \in Job \ {wk[w].job} : job'[j] = job[j]
      <3>1. CASE ClaimJob(w) \/ ClaimFails(w)
        BY <1>2, <2>2, <3>1 DEF ClaimJob, ClaimFails, ApplyClaim
      <3>2. CASE CompleteJob(w) \/ StatementFails(w)
        BY <1>2, <2>2, <3>2 DEF CompleteJob, StatementFails
      <3>3. CASE MarkFailure(w)
        BY <1>2, <2>2, <3>3 DEF MarkFailure, ApplyFailure
      <3> QED
        BY <1>2, <3>1, <3>2, <3>3 DEF Work, Stop, LockJob, Poll, Generate, CreateTemp, WriteTemp,
               PromoteTemp, UpsertPreview, WorkFails
    <2> QED
      BY <2>1, <2>4, OwnRowOnly
  <1> QED
    BY <1>1, <1>2

(* A job that was completed or has failed is never taken up again, unless   *)
(* its worker was told that the completion had failed.                      *)
THEOREM JobsEndForGood == Spec => EndedForGood
  <1>1. QueueInv /\ [Next]_vars => StaysEnded
    <2> SUFFICES ASSUME QueueInv, [Next]_vars PROVE StaysEnded
      OBVIOUS
    <2>1. ASSUME NEW r \in Requester, InsertJob(r) PROVE StaysEnded
      <3>1. PICK j \in Absent :
              job' = [job EXCEPT ![j] = [status |-> "queued", target |-> asking[r], attempts |-> 0]]
        BY <2>1 DEF InsertJob
      <3>2. j \in Job /\ job[j].status = "absent" /\ \A k \in Job \ {j} : job'[k] = job[k]
        BY <3>1 DEF Absent, QueueInv, ShapeOK
      <3> QED
        BY <3>2 DEF StaysEnded, Ended
    <2>2. CASE UNCHANGED job
      BY <2>2 DEF StaysEnded
    <2> QED
      BY <2>1, <2>2, WorkStaysEnded DEF Next, Step, RequestPreview, DeleteFile, ClearCache, vars
  <1> QED
    BY <1>1, QueueInvariant, PTL DEF Spec, EndedForGood, StaysEnded

-----------------------------------------------------------------------------
(* The files behind the names.  A target that never had two workers at once *)
(* is worked on in one file, from its creation to its publication, although *)
(* names are unlinked and workers stopped between any two steps.            *)

Writing(w) == wk[w].pc \in {"write", "rename"}

(* No two names stand for one file.                                         *)
NamesApart ==
    \A s, t \in Target :
        /\ temp[s] # Nil => temp[s] # object[t] /\ (s # t => temp[s] # temp[t])
        /\ object[s] # Nil /\ s # t => object[s] # object[t]

(* An open file belongs to one target, whatever became of its name.         *)
OpenApart ==
    \A w \in Worker : Writing(w) =>
        /\ \A s \in Target \ {TargetOf(w)} : temp[s] # wk[w].fd /\ object[s] # wk[w].fd
        /\ \A v \in Worker : Writing(v) /\ wk[v].fd = wk[w].fd => TargetOf(v) = TargetOf(w)

(* Two workers on one target are on record.                                 *)
Alone ==
    \A v, w \in Worker :
        v # w /\ wk[v].pc \in Busy /\ wk[w].pc \in Busy /\ TargetOf(v) = TargetOf(w)
            => TargetOf(w) \in shared

(* The file of a worker that is alone: not published yet, and written once. *)
Own ==
    \A w \in Worker : Writing(w) /\ TargetOf(w) \notin shared =>
        /\ object[TargetOf(w)] # wk[w].fd
        /\ temp[TargetOf(w)] \in {Nil, wk[w].fd}
        /\ wk[w].pc = "write" => content[wk[w].fd] = "empty"
        /\ wk[w].pc = "rename" => content[wk[w].fd] = "whole"

Published ==
    \A t \in Target \ shared : object[t] # Nil => content[object[t]] = "whole"

(* Only clearing the cache leaves a target that is, or is about to be,      *)
(* ready without an object.                                                 *)
Kept ==
    \A t \in Target : object[t] = Nil /\ t \notin cleared =>
        /\ t \notin ready
        /\ \A w \in Worker : wk[w].pc \in {"upsert", "complete"} => TargetOf(w) # t

FilesInv == NamesApart /\ OpenApart /\ Alone /\ Own /\ Published /\ Kept

LEMMA InitFilesInv == Init => FilesInv
  BY DEF Init, FilesInv, NamesApart, OpenApart, Alone, Own, Published, Kept, NoTask, Writing, Busy

(* A row keeps its target.                                                  *)
LEMMA RowTargetKept ==
  ASSUME QueueInv, Step, NEW j \in Job, job[j].status # "absent"
  PROVE  job'[j].target = job[j].target
  <1>1. job \in [Job -> Row]
    BY DEF QueueInv, ShapeOK
  <1>2. ASSUME NEW w \in Worker, Work(w) \/ Stop(w) PROVE job'[j].target = job[j].target
    <2>1. CASE UNCHANGED job
      BY <2>1
    <2>2. CASE ApplyClaim(w)
      BY <1>1, <2>2 DEF ApplyClaim, Row
    <2>3. CASE ApplyFailure(w)
      BY <1>1, <2>3 DEF ApplyFailure, Row
    <2>4. CASE job' = [job EXCEPT ![wk[w].job].status = "completed"]
      BY <1>1, <2>4 DEF Row
    <2> QED
      BY <1>2, <2>1, <2>2, <2>3, <2>4 DEF Work, Stop, LockJob, Poll, ClaimJob, ClaimFails, Generate,
         CreateTemp, WriteTemp, PromoteTemp, UpsertPreview, CompleteJob, WorkFails, StatementFails,
         MarkFailure
  <1>3. ASSUME NEW r \in Requester, InsertJob(r) PROVE job'[j].target = job[j].target
    BY <1>1, <1>3 DEF InsertJob, Absent
  <1> QED
    BY <1>2, <1>3 DEF Step, RequestPreview, DeleteFile, ClearCache

LEMMA TargetKept ==
  ASSUME QueueInv, Step, NEW w \in Worker, wk[w].pc # "idle", wk'[w].job = wk[w].job
  PROVE  TargetOf(w)' = TargetOf(w)
  <1>1. wk[w].job \in Job /\ job[wk[w].job].status # "absent"
    BY HeldJob DEF Fit, Busy, Task
  <1> QED
    BY <1>1, RowTargetKept DEF TargetOf

(* The history catches two workers on one target at once.                   *)
LEMMA AloneNext ==
  ASSUME QueueInv', Witness
  PROVE  Alone'
  <1> SUFFICES ASSUME NEW v \in Worker, NEW w \in Worker, v # w,
                      wk'[v].pc \in Busy, wk'[w].pc \in Busy, TargetOf(v)' = TargetOf(w)'
               PROVE  TargetOf(w)' \in shared'
    BY DEF Alone
  <1>1. PICK j, k \in Job : j = wk'[v].job /\ k = wk'[w].job
    BY DEF QueueInv, TasksInv, Fit, Busy
  <1>2. wk'[v].pc \notin {"idle", "claim"} /\ wk'[w].pc \notin {"idle", "claim"}
    BY DEF Busy
  <1>3. Holds(v, j)' /\ Holds(w, k)'
    BY <1>1, <1>2 DEF Holds
  <1>4. job'[j].target = TargetOf(w)' /\ job'[k].target = TargetOf(w)'
    BY <1>1 DEF TargetOf
  <1>5. job'[k].target \in Target
    <2>1. job'[k].status # "absent"
      BY <1>1, <1>2 DEF QueueInv, TasksInv, Fit, Busy, ShapeOK, Task
    <2> QED
      BY <2>1 DEF QueueInv, RowsInv, Sound
  <1> QED
    BY <1>3, <1>4, <1>5 DEF Witness

(* Steps that create, write and publish nothing: names may vanish, and who  *)
(* writes goes on or leaves.                                                *)
LEMMA VanishKeeps ==
  ASSUME FilesInv, shared \subseteq shared', UNCHANGED content,
         \A t \in Target : object'[t] \in {object[t], Nil} /\ temp'[t] \in {temp[t], Nil},
         \A v \in Worker : Writing(v)' =>
            Writing(v) /\ wk'[v] = wk[v] /\ TargetOf(v)' = TargetOf(v) /\ TargetOf(v) \in Target /\ wk[v].fd # Nil
  PROVE  NamesApart' /\ OpenApart' /\ Own' /\ Published'
  <1>1. NamesApart'
    BY DEF FilesInv, NamesApart
  <1>2. OpenApart'
    BY DEF FilesInv, OpenApart
  <1>3. Own'
    BY DEF FilesInv, Own
  <1>4. Published'
    BY DEF FilesInv, Published
  <1> QED
    BY <1>1, <1>2, <1>3, <1>4

(* Steps that publish nothing: a row comes from a worker that was about to  *)
(* write it.                                                                *)
LEMMA KeptKeeps ==
  ASSUME FilesInv,
         \A t \in Target : object'[t] = Nil /\ t \notin cleared' => object[t] = Nil /\ t \notin cleared,
         \A t \in ready' \ ready : \E w \in Worker : wk[w].pc = "upsert" /\ TargetOf(w) = t,
         \A v \in Worker : wk'[v].pc \in {"upsert", "complete"} =>
            wk[v].pc \in {"upsert", "complete"} /\ TargetOf(v)' = TargetOf(v)
  PROVE  Kept'
  BY DEF FilesInv, Kept

-----------------------------------------------------------------------------
(* The three steps that touch the files themselves.                         *)

LEMMA CreateKeepsFiles ==
  ASSUME QueueInv, FilesInv, NEW w \in Worker, CreateTemp(w), Alone', shared \subseteq shared'
  PROVE  FilesInv'
  <1> DEFINE t == TargetOf(w)
  <1>1. /\ wk[w].pc = "create" /\ t \in Target /\ wk \in [Worker -> Task]
        /\ temp \in [Target -> Inode \cup {Nil}] /\ content \in [Inode -> {"empty", "whole", "mixed"}]
    BY HeldJob DEF CreateTemp, QueueInv, ShapeOK
  <1>2. PICK i \in Inode :
          /\ IF temp[t] # Nil THEN i = temp[t] ELSE NextFree(i)
          /\ temp' = [temp EXCEPT ![t] = i]
          /\ content' = [content EXCEPT ![i] = "empty"]
          /\ wk' = [wk EXCEPT ![w].pc = "write", ![w].fd = i]
    BY DEF CreateTemp
  <1>3. UNCHANGED <<job, live, ready, object, asking, cleared>>
    BY DEF CreateTemp
  <1>4. /\ wk'[w].pc = "write" /\ wk'[w].fd = i /\ wk'[w].job = wk[w].job
        /\ \A v \in Worker \ {w} : wk'[v] = wk[v]
    BY <1>1, <1>2 DEF Task
  <1>5. \A v \in Worker : TargetOf(v)' = TargetOf(v)
    BY <1>3, <1>4 DEF TargetOf
  <1>6. /\ temp'[t] = i /\ \A s \in Target \ {t} : temp'[s] = temp[s]
        /\ content'[i] = "empty" /\ \A k \in Inode \ {i} : content'[k] = content[k]
    BY <1>1, <1>2
  <1>7. /\ \A s \in Target : object[s] # i /\ (s # t => temp[s] # i)
        /\ \A v \in Worker : Writing(v) /\ wk[v].fd = i => TargetOf(v) = t
    <2>1. CASE temp[t] # Nil
      BY <1>1, <1>2, <2>1 DEF FilesInv, NamesApart, OpenApart
    <2>2. CASE temp[t] = Nil
      BY <1>2, <2>2 DEF NextFree, Free
    <2> QED
      BY <2>1, <2>2
  <1>8. \A v \in Worker \ {w} : Writing(v)' =>
          /\ Writing(v) /\ wk[v].fd \in Inode
          /\ TargetOf(v) \notin shared' => TargetOf(v) # t
    <2> SUFFICES ASSUME NEW v \in Worker \ {w}, Writing(v)'
                 PROVE  /\ Writing(v) /\ wk[v].fd \in Inode
                        /\ TargetOf(v) \notin shared' => TargetOf(v) # t
      OBVIOUS
    <2>1. Writing(v) /\ wk'[v].pc \in Busy /\ wk'[w].pc \in Busy
      BY <1>4 DEF Writing, Busy, Steps
    <2>2. wk[v].fd \in Inode
      BY <2>1, HeldJob DEF Writing, Fit
    <2> QED
      BY <1>5, <2>1, <2>2 DEF Alone
  <1> HIDE DEF t
  <1>9. NamesApart'
    BY <1>1, <1>3, <1>6, <1>7 DEF FilesInv, NamesApart
  <1>10. OpenApart'
    <2>1. \A v \in Worker : Writing(v)' => \A s \in Target \ {TargetOf(v)} : object[s] # wk'[v].fd
      BY <1>4, <1>7, <1>8 DEF FilesInv, OpenApart
    <2>2. \A v \in Worker : Writing(v)' => \A s \in Target \ {TargetOf(v)} : temp'[s] # wk'[v].fd
      <3> SUFFICES ASSUME NEW v \in Worker, Writing(v)', NEW s \in Target \ {TargetOf(v)}
                   PROVE  temp'[s] # wk'[v].fd
        OBVIOUS
      <3>1. CASE v = w
        BY <1>4, <1>6, <1>7, <3>1 DEF t
      <3>2. CASE v # w
        BY <1>4, <1>6, <1>7, <1>8, <3>2 DEF FilesInv, OpenApart
      <3> QED
        BY <3>1, <3>2
    <2>3. \A u, v \in Worker : Writing(u)' /\ Writing(v)' /\ wk'[u].fd = wk'[v].fd
                                  => TargetOf(u) = TargetOf(v)
      <3>1. \A v \in Worker : Writing(v)' /\ wk'[v].fd = i => TargetOf(v) = t
        BY <1>4, <1>7, <1>8 DEF t
      <3> QED
        BY <1>4, <1>8, <3>1 DEF FilesInv, OpenApart
    <2> QED
      BY <1>3, <1>5, <2>1, <2>2, <2>3 DEF OpenApart
  <1>11. Own'
    <2>1. ASSUME NEW v \in Worker \ {w}, Writing(v)', TargetOf(v) \notin shared'
          PROVE  /\ object[TargetOf(v)] # wk[v].fd
                 /\ temp'[TargetOf(v)] \in {Nil, wk[v].fd}
                 /\ wk[v].pc = "write" => content'[wk[v].fd] = "empty"
                 /\ wk[v].pc = "rename" => content'[wk[v].fd] = "whole"
      <3>1. Writing(v) /\ wk[v].fd \in Inode \ {i} /\ TargetOf(v) # t /\ TargetOf(v) \in Target
        BY <1>7, <1>8, <2>1, HeldJob DEF Writing
      <3> QED
        BY <1>6, <2>1, <3>1 DEF FilesInv, Own
    <2>2. object[t] # i /\ temp'[t] = i /\ content'[i] = "empty"
      BY <1>1, <1>6, <1>7
    <2> QED
      BY <1>3, <1>4, <1>5, <2>1, <2>2 DEF Own, t
  <1>12. Published'
    <2>1. object \in [Target -> Inode \cup {Nil}]
      BY DEF QueueInv, ShapeOK
    <2> QED
      BY <1>3, <1>6, <1>7, <2>1 DEF FilesInv, Published
  <1>13. Kept'
    BY <1>3, <1>4, <1>5 DEF FilesInv, Kept
  <1> QED
    BY <1>9, <1>10, <1>11, <1>12, <1>13 DEF FilesInv

LEMMA WriteKeepsFiles ==
  ASSUME QueueInv, FilesInv, NEW w \in Worker, WriteTemp(w), Alone', shared \subseteq shared'
  PROVE  FilesInv'
  <1> DEFINE t == TargetOf(w)
             i == wk[w].fd
  <1>1. /\ wk[w].pc = "write" /\ Writing(w) /\ t \in Target /\ i \in Inode /\ wk \in [Worker -> Task]
        /\ object \in [Target -> Inode \cup {Nil}] /\ content \in [Inode -> {"empty", "whole", "mixed"}]
    BY HeldJob DEF WriteTemp, Writing, Fit, QueueInv, ShapeOK
  <1>2. UNCHANGED <<job, live, ready, object, temp, asking, cleared>>
    BY DEF WriteTemp
  <1>3. /\ wk'[w].pc = "rename" /\ wk'[w].fd = i /\ wk'[w].job = wk[w].job
        /\ \A v \in Worker \ {w} : wk'[v] = wk[v]
    BY <1>1 DEF WriteTemp, Goto, Task
  <1>4. \A v \in Worker : TargetOf(v)' = TargetOf(v)
    BY <1>2, <1>3 DEF TargetOf
  <1>5. /\ content[i] = "empty" => content'[i] = "whole"
        /\ \A k \in Inode \ {i} : content'[k] = content[k]
    BY <1>1 DEF WriteTemp
  <1>6. \A v \in Worker : /\ Writing(v)' <=> Writing(v)
                          /\ wk'[v].fd = wk[v].fd
    BY <1>1, <1>3 DEF Writing
  <1>7. \A v \in Worker \ {w} : Writing(v) /\ TargetOf(v) \notin shared' =>
          wk[v].fd \in Inode \ {i}
    <2> SUFFICES ASSUME NEW v \in Worker \ {w}, Writing(v), TargetOf(v) \notin shared'
                 PROVE  wk[v].fd \in Inode \ {i}
      OBVIOUS
    <2>1. wk'[v].pc \in Busy /\ wk'[w].pc \in Busy
      BY <1>3 DEF Writing, Busy, Steps
    <2>2. TargetOf(v) # t
      BY <1>4, <2>1 DEF Alone
    <2>3. wk[v].fd \in Inode
      BY HeldJob DEF Writing, Fit
    <2> QED
      BY <1>1, <2>2, <2>3 DEF FilesInv, OpenApart
  <1>8. \A s \in Target \ shared : object[s] # i
    BY <1>1 DEF FilesInv, OpenApart, Own
  <1> HIDE DEF t, i
  <1>9. NamesApart'
    BY <1>2 DEF FilesInv, NamesApart
  <1>10. OpenApart'
    BY <1>2, <1>4, <1>6 DEF FilesInv, OpenApart
  <1>11. Own'
    <2>1. ASSUME NEW v \in Worker \ {w}, Writing(v), TargetOf(v) \notin shared'
          PROVE  /\ object[TargetOf(v)] # wk[v].fd
                 /\ temp[TargetOf(v)] \in {Nil, wk[v].fd}
                 /\ wk[v].pc = "write" => content'[wk[v].fd] = "empty"
                 /\ wk[v].pc = "rename" => content'[wk[v].fd] = "whole"
      BY <1>5, <1>7, <2>1 DEF FilesInv, Own
    <2>2. t \notin shared' => object[t] # i /\ temp[t] \in {Nil, i} /\ content'[i] = "whole"
      BY <1>1, <1>5 DEF FilesInv, Own, t, i
    <2> QED
      BY <1>2, <1>3, <1>4, <1>6, <2>1, <2>2 DEF Own, t
  <1>12. Published'
    <2> SUFFICES ASSUME NEW s \in Target \ shared, object[s] # Nil
                 PROVE  content'[object[s]] = "whole"
      BY <1>2 DEF Published
    <2>1. object[s] \in Inode \ {i}
      BY <1>1, <1>8
    <2>2. content[object[s]] = "whole"
      BY DEF FilesInv, Published
    <2> QED
      BY <1>5, <2>1, <2>2
  <1>13. Kept'
    BY <1>2, <1>3, <1>4 DEF FilesInv, Kept
  <1> QED
    BY <1>9, <1>10, <1>11, <1>12, <1>13 DEF FilesInv

LEMMA PromoteKeepsFiles ==
  ASSUME QueueInv, FilesInv, NEW w \in Worker, PromoteTemp(w), Alone', shared \subseteq shared'
  PROVE  FilesInv'
  <1> DEFINE t == TargetOf(w)
  <1>1. /\ wk[w].pc = "rename" /\ Writing(w) /\ t \in Target /\ temp[t] # Nil /\ wk \in [Worker -> Task]
        /\ object \in [Target -> Inode \cup {Nil}] /\ temp \in [Target -> Inode \cup {Nil}]
    BY HeldJob DEF PromoteTemp, Writing, QueueInv, ShapeOK
  <1>2. UNCHANGED <<job, live, ready, content, asking>> /\ cleared' = cleared \ {t}
    BY DEF PromoteTemp
  <1>3. /\ wk'[w].pc = "upsert" /\ wk'[w].job = wk[w].job
        /\ \A v \in Worker \ {w} : wk'[v] = wk[v]
    BY <1>1 DEF PromoteTemp, Task
  <1>4. \A v \in Worker : TargetOf(v)' = TargetOf(v)
    BY <1>2, <1>3 DEF TargetOf
  <1>5. /\ object'[t] = temp[t] /\ \A s \in Target \ {t} : object'[s] = object[s]
        /\ temp'[t] = Nil /\ \A s \in Target \ {t} : temp'[s] = temp[s]
    BY <1>1 DEF PromoteTemp
  <1>6. \A v \in Worker : Writing(v)' =>
          /\ Writing(v) /\ wk'[v] = wk[v] /\ wk[v].fd \in Inode /\ TargetOf(v) \in Target
          /\ TargetOf(v) \notin shared' => TargetOf(v) # t
    <2> SUFFICES ASSUME NEW v \in Worker, Writing(v)'
                 PROVE  /\ Writing(v) /\ wk'[v] = wk[v] /\ wk[v].fd \in Inode /\ TargetOf(v) \in Target
                        /\ TargetOf(v) \notin shared' => TargetOf(v) # t
      OBVIOUS
    <2>1. v # w /\ Writing(v) /\ wk'[v] = wk[v] /\ wk'[v].pc \in Busy /\ wk'[w].pc \in Busy
      BY <1>3 DEF Writing, Busy, Steps
    <2>2. wk[v].fd \in Inode /\ TargetOf(v) \in Target
      BY <2>1, HeldJob DEF Writing, Fit
    <2> QED
      BY <1>4, <2>1, <2>2 DEF Alone
  <1>7. t \notin shared => content[temp[t]] = "whole"
    BY <1>1 DEF FilesInv, Own
  <1> HIDE DEF t
  <1>8. NamesApart'
    BY <1>1, <1>5 DEF FilesInv, NamesApart
  <1>9. OpenApart'
    BY <1>1, <1>4, <1>5, <1>6 DEF FilesInv, OpenApart
  <1>10. Own'
    BY <1>2, <1>4, <1>5, <1>6 DEF FilesInv, Own
  <1>11. Published'
    BY <1>2, <1>5, <1>7 DEF FilesInv, Published
  <1>12. Kept'
    BY <1>1, <1>2, <1>3, <1>4, <1>5 DEF FilesInv, Kept, t
  <1> QED
    BY <1>8, <1>9, <1>10, <1>11, <1>12 DEF FilesInv

-----------------------------------------------------------------------------
(* The other steps of a worker, which leave it outside the writing.         *)
LEMMA LeavingKeepsFiles ==
  ASSUME QueueInv, FilesInv, Step, Alone', shared \subseteq shared', NEW w \in Worker,
         \A v \in Worker \ {w} : wk'[v] = wk[v],
         wk'[w].pc \notin {"write", "rename"},
         wk'[w].pc \in {"upsert", "complete"} => wk[w].pc = "upsert" /\ wk'[w].job = wk[w].job,
         UNCHANGED <<object, content, cleared>>,
         \A t \in Target : temp'[t] \in {temp[t], Nil},
         \A t \in ready' \ ready : wk[w].pc = "upsert" /\ TargetOf(w) = t
  PROVE  FilesInv'
  <1>1. \A v \in Worker \ {w} : wk[v].pc # "idle" => TargetOf(v)' = TargetOf(v)
    BY TargetKept
  <1>2. \A v \in Worker : Writing(v)' =>
          /\ Writing(v) /\ wk'[v] = wk[v] /\ TargetOf(v)' = TargetOf(v)
          /\ TargetOf(v) \in Target /\ wk[v].fd # Nil
    <2> SUFFICES ASSUME NEW v \in Worker, Writing(v)'
                 PROVE  /\ Writing(v) /\ wk'[v] = wk[v] /\ TargetOf(v)' = TargetOf(v)
                        /\ TargetOf(v) \in Target /\ wk[v].fd # Nil
      OBVIOUS
    <2>1. v # w /\ Writing(v) /\ wk'[v] = wk[v] /\ wk[v].pc # "idle"
      BY DEF Writing
    <2>2. TargetOf(v) \in Target /\ Fit(wk[v], job, ready)
      BY <2>1, HeldJob
    <2> QED
      BY <1>1, <2>1, <2>2 DEF Writing, Fit
  <1>3. \A v \in Worker : wk'[v].pc \in {"upsert", "complete"} =>
          wk[v].pc \in {"upsert", "complete"} /\ TargetOf(v)' = TargetOf(v)
    <2>1. wk[w].pc = "upsert" /\ wk'[w].job = wk[w].job => TargetOf(w)' = TargetOf(w)
      BY TargetKept
    <2> QED
      BY <1>1, <2>1
  <1>4. NamesApart' /\ OpenApart' /\ Own' /\ Published'
    BY <1>2, VanishKeeps
  <1>5. Kept'
    BY <1>3, KeptKeeps
  <1> QED
    BY <1>4, <1>5 DEF FilesInv

LEMMA WorkKeepsFiles ==
  ASSUME QueueInv, FilesInv, Step, Alone', shared \subseteq shared', NEW w \in Worker,
         Work(w) \/ Stop(w)
  PROVE  FilesInv'
  <1>1. wk \in [Worker -> Task] /\ temp \in [Target -> Inode \cup {Nil}]
    BY DEF QueueInv, ShapeOK
  <1>2. \A task : wk' = [wk EXCEPT ![w] = task] =>
          wk'[w] = task /\ \A v \in Worker \ {w} : wk'[v] = wk[v]
    BY <1>1
  <1>3. NoTask.pc = "idle"
    BY DEF NoTask
  <1>4. \A step : Goto(w, step) => /\ wk'[w].pc = step /\ wk'[w].job = wk[w].job
                                   /\ \A v \in Worker \ {w} : wk'[v] = wk[v]
    BY <1>1 DEF Goto, Task
  <1>5. Fails(w) => wk'[w].pc = "fail" /\ \A v \in Worker \ {w} : wk'[v] = wk[v]
    BY <1>1 DEF Fails, Task
  <1>6. CASE LockJob(w)
    <2>1. wk'[w].pc = "claim" /\ \A v \in Worker \ {w} : wk'[v] = wk[v]
      BY <1>1, <1>6 DEF LockJob, Task
    <2> QED
      BY <1>6, <2>1, LeavingKeepsFiles DEF LockJob
  <1>7. CASE Poll(w)
    <2>1. ~(wk[w].pc \in {"write", "rename", "upsert", "complete"})
      BY <1>7 DEF Poll
    <2> QED
      BY <1>7, <2>1, LeavingKeepsFiles DEF Poll
  <1>8. CASE ClaimJob(w)
    <2>1. wk'[w].pc = "generate" /\ \A v \in Worker \ {w} : wk'[v] = wk[v]
      BY <1>1, <1>8 DEF ClaimJob, Task
    <2> QED
      BY <1>8, <2>1, LeavingKeepsFiles DEF ClaimJob
  <1>9. CASE ClaimFails(w) \/ CompleteJob(w) \/ MarkFailure(w)
    <2>1. wk' = [wk EXCEPT ![w] = NoTask] /\ UNCHANGED <<ready, object, temp, content, cleared>>
      BY <1>9 DEF ClaimFails, CompleteJob, MarkFailure
    <2>2. wk'[w].pc = "idle" /\ \A v \in Worker \ {w} : wk'[v] = wk[v]
      BY <1>2, <1>3, <2>1
    <2> QED
      BY <2>1, <2>2, LeavingKeepsFiles
  <1>10. CASE Generate(w)
    BY <1>4, <1>5, <1>10, LeavingKeepsFiles DEF Generate
  <1>11. CASE UpsertPreview(w)
    <2>1. wk'[w].pc = "complete" /\ wk'[w].job = wk[w].job /\ \A v \in Worker \ {w} : wk'[v] = wk[v]
      BY <1>4, <1>11 DEF UpsertPreview
    <2> QED
      BY <1>11, <2>1, LeavingKeepsFiles DEF UpsertPreview
  <1>12. CASE WorkFails(w)
    <2>1. \A t \in Target : temp'[t] \in {temp[t], Nil}
      BY <1>1, <1>12 DEF WorkFails
    <2> QED
      BY <1>5, <1>12, <2>1, LeavingKeepsFiles DEF WorkFails
  <1>13. CASE StatementFails(w)
    <2>1. \A t \in ready' \ ready : wk[w].pc = "upsert" /\ TargetOf(w) = t
      BY <1>13 DEF StatementFails
    <2> QED
      BY <1>5, <1>13, <2>1, LeavingKeepsFiles DEF StatementFails
  <1>14. CASE Stop(w)
    <2>1. \A t \in Target : temp'[t] \in {temp[t], Nil}
      BY <1>1, <1>14 DEF Stop
    <2>2. wk'[w].pc = "idle" /\ \A v \in Worker \ {w} : wk'[v] = wk[v]
      BY <1>2, <1>3, <1>14 DEF Stop
    <2> QED
      BY <1>14, <2>1, <2>2, LeavingKeepsFiles DEF Stop
  <1>15. CASE CreateTemp(w) \/ WriteTemp(w) \/ PromoteTemp(w)
    BY <1>15, CreateKeepsFiles, WriteKeepsFiles, PromoteKeepsFiles
  <1> QED
    BY <1>6, <1>7, <1>8, <1>9, <1>10, <1>11, <1>12, <1>13, <1>14, <1>15 DEF Work

(* Requests, deletions and the clearing of the cache.                       *)
LEMMA OutsideKeepsFiles ==
  ASSUME QueueInv, FilesInv, Step, shared \subseteq shared', Alone', UNCHANGED <<wk, ready, content>>,
         \A t \in Target : object'[t] \in {object[t], Nil} /\ temp'[t] \in {temp[t], Nil},
         \A t \in Target : object'[t] = Nil /\ t \notin cleared' => object[t] = Nil /\ t \notin cleared
  PROVE  FilesInv'
  <1>1. \A v \in Worker : wk[v].pc # "idle" =>
          TargetOf(v)' = TargetOf(v) /\ TargetOf(v) \in Target /\ Fit(wk[v], job, ready)
    BY TargetKept, HeldJob
  <1>2. \A v \in Worker : Writing(v)' =>
          /\ Writing(v) /\ wk'[v] = wk[v] /\ TargetOf(v)' = TargetOf(v)
          /\ TargetOf(v) \in Target /\ wk[v].fd # Nil
    BY <1>1 DEF Writing, Fit
  <1>3. NamesApart' /\ OpenApart' /\ Own' /\ Published'
    BY <1>2, VanishKeeps
  <1>4. Kept'
    BY <1>1, KeptKeeps
  <1> QED
    BY <1>3, <1>4 DEF FilesInv

LEMMA StepFilesInv == QueueInv /\ FilesInv /\ QueueInv' /\ [Next]_vars => FilesInv'
  <1> SUFFICES ASSUME QueueInv, FilesInv, QueueInv', [Next]_vars PROVE FilesInv'
    OBVIOUS
  <1>1. CASE UNCHANGED vars
    BY <1>1 DEF vars, FilesInv, NamesApart, OpenApart, Alone, Own, Published, Kept, Writing, TargetOf
  <1>2. CASE Next
    <2>1. Step /\ Alone' /\ shared \subseteq shared'
      BY <1>2, AloneNext DEF Next, Witness
    <2>2. ASSUME NEW r \in Requester, InsertJob(r) \/ \E t \in Target : RequestPreview(r, t)
          PROVE  FilesInv'
      BY <2>1, <2>2, OutsideKeepsFiles DEF InsertJob, RequestPreview
    <2>3. ASSUME NEW f \in File, DeleteFile(f) PROVE FilesInv'
      BY <2>1, <2>3, OutsideKeepsFiles DEF DeleteFile
    <2>4. ASSUME NEW t \in Target, ClearCache(t) PROVE FilesInv'
      <3>1. /\ object \in [Target -> Inode \cup {Nil}] /\ temp \in [Target -> Inode \cup {Nil}]
            /\ UNCHANGED <<wk, ready, content>>
        BY <2>4 DEF QueueInv, ShapeOK, ClearCache
      <3>2. \A s \in Target : object'[s] \in {object[s], Nil} /\ temp'[s] \in {temp[s], Nil}
        BY <2>4, <3>1 DEF ClearCache
      <3>3. \A s \in Target : object'[s] = Nil /\ s \notin cleared' => object[s] = Nil /\ s \notin cleared
        BY <2>4, <3>1 DEF ClearCache
      <3> QED
        BY <2>1, <3>1, <3>2, <3>3, OutsideKeepsFiles
    <2> QED
      BY <2>1, <2>2, <2>3, <2>4, WorkKeepsFiles DEF Step
  <1> QED
    BY <1>1, <1>2

(* Any number of workers, requests and failures: a ready preview is whole,  *)
(* unless two workers were on its target at once, and only clearing the     *)
(* cache takes its object away.                                             *)
THEOREM ReadyMeansWhole == Spec => []ReadyPreviewIsWhole
  <1>1. QueueInv /\ FilesInv => ReadyPreviewIsWhole
    BY DEF QueueInv, ShapeOK, FilesInv, Published, Kept, ReadyPreviewIsWhole
  <1> QED
    BY <1>1, InitFilesInv, StepFilesInv, QueueInvariant, PTL DEF Spec
=============================================================================
