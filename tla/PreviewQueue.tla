---------------------------- MODULE PreviewQueue ----------------------------
(***************************************************************************)
(* The preview jobs: requests insert rows into preview_jobs                 *)
(* (internal/http/files.go), workers claim them one by one, generate an     *)
(* object through LocalStorage.PutStream, record it in file_previews and    *)
(* complete the job (internal/preview/runner.go).                           *)
(*                                                                          *)
(* A worker is one runner loop.  Each of its steps is one statement or one  *)
(* file operation.  PutStream writes a temporary file whose name depends on *)
(* the target alone, so the files behind the names are modelled: two        *)
(* workers on one target may have the same file open, and a rename          *)
(* publishes whatever file the name stands for at that moment.              *)
(* The administrator may unlink the same names to clear the cache.          *)
(***************************************************************************)
EXTENDS Naturals, FiniteSets

CONSTANTS
    Worker,       \* preview-worker processes
    Requester,    \* preview requests served at the same time
    File, Type,   \* files, and the job types a file's category admits
    Inode,        \* bound: files on disk behind names and open descriptors
    MaxJobs,      \* bound: rows of preview_jobs
    MaxAttempts,  \* PREVIEW_WORKER_MAX_ATTEMPTS
    Faults,       \* the failures this instance suffers
    Nil

(* "disk": generating or storing the preview fails: ffmpeg or soffice fails *)
(*         or times out, the source or the disk does.                       *)
(* "db":   a statement reports an error, having taken effect or not.        *)
(* "stop": a worker is shut down, or dies, and starts again.                *)
AllFaults == {"disk", "db", "stop"}

Job == 1..MaxJobs       \* in the order of created_at
Target == File \X Type  \* one object, one file_previews row each

ASSUME NilAssumption == Nil \notin Job /\ Nil \notin Inode /\ Nil \notin Target
ASSUME BoundAssumption == MaxJobs \in Nat /\ Inode \subseteq Nat
ASSUME AttemptsAssumption == MaxAttempts \in Nat \ {0}
ASSUME FaultsAssumption == Faults \subseteq AllFaults

VARIABLES
    job,       \* table preview_jobs
    live,      \* files that are not deleted
    ready,     \* targets whose file_previews row is 'ready'
    object,    \* the file under the preview's key, or Nil
    temp,      \* the file under the key with ".tmp", or Nil
    content,   \* what each file holds
    wk,        \* what each worker is doing
    asking,    \* the target a request is about to insert a job for, or Nil
    cleared,   \* history: targets whose object was cleared from the cache
    shared     \* history: targets that two workers have been on at once

vars == <<job, live, ready, object, temp, content, wk, asking, cleared, shared>>

-----------------------------------------------------------------------------
Open  == {"queued", "processing"}
Ended == {"completed", "failed"}

Row == [status : {"absent"} \cup Open \cup Ended, target : Target \cup {Nil},
        attempts : 0..MaxAttempts]

Steps == {"idle", "claim", "generate", "create", "write", "rename", "upsert",
          "complete", "fail"}

(* job: the job locked or claimed; attempts: as the claim returned it;      *)
(* fd: the open temporary file.                                             *)
Task == [pc : Steps, job : Job \cup {Nil}, attempts : 0..MaxAttempts,
         fd : Inode \cup {Nil}]

NoTask == [pc |-> "idle", job |-> Nil, attempts |-> 0, fd |-> Nil]

TargetOf(w) == job[wk[w].job].target

Init ==
    /\ job = [j \in Job |-> [status |-> "absent", target |-> Nil, attempts |-> 0]]
    /\ live = File
    /\ ready = {}
    /\ object = [t \in Target |-> Nil]
    /\ temp = [t \in Target |-> Nil]
    /\ content = [i \in Inode |-> "empty"]
    /\ wk = [w \in Worker |-> NoTask]
    /\ asking = [r \in Requester |-> Nil]
    /\ cleared = {}
    /\ shared = {}

-----------------------------------------------------------------------------
(* Requests.                                                                *)

Absent == {j \in Job : job[j].status = "absent"}
Asking == {r \in Requester : asking[r] # Nil}

OpenJobs(t) == {j \in Job : job[j].target = t /\ job[j].status \in Open}

(* createFilePreviewJob up to its INSERT: the file exists, and no job of    *)
(* its type is open.  (When one is open the request is answered with it.)   *)
RequestPreview(r, t) ==
    /\ asking[r] = Nil
    /\ t[1] \in live
    /\ OpenJobs(t) = {}
    /\ Cardinality(Asking) < Cardinality(Absent)
    /\ asking' = [asking EXCEPT ![r] = t]
    /\ UNCHANGED <<job, live, ready, object, temp, content, wk, cleared>>

(* The INSERT: nothing keeps it from being the second open job.             *)
InsertJob(r) ==
    /\ asking[r] # Nil
    /\ \E j \in Absent :
         /\ \A k \in Absent : j <= k
         /\ job' = [job EXCEPT ![j] = [status |-> "queued", target |-> asking[r],
                                       attempts |-> 0]]
    /\ asking' = [asking EXCEPT ![r] = Nil]
    /\ UNCHANGED <<live, ready, object, temp, content, wk, cleared>>

(* deleteFile and deleteFolder: previews and jobs stay.                     *)
DeleteFile(f) ==
    /\ f \in live
    /\ live' = live \ {f}
    /\ UNCHANGED <<job, ready, object, temp, content, wk, asking, cleared>>

-----------------------------------------------------------------------------
(* Claiming a job.                                                          *)

(* Not the code: no FOR UPDATE.                                             *)
BugUnlocked(j) == TRUE

Unlocked(j) == \A w \in Worker : ~(wk[w].pc = "claim" /\ wk[w].job = j)

Queued == {j \in Job : job[j].status = "queued" /\ Unlocked(j)}

(* claimNextJob's SELECT ... FOR UPDATE SKIP LOCKED: the oldest job.        *)
LockJob(w) ==
    /\ wk[w].pc = "idle"
    /\ \E j \in Queued :
         /\ \A k \in Queued : j <= k
         /\ wk' = [wk EXCEPT ![w].pc = "claim", ![w].job = j]
    /\ UNCHANGED <<job, live, ready, object, temp, content, asking, cleared>>

(* No job: the runner waits for the next tick.                              *)
Poll(w) ==
    /\ wk[w].pc = "idle" /\ Queued = {}
    /\ UNCHANGED <<job, live, ready, object, temp, content, wk, asking, cleared>>

(* Not the code: the attempt is not counted.                                *)
BugUncounted(w) == job' = [job EXCEPT ![wk[w].job].status = "processing"]

ApplyClaim(w) ==
    job' = [job EXCEPT ![wk[w].job].status = "processing", ![wk[w].job].attempts = @ + 1]

(* The UPDATE and the commit.                                               *)
ClaimJob(w) ==
    /\ wk[w].pc = "claim"
    /\ ApplyClaim(w)
    /\ wk' = [wk EXCEPT ![w].pc = "generate",
                        ![w].attempts = job'[wk[w].job].attempts]
    /\ UNCHANGED <<live, ready, object, temp, content, asking, cleared>>

(* A claim that reports an error is given up; it may have taken effect.     *)
ClaimFails(w) ==
    /\ "db" \in Faults
    /\ wk[w].pc = "claim"
    /\ ApplyClaim(w) \/ UNCHANGED job
    /\ wk' = [wk EXCEPT ![w] = NoTask]
    /\ UNCHANGED <<live, ready, object, temp, content, asking, cleared>>

-----------------------------------------------------------------------------
(* Generating the preview: the three generators differ in what they store.  *)

Goto(w, step) == wk' = [wk EXCEPT ![w].pc = step]

(* The rest of the task is markJobFailure.                                  *)
Fails(w) == wk' = [wk EXCEPT ![w].pc = "fail", ![w].fd = Nil]

(* fetchFileForMetadata: a deleted file is an error.                        *)
FileFound(w) == TargetOf(w)[1] \in live

(* The lookup, and the conversion into memory.                              *)
Generate(w) ==
    /\ wk[w].pc = "generate"
    /\ IF FileFound(w) THEN Goto(w, "create") ELSE Fails(w)
    /\ UNCHANGED <<job, live, ready, object, temp, content, asking, cleared>>

Free(i) ==
    /\ \A t \in Target : temp[t] # i /\ object[t] # i
    /\ \A v \in Worker : wk[v].fd # i

(* Which of the free ones is taken makes no difference.                     *)
NextFree(i) == Free(i) /\ \A k \in Inode : Free(k) => i <= k

(* PutStream: os.Create opens the temporary file that is there, emptied, or *)
(* a new one.                                                               *)
CreateTemp(w) ==
    LET t == TargetOf(w) IN
    /\ wk[w].pc = "create"
    /\ \E i \in Inode :
         /\ IF temp[t] # Nil THEN i = temp[t] ELSE NextFree(i)
         /\ temp' = [temp EXCEPT ![t] = i]
         /\ content' = [content EXCEPT ![i] = "empty"]
         /\ wk' = [wk EXCEPT ![w].pc = "write", ![w].fd = i]
    /\ UNCHANGED <<job, live, ready, object, asking, cleared>>

(* io.Copy from offset 0: over the bytes of another worker, which may be    *)
(* more than these.                                                         *)
WriteTemp(w) ==
    LET i == wk[w].fd IN
    /\ wk[w].pc = "write"
    /\ \/ content' = [content EXCEPT ![i] = "whole"]
       \/ content[i] # "empty" /\ content' = [content EXCEPT ![i] = "mixed"]
    /\ Goto(w, "rename")
    /\ UNCHANGED <<job, live, ready, object, temp, asking, cleared>>

(* os.Rename publishes the file the name stands for, if any.                *)
PromoteTemp(w) ==
    LET t == TargetOf(w) IN
    /\ wk[w].pc = "rename"
    /\ temp[t] # Nil
    /\ object' = [object EXCEPT ![t] = temp[t]]
    /\ temp' = [temp EXCEPT ![t] = Nil]
    /\ wk' = [wk EXCEPT ![w].pc = "upsert", ![w].fd = Nil]
    /\ cleared' = cleared \ {t}
    /\ UNCHANGED <<job, live, ready, content, asking>>

(* upsertFilePreview: one row per target.                                   *)
UpsertPreview(w) ==
    /\ wk[w].pc = "upsert"
    /\ ready' = ready \cup {TargetOf(w)}
    /\ Goto(w, "complete")
    /\ UNCHANGED <<job, live, object, temp, content, asking, cleared>>

CompleteJob(w) ==
    /\ wk[w].pc = "complete"
    /\ job' = [job EXCEPT ![wk[w].job].status = "completed"]
    /\ wk' = [wk EXCEPT ![w] = NoTask]
    /\ UNCHANGED <<live, ready, object, temp, content, asking, cleared>>

-----------------------------------------------------------------------------
(* Failing.                                                                 *)

(* Not the code: an error of io.Copy is dropped.                            *)
BugCopyIgnored(w) ==
    /\ "disk" \in Faults
    /\ wk[w].pc = "write"
    /\ Goto(w, "rename")
    /\ UNCHANGED <<job, live, ready, object, temp, content, asking, cleared>>

(* Conversion or storage fails; PutStream removes the temporary name when   *)
(* it could not write or publish it, whoever created it.                    *)
WorkFails(w) ==
    LET t == TargetOf(w) IN
    /\ \/ "disk" \in Faults /\ wk[w].pc \in {"generate", "create"} /\ UNCHANGED temp
       \/ "disk" \in Faults /\ wk[w].pc \in {"write", "rename"}
            /\ temp' = [temp EXCEPT ![t] = Nil]
       \/ wk[w].pc = "rename" /\ temp[t] = Nil /\ UNCHANGED temp
    /\ Fails(w)
    /\ UNCHANGED <<job, live, ready, object, content, asking, cleared>>

(* Not the code: an error of the upsert is dropped.                         *)
BugUpsertIgnored(w) ==
    /\ "db" \in Faults
    /\ wk[w].pc = "upsert"
    /\ Goto(w, "complete")
    /\ UNCHANGED <<job, live, ready, object, temp, content, asking, cleared>>

(* A statement of the generator reports an error; it may have taken effect. *)
StatementFails(w) ==
    /\ "db" \in Faults
    /\ wk[w].pc \in {"generate", "upsert", "complete"}
    /\ IF wk[w].pc = "upsert"
       THEN ready' \in {ready, ready \cup {TargetOf(w)}} ELSE UNCHANGED ready
    /\ IF wk[w].pc = "complete"
       THEN job' \in {job, [job EXCEPT ![wk[w].job].status = "completed"]} ELSE UNCHANGED job
    /\ Fails(w)
    /\ UNCHANGED <<live, object, temp, content, asking, cleared>>

(* Not the code: one attempt too many.                                      *)
BugOneMore(w) ==
    job' = [job EXCEPT ![wk[w].job].status =
                IF wk[w].attempts > MaxAttempts THEN "failed" ELSE "queued"]

ApplyFailure(w) ==
    job' = [job EXCEPT ![wk[w].job].status =
                IF wk[w].attempts >= MaxAttempts THEN "failed" ELSE "queued"]

(* markJobFailure; its own error is only logged.                            *)
MarkFailure(w) ==
    /\ wk[w].pc = "fail"
    /\ ApplyFailure(w) \/ ("db" \in Faults /\ UNCHANGED job)
    /\ wk' = [wk EXCEPT ![w] = NoTask]
    /\ UNCHANGED <<live, ready, object, temp, content, asking, cleared>>

(* The worker dies, or is told to stop: with its context canceled a copy    *)
(* under way fails and its temporary file is removed, but markJobFailure    *)
(* fails too.                                                               *)
Stop(w) ==
    /\ "stop" \in Faults
    /\ wk[w].pc # "idle"
    /\ \/ UNCHANGED temp
       \/ wk[w].pc = "write" /\ temp' = [temp EXCEPT ![TargetOf(w)] = Nil]
    /\ wk' = [wk EXCEPT ![w] = NoTask]
    /\ UNCHANGED <<job, live, ready, object, content, asking, cleared>>

-----------------------------------------------------------------------------
(* adminCleanupPreviewCache: os.RemoveAll unlinks one name after another    *)
(* and may break off; file_previews keeps its rows.                         *)
ClearCache(t) ==
    /\ \/ /\ object[t] # Nil
          /\ object' = [object EXCEPT ![t] = Nil]
          /\ cleared' = cleared \cup {t}
          /\ UNCHANGED temp
       \/ /\ temp[t] # Nil
          /\ temp' = [temp EXCEPT ![t] = Nil]
          /\ UNCHANGED <<object, cleared>>
    /\ UNCHANGED <<job, live, ready, content, wk, asking>>

-----------------------------------------------------------------------------
(* Start: the runner's loop.                                                *)
Work(w) ==
    \/ LockJob(w) \/ Poll(w) \/ ClaimJob(w) \/ ClaimFails(w)
    \/ Generate(w) \/ CreateTemp(w) \/ WriteTemp(w) \/ PromoteTemp(w)
    \/ UpsertPreview(w) \/ CompleteJob(w)
    \/ WorkFails(w) \/ StatementFails(w) \/ MarkFailure(w)

Step ==
    \/ \E w \in Worker : Work(w) \/ Stop(w)
    \/ \E r \in Requester : InsertJob(r) \/ \E t \in Target : RequestPreview(r, t)
    \/ \E f \in File : DeleteFile(f)
    \/ \E t \in Target : ClearCache(t)

Holds(w, j) == wk[w].pc \notin {"idle", "claim"} /\ wk[w].job = j

(* History only: no guard reads it.                                         *)
Witness ==
    shared' = shared \cup
        {t \in Target : \E v, w \in Worker, j, k \in Job :
            v # w /\ Holds(v, j)' /\ Holds(w, k)' /\ job'[j].target = t /\ job'[k].target = t}

Next == Step /\ Witness

Spec == Init /\ [][Next]_vars

(* The worker's loop goes on; requests need not come.  A worker is not      *)
(* stopped, and the database does not fail, at every single claim.          *)
FairSpec == Spec /\ \A w \in Worker : /\ WF_vars(Work(w) /\ Witness)
                                        /\ SF_vars(ClaimJob(w) /\ Witness)

-----------------------------------------------------------------------------
(* Properties.                                                              *)

(* The shape of the tables, the files and the tasks.                        *)
ShapeOK ==
    /\ job \in [Job -> Row]
    /\ live \subseteq File
    /\ ready \subseteq Target
    /\ object \in [Target -> Inode \cup {Nil}]
    /\ temp \in [Target -> Inode \cup {Nil}]
    /\ content \in [Inode -> {"empty", "whole", "mixed"}]
    /\ wk \in [Worker -> Task]
    /\ asking \in [Requester -> Target \cup {Nil}]

(* The shape of every variable.                                             *)
TypeOK == ShapeOK /\ cleared \subseteq Target /\ shared \subseteq Target

(* Two workers never process one job, nor is a job that one processes still *)
(* in the queue, although claims, retries and failures interleave.          *)
ExclusiveClaim ==
    \A v, w \in Worker, j \in Job :
        /\ Holds(v, j) /\ Holds(w, j) => v = w
        /\ Holds(w, j) => job[j].status # "queued"

(* A job that may still be tried has an attempt left: what is claimed,      *)
(* retried and given up never exceeds PREVIEW_WORKER_MAX_ATTEMPTS.          *)
AttemptsBounded ==
    \A j \in Job : /\ job[j].attempts <= MaxAttempts
                   /\ job[j].status = "queued" => job[j].attempts < MaxAttempts

(* A completed job has its file_previews row, also when statements fail.    *)
CompletedHasPreview ==
    \A j \in Job : job[j].status = "completed" => job[j].target \in ready

(* A preview that is reported ready is a whole one: a failed, stopped or    *)
(* repeated job never leaves a torn object behind or takes one away.  Only  *)
(* clearing the cache takes an object from under its row, until the next    *)
(* job of the target stores it again.  Two workers on one target at once    *)
(* may publish each other's file: the property is about the other targets.  *)
ReadyPreviewIsWhole ==
    \A t \in ready \ shared :
        IF object[t] = Nil THEN t \in cleared ELSE content[object[t]] = "whole"

(* An ended job is never taken up again, unless the worker that completed   *)
(* it was told that the statement had failed.                               *)
EndedForGood ==
    [][\A j \in Job : job[j].status \in Ended /\ job'[j].status # job[j].status
            => \E w \in Worker : wk[w].pc = "fail" /\ wk[w].job = j]_vars

(* No worker has the job that is marked as being processed.                 *)
Stranded(j) == job[j].status = "processing" /\ ~\E w \in Worker : Holds(w, j)

(* Every job is completed or, its attempts used up, marked failed, except   *)
(* for jobs whose worker was stopped or could not write its result.         *)
JobsEndUnlessStranded ==
    \A j \in Job : job[j].status \in Open ~> job[j].status \in Ended \/ Stranded(j)

(* Every job is completed or marked failed.                                 *)
JobsEnd == \A j \in Job : job[j].status \in Open ~> job[j].status \in Ended
=============================================================================
