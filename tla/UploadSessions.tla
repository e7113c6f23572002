--------------------------- MODULE UploadSessions ---------------------------
(***************************************************************************)
(* The resumable upload sessions of the backend: the custom protocol of     *)
(* internal/http/uploads.go, the Tus protocol of internal/http/tus.go, the  *)
(* expired-upload sweep of internal/maintenance and the storage operations  *)
(* they call.                                                               *)
(*                                                                          *)
(* A handler is one HTTP request being served.  Each of its steps is one    *)
(* call whose effect others can see: a statement that takes a row lock, a   *)
(* storage operation, a commit.  The writes of an open transaction are      *)
(* invisible to others until the commit, so they are applied by the commit  *)
(* step; the row locks the transaction holds (the session row from the      *)
(* SELECT ... FOR UPDATE, the user row from the first statement that names  *)
(* the user) can be told from the fields of the request.  A statement that  *)
(* fails ends its transaction and gives these locks back at once.  No       *)
(* handler looks at upload_protocol: a session created by either protocol   *)
(* is served by the handlers of both.                                       *)
(***************************************************************************)
EXTENDS Naturals, Functions

CONSTANTS
    Session,    \* upload session ids, each a fresh UUID of its creator
    Handler,    \* requests the server handles at the same time
    Sweeper,    \* runs of the expired-upload sweep (ticker or admin request)
    User,
    Owner,      \* Owner[s] is the user who creates session s
    Key,        \* fresh storage keys: files/<user>/<day>/<uuid>.bin
    Sizes,      \* declared total sizes a client may announce
    Limits,     \* values of the max file size setting (Nil: unlimited)
    Quotas,     \* values of users.storage_quota_bytes (Nil: unlimited)
    MaxLen,     \* bound: length a temporary file grows to
    Faults,     \* the failures this instance suffers, a subset of AllFaults
    Nil

(* "body": a request body breaks off after some bytes.                      *)
(* "gone": the client disconnects, so the request's context is canceled:    *)
(*         the transaction dies and later storage calls return at once.     *)
(* "db":   the database connection is lost: the transaction is rolled back, *)
(*         and a commit may or may not have taken effect.                   *)
(* "crash": the server process stops and is restarted.                      *)
AllFaults == {"body", "gone", "db", "crash"}

ASSUME NilAssumption ==
    /\ Nil \notin Nat /\ Nil \notin Session /\ Nil \notin Key
    /\ Nil \notin [session : Session, size : Nat]
ASSUME OwnerAssumption == Owner \in [Session -> User]
ASSUME SizesAssumption == Sizes \subseteq Nat \ {0}
ASSUME LimitsAssumption == Limits \subseteq Nat \cup {Nil}
ASSUME QuotasAssumption == Quotas \subseteq Nat \cup {Nil}
ASSUME MaxLenAssumption == MaxLen \in Nat
ASSUME FaultsAssumption == Faults \subseteq AllFaults

VARIABLES
    row,        \* table upload_sessions
    files,      \* table files: the row that points at a storage key, or Nil
    account,    \* table users: used_storage_bytes and storage_quota_bytes
    temp,       \* length of tmp/uploads/<user>/<id>.part, Nil if absent
    object,     \* length of the object under a final key, Nil if absent
    due,        \* sessions whose expires_at has passed
    req,        \* what each handler is doing
    sweep,      \* what each sweep is doing
    heard,      \* what clients have been told about their session
    crossed     \* sessions whose row was locked before a failed completion
                \* had moved their object back

vars == <<row, files, account, temp, object, due, req, sweep, heard, crossed>>

-----------------------------------------------------------------------------
(* The tables and the requests.                                             *)

Active   == {"initialized", "uploading"}
Terminal == {"completed", "failed", "canceled", "expired"}

(* The statuses the handlers write.  The sweep also looks for 'paused',     *)
(* which nothing sets.                                                      *)
Row  == [status : {"absent"} \cup Active \cup Terminal,
         total : Nat \cup {Nil}, uploaded : Nat]
File == [session : Session, size : Nat]

Steps == {"idle", "insert", "append", "record", "move", "book", "charge",
          "check", "audit", "commit", "undo", "unlink", "report"}

Kinds == {"init", "chunk", "patch", "complete", "cancel", "delete"}

(* kind: which handler runs.  upto: the session's uploaded_bytes as the     *)
(* transaction sees it.  cap: the setting or the total the request goes by. *)
(* tx: the transaction is open and holds the session row.  paid: it has     *)
(* updated the user row.                                                    *)
Request == [pc : Steps, kind : Kinds,
            s : Session \cup {Nil}, upto : Nat, cap : Nat \cup {Nil},
            key : Key \cup {Nil}, tx : BOOLEAN, paid : BOOLEAN]

NoRequest == [pc |-> "idle", kind |-> "init", s |-> Nil, upto |-> 0,
              cap |-> Nil, key |-> Nil, tx |-> FALSE, paid |-> FALSE]

Fits(n, bound) == bound # Nil => n <= bound
Length(len) == IF len = Nil THEN 0 ELSE len

(* A run of the sweep that has nothing in hand.                             *)
Resting == [todo |-> {}, at |-> Nil, doomed |-> Nil]

(* Not the code: SELECT without FOR UPDATE, an UPDATE that does not wait.   *)
BugNoSessionLock(s) == TRUE
BugNoAccountLock(u) == TRUE

SessionFree(s) == \A h \in Handler : ~(req[h].tx /\ req[h].s = s)

(* The row locks PostgreSQL keeps on the user, and what each lets through.  *)
(* INSERT INTO files checks owner_id: FOR KEY SHARE, compatible with itself *)
(* and with the UPDATE of the usage (FOR NO KEY UPDATE), which is not       *)
(* compatible with itself; SELECT ... FOR UPDATE is compatible with none.   *)
ForUser(h, u) == req[h].s # Nil /\ Owner[req[h].s] = u
HoldsKeyShare(h, u) == ForUser(h, u) /\ req[h].tx /\ req[h].pc = "charge"
HoldsUpdate(h, u) == ForUser(h, u) /\ req[h].paid
HoldsForUpdate(h, u) == HoldsUpdate(h, u) /\ req[h].pc \in {"audit", "commit", "undo"}

(* A statement that checks a reference to the user, one that updates the    *)
(* user, and one of handler h that goes from there to FOR UPDATE, may go on.*)
UserShareable(u) == \A g \in Handler : ~HoldsForUpdate(g, u)
AccountFree(u) == \A g \in Handler : ~HoldsUpdate(g, u)
UserUnshared(u) == \A g \in Handler : ~HoldsKeyShare(g, u)

Init ==
    /\ row = [s \in Session |-> [status |-> "absent", total |-> Nil, uploaded |-> 0]]
    /\ files = [k \in Key |-> Nil]
    /\ \E q \in [User -> Quotas] :
          account = [u \in User |-> [used |-> 0, quota |-> q[u]]]
    /\ temp = [s \in Session |-> Nil]
    /\ object = [k \in Key |-> Nil]
    /\ due = {}
    /\ req = [h \in Handler |-> NoRequest]
    /\ sweep = [w \in Sweeper |-> Resting]
    /\ heard = [s \in Session |-> [offset |-> 0, done |-> FALSE]]
    /\ crossed = {}

(* A handler starts to serve a request for session s.                       *)
Serving(kind, step, s) == [NoRequest EXCEPT !.pc = step, !.kind = kind, !.s = s]

(* The handler returns; a transaction it still holds is rolled back.        *)
Return(h) == req' = [req EXCEPT ![h] = NoRequest]

(* Somebody else takes the row of s while a completion of s whose           *)
(* transaction has ended still has its object to move back.                 *)
Cross(s) ==
    crossed' = IF \E g \in Handler : req[g].pc = "undo" /\ req[g].s = s
               THEN crossed \cup {s} ELSE crossed

-----------------------------------------------------------------------------
(* Creating a session.                                                      *)

(* What a read of the settings may find: UpdateUploadSettings writes them   *)
(* at any time.                                                             *)
GetUploadSettings == Limits

(* canUserStoreBytes: the room left now.  Nothing is reserved.              *)
CanUserStoreBytes(u, n) ==
    n # Nil => Fits(account[u].used + n, account[u].quota)

Admit(h, s, t) ==
    /\ req[h].pc = "idle"
    /\ row[s].status = "absent"
    /\ \A g \in Handler : req[g].s # s
    /\ \E limit \in GetUploadSettings : t # Nil => Fits(t, limit)
    /\ CanUserStoreBytes(Owner[s], t)
    /\ req' = [req EXCEPT ![h] = [Serving("init", "insert", s) EXCEPT !.cap = t]]
    /\ UNCHANGED <<row, files, account, temp, object, due, sweep, heard, crossed>>

(* uploadInit up to its INSERT: the total size is optional.                 *)
UploadInit(h, s) == \E t \in Sizes \cup {Nil} : Admit(h, s, t)

(* tusCreate up to its INSERT: Upload-Length is required.                   *)
TusCreate(h, s) == \E t \in Sizes : Admit(h, s, t)

(* The INSERT of either; its owner_id refers to the user.                   *)
InsertSession(h) ==
    LET s == req[h].s IN
    /\ req[h].pc = "insert"
    /\ UserShareable(Owner[s])
    /\ row' = [row EXCEPT ![s] = [status |-> "initialized",
                                  total |-> req[h].cap, uploaded |-> 0]]
    /\ Return(h)
    /\ UNCHANGED <<files, account, temp, object, due, sweep, heard, crossed>>

-----------------------------------------------------------------------------
(* Appending bytes.                                                         *)

(* Not the code: the status of the locked row is not looked at.             *)
BugStatusUnchecked(h, s, kind, step, cap) ==
    /\ req[h].pc = "idle"
    /\ SessionFree(s)
    /\ row[s].status # "absent"
    /\ req' = [req EXCEPT ![h] = [Serving(kind, step, s) EXCEPT
                                    !.upto = row[s].uploaded, !.cap = cap, !.tx = TRUE]]
    /\ Cross(s)
    /\ UNCHANGED <<row, files, account, temp, object, due, sweep, heard>>

(* lockUploadSession: SELECT ... FOR UPDATE in a new transaction, and the   *)
(* checks that every writing handler makes on the status it reads.          *)
LockUploadSession(h, s, kind, step, cap) ==
    /\ req[h].pc = "idle"
    /\ SessionFree(s)
    /\ row[s].status \in Active
    /\ req' = [req EXCEPT ![h] = [Serving(kind, step, s) EXCEPT
                                    !.upto = row[s].uploaded, !.cap = cap, !.tx = TRUE]]
    /\ Cross(s)
    /\ UNCHANGED <<row, files, account, temp, object, due, sweep, heard>>

(* uploadChunk: the size limit was read before the lock is taken.           *)
UploadChunk(h, s) ==
    \E limit \in GetUploadSettings :
        /\ Fits(row[s].uploaded, limit)
        /\ LockUploadSession(h, s, "chunk", "append", limit)

(* tusPatch: the session must have a total size.                            *)
TusPatch(h, s) ==
    /\ row[s].total # Nil
    /\ LockUploadSession(h, s, "patch", "append", row[s].total)

(* AppendAt opens the file, creating it if it is missing, and refuses when  *)
(* its end is not the session's offset: the empty file stays.               *)
AppendMismatch(h) ==
    LET s == req[h].s IN
    /\ req[h].pc = "append"
    /\ Length(temp[s]) # req[h].upto
    /\ temp' = [temp EXCEPT ![s] = Length(temp[s])]
    /\ Return(h)
    /\ UNCHANGED <<row, files, account, object, due, sweep, heard, crossed>>

(* What a body may add at offset base: the reader stops one byte past cap.  *)
Appended(base, cap) == {m \in base..MaxLen : cap # Nil => m <= cap + 1}

AppendAt(h) ==
    LET s == req[h].s IN
    /\ req[h].pc = "append"
    /\ Length(temp[s]) = req[h].upto
    /\ \E m \in Appended(req[h].upto, req[h].cap) :
         /\ temp' = [temp EXCEPT ![s] = m]
         /\ \/ req' = [req EXCEPT ![h].pc = "record", ![h].upto = m]
            \/ Faults \cap {"body", "gone"} # {} /\ Return(h)
    /\ UNCHANGED <<row, files, account, object, due, sweep, heard, crossed>>

(* The new offset passes the limit or the total: the UPDATE to 'failed' is  *)
(* rolled back when the handler returns, and the bytes stay in the file.    *)
Oversize(h) == ~Fits(req[h].upto, req[h].cap) \/ ~Fits(req[h].upto, row[req[h].s].total)

RejectChunk(h) ==
    /\ req[h].pc = "record" /\ req[h].tx
    /\ Oversize(h)
    /\ Return(h)
    /\ UNCHANGED <<row, files, account, temp, object, due, sweep, heard, crossed>>

LastTusChunk(h) == req[h].kind = "patch" /\ req[h].upto = row[req[h].s].total

(* Not the code: the UPDATE leaves uploaded_bytes alone.                    *)
BugOffsetForgotten(h) == row' = [row EXCEPT ![req[h].s].status = "uploading"]

(* UPDATE uploaded_bytes and commit.                                        *)
RecordProgress(h) ==
    row' = [row EXCEPT ![req[h].s].status = "uploading",
                       ![req[h].s].uploaded = req[h].upto]

RecordChunk(h) ==
    /\ req[h].pc = "record" /\ req[h].tx
    /\ ~Oversize(h) /\ ~LastTusChunk(h)
    /\ \/ RecordProgress(h) /\ heard' = [heard EXCEPT ![req[h].s].offset = req[h].upto]
       \/ "db" \in Faults /\ RecordProgress(h) /\ UNCHANGED heard
       \/ "db" \in Faults /\ UNCHANGED <<row, heard>>
    /\ Return(h)
    /\ UNCHANGED <<files, account, temp, object, due, sweep, crossed>>

(* The last Tus chunk goes on to finalizeTusSessionTx in the transaction.   *)
RecordLastChunk(h) ==
    /\ req[h].pc = "record" /\ req[h].tx
    /\ ~Oversize(h) /\ LastTusChunk(h)
    /\ req' = [req EXCEPT ![h].pc = "move"]
    /\ UNCHANGED <<row, files, account, temp, object, due, sweep, heard, crossed>>

-----------------------------------------------------------------------------
(* Turning a session into a file: uploadComplete and finalizeTusSessionTx.  *)

(* uploadComplete: a session of unknown total is completable at any time.   *)
UploadComplete(h, s) ==
    /\ row[s].total # Nil => row[s].uploaded = row[s].total
    /\ LockUploadSession(h, s, "complete", "move", Nil)

FreshKey(k) ==
    object[k] = Nil /\ files[k] = Nil /\ \A h \in Handler : req[h].key # k

(* Storage.Move(temp, final), which fails when the temporary file is gone.  *)
MoveToFinal(h) ==
    LET s == req[h].s IN
    /\ req[h].pc = "move"
    /\ temp[s] # Nil
    /\ \E k \in Key :
         /\ FreshKey(k)
         /\ object' = [object EXCEPT ![k] = temp[s]]
         /\ req' = [req EXCEPT ![h].pc = "book", ![h].key = k]
    /\ temp' = [temp EXCEPT ![s] = Nil]
    /\ UNCHANGED <<row, files, account, due, sweep, heard, crossed>>

(* Not the code: an error of Move is ignored.                               *)
BugMoveIgnored(h) ==
    /\ req[h].pc = "move"
    /\ temp[req[h].s] = Nil
    /\ \E k \in Key :
         FreshKey(k) /\ req' = [req EXCEPT ![h].pc = "book", ![h].key = k]
    /\ UNCHANGED <<row, files, account, temp, object, due, sweep, heard, crossed>>

MoveFails(h) ==
    /\ req[h].pc = "move"
    /\ temp[req[h].s] = Nil
    /\ Return(h)
    /\ UNCHANGED <<row, files, account, temp, object, due, sweep, heard, crossed>>

(* Not the code: the object is not moved back.                              *)
BugNoUndo(h) ==
    /\ req[h].pc = "book" /\ req[h].tx
    /\ Return(h)
    /\ UNCHANGED <<row, files, account, temp, object, due, sweep, heard, crossed>>

(* The transaction is over before the handler returns, its locks with it.   *)
Aborted(h, step) ==
    req' = [req EXCEPT ![h].pc = step, ![h].tx = FALSE, ![h].paid = FALSE]

(* INSERT INTO files meets an active file of that name.  (A name that       *)
(* another open transaction inserts is waited for before the user is: such  *)
(* a wait ends with that transaction and is not a step.)                    *)
NameConflict(h) ==
    /\ req[h].pc = "book" /\ req[h].tx
    /\ Aborted(h, "undo")
    /\ UNCHANGED <<row, files, account, temp, object, due, sweep, heard, crossed>>

InsertFile(h) ==
    /\ req[h].pc = "book" /\ req[h].tx
    /\ UserShareable(Owner[req[h].s])
    /\ req' = [req EXCEPT ![h].pc = "charge"]
    /\ UNCHANGED <<row, files, account, temp, object, due, sweep, heard, crossed>>

(* UPDATE users SET used_storage_bytes = used_storage_bytes + $1.           *)
ChargeUser(h) ==
    /\ req[h].pc = "charge" /\ req[h].tx
    /\ AccountFree(Owner[req[h].s])
    /\ req' = [req EXCEPT ![h].pc = "check", ![h].paid = TRUE]
    /\ UNCHANGED <<row, files, account, temp, object, due, sweep, heard, crossed>>

(* ensureQuotaAllowsSizeTx on the usage that results.                       *)
EnsureQuotaAllows(u, n) == Fits(account[u].used + n, account[u].quota)

(* Not the code: uploadComplete, too, audits before it commits.             *)
BugAuditFirst(kind) == "audit"

(* What follows an accepted charge: the Tus completion writes its audit row *)
(* before it returns to tusPatch, which commits.                            *)
AfterCheck(kind) == IF kind = "patch" THEN "audit" ELSE "commit"

EnsureQuota(h) ==
    LET u == Owner[req[h].s] IN
    /\ req[h].pc = "check" /\ req[h].tx
    /\ UserUnshared(u)
    /\ req' = [req EXCEPT ![h].pc = IF EnsureQuotaAllows(u, req[h].upto)
                                    THEN AfterCheck(req[h].kind) ELSE "undo"]
    /\ UNCHANGED <<row, files, account, temp, object, due, sweep, heard, crossed>>

(* Not the code: the completion that is aborted just returns.               *)
BugVictimReturns(h) ==
    /\ req[h].tx /\ req[h].pc = "check"
    /\ \E g \in Handler : HoldsKeyShare(g, Owner[req[h].s])
    /\ Return(h)
    /\ UNCHANGED <<row, files, account, temp, object, due, sweep, heard, crossed>>

(* PostgreSQL: one completion waits for FOR UPDATE while another of that    *)
(* user, which shares the row, waits to update it.  One of the two is       *)
(* chosen and aborted.                                                      *)
DeadlockDetected(h) ==
    /\ req[h].tx
    /\ \E g \in Handler :
         /\ req[g].tx /\ ForUser(g, Owner[req[h].s])
         /\ <<req[g].pc, req[h].pc>> \in {<<"charge", "check">>, <<"check", "charge">>}
    /\ Aborted(h, "undo")
    /\ UNCHANGED <<row, files, account, temp, object, due, sweep, heard, crossed>>

(* insertAudit, on another connection and outside the transaction: the row  *)
(* names the user, so the INSERT waits for whoever holds the user           *)
(* FOR UPDATE, which on this path is the request itself.  Its error is      *)
(* ignored.                                                                 *)
AuditWritten(u) == UserShareable(u) \/ "db" \in Faults

InsertAudit(h) ==
    /\ req[h].pc = "audit"
    /\ AuditWritten(Owner[req[h].s])
    /\ req' = [req EXCEPT ![h].pc = "commit"]
    /\ UNCHANGED <<row, files, account, temp, object, due, sweep, heard, crossed>>

(* Not the code: the file row takes its size from the session as it was     *)
(* before the last chunk.                                                   *)
BugStaleSize(h) ==
    LET s == req[h].s IN
    /\ row' = [row EXCEPT ![s].status = "completed", ![s].uploaded = req[h].upto]
    /\ files' = [files EXCEPT ![req[h].key] = [session |-> s, size |-> row[s].uploaded]]
    /\ account' = [account EXCEPT ![Owner[s]].used = @ + req[h].upto]

(* Not the code: the size of the new file replaces what the user had used.  *)
BugUsageReplaced(h) ==
    LET s == req[h].s IN
    /\ row' = [row EXCEPT ![s].status = "completed", ![s].uploaded = req[h].upto]
    /\ files' = [files EXCEPT ![req[h].key] = [session |-> s, size |-> req[h].upto]]
    /\ account' = [account EXCEPT ![Owner[s]].used = req[h].upto]

(* What the committed transaction leaves in the tables.                     *)
ApplyCompletion(h) ==
    LET s == req[h].s IN
    /\ row' = [row EXCEPT ![s].status = "completed", ![s].uploaded = req[h].upto]
    /\ files' = [files EXCEPT ![req[h].key] = [session |-> s, size |-> req[h].upto]]
    /\ account' = [account EXCEPT ![Owner[s]].used = @ + req[h].upto]

Completed(h) ==
    heard' = [heard EXCEPT ![req[h].s] = [offset |-> req[h].upto, done |-> TRUE]]

(* The commit: tusPatch answers, uploadComplete writes its audit row first. *)
Commit(h) ==
    /\ req[h].pc = "commit" /\ req[h].tx
    /\ ApplyCompletion(h)
    /\ IF req[h].kind = "complete"
       THEN /\ req' = [req EXCEPT ![h].pc = "report", ![h].key = Nil,
                                  ![h].tx = FALSE, ![h].paid = FALSE]
            /\ UNCHANGED heard
       ELSE Completed(h) /\ Return(h)
    /\ UNCHANGED <<temp, object, due, sweep, crossed>>

(* insertAudit after the work is done, by uploadComplete and uploadCancel,  *)
(* and the answer.                                                          *)
Report(h) ==
    /\ req[h].pc = "report"
    /\ AuditWritten(Owner[req[h].s])
    /\ IF req[h].kind = "complete" THEN Completed(h) ELSE UNCHANGED heard
    /\ Return(h)
    /\ UNCHANGED <<row, files, account, temp, object, due, sweep, crossed>>

(* After a commit that reports an error, uploadComplete moves the object    *)
(* back; tusPatch just returns.                                             *)
AfterFailedCommit(h) ==
    IF req[h].kind = "complete" THEN Aborted(h, "undo") ELSE Return(h)

(* Commit reports an error although it took effect on the server.           *)
CommitUnacknowledged(h) ==
    /\ "db" \in Faults
    /\ req[h].pc = "commit" /\ req[h].tx
    /\ ApplyCompletion(h)
    /\ AfterFailedCommit(h)
    /\ UNCHANGED <<temp, object, due, sweep, heard, crossed>>

(* The compensating Move(final, temp), which replaces what is there.        *)
Undo(h) ==
    LET r == req[h] IN
    /\ r.pc = "undo"
    /\ temp' = [temp EXCEPT ![r.s] = object[r.key]]
    /\ object' = [object EXCEPT ![r.key] = Nil]
    /\ Return(h)
    /\ UNCHANGED <<row, files, account, due, sweep, heard, crossed>>

(* A completed session answers a repeated request with its file.            *)
Replay(s) ==
    /\ SessionFree(s)
    /\ row[s].status = "completed"
    /\ heard' = [heard EXCEPT ![s] = [offset |-> row[s].uploaded, done |-> TRUE]]
    /\ UNCHANGED <<row, files, account, temp, object, due, req, sweep, crossed>>

(* Not the code: the length of the temporary file is reported.              *)
BugOffsetFromFile(s) ==
    /\ row[s].status # "absent"
    /\ heard' = [heard EXCEPT ![s].offset = temp[s]]
    /\ UNCHANGED <<row, files, account, temp, object, due, req, sweep, crossed>>

(* uploadStatus and tusHead: the offset to resume from.                     *)
UploadStatus(s) ==
    /\ row[s].status # "absent"
    /\ heard' = [heard EXCEPT ![s].offset = row[s].uploaded]
    /\ UNCHANGED <<row, files, account, temp, object, due, req, sweep, crossed>>

-----------------------------------------------------------------------------
(* Ending a session: cancellation and the sweep of expired sessions.        *)

(* The UPDATE of uploadCancel and tusDelete: whatever the status was.       *)
Cancel(h, s) ==
    /\ req[h].pc = "idle"
    /\ row[s].status # "absent"
    /\ SessionFree(s)
    /\ row' = [row EXCEPT ![s].status = "canceled"]
    /\ \E kind \in {"cancel", "delete"} :
         req' = [req EXCEPT ![h] = Serving(kind, "unlink", s)]
    /\ Cross(s)
    /\ UNCHANGED <<files, account, temp, object, due, sweep, heard>>

(* tusDelete goes on when its UPDATE failed.                                *)
TusDeleteUnrecorded(h, s) ==
    /\ "db" \in Faults
    /\ req[h].pc = "idle"
    /\ row[s].status # "absent"
    /\ req' = [req EXCEPT ![h] = Serving("delete", "unlink", s)]
    /\ UNCHANGED <<row, files, account, temp, object, due, sweep, heard, crossed>>

(* Storage.Delete of the temporary file; a missing file is no error.        *)
(* tusDelete writes no audit row.                                           *)
Unlink(h) ==
    /\ req[h].pc = "unlink"
    /\ temp' = [temp EXCEPT ![req[h].s] = Nil]
    /\ IF req[h].kind = "cancel"
       THEN req' = [req EXCEPT ![h].pc = "report"] ELSE Return(h)
    /\ UNCHANGED <<row, files, account, object, due, sweep, heard, crossed>>

(* expires_at passes; it matters only while the session is active.          *)
Expire(s) ==
    /\ row[s].status \in Active /\ s \notin due
    /\ due' = due \cup {s}
    /\ UNCHANGED <<row, files, account, temp, object, req, sweep, heard, crossed>>

(* Not the code: sessions with a first chunk are left out.                  *)
BugSelectUntouched(w) ==
    /\ sweep[w] = Resting
    /\ \E s \in due : row[s].status = "initialized"
    /\ sweep' = [sweep EXCEPT ![w].todo = {s \in due : row[s].status = "initialized"}]
    /\ UNCHANGED <<row, files, account, temp, object, due, req, heard, crossed>>

(* runOnce: the SELECT sees the sessions as they are when it starts.        *)
SweepSelect(w) ==
    /\ sweep[w] = Resting
    /\ \E s \in due : row[s].status \in Active
    /\ sweep' = [sweep EXCEPT ![w].todo = {s \in due : row[s].status \in Active}]
    /\ UNCHANGED <<row, files, account, temp, object, due, req, heard, crossed>>

(* rows.Next: the next session the SELECT found.                            *)
SweepNext(w, s) ==
    /\ s \in sweep[w].todo /\ sweep[w].at = Nil /\ sweep[w].doomed = Nil
    /\ sweep' = [sweep EXCEPT ![w].todo = @ \ {s}, ![w].at = s]
    /\ UNCHANGED <<row, files, account, temp, object, due, req, heard, crossed>>

(* UPDATE ... SET status='expired' WHERE id=$1, with no look at the status. *)
(* The whole sweep waits for the row.                                       *)
SweepMark(w) ==
    LET s == sweep[w].at IN
    /\ s # Nil
    /\ SessionFree(s)
    /\ row' = [row EXCEPT ![s].status = "expired"]
    /\ sweep' = [sweep EXCEPT ![w].at = Nil, ![w].doomed = s]
    /\ Cross(s)
    /\ UNCHANGED <<files, account, temp, object, due, req, heard>>

(* The error of that UPDATE is ignored too.                                 *)
SweepMarkUnrecorded(w) ==
    /\ "db" \in Faults
    /\ sweep[w].at # Nil
    /\ sweep' = [sweep EXCEPT ![w].at = Nil, ![w].doomed = sweep[w].at]
    /\ UNCHANGED <<row, files, account, temp, object, due, req, heard, crossed>>

SweepUnlink(w) ==
    LET s == sweep[w].doomed IN
    /\ s # Nil
    /\ temp' = [temp EXCEPT ![s] = Nil]
    /\ sweep' = [sweep EXCEPT ![w].doomed = Nil]
    /\ UNCHANGED <<row, files, account, object, due, req, heard, crossed>>

(* adminPatchUser sets a quota; the UPDATE waits for the user row.          *)
SetQuota(u, q) ==
    /\ AccountFree(u)
    /\ account[u].quota # q
    /\ account' = [account EXCEPT ![u].quota = q]
    /\ UNCHANGED <<row, files, temp, object, due, req, sweep, heard, crossed>>

-----------------------------------------------------------------------------
(* Failures.                                                                *)

(* The client goes away: the canceled context kills the transaction, and    *)
(* neither Move nor Delete does anything any more.  A commit or progress    *)
(* update under way may have taken effect.                                  *)
Disconnect(h) ==
    /\ "gone" \in Faults
    /\ req[h].pc # "idle"
    /\ Return(h)
    /\ \/ UNCHANGED <<row, files, account>>
       \/ req[h].pc = "commit" /\ req[h].tx /\ ApplyCompletion(h)
       \/ /\ req[h].pc = "record" /\ req[h].tx
          /\ ~Oversize(h) /\ ~LastTusChunk(h)
          /\ RecordProgress(h)
          /\ UNCHANGED <<files, account>>
    /\ UNCHANGED <<temp, object, due, sweep, heard, crossed>>

(* The connection of a transaction is lost, and its row locks with it; the  *)
(* handler learns of it at its next statement.                              *)
LoseConnection(h) ==
    /\ "db" \in Faults
    /\ req[h].tx
    /\ req' = [req EXCEPT ![h].tx = FALSE, ![h].paid = FALSE]
    /\ UNCHANGED <<row, files, account, temp, object, due, sweep, heard, crossed>>

StatementFails(h) ==
    /\ ~req[h].tx
    /\ \/ req[h].pc = "record" /\ Return(h)
       \/ req[h].pc \in {"book", "charge", "check"} /\ Aborted(h, "undo")
       \/ req[h].pc = "commit" /\ AfterFailedCommit(h)
    /\ UNCHANGED <<row, files, account, temp, object, due, sweep, heard, crossed>>

(* The request that runs the sweep is cut, or the server shuts down.        *)
SweepCut(w) ==
    /\ "gone" \in Faults
    /\ sweep[w] # Resting
    /\ sweep' = [sweep EXCEPT ![w] = Resting]
    /\ UNCHANGED <<row, files, account, temp, object, due, req, heard, crossed>>

(* The process dies: requests, sweeps and transactions are gone.            *)
Crash ==
    /\ "crash" \in Faults
    /\ req' = [h \in Handler |-> NoRequest]
    /\ sweep' = [w \in Sweeper |-> Resting]
    /\ UNCHANGED <<row, files, account, temp, object, due, heard, crossed>>

-----------------------------------------------------------------------------
(* A request arrives; and a request being served takes its next step.       *)
Arrive(h) ==
    \E s \in Session :
        \/ UploadInit(h, s) \/ TusCreate(h, s)
        \/ UploadChunk(h, s) \/ TusPatch(h, s) \/ UploadComplete(h, s)
        \/ Cancel(h, s) \/ TusDeleteUnrecorded(h, s)

(* AppendAt reads the request's body, for as long as the client takes.      *)
Receive(h) == AppendMismatch(h) \/ AppendAt(h)

Serve(h) ==
    \/ InsertSession(h)
    \/ RejectChunk(h) \/ RecordChunk(h) \/ RecordLastChunk(h)
    \/ MoveToFinal(h) \/ MoveFails(h)
    \/ NameConflict(h) \/ InsertFile(h) \/ ChargeUser(h) \/ EnsureQuota(h)
    \/ DeadlockDetected(h) \/ InsertAudit(h)
    \/ Commit(h) \/ CommitUnacknowledged(h)
    \/ StatementFails(h) \/ Undo(h) \/ Unlink(h) \/ Report(h)

Sweep(w) ==
    \/ SweepSelect(w) \/ (\E s \in Session : SweepNext(w, s))
    \/ SweepMark(w) \/ SweepMarkUnrecorded(w) \/ SweepUnlink(w)

Next ==
    \/ \E h \in Handler :
          Arrive(h) \/ Receive(h) \/ Serve(h) \/ Disconnect(h) \/ LoseConnection(h)
    \/ \E w \in Sweeper : Sweep(w) \/ SweepCut(w)
    \/ \E s \in Session : Replay(s) \/ UploadStatus(s) \/ Expire(s)
    \/ \E u \in User, q \in Quotas : SetQuota(u, q)
    \/ Crash

Spec == Init /\ [][Next]_vars
-----------------------------------------------------------------------------
(* Properties.                                                              *)

(* The shape of every variable.                                             *)
TypeOK ==
    /\ row \in [Session -> Row]
    /\ files \in [Key -> File \cup {Nil}]
    /\ account \in [User -> [used : Nat, quota : Nat \cup {Nil}]]
    /\ temp \in [Session -> Nat \cup {Nil}]
    /\ object \in [Key -> Nat \cup {Nil}]
    /\ due \subseteq Session
    /\ req \in [Handler -> Request]
    /\ sweep \in [Sweeper -> [todo : SUBSET Session, at : Session \cup {Nil},
                              doomed : Session \cup {Nil}]]
    /\ heard \in [Session -> [offset : Nat, done : BOOLEAN]]
    /\ crossed \subseteq Session

FilesOf(u) == {k \in Key : files[k] # Nil /\ Owner[files[k].session] = u}

(* used_storage_bytes is the size of the user's file rows, whatever fails:  *)
(* the charge, the file row and the session's status commit together.       *)
UsedMatchesFiles ==
    \A u \in User : account[u].used = SumFunction([k \in FilesOf(u) |-> files[k].size])

(* However often a completion is repeated, raced or left unanswered, a      *)
(* session becomes one file at most.                                        *)
OneFilePerSession ==
    \A j, k \in Key :
        files[j] # Nil /\ files[k] # Nil /\ files[j].session = files[k].session => j = k

(* What a client was told is kept: its acknowledged offset never moves back *)
(* and a reported completion has its file row, of the acknowledged length.  *)
AcknowledgedIsDurable ==
    \A s \in Session :
        /\ heard[s].offset <= row[s].uploaded
        /\ heard[s].done =>
             \E k \in Key : files[k] = [session |-> s, size |-> row[s].uploaded]

(* A completion is charged only within the quota in force when it commits,  *)
(* although quotas change and completions of one user race.                 *)
ChargeWithinQuota ==
    [][\A u \in User : account'[u].used > account[u].used =>
           Fits(account'[u].used, account'[u].quota)]_vars

(* No late chunk, completion or sweep makes a finished session writable.    *)
TerminalIsFinal ==
    [][\A s \in Session : row[s].status \in Terminal => row'[s].status \in Terminal]_vars

(* The promise these tables keep: the ledger of module UploadLedger.  A     *)
(* completed session may later read 'canceled' or 'expired', so a session   *)
(* counts as stored when it has a file row.                                 *)
Stored(s) == \E k \in Key : files[k] # Nil /\ files[k].session = s

Phase(s) ==
    CASE Stored(s) -> "stored"
      [] ~Stored(s) /\ row[s].status = "absent" -> "none"
      [] ~Stored(s) /\ row[s].status \in Active -> "open"
      [] ~Stored(s) /\ row[s].status \in Terminal -> "closed"

Ledger == INSTANCE UploadLedger WITH
    phase <- [s \in Session |-> Phase(s)],
    size  <- [s \in Session |-> IF Stored(s) THEN row[s].uploaded ELSE 0],
    used  <- [u \in User |-> account[u].used],
    quota <- [u \in User |-> account[u].quota]

(* Every run of the handlers is a run of the ledger.                        *)
ImplementsLedger == Ledger!LedgerSpec

(* While requests only break off in their bodies: a file row points at an   *)
(* object with at least the bytes it promises, unless its session was       *)
(* crossed: a statement that fails gives the session row back before the    *)
(* object is, and what a request appends in between is overwritten.         *)
FileIsBacked ==
    \A k \in Key : files[k] # Nil =>
        /\ object[k] # Nil
        /\ object[k] >= files[k].size \/ files[k].session \in crossed

(* ... and an object under a final key belongs to a file row or to a        *)
(* completion that will book it or move it back.                            *)
NoOrphanObject ==
    \A k \in Key : object[k] # Nil => files[k] # Nil \/ \E h \in Handler : req[h].key = k

(* The offset that HEAD and the status request report is the one AppendAt   *)
(* accepts, once no request works on the session.                           *)
ReportedOffsetIsAppendable ==
    \A s \in Session :
        row[s].status \in Active /\ SessionFree(s) => Length(temp[s]) = row[s].uploaded

Working(h) == req[h].pc # "idle"

(* The body of a chunk may never come: no read of the server has a time     *)
(* limit.                                                                   *)
Receiving(h) == req[h].pc = "append"

(* The last Tus chunk, whose audit row waits for its own transaction.       *)
SelfBlocked(h) == req[h].pc = "audit" /\ req[h].tx /\ req[h].kind = "patch"
Blocks(g, h) ==
    SelfBlocked(g) /\ Working(h) /\ Owner[req[g].s] = Owner[req[h].s]

(* Fairness: a goroutine that can run does; a statement that waits for a    *)
(* row lock gets it when the lock is free again and again, because          *)
(* PostgreSQL queues the waiters of a row, and one that waits in a circle   *)
(* is aborted or let go; the maintenance ticker keeps starting sweeps.      *)
(* Requests need not arrive, nor their bodies.                              *)
Fairness ==
    /\ \A h \in Handler : SF_vars(Serve(h))
    /\ \A w \in Sweeper : WF_vars(SweepSelect(w)) /\ WF_vars(SweepUnlink(w))
    /\ \A w \in Sweeper : WF_vars(\E s \in Session : SweepNext(w, s))
    /\ \A w \in Sweeper : SF_vars(SweepMark(w))

FairSpec == Spec /\ Fairness

(* Whatever completions, cancellations and chunks of one user wait for each *)
(* other, every request ends, but for one whose body never ends and those   *)
(* of a user whose last Tus chunk hangs on its own audit row.               *)
RequestsEnd ==
    \A h \in Handler :
        Working(h) ~> \/ ~Working(h)
                      \/ []Receiving(h)
                      \/ \E g \in Handler : []Blocks(g, h)

(* A session past its expiry is ended, although chunks keep arriving, unless*)
(* a request for good keeps a row the sweep waits for: of any session, as   *)
(* one sweep goes from row to row.                                          *)
ExpiredSessionsEnd ==
    \A s \in Session :
        s \in due ~> \/ row[s].status \in Terminal
                     \/ \E h \in Handler : []Receiving(h) \/ []SelfBlocked(h)

(* The temporary file of an ended session is removed and stays removed,     *)
(* unless a completion that had given up the row moves its object back.     *)
TempReclaimed ==
    \A s \in Session :
        row[s].status \in Terminal ~> s \in crossed \/ [](temp[s] = Nil)

(* What docs/alerting-policy.md counts on: a chunk that is refused because  *)
(* it passes the declared size or the limit leaves its session 'failed'.    *)
RefusedChunkFails ==
    [][\A h \in Handler :
          req[h].pc = "record" /\ req[h].tx /\ Oversize(h) /\ req'[h].pc = "idle"
          => row'[req[h].s].status = "failed"]_vars

(* docs/architecture.md, on an upload whose last bytes are there: the       *)
(* backend moves the object, and file and usage are committed.              *)
ChargedUploadCommits ==
    \A h \in Handler, s \in Session :
        req[h].pc \in {"audit", "commit"} /\ req[h].s = s ~> Stored(s)
=============================================================================
