----------------------- MODULE UploadSessions_proofs -----------------------
(***************************************************************************)
(* Theorems about UploadSessions for any number of sessions, requests,      *)
(* sweeps and users.  All but FilesAreBacked and NoObjectOrphaned hold for  *)
(* every set of failures.  The invariants build on each other: TypeInv      *)
(* (types, and what a request at work carries), SafetyInv (row locks,       *)
(* tables and reports), UsageInv (the accounts) and BackedInv (the bytes on *)
(* disk, of all sessions that were not crossed).                            *)
(***************************************************************************)
EXTENDS UploadSessions, Sums_proofs

(* The completion has moved the temporary file to its storage key.          *)
Moved == {"book", "charge", "check", "audit", "commit", "undo"}

(* The steps of a handler that took the session row.                        *)
Locking == {"append", "record", "move"} \cup Moved

USE DEF Moved, Locking

(* A request that does something works on a session, and on a storage key   *)
(* once it has moved the temporary file.                                    *)
Equipped ==
    \A h \in Handler :
        /\ req[h].pc # "idle" => req[h].s \in Session
        /\ req[h].tx => req[h].pc \in Locking
        /\ req[h].pc \in Moved => req[h].key \in Key
        /\ req[h].paid => req[h].tx

TypeInv == TypeOK /\ Equipped

(* What Equipped asks of one request.                                       *)
Ready(r) ==
    /\ r \in Request
    /\ r.pc # "idle" => r.s \in Session
    /\ r.tx => r.pc \in Locking
    /\ r.pc \in Moved => r.key \in Key
    /\ r.paid => r.tx

LEMMA NoRequestReady == Ready(NoRequest)
  BY DEF Ready, NoRequest, Request, Steps, Kinds

LEMMA ServingReady ==
  ASSUME NEW s \in Session, NEW kind \in Kinds,
         NEW step \in {"insert", "append", "move", "unlink"}
  PROVE  Ready(Serving(kind, step, s))
  BY DEF Ready, Serving, NoRequest, Request, Steps, Kinds

(* Replacing one request by a ready one keeps the requests well formed.     *)
LEMMA StepReady ==
  ASSUME TypeInv, NEW h \in Handler, NEW r, Ready(r), req' = [req EXCEPT ![h] = r]
  PROVE  req' \in [Handler -> Request] /\ Equipped'
  BY DEF TypeInv, TypeOK, Equipped, Ready

(* What a sweep may be doing.                                               *)
Sweeping == [todo : SUBSET Session, at : Session \cup {Nil}, doomed : Session \cup {Nil}]

(* Setting a status keeps a row well formed.                                *)
LEMMA RowStatus ==
  ASSUME NEW rows \in [Session -> Row], NEW s \in Session, NEW st \in Active \cup Terminal
  PROVE  [rows EXCEPT ![s].status = st] \in [Session -> Row]
  <1>1. [rows[s] EXCEPT !.status = st] \in Row
    BY DEF Row
  <1> QED
    BY <1>1

(* Setting a status and an offset keeps a row well formed.                  *)
LEMMA RowProgress ==
  ASSUME NEW rows \in [Session -> Row], NEW s \in Session,
         NEW st \in Active \cup Terminal, NEW n \in Nat
  PROVE  [rows EXCEPT ![s].status = st, ![s].uploaded = n] \in [Session -> Row]
  <1>1. [rows[s] EXCEPT !.status = st, !.uploaded = n] \in Row
    BY DEF Row
  <1>2. [rows EXCEPT ![s].status = st, ![s].uploaded = n]
          = [rows EXCEPT ![s] = [rows[s] EXCEPT !.status = st, !.uploaded = n]]
    OBVIOUS
  <1> QED
    BY <1>1, <1>2

(* Charging a user keeps the account well formed.                           *)
LEMMA AccountCharge ==
  ASSUME NEW accounts \in [User -> [used : Nat, quota : Nat \cup {Nil}]],
         NEW u \in User, NEW n \in Nat
  PROVE  [accounts EXCEPT ![u].used = @ + n]
           \in [User -> [used : Nat, quota : Nat \cup {Nil}]]
  <1>1. accounts[u] \in [used : Nat, quota : Nat \cup {Nil}]
    OBVIOUS
  <1>2. accounts[u].used + n \in Nat
    BY <1>1
  <1>3. [accounts[u] EXCEPT !.used = accounts[u].used + n] \in [used : Nat, quota : Nat \cup {Nil}]
    BY <1>1, <1>2
  <1> QED
    BY <1>3

LEMMA InitTypeInv == Init => TypeInv
  <1> SUFFICES ASSUME Init PROVE TypeInv
    OBVIOUS
  <1>1. req \in [Handler -> Request] /\ Equipped
    BY NoRequestReady DEF Init, Ready, Equipped
  <1>2. row \in [Session -> Row] /\ files \in [Key -> File \cup {Nil}]
    BY DEF Init, Row
  <1>3. account \in [User -> [used : Nat, quota : Nat \cup {Nil}]]
    <2> PICK q \in [User -> Quotas] :
          account = [u \in User |-> [used |-> 0, quota |-> q[u]]]
      BY DEF Init
    <2>1. \A u \in User : q[u] \in Nat \cup {Nil}
      BY QuotasAssumption
    <2> QED
      BY <2>1
  <1>4. sweep \in [Sweeper -> Sweeping]
    BY DEF Init, Resting, Sweeping
  <1> QED
    BY <1>1, <1>2, <1>3, <1>4 DEF TypeInv, TypeOK, Init, Sweeping

LEMMA ArriveTypeInv ==
  ASSUME TypeInv, NEW h \in Handler, Arrive(h)
  PROVE  TypeInv'
  <1> PICK s \in Session :
        \/ UploadInit(h, s) \/ TusCreate(h, s)
        \/ UploadChunk(h, s) \/ TusPatch(h, s) \/ UploadComplete(h, s)
        \/ Cancel(h, s) \/ TusDeleteUnrecorded(h, s)
    BY DEF Arrive
  <1>1. ASSUME NEW t \in Sizes \cup {Nil}, Admit(h, s, t) PROVE TypeInv'
    <2>1. t \in Nat \cup {Nil}
      BY SizesAssumption
    <2>2. Ready([Serving("init", "insert", s) EXCEPT !.cap = t])
      BY <2>1 DEF Ready, Serving, NoRequest, Request, Steps, Kinds
    <2> QED
      BY <1>1, <2>2, StepReady DEF Admit, TypeInv, TypeOK
  <1>2. ASSUME NEW kind \in {"chunk", "patch", "complete"}, NEW step \in {"append", "move"},
               NEW cap \in Nat \cup {Nil}, LockUploadSession(h, s, kind, step, cap)
        PROVE  TypeInv'
    <2>1. row[s].uploaded \in Nat
      BY DEF TypeInv, TypeOK, Row
    <2>2. Ready([Serving(kind, step, s) EXCEPT
                   !.upto = row[s].uploaded, !.cap = cap, !.tx = TRUE])
      BY <2>1 DEF Ready, Serving, NoRequest, Request, Steps, Kinds
    <2> QED
      BY <1>2, <2>2, StepReady DEF LockUploadSession, Cross, TypeInv, TypeOK
  <1>3. CASE Cancel(h, s)
    <2>1. row' \in [Session -> Row]
      BY <1>3, RowStatus DEF Cancel, TypeInv, TypeOK, Terminal
    <2>2. PICK kind \in {"cancel", "delete"} :
            req' = [req EXCEPT ![h] = Serving(kind, "unlink", s)]
      BY <1>3 DEF Cancel
    <2>3. req' \in [Handler -> Request] /\ Equipped'
      BY <2>2, ServingReady, StepReady DEF Kinds
    <2> QED
      BY <1>3, <2>1, <2>3 DEF Cancel, Cross, TypeInv, TypeOK
  <1>4. CASE TusDeleteUnrecorded(h, s)
    BY <1>4, ServingReady, StepReady DEF TusDeleteUnrecorded, Kinds, TypeInv, TypeOK
  <1>5. CASE UploadInit(h, s) \/ TusCreate(h, s)
    BY <1>1, <1>5 DEF UploadInit, TusCreate
  <1>6. CASE UploadChunk(h, s)
    BY <1>2, <1>6, LimitsAssumption DEF UploadChunk, GetUploadSettings
  <1>7. CASE TusPatch(h, s)
    BY <1>2, <1>7 DEF TusPatch, TypeInv, TypeOK, Row
  <1>8. CASE UploadComplete(h, s)
    BY <1>2, <1>8 DEF UploadComplete
  <1> QED
    BY <1>3, <1>4, <1>5, <1>6, <1>7, <1>8

LEMMA ServeTypeInv ==
  ASSUME TypeInv, NEW h \in Handler,
         Receive(h) \/ Serve(h) \/ Disconnect(h) \/ LoseConnection(h)
  PROVE  TypeInv'
  <1> DEFINE q == req[h]
  <1>q. Ready(q) /\ q.pc \in Steps /\ q.upto \in Nat /\ q.cap \in Nat \cup {Nil}
    BY DEF TypeInv, TypeOK, Equipped, Ready, Request
  <1>r. ASSUME Return(h) PROVE req' \in [Handler -> Request] /\ Equipped'
    BY <1>r, NoRequestReady, StepReady DEF Return
  <1>n. ASSUME NEW len \in Nat \cup {Nil} PROVE Length(len) \in Nat
    BY DEF Length
  <1>p. ASSUME q.pc # "idle", RecordProgress(h) PROVE row' \in [Session -> Row]
    <2>1. q.s \in Session /\ "uploading" \in Active
      BY <1>q, <1>p DEF Ready, Active
    <2> QED
      BY <1>q, <1>p, <2>1, RowProgress DEF RecordProgress, TypeInv, TypeOK
  <1>a. ASSUME q.pc = "commit", ApplyCompletion(h)
        PROVE  /\ row' \in [Session -> Row] /\ files' \in [Key -> File \cup {Nil}]
               /\ account' \in [User -> [used : Nat, quota : Nat \cup {Nil}]]
    <2>1. q.s \in Session /\ q.key \in Key /\ "completed" \in Terminal
      BY <1>q, <1>a DEF Ready, Terminal
    <2>2. row' \in [Session -> Row]
      BY <1>q, <1>a, <2>1, RowProgress DEF ApplyCompletion, TypeInv, TypeOK
    <2>3. [session |-> q.s, size |-> q.upto] \in File
      BY <1>q, <2>1 DEF File
    <2>4. Owner[q.s] \in User
      BY <2>1, OwnerAssumption
    <2>6. account' \in [User -> [used : Nat, quota : Nat \cup {Nil}]]
      BY <1>q, <1>a, <2>4, AccountCharge DEF ApplyCompletion, TypeInv, TypeOK
    <2> QED
      BY <1>a, <2>1, <2>2, <2>3, <2>6 DEF ApplyCompletion, TypeInv, TypeOK
  <1>m. ASSUME q.pc \in Moved, NEW step \in Moved, NEW tx \in BOOLEAN,
               NEW paid \in BOOLEAN, paid => tx,
               req' = [req EXCEPT ![h] = [q EXCEPT !.pc = step, !.tx = tx, !.paid = paid]]
        PROVE  req' \in [Handler -> Request] /\ Equipped'
    <2>1. Ready([q EXCEPT !.pc = step, !.tx = tx, !.paid = paid])
      BY <1>q, <1>m DEF Ready, Request, Steps
    <2> QED
      BY <1>m, <2>1, StepReady
  <1>g. ASSUME q.pc \in Moved, NEW step \in Moved, req' = [req EXCEPT ![h].pc = step]
        PROVE  req' \in [Handler -> Request] /\ Equipped'
    <2>1. q.tx \in BOOLEAN /\ q.paid \in BOOLEAN /\ (q.paid => q.tx)
      BY <1>q DEF Ready, Request
    <2>2. req' = [req EXCEPT ![h] = [q EXCEPT !.pc = step, !.tx = q.tx, !.paid = q.paid]]
      BY <1>g, <1>q DEF Ready, Request, TypeInv, TypeOK
    <2> QED
      BY <1>g, <1>m, <2>1, <2>2
  <1>u. ASSUME q.pc \in Moved, Aborted(h, "undo")
        PROVE  req' \in [Handler -> Request] /\ Equipped'
    <2>1. req' = [req EXCEPT ![h] = [q EXCEPT !.pc = "undo", !.tx = FALSE, !.paid = FALSE]]
      BY <1>u DEF Aborted, TypeInv, TypeOK
    <2> QED
      BY <1>u, <1>m, <2>1
  <1>f. ASSUME q.pc = "commit", AfterFailedCommit(h)
        PROVE  req' \in [Handler -> Request] /\ Equipped'
    BY <1>f, <1>r, <1>u DEF AfterFailedCommit
  <1>1. CASE InsertSession(h)
    <2>1. [status |-> "initialized", total |-> q.cap, uploaded |-> 0] \in Row
      BY <1>q DEF Row, Active
    <2> QED
      BY <1>1, <1>r, <2>1 DEF InsertSession, TypeInv, TypeOK
  <1>2. CASE AppendMismatch(h)
    BY <1>2, <1>r, <1>n DEF AppendMismatch, TypeInv, TypeOK
  <1>3. CASE AppendAt(h)
    <2>1. PICK m \in Appended(q.upto, q.cap) :
            /\ temp' = [temp EXCEPT ![q.s] = m]
            /\ \/ req' = [req EXCEPT ![h].pc = "record", ![h].upto = m]
               \/ Faults \cap {"body", "gone"} # {} /\ Return(h)
      BY <1>3 DEF AppendAt
    <2>2. m \in Nat
      BY <1>q DEF Appended
    <2>3. Ready([q EXCEPT !.pc = "record", !.upto = m])
      BY <1>3, <1>q, <2>2 DEF AppendAt, Ready, Request, Steps
    <2>4. CASE req' = [req EXCEPT ![h].pc = "record", ![h].upto = m]
      <3>1. req' = [req EXCEPT ![h] = [q EXCEPT !.pc = "record", !.upto = m]]
        BY <2>4 DEF TypeInv, TypeOK
      <3> QED
        BY <1>3, <2>1, <2>2, <2>3, <3>1, StepReady DEF AppendAt, TypeInv, TypeOK
    <2>5. CASE Return(h)
      BY <1>3, <1>r, <2>1, <2>2, <2>5 DEF AppendAt, TypeInv, TypeOK
    <2> QED
      BY <2>1, <2>4, <2>5
  <1>4. CASE RejectChunk(h)
    BY <1>4, <1>r DEF RejectChunk, TypeInv, TypeOK
  <1>5. CASE RecordChunk(h)
    <2>1. row' \in [Session -> Row]
      BY <1>5, <1>p DEF RecordChunk, TypeInv, TypeOK
    <2>2. heard' \in [Session -> [offset : Nat, done : BOOLEAN]]
      BY <1>5, <1>q DEF RecordChunk, TypeInv, TypeOK, Ready
    <2> QED
      BY <1>5, <1>r, <2>1, <2>2 DEF RecordChunk, TypeInv, TypeOK
  <1>6. CASE RecordLastChunk(h)
    <2>1. Ready([q EXCEPT !.pc = "move"])
      BY <1>6, <1>q DEF RecordLastChunk, Ready, Request, Steps
    <2> QED
      BY <1>6, <2>1, StepReady DEF RecordLastChunk, TypeInv, TypeOK
  <1>7. CASE MoveToFinal(h)
    <2>1. PICK k \in Key :
            /\ object' = [object EXCEPT ![k] = temp[q.s]]
            /\ req' = [req EXCEPT ![h].pc = "book", ![h].key = k]
      BY <1>7 DEF MoveToFinal
    <2>2. Ready([q EXCEPT !.pc = "book", !.key = k])
      BY <1>7, <1>q DEF MoveToFinal, Ready, Request, Steps
    <2>3. req' = [req EXCEPT ![h] = [q EXCEPT !.pc = "book", !.key = k]]
      BY <2>1 DEF TypeInv, TypeOK
    <2>4. temp[q.s] \in Nat \cup {Nil}
      BY <1>7, <1>q DEF MoveToFinal, Ready, TypeInv, TypeOK
    <2> QED
      BY <1>7, <2>1, <2>2, <2>3, <2>4, StepReady DEF MoveToFinal, TypeInv, TypeOK
  <1>8. CASE MoveFails(h)
    BY <1>8, <1>r DEF MoveFails, TypeInv, TypeOK
  <1>9. CASE NameConflict(h)
    BY <1>9, <1>u DEF NameConflict, TypeInv, TypeOK
  <1>10. CASE InsertFile(h)
    BY <1>10, <1>g DEF InsertFile, TypeInv, TypeOK
  <1>11. CASE ChargeUser(h)
    <2>1. q.tx = TRUE /\ q \in Request
      BY <1>11, <1>q DEF ChargeUser, Ready, Request
    <2>2. [q EXCEPT !.pc = "check", !.paid = TRUE]
            = [q EXCEPT !.pc = "check", !.tx = TRUE, !.paid = TRUE]
      BY <2>1 DEF Request
    <2>3. req' = [req EXCEPT ![h] = [q EXCEPT !.pc = "check", !.paid = TRUE]]
      BY <1>11 DEF ChargeUser
    <2>4. req' = [req EXCEPT ![h] = [q EXCEPT !.pc = "check", !.tx = TRUE, !.paid = TRUE]]
      BY <2>2, <2>3
    <2> QED
      BY <1>11, <1>m, <2>4 DEF ChargeUser, TypeInv, TypeOK
  <1>12. CASE EnsureQuota(h)
    <2> DEFINE step == IF EnsureQuotaAllows(Owner[q.s], q.upto)
                       THEN AfterCheck(q.kind) ELSE "undo"
    <2>1. step \in Moved
      BY DEF AfterCheck
    <2>2. req' = [req EXCEPT ![h].pc = step] /\ q.pc \in Moved
      BY <1>12 DEF EnsureQuota
    <2> HIDE DEF step
    <2> QED
      BY <1>12, <1>g, <2>1, <2>2 DEF EnsureQuota, TypeInv, TypeOK
  <1>13. CASE DeadlockDetected(h)
    BY <1>13, <1>u DEF DeadlockDetected, TypeInv, TypeOK
  <1>14. CASE InsertAudit(h)
    BY <1>14, <1>g DEF InsertAudit, TypeInv, TypeOK
  <1>c. ASSUME q.pc # "idle", Completed(h) PROVE heard' \in [Session -> [offset : Nat, done : BOOLEAN]]
    BY <1>c, <1>q DEF Completed, TypeInv, TypeOK, Ready
  <1>t. ASSUME q.pc # "idle", NEW r, r = [q EXCEPT !.pc = "report", !.key = Nil,
                                            !.tx = FALSE, !.paid = FALSE]
        PROVE  Ready(r)
    BY <1>q, <1>t DEF Ready, Request, Steps
  <1>15. CASE Commit(h)
    <2>1. CASE q.kind = "complete"
      <3>1. req' = [req EXCEPT ![h] = [q EXCEPT !.pc = "report", !.key = Nil,
                                                !.tx = FALSE, !.paid = FALSE]]
        BY <1>15, <2>1 DEF Commit, TypeInv, TypeOK
      <3>2. req' \in [Handler -> Request] /\ Equipped'
        BY <1>15, <1>t, <3>1, StepReady DEF Commit
      <3> QED
        BY <1>15, <1>a, <2>1, <3>2 DEF Commit, TypeInv, TypeOK
    <2>2. CASE q.kind # "complete"
      BY <1>15, <1>a, <1>c, <1>r, <2>2 DEF Commit, TypeInv, TypeOK
    <2> QED
      BY <2>1, <2>2
  <1>16. CASE CommitUnacknowledged(h)
    BY <1>16, <1>a, <1>f DEF CommitUnacknowledged, TypeInv, TypeOK
  <1>17. CASE StatementFails(h)
    BY <1>17, <1>f, <1>r, <1>u DEF StatementFails, TypeInv, TypeOK
  <1>18. CASE Undo(h)
    <2>1. object[q.key] \in Nat \cup {Nil}
      BY <1>18, <1>q DEF Undo, Ready, TypeInv, TypeOK
    <2> QED
      BY <1>18, <1>r, <2>1 DEF Undo, TypeInv, TypeOK
  <1>19. CASE Unlink(h)
    <2>1. CASE Return(h)
      BY <1>19, <1>r, <2>1 DEF Unlink, TypeInv, TypeOK
    <2>2. CASE req' = [req EXCEPT ![h].pc = "report"]
      <3>1. Ready([q EXCEPT !.pc = "report"])
        BY <1>19, <1>q DEF Unlink, Ready, Request, Steps
      <3>2. req' \in [Handler -> Request] /\ Equipped'
        BY <2>2, <3>1, StepReady
      <3> QED
        BY <1>19, <3>2 DEF Unlink, TypeInv, TypeOK
    <2> QED
      BY <1>19, <2>1, <2>2 DEF Unlink
  <1>20. CASE Report(h)
    BY <1>20, <1>c, <1>r DEF Report, TypeInv, TypeOK
  <1>21. CASE Disconnect(h)
    BY <1>21, <1>a, <1>p, <1>r DEF Disconnect, TypeInv, TypeOK
  <1>22. CASE LoseConnection(h)
    <2>1. Ready([q EXCEPT !.tx = FALSE, !.paid = FALSE])
      BY <1>q DEF Ready, Request
    <2>2. req' = [req EXCEPT ![h] = [q EXCEPT !.tx = FALSE, !.paid = FALSE]]
      BY <1>22 DEF LoseConnection, TypeInv, TypeOK
    <2> QED
      BY <1>22, <2>1, <2>2, StepReady DEF LoseConnection, TypeInv, TypeOK
  <1> QED
    BY <1>1, <1>2, <1>3, <1>4, <1>5, <1>6, <1>7, <1>8, <1>9, <1>10, <1>11, <1>12, <1>13,
       <1>14, <1>15, <1>16, <1>17, <1>18, <1>19, <1>20, <1>21, <1>22 DEF Serve, Receive

LEMMA SystemTypeInv ==
  ASSUME TypeInv,
         \/ \E w \in Sweeper : Sweep(w) \/ SweepCut(w)
         \/ \E s \in Session : Replay(s) \/ UploadStatus(s) \/ Expire(s)
         \/ \E u \in User, q \in Quotas : SetQuota(u, q)
         \/ Crash
  PROVE  TypeInv'
  <1>r. ASSUME req' = req PROVE req' \in [Handler -> Request] /\ Equipped'
    BY <1>r DEF TypeInv, TypeOK, Equipped
  <1>1. ASSUME NEW w \in Sweeper, Sweep(w) \/ SweepCut(w) PROVE TypeInv'
    <2>0. sweep \in [Sweeper -> Sweeping]
      BY DEF TypeInv, TypeOK, Sweeping
    <2>w. ASSUME NEW v \in Sweeping, sweep' = [sweep EXCEPT ![w] = v]
          PROVE  sweep' \in [Sweeper -> Sweeping]
      BY <2>0, <2>w
    <2>k. ASSUME sweep' \in [Sweeper -> Sweeping], temp' \in [Session -> Nat \cup {Nil}],
                 row' \in [Session -> Row], crossed' \subseteq Session,
                 UNCHANGED <<files, account, object, due, req, heard>>
          PROVE  TypeInv'
      BY <2>k, <1>r DEF TypeInv, TypeOK, Sweeping
    <2>t. /\ temp \in [Session -> Nat \cup {Nil}] /\ row \in [Session -> Row]
          /\ crossed \subseteq Session /\ due \subseteq Session
      BY DEF TypeInv, TypeOK
    <2>v. /\ sweep[w] \in Sweeping /\ sweep[w].at \in Session \cup {Nil}
          /\ sweep[w].todo \subseteq Session
      BY <2>0 DEF Sweeping
    <2>1. CASE SweepSelect(w)
      <3> DEFINE S == {s \in due : row[s].status \in Active}
      <3>1. [sweep[w] EXCEPT !.todo = S] \in Sweeping
        BY <2>t, <2>v DEF Sweeping
      <3>2. sweep' = [sweep EXCEPT ![w] = [sweep[w] EXCEPT !.todo = S]]
        BY <2>0, <2>1 DEF SweepSelect
      <3> HIDE DEF S
      <3>3. UNCHANGED <<row, files, account, temp, object, due, req, heard, crossed>>
        BY <2>1 DEF SweepSelect
      <3> QED
        BY <2>k, <2>t, <2>w, <3>1, <3>2, <3>3
    <2>2. CASE SweepUnlink(w)
      <3>1. [sweep[w] EXCEPT !.doomed = Nil] \in Sweeping
        BY <2>v DEF Sweeping
      <3>2. sweep' = [sweep EXCEPT ![w] = [sweep[w] EXCEPT !.doomed = Nil]]
        BY <2>0, <2>2 DEF SweepUnlink
      <3>3. /\ temp' \in [Session -> Nat \cup {Nil}]
            /\ UNCHANGED <<row, files, account, object, due, req, heard, crossed>>
        BY <2>2, <2>t DEF SweepUnlink
      <3> QED
        BY <2>k, <2>t, <2>w, <3>1, <3>2, <3>3
    <2>3. CASE SweepMark(w) \/ SweepMarkUnrecorded(w)
      <3> DEFINE s == sweep[w].at
      <3>1. s \in Session /\ [sweep[w] EXCEPT !.at = Nil, !.doomed = s] \in Sweeping
        BY <2>3, <2>v DEF SweepMark, SweepMarkUnrecorded, Sweeping
      <3>2. sweep' = [sweep EXCEPT ![w] = [sweep[w] EXCEPT !.at = Nil, !.doomed = s]]
        BY <2>3, <2>0 DEF SweepMark, SweepMarkUnrecorded
      <3>3. row' \in [Session -> Row]
        <4>1. row' = row \/ row' = [row EXCEPT ![s].status = "expired"]
          BY <2>3 DEF SweepMark, SweepMarkUnrecorded
        <4>2. "expired" \in Active \cup Terminal
          BY DEF Terminal
        <4> HIDE DEF s
        <4> QED
          BY <2>t, <3>1, <4>1, <4>2, RowStatus
      <3>4. crossed' \subseteq Session /\ UNCHANGED <<files, account, temp, object, due, req, heard>>
        BY <2>3, <2>t, <3>1 DEF SweepMark, SweepMarkUnrecorded, Cross
      <3> QED
        BY <2>k, <2>t, <2>w, <3>1, <3>2, <3>3, <3>4
    <2>4. ASSUME NEW s \in Session, SweepNext(w, s) PROVE TypeInv'
      <3>1. [sweep[w] EXCEPT !.todo = sweep[w].todo \ {s}, !.at = s] \in Sweeping
        BY <2>v DEF Sweeping
      <3>2. sweep' = [sweep EXCEPT ![w] = [sweep[w] EXCEPT !.todo = sweep[w].todo \ {s}, !.at = s]]
        BY <2>4, <2>0 DEF SweepNext
      <3>3. UNCHANGED <<row, files, account, temp, object, due, req, heard, crossed>>
        BY <2>4 DEF SweepNext
      <3> QED
        BY <2>k, <2>t, <2>w, <3>1, <3>2, <3>3
    <2>5. CASE SweepCut(w)
      <3>1. Resting \in Sweeping
        BY DEF Resting, Sweeping
      <3>2. /\ sweep' = [sweep EXCEPT ![w] = Resting]
            /\ UNCHANGED <<row, files, account, temp, object, due, req, heard, crossed>>
        BY <2>5 DEF SweepCut
      <3> QED
        BY <2>k, <2>t, <2>w, <3>1, <3>2
    <2> QED
      BY <1>1, <2>1, <2>2, <2>3, <2>4, <2>5 DEF Sweep
  <1>2. ASSUME NEW s \in Session, Replay(s) \/ UploadStatus(s) \/ Expire(s) PROVE TypeInv'
    <2>1. row[s].uploaded \in Nat
      BY DEF TypeInv, TypeOK, Row
    <2>2. CASE Replay(s)
      <3>1. heard' \in [Session -> [offset : Nat, done : BOOLEAN]]
        BY <2>1, <2>2 DEF Replay, TypeInv, TypeOK
      <3>2. UNCHANGED <<row, files, account, temp, object, due, req, sweep, crossed>>
        BY <2>2 DEF Replay
      <3> QED
        BY <3>1, <3>2, <1>r DEF TypeInv, TypeOK
    <2>3. CASE UploadStatus(s)
      <3>1. heard' \in [Session -> [offset : Nat, done : BOOLEAN]]
        <4>1. heard \in [Session -> [offset : Nat, done : BOOLEAN]]
          BY DEF TypeInv, TypeOK
        <4>2. [heard[s] EXCEPT !.offset = row[s].uploaded] \in [offset : Nat, done : BOOLEAN]
          BY <4>1, <2>1
        <4>3. heard' = [heard EXCEPT ![s] = [heard[s] EXCEPT !.offset = row[s].uploaded]]
          BY <2>3, <4>1 DEF UploadStatus
        <4> QED
          BY <4>1, <4>2, <4>3
      <3>2. UNCHANGED <<row, files, account, temp, object, due, req, sweep, crossed>>
        BY <2>3 DEF UploadStatus
      <3> QED
        BY <3>1, <3>2, <1>r DEF TypeInv, TypeOK
    <2>4. CASE Expire(s)
      BY <2>4, <1>r DEF Expire, TypeInv, TypeOK
    <2> QED
      BY <1>2, <2>2, <2>3, <2>4
  <1>3. ASSUME NEW u \in User, NEW q \in Quotas, SetQuota(u, q) PROVE TypeInv'
    <2>1. q \in Nat \cup {Nil}
      BY QuotasAssumption
    <2> QED
      BY <1>3, <2>1, <1>r DEF SetQuota, TypeInv, TypeOK
  <1>4. CASE Crash
    BY <1>4, NoRequestReady DEF Crash, Resting, TypeInv, TypeOK, Equipped, Ready
  <1> QED
    BY <1>1, <1>2, <1>3, <1>4

LEMMA StepTypeInv == TypeInv /\ [Next]_vars => TypeInv'
  <1> SUFFICES ASSUME TypeInv, [Next]_vars PROVE TypeInv'
    OBVIOUS
  <1>1. CASE UNCHANGED vars
    BY <1>1 DEF vars, TypeInv, TypeOK, Equipped
  <1>2. CASE Next
    BY <1>2, ArriveTypeInv, ServeTypeInv, SystemTypeInv DEF Next
  <1> QED
    BY <1>1, <1>2

(* Every reachable state is well typed, through every failure: offsets,     *)
(* usage and lengths stay numbers, and a row's status is one of the seven   *)
(* that the handlers write or mean to write.                                *)
THEOREM TypeCorrect == Spec => []TypeOK
  <1>1. TypeInv => TypeOK
    BY DEF TypeInv
  <1> QED
    BY InitTypeInv, StepTypeInv, <1>1, PTL DEF Spec

-----------------------------------------------------------------------------
(* Safety.  The invariant that carries it says what each request may rely   *)
(* on while it holds its locks (Sound), what two requests never share       *)
(* (Apart), and how the tables agree with each other and with what clients  *)
(* heard (TablesInv).                                                       *)


(* A transaction that holds the session row works on an active session,     *)
(* sees an offset no smaller than the committed one, and its key is not yet *)
(* taken; once charged it holds the user row, and about to commit its       *)
(* charge fits.                                                             *)
Sound(r) ==
    /\ r.tx => row[r.s].status \in Active /\ row[r.s].uploaded <= r.upto
    /\ r.tx /\ r.key # Nil => files[r.key] = Nil
    /\ r.pc = "insert" => row[r.s].status = "absent"
    /\ r.tx /\ r.pc \in {"check", "audit", "commit"} => r.paid
    /\ r.tx /\ r.pc \in {"audit", "commit"} =>
         Fits(account[Owner[r.s]].used + r.upto, account[Owner[r.s]].quota)

(* Two requests never hold the same row lock, work on the same new session  *)
(* or use the same storage key.                                             *)
Apart(a, b) ==
    /\ a.tx /\ b.tx => a.s # b.s
    /\ a.pc = "insert" /\ b.pc = "insert" => a.s # b.s
    /\ a.paid /\ b.paid => Owner[a.s] # Owner[b.s]
    /\ a.key # Nil => a.key # b.key

RequestsInv ==
    /\ \A h \in Handler : Sound(req[h])
    /\ \A g, h \in Handler : g # h => Apart(req[g], req[h])

(* The sessions a sweep has found and not yet marked.                       *)
Chosen(v) == v.todo \cup ({v.at} \ {Nil})

(* A file row belongs to an ended session of the same length; a completed   *)
(* session has one; nothing was said of a session that does not exist.      *)
TablesInv ==
    /\ \A k \in Key : files[k] # Nil =>
         /\ row[files[k].session].status \in Terminal
         /\ row[files[k].session].uploaded = files[k].size
    /\ OneFilePerSession
    /\ \A s \in Session : row[s].status = "completed" => Stored(s)
    /\ \A s \in Session : heard[s].done => Stored(s)
    /\ \A s \in Session : heard[s].offset <= row[s].uploaded
    /\ \A s \in Session : row[s].status = "absent" => heard[s].offset = 0
    /\ \A w \in Sweeper : \A s \in Chosen(sweep[w]) : row[s].status # "absent"

(* What uploadComplete is about to report is in the tables.                 *)
ReportsInv ==
    \A h \in Handler : req[h].pc = "report" /\ req[h].kind = "complete" =>
        Stored(req[h].s) /\ row[req[h].s].uploaded = req[h].upto

SafetyInv == TypeInv /\ RequestsInv /\ TablesInv /\ ReportsInv

-----------------------------------------------------------------------------
(* Requests: what a step of one of them leaves true of all.                 *)

(* What the type invariant gives for one request.                           *)
LEMMA ReadyRequest ==
  ASSUME SafetyInv, NEW h \in Handler
  PROVE  /\ Ready(req[h]) /\ req[h].upto \in Nat
         /\ Sound(req[h])
         /\ \A g \in Handler \ {h} : Apart(req[h], req[g]) /\ Apart(req[g], req[h])
  BY DEF SafetyInv, TypeInv, TypeOK, Equipped, Ready, Request, RequestsInv

(* Only one request changes, and the tables do not.                         *)
LEMMA KeepRequests ==
  ASSUME SafetyInv, NEW h \in Handler, NEW r, req' = [req EXCEPT ![h] = r],
         UNCHANGED <<row, files, account>>,
         Sound(r), \A g \in Handler \ {h} : Apart(r, req[g])
  PROVE  RequestsInv'
  <1>1. req'[h] = r /\ \A g \in Handler \ {h} : req'[g] = req[g]
    BY DEF SafetyInv, TypeInv, TypeOK
  <1>2. ASSUME NEW g \in Handler PROVE Sound(req[g])'
    BY <1>1 DEF Sound, SafetyInv, RequestsInv
  <1>3. ASSUME NEW g \in Handler, NEW k \in Handler, g # k PROVE Apart(req[g], req[k])'
    BY <1>1, <1>3 DEF Apart, SafetyInv, RequestsInv
  <1> QED
    BY <1>2, <1>3 DEF RequestsInv

(* A request without locks, key or session to insert.                       *)
Free(r) == ~r.tx /\ ~r.paid /\ r.key = Nil /\ r.pc # "insert"

LEMMA FreeRequests ==
  /\ Free(NoRequest)
  /\ \A s \in Session, kind \in Kinds : Free(Serving(kind, "unlink", s))
  BY DEF Free, NoRequest, Serving

(* The request ends or starts to unlink, and the tables do not change.      *)
LEMMA KeepFree ==
  ASSUME SafetyInv, NEW h \in Handler, NEW r, Free(r), req' = [req EXCEPT ![h] = r],
         UNCHANGED <<row, files, account>>
  PROVE  RequestsInv'
  <1>1. Sound(r) /\ \A g \in Handler : Apart(r, req[g])
    BY DEF Free, Sound, Apart
  <1> QED
    BY <1>1, KeepRequests

(* A request stays sound when what it locked has not changed.               *)
LEMMA StillSound ==
  ASSUME SafetyInv, NEW g \in Handler, req'[g] = req[g],
         req[g].tx \/ req[g].pc = "insert" => row'[req[g].s] = row[req[g].s],
         req[g].tx /\ req[g].key # Nil => files'[req[g].key] = files[req[g].key],
         req[g].paid => account'[Owner[req[g].s]] = account[Owner[req[g].s]]
  PROVE  Sound(req[g])'
  BY DEF SafetyInv, RequestsInv, Sound

(* Requests stay apart when one of them becomes free.                       *)
LEMMA StillApart ==
  ASSUME SafetyInv, NEW h \in Handler, NEW r, Free(r), req' = [req EXCEPT ![h] = r]
  PROVE  \A g, k \in Handler : g # k => Apart(req[g], req[k])'
  <1>1. req'[h] = r /\ \A g \in Handler \ {h} : req'[g] = req[g]
    BY DEF SafetyInv, TypeInv, TypeOK
  <1> QED
    BY <1>1 DEF Free, Apart, SafetyInv, RequestsInv

(* The request that wrote the row of s, the file row under its key and the  *)
(* account of the owner of s becomes free.                                  *)
LEMMA WriterLeaves ==
  ASSUME SafetyInv, NEW h \in Handler, NEW s \in Session, NEW r, Free(r),
         req' = [req EXCEPT ![h] = r],
         \A t \in Session \ {s} : row'[t] = row[t],
         \A g \in Handler \ {h} : req[g].s = s => ~req[g].tx /\ req[g].pc # "insert",
         \A g \in Handler \ {h} :
             req[g].tx /\ req[g].key # Nil => files'[req[g].key] = files[req[g].key],
         \A g \in Handler \ {h} :
             req[g].paid => account'[Owner[req[g].s]] = account[Owner[req[g].s]]
  PROVE  RequestsInv'
  <1>1. req'[h] = r /\ \A g \in Handler \ {h} : req'[g] = req[g]
    BY DEF SafetyInv, TypeInv, TypeOK
  <1>2. Sound(req[h])'
    BY <1>1 DEF Free, Sound
  <1>3. ASSUME NEW g \in Handler \ {h} PROVE Sound(req[g])'
    <2>1. req[g].tx \/ req[g].pc = "insert" => req[g].s \in Session \ {s}
      BY DEF SafetyInv, TypeInv, Equipped
    <2> QED
      BY <1>1, <2>1, StillSound
  <1> QED
    BY <1>2, <1>3, StillApart DEF RequestsInv

(* While a request holds the session row, no other works on that session.   *)
LEMMA LockedAlone ==
  ASSUME SafetyInv, NEW h \in Handler, req[h].tx
  PROVE  /\ req[h].s \in Session
         /\ row[req[h].s].status \in Active
         /\ row[req[h].s].uploaded <= req[h].upto
         /\ \A g \in Handler \ {h} : req[g].s = req[h].s => ~req[g].tx /\ req[g].pc # "insert"
  <1>1. req[h].s \in Session
    BY DEF SafetyInv, TypeInv, Equipped
  <1>2. row[req[h].s].status \in Active /\ row[req[h].s].uploaded <= req[h].upto
    BY DEF SafetyInv, RequestsInv, Sound
  <1>3. ASSUME NEW g \in Handler \ {h}, req[g].s = req[h].s
        PROVE  ~req[g].tx /\ req[g].pc # "insert"
    BY <1>2, <1>3 DEF SafetyInv, RequestsInv, Sound, Apart, Active
  <1> QED
    BY <1>1, <1>2, <1>3

-----------------------------------------------------------------------------
(* Tables: what each kind of write leaves true of them.                     *)

LEMMA KeepTables ==
  ASSUME SafetyInv, UNCHANGED <<row, files, heard>>,
         \A w \in Sweeper : \A s \in Chosen(sweep'[w]) : row[s].status # "absent"
  PROVE  TablesInv'
  BY DEF SafetyInv, TablesInv, OneFilePerSession, Stored

(* The row of s changes: not below what was heard, not back to absent, and  *)
(* while it has a file only its status, to an ended one.                    *)
LEMMA WriteRow ==
  ASSUME SafetyInv, NEW s \in Session, NEW r \in Row, row' = [row EXCEPT ![s] = r],
         UNCHANGED files,
         heard[s].offset <= r.uploaded, r.status \notin {"absent", "completed"},
         Stored(s) => r.status \in Terminal /\ r.uploaded = row[s].uploaded,
         \A t \in Session : heard'[t].done = heard[t].done,
         \A t \in Session : heard'[t].offset = heard[t].offset
                            \/ (t = s /\ heard'[t].offset <= r.uploaded),
         \A w \in Sweeper : Chosen(sweep'[w]) \subseteq Chosen(sweep[w])
  PROVE  TablesInv'
  <1>1. row'[s] = r /\ \A t \in Session \ {s} : row'[t] = row[t]
    BY DEF SafetyInv, TypeInv, TypeOK
  <1>2. \A t \in Session : Stored(t)' <=> Stored(t)
    BY DEF Stored
  <1>3. ASSUME NEW k \in Key, files'[k] # Nil
        PROVE  /\ row'[files'[k].session].status \in Terminal
               /\ row'[files'[k].session].uploaded = files'[k].size
    <2>1. files[k].session \in Session
      BY <1>3 DEF SafetyInv, TypeInv, TypeOK, File
    <2>2. CASE files[k].session = s
      BY <1>1, <1>3, <2>2 DEF SafetyInv, TablesInv, Stored
    <2>3. CASE files[k].session # s
      BY <1>1, <1>3, <2>1, <2>3 DEF SafetyInv, TablesInv
    <2> QED
      BY <2>2, <2>3
  <1>4. OneFilePerSession'
    BY DEF SafetyInv, TablesInv, OneFilePerSession
  <1>5. \A t \in Session : row'[t].status = "completed" => Stored(t)'
    BY <1>1, <1>2 DEF SafetyInv, TablesInv
  <1>6. \A t \in Session : heard'[t].done => Stored(t)'
    BY <1>2 DEF SafetyInv, TablesInv
  <1>7. ASSUME NEW t \in Session PROVE heard'[t].offset <= row'[t].uploaded
    <2>1. heard[t].offset <= row[t].uploaded /\ heard[t].offset \in Nat
          /\ row[t].uploaded \in Nat /\ r.uploaded \in Nat
      BY DEF SafetyInv, TypeInv, TypeOK, TablesInv, Row
    <2> QED
      BY <1>1, <2>1
  <1>8. \A t \in Session : row'[t].status = "absent" => heard'[t].offset = 0
    BY <1>1 DEF SafetyInv, TablesInv
  <1>9. \A w \in Sweeper : \A t \in Chosen(sweep'[w]) : row'[t].status # "absent"
    <2>1. \A w \in Sweeper : Chosen(sweep[w]) \subseteq Session
      BY DEF SafetyInv, TypeInv, TypeOK, Chosen
    <2> QED
      BY <1>1, <2>1 DEF SafetyInv, TablesInv
  <1> QED
    BY <1>3, <1>4, <1>5, <1>6, <1>7, <1>8, <1>9 DEF TablesInv

(* An active session becomes a file under an unused key.                    *)
LEMMA WriteFile ==
  ASSUME SafetyInv, NEW s \in Session, NEW k \in Key, NEW n \in Nat,
         row[s].status \in Active, row[s].uploaded <= n, files[k] = Nil,
         row' = [row EXCEPT ![s].status = "completed", ![s].uploaded = n],
         files' = [files EXCEPT ![k] = [session |-> s, size |-> n]],
         \A t \in Session \ {s} : heard'[t] = heard[t],
         heard'[s].offset <= n, UNCHANGED sweep
  PROVE  TablesInv'
  <1>1. /\ row'[s].status = "completed" /\ row'[s].uploaded = n
        /\ \A t \in Session \ {s} : row'[t] = row[t]
    BY DEF SafetyInv, TypeInv, TypeOK
  <1>2. files'[k] = [session |-> s, size |-> n] /\ \A j \in Key \ {k} : files'[j] = files[j]
    BY DEF SafetyInv, TypeInv, TypeOK
  <1>3. files'[k] # Nil /\ files'[k].session = s /\ files'[k].size = n
    <2>1. [session |-> s, size |-> n] \in [session : Session, size : Nat]
      OBVIOUS
    <2>2. [session |-> s, size |-> n] # Nil
      BY <2>1, NilAssumption
    <2> QED
      BY <1>2, <2>2
  <1>4. ~Stored(s)
    BY DEF SafetyInv, TablesInv, Stored, Active, Terminal
  <1>5. \A t \in Session : Stored(t) => Stored(t)'
    BY <1>2 DEF Stored
  <1>6. Stored(s)'
    BY <1>2, <1>3 DEF Stored
  <1>7. ASSUME NEW j \in Key \ {k}, files'[j] # Nil
        PROVE  /\ files'[j].session \in Session \ {s}
               /\ row'[files'[j].session].status \in Terminal
               /\ row'[files'[j].session].uploaded = files'[j].size
    <2>1. files[j].session \in Session
      BY <1>2, <1>7 DEF SafetyInv, TypeInv, TypeOK, File
    <2>2. files[j].session # s
      BY <1>2, <1>4, <1>7 DEF Stored
    <2>3. files'[j] = files[j] /\ row'[files[j].session] = row[files[j].session]
      BY <1>1, <1>2, <2>1, <2>2
    <2>4. /\ row[files[j].session].status \in Terminal
          /\ row[files[j].session].uploaded = files[j].size
      BY <1>7, <2>3 DEF SafetyInv, TablesInv
    <2> QED
      BY <2>1, <2>2, <2>3, <2>4
  <1>8. \A j \in Key : files'[j] # Nil =>
           /\ row'[files'[j].session].status \in Terminal
           /\ row'[files'[j].session].uploaded = files'[j].size
    BY <1>1, <1>3, <1>7 DEF Terminal
  <1>9. OneFilePerSession'
    BY <1>2, <1>3, <1>7 DEF SafetyInv, TablesInv, OneFilePerSession
  <1>10. \A t \in Session : row'[t].status = "completed" => Stored(t)'
    BY <1>1, <1>5, <1>6 DEF SafetyInv, TablesInv
  <1>11. \A t \in Session : heard'[t].done => Stored(t)'
    BY <1>5, <1>6 DEF SafetyInv, TablesInv
  <1>12. \A t \in Session : heard'[t].offset <= row'[t].uploaded
    BY <1>1 DEF SafetyInv, TablesInv
  <1>13. \A t \in Session : row'[t].status = "absent" => heard'[t].offset = 0
    BY <1>1 DEF SafetyInv, TablesInv
  <1>14. \A w \in Sweeper : \A t \in Chosen(sweep'[w]) : row'[t].status # "absent"
    <2>1. \A w \in Sweeper : Chosen(sweep[w]) \subseteq Session
      BY DEF SafetyInv, TypeInv, TypeOK, Chosen
    <2> QED
      BY <1>1, <2>1 DEF SafetyInv, TablesInv
  <1> QED
    BY <1>8, <1>9, <1>10, <1>11, <1>12, <1>13, <1>14 DEF TablesInv

-----------------------------------------------------------------------------
(* The actions.                                                             *)

LEMMA ArriveSafetyInv ==
  ASSUME SafetyInv, NEW h \in Handler, Arrive(h)
  PROVE  RequestsInv' /\ TablesInv'
  <1> PICK s \in Session :
        \/ UploadInit(h, s) \/ TusCreate(h, s)
        \/ UploadChunk(h, s) \/ TusPatch(h, s) \/ UploadComplete(h, s)
        \/ Cancel(h, s) \/ TusDeleteUnrecorded(h, s)
    BY DEF Arrive
  <1>1. ASSUME NEW t, Admit(h, s, t) PROVE RequestsInv' /\ TablesInv'
    <2> DEFINE r == [Serving("init", "insert", s) EXCEPT !.cap = t]
    <2>1. Sound(r) /\ \A g \in Handler \ {h} : Apart(r, req[g])
      BY <1>1 DEF Admit, Sound, Apart, Serving, NoRequest
    <2>2. RequestsInv'
      BY <1>1, <2>1, KeepRequests DEF Admit
    <2> QED
      BY <1>1, <2>2, KeepTables DEF Admit, SafetyInv, TablesInv
  <1>2. ASSUME NEW kind, NEW step \in {"append", "move"}, NEW cap,
               LockUploadSession(h, s, kind, step, cap)
        PROVE  RequestsInv' /\ TablesInv'
    <2> DEFINE r == [Serving(kind, step, s) EXCEPT
                       !.upto = row[s].uploaded, !.cap = cap, !.tx = TRUE]
    <2>1. row[s].uploaded \in Nat
      BY DEF SafetyInv, TypeInv, TypeOK, Row
    <2>2. Sound(r) /\ \A g \in Handler \ {h} : Apart(r, req[g])
      BY <1>2, <2>1 DEF LockUploadSession, SessionFree, Sound, Apart, Serving, NoRequest
    <2>3. RequestsInv'
      BY <1>2, <2>2, KeepRequests DEF LockUploadSession
    <2> QED
      BY <1>2, <2>3, KeepTables DEF LockUploadSession, SafetyInv, TablesInv
  <1>3. CASE Cancel(h, s)
    <2>1. RequestsInv'
      <3>1. \A t \in Session \ {s} : row'[t] = row[t]
        BY <1>3 DEF Cancel, SafetyInv, TypeInv, TypeOK
      <3>2. \A g \in Handler \ {h} : req[g].s = s => ~req[g].tx /\ req[g].pc # "insert"
        BY <1>3 DEF Cancel, SessionFree, SafetyInv, RequestsInv, Sound
      <3> PICK kind \in Kinds : req' = [req EXCEPT ![h] = Serving(kind, "unlink", s)]
        BY <1>3 DEF Cancel, Kinds
      <3> DEFINE r == Serving(kind, "unlink", s)
      <3>3. Free(r) /\ req' = [req EXCEPT ![h] = r] /\ files' = files /\ account' = account
        BY <1>3, FreeRequests DEF Cancel
      <3> HIDE DEF r
      <3> QED
        BY <3>1, <3>2, <3>3, WriterLeaves, ZenonT(40)
    <2>2. TablesInv'
      <3> DEFINE r == [row[s] EXCEPT !.status = "canceled"]
      <3>1. r \in Row /\ r.status = "canceled" /\ r.uploaded = row[s].uploaded /\ r.uploaded \in Nat
        BY DEF SafetyInv, TypeInv, TypeOK, Row, Terminal
      <3>2. row' = [row EXCEPT ![s] = r]
        BY <1>3 DEF Cancel
      <3>3. UNCHANGED files /\ heard' = heard /\ sweep' = sweep
        BY <1>3 DEF Cancel
      <3>4. /\ heard[s].offset <= r.uploaded /\ r.status \notin {"absent", "completed"}
            /\ Stored(s) => r.status \in Terminal /\ r.uploaded = row[s].uploaded
        BY <3>1 DEF Terminal, SafetyInv, TablesInv
      <3> HIDE DEF r
      <3>5. /\ \A t \in Session : heard'[t].done = heard[t].done
            /\ \A t \in Session : heard'[t].offset = heard[t].offset
                                   \/ (t = s /\ heard'[t].offset <= r.uploaded)
            /\ \A w \in Sweeper : Chosen(sweep'[w]) \subseteq Chosen(sweep[w])
        BY <3>3
      <3> QED
        BY <3>1, <3>2, <3>3, <3>4, <3>5, WriteRow
    <2> QED
      BY <2>1, <2>2
  <1>4. CASE TusDeleteUnrecorded(h, s)
    <2>1. RequestsInv'
      BY <1>4, FreeRequests, KeepFree DEF TusDeleteUnrecorded, Kinds
    <2> QED
      BY <1>4, <2>1, KeepTables DEF TusDeleteUnrecorded, SafetyInv, TablesInv
  <1>5. CASE UploadInit(h, s) \/ TusCreate(h, s)
    BY <1>1, <1>5 DEF UploadInit, TusCreate
  <1>6. CASE UploadChunk(h, s)
    BY <1>2, <1>6 DEF UploadChunk
  <1>7. CASE TusPatch(h, s)
    BY <1>2, <1>7 DEF TusPatch
  <1>8. CASE UploadComplete(h, s)
    BY <1>2, <1>8 DEF UploadComplete
  <1> QED
    BY <1>3, <1>4, <1>5, <1>6, <1>7, <1>8

(* The handler that wrote its session's progress returns.                   *)
LEMMA ProgressSafetyInv ==
  ASSUME SafetyInv, NEW h \in Handler, req[h].tx, RecordProgress(h), Return(h),
         UNCHANGED <<files, account, sweep>>,
         \A t \in Session : heard'[t].done = heard[t].done,
         \A t \in Session : heard'[t].offset = heard[t].offset
                            \/ (t = req[h].s /\ heard'[t].offset <= req[h].upto)
  PROVE  RequestsInv' /\ TablesInv'
  <1> DEFINE s == req[h].s
             r == [row[s] EXCEPT !.status = "uploading", !.uploaded = req[h].upto]
  <1>1. /\ s \in Session /\ row[s].status \in Active /\ row[s].uploaded <= req[h].upto
        /\ \A g \in Handler \ {h} : req[g].s = s => ~req[g].tx /\ req[g].pc # "insert"
    BY LockedAlone
  <1>2. row' = [row EXCEPT ![s] = r]
    BY DEF RecordProgress
  <1>3. r \in Row /\ r.status = "uploading" /\ r.uploaded = req[h].upto
    <2>1. req[h].upto \in Nat
      BY ReadyRequest
    <2>2. row[s] \in Row
      BY <1>1 DEF SafetyInv, TypeInv, TypeOK
    <2> QED
      BY <2>1, <2>2 DEF Row, Active
  <1>4. ~Stored(s) /\ heard[s].offset <= r.uploaded
    <2>1. /\ heard[s].offset <= row[s].uploaded /\ heard[s].offset \in Nat
          /\ row[s].uploaded \in Nat /\ r.uploaded \in Nat
      BY <1>1, <1>3 DEF SafetyInv, TypeInv, TypeOK, TablesInv, Row
    <2> QED
      BY <1>1, <1>3, <2>1 DEF SafetyInv, TablesInv, Stored, Active, Terminal
  <1>5. \A t \in Session \ {s} : row'[t] = row[t]
    BY <1>2 DEF SafetyInv, TypeInv, TypeOK
  <1> HIDE DEF r
  <1>6. RequestsInv'
    BY <1>1, <1>5, FreeRequests, WriterLeaves, ZenonT(40) DEF Return
  <1>7. TablesInv'
    BY <1>1, <1>2, <1>3, <1>4, WriteRow
  <1> QED
    BY <1>6, <1>7

(* The handler that turned its session into a file returns, goes on to      *)
(* report it, or moves the object back because it was not told of the       *)
(* commit.                                                                  *)
Reporting(h) ==
    req' = [req EXCEPT ![h].pc = "report", ![h].key = Nil, ![h].tx = FALSE, ![h].paid = FALSE]

LEMMA CompletionSafetyInv ==
  ASSUME SafetyInv, NEW h \in Handler, req[h].tx, req[h].pc = "commit", ApplyCompletion(h),
         Return(h) \/ AfterFailedCommit(h) \/ Reporting(h), UNCHANGED sweep,
         \A t \in Session \ {req[h].s} : heard'[t] = heard[t],
         heard'[req[h].s].offset <= req[h].upto
  PROVE  RequestsInv' /\ TablesInv'
  <1> DEFINE s == req[h].s
             k == req[h].key
             n == req[h].upto
  <1>1. /\ s \in Session /\ row[s].status \in Active /\ row[s].uploaded <= n
        /\ \A g \in Handler \ {h} : req[g].s = s => ~req[g].tx /\ req[g].pc # "insert"
    BY LockedAlone
  <1>2. /\ k \in Key /\ n \in Nat /\ req[h].paid
        /\ \A g \in Handler \ {h} : Apart(req[h], req[g])
    BY ReadyRequest DEF Ready, Sound
  <1>3. files[k] = Nil
    BY <1>2, NilAssumption DEF SafetyInv, RequestsInv, Sound
  <1>4. TablesInv'
    BY <1>1, <1>2, <1>3, WriteFile DEF ApplyCompletion
  <1>5. \A t \in Session \ {s} : row'[t] = row[t]
    BY DEF ApplyCompletion, SafetyInv, TypeInv, TypeOK
  <1>6. \A g \in Handler \ {h} :
           req[g].tx /\ req[g].key # Nil => files'[req[g].key] = files[req[g].key]
    <2>1. \A j \in Key \ {k} : files'[j] = files[j]
      BY DEF ApplyCompletion, SafetyInv, TypeInv, TypeOK
    <2>2. \A g \in Handler \ {h} : req[g].key # k /\ req[g].key \in Key \cup {Nil}
      BY <1>2, NilAssumption DEF Apart, SafetyInv, TypeInv, TypeOK, Request
    <2> QED
      BY <2>1, <2>2
  <1>7. \A g \in Handler \ {h} :
           req[g].paid => account'[Owner[req[g].s]] = account[Owner[req[g].s]]
    <2>1. \A u \in User \ {Owner[s]} : account'[u] = account[u]
      BY DEF ApplyCompletion, SafetyInv, TypeInv, TypeOK
    <2>2. \A g \in Handler \ {h} : req[g].paid => Owner[req[g].s] \in User \ {Owner[s]}
      BY <1>2, OwnerAssumption DEF Apart, SafetyInv, TypeInv, Equipped
    <2> QED
      BY <2>1, <2>2
  <1>8. CASE Return(h)
    <2>1. RequestsInv'
      BY <1>1, <1>5, <1>6, <1>7, <1>8, FreeRequests, WriterLeaves, ZenonT(40) DEF Return
    <2> QED
      BY <1>4, <2>1
  <1>9. CASE ~Return(h)
    <2> DEFINE undone == [req[h] EXCEPT !.pc = "undo", !.tx = FALSE, !.paid = FALSE]
               told == [req[h] EXCEPT !.pc = "report", !.key = Nil, !.tx = FALSE, !.paid = FALSE]
    <2>0. req' = [req EXCEPT ![h] = undone] \/ req' = [req EXCEPT ![h] = told]
      BY <1>9 DEF AfterFailedCommit, Aborted, Reporting, SafetyInv, TypeInv, TypeOK
    <2> PICK r \in {undone, told} : req' = [req EXCEPT ![h] = r]
      BY <2>0
    <2>1. req' = [req EXCEPT ![h] = r]
      OBVIOUS
    <2>2. ~r.tx /\ ~r.paid /\ r.key \in {k, Nil} /\ r.pc # "insert"
      BY DEF SafetyInv, TypeInv, TypeOK, Request
    <2> HIDE DEF undone, told
    <2>3. req'[h] = r /\ \A g \in Handler \ {h} : req'[g] = req[g]
      BY <2>1 DEF SafetyInv, TypeInv, TypeOK
    <2>4. Sound(req[h])'
      BY <2>2, <2>3 DEF Sound
    <2>5. ASSUME NEW g \in Handler \ {h} PROVE Sound(req[g])'
      <3>1. req[g].tx \/ req[g].pc = "insert" => req[g].s \in Session \ {s}
        BY <1>1 DEF SafetyInv, TypeInv, Equipped
      <3> QED
        BY <1>5, <1>6, <1>7, <2>3, <3>1, StillSound
    <2>6. ASSUME NEW f \in Handler, NEW g \in Handler, f # g PROVE Apart(req[f], req[g])'
      BY <2>2, <2>3, <2>6 DEF Apart, SafetyInv, RequestsInv
    <2> QED
      BY <1>4, <2>4, <2>5, <2>6 DEF RequestsInv
  <1> QED
    BY <1>8, <1>9

(* A request goes on without writing to the tables: it keeps its session,   *)
(* and does not take a lock or a key.                                       *)
LEMMA GoOnSafetyInv ==
  ASSUME SafetyInv, NEW h \in Handler, NEW r, req' = [req EXCEPT ![h] = r],
         UNCHANGED <<row, files, account, heard, sweep>>,
         r.s = req[h].s, r.key = req[h].key, r.tx => req[h].tx, r.paid => req[h].paid,
         r.upto \in Nat, req[h].upto <= r.upto,
         r.pc \notin {"insert", "check", "audit", "commit"}
  PROVE  RequestsInv' /\ TablesInv'
  <1>1. Sound(r)
    <2>1. r.tx => req[h].s \in Session /\ row[req[h].s].uploaded \in Nat
      BY DEF SafetyInv, TypeInv, TypeOK, Equipped, Row
    <2> QED
      BY <2>1, ReadyRequest DEF Sound
  <1>2. \A g \in Handler \ {h} : Apart(r, req[g])
    BY ReadyRequest DEF Apart
  <1>3. RequestsInv'
    BY <1>1, <1>2, KeepRequests
  <1> QED
    BY <1>3, KeepTables DEF SafetyInv, TablesInv

LEMMA ReturnSafetyInv ==
  ASSUME SafetyInv, NEW h \in Handler, Return(h), UNCHANGED <<row, files, account, heard, sweep>>
  PROVE  RequestsInv' /\ TablesInv'
  <1>1. RequestsInv'
    BY FreeRequests, KeepFree DEF Return
  <1> QED
    BY <1>1, KeepTables DEF SafetyInv, TablesInv

LEMMA ServeSafetyInv ==
  ASSUME SafetyInv, NEW h \in Handler,
         Receive(h) \/ Serve(h) \/ Disconnect(h) \/ LoseConnection(h)
  PROVE  RequestsInv' /\ TablesInv'
  <1> DEFINE q == req[h]
  <1>q. Ready(q) /\ q.upto \in Nat /\ q \in Request
    BY ReadyRequest DEF Ready
  <1>g. ASSUME NEW step \in Steps \ {"insert", "check", "audit", "commit"},
               req' = [req EXCEPT ![h].pc = step],
               UNCHANGED <<row, files, account, heard, sweep>>
        PROVE  RequestsInv' /\ TablesInv'
    <2> DEFINE r == [q EXCEPT !.pc = step]
    <2>1. req' = [req EXCEPT ![h] = r]
      BY <1>g DEF SafetyInv, TypeInv, TypeOK
    <2>2. /\ r.s = q.s /\ r.key = q.key /\ r.tx = q.tx /\ r.paid = q.paid
          /\ r.upto = q.upto /\ r.pc = step
      BY <1>q DEF Request
    <2>3. r.upto \in Nat /\ q.upto <= r.upto /\ r.pc \notin {"insert", "check", "audit", "commit"}
      BY <1>q, <2>2
    <2> HIDE DEF r
    <2> QED
      BY <1>g, <2>1, <2>2, <2>3, GoOnSafetyInv
  <1>u. ASSUME Aborted(h, "undo"), UNCHANGED <<row, files, account, heard, sweep>>
        PROVE  RequestsInv' /\ TablesInv'
    <2> DEFINE r == [q EXCEPT !.pc = "undo", !.tx = FALSE, !.paid = FALSE]
    <2>1. req' = [req EXCEPT ![h] = r]
      BY <1>u DEF Aborted, SafetyInv, TypeInv, TypeOK
    <2>2. ~r.tx /\ ~r.paid /\ r.key = q.key /\ r.s = q.s /\ r.upto = q.upto /\ r.pc = "undo"
      BY <1>q DEF Request
    <2>3. r.upto \in Nat /\ q.upto <= r.upto /\ r.pc \notin {"insert", "check", "audit", "commit"}
      BY <1>q, <2>2
    <2> HIDE DEF r
    <2> QED
      BY <1>u, <2>1, <2>2, <2>3, GoOnSafetyInv
  <1>f. ASSUME AfterFailedCommit(h), UNCHANGED <<row, files, account, heard, sweep>>
        PROVE  RequestsInv' /\ TablesInv'
    BY <1>f, <1>u, ReturnSafetyInv DEF AfterFailedCommit
  <1>1. CASE InsertSession(h)
    <2> DEFINE r == [status |-> "initialized", total |-> q.cap, uploaded |-> 0]
    <2>1. /\ q.s \in Session /\ row[q.s].status = "absent"
          /\ r \in Row /\ r.uploaded = 0 /\ r.status = "initialized"
      BY <1>1, <1>q, ReadyRequest DEF InsertSession, Ready, Request, Sound, Row, Active
    <2>2. row' = [row EXCEPT ![q.s] = r]
      BY <1>1 DEF InsertSession
    <2> HIDE DEF r
    <2>3. RequestsInv'
      <3> DEFINE s == q.s
      <3>1. \A t \in Session \ {s} : row'[t] = row[t]
        BY <2>2 DEF SafetyInv, TypeInv, TypeOK
      <3>2. \A g \in Handler \ {h} : req[g].s = s => ~req[g].tx /\ req[g].pc # "insert"
        BY <1>1, <2>1 DEF InsertSession, SafetyInv, RequestsInv, Sound, Apart, Active
      <3>3. s \in Session
        BY <2>1
      <3> HIDE DEF s
      <3>4. files' = files /\ account' = account
        BY <1>1 DEF InsertSession
      <3> QED
        BY <1>1, <3>1, <3>2, <3>3, <3>4, FreeRequests, WriterLeaves, ZenonT(40) DEF InsertSession, Return
    <2>4. ~Stored(q.s) /\ heard[q.s].offset = 0
      BY <2>1 DEF SafetyInv, TablesInv, Stored, Terminal
    <2>5. TablesInv'
      <3>2. UNCHANGED files /\ heard' = heard /\ sweep' = sweep
        BY <1>1 DEF InsertSession
      <3>3. heard[q.s].offset <= r.uploaded /\ r.status \notin {"absent", "completed"}
        BY <2>1, <2>4
      <3>4. /\ \A t \in Session : heard'[t].done = heard[t].done
            /\ \A t \in Session : heard'[t].offset = heard[t].offset
                                  \/ (t = q.s /\ heard'[t].offset <= r.uploaded)
            /\ \A w \in Sweeper : Chosen(sweep'[w]) \subseteq Chosen(sweep[w])
        BY <3>2
      <3> QED
        BY <2>1, <2>2, <2>4, <3>2, <3>3, <3>4, WriteRow
    <2> QED
      BY <2>3, <2>5
  <1>2. CASE AppendMismatch(h) \/ RejectChunk(h) \/ MoveFails(h) \/ Undo(h) \/ Unlink(h)
    <2>1. CASE Return(h)
      BY <1>2, <2>1, ReturnSafetyInv DEF AppendMismatch, RejectChunk, MoveFails, Undo, Unlink
    <2>2. CASE ~Return(h)
      BY <1>2, <1>g, <2>2
         DEF AppendMismatch, RejectChunk, MoveFails, Undo, Unlink, Steps
    <2> QED
      BY <2>1, <2>2
  <1>3. CASE AppendAt(h)
    <2>1. PICK m \in Appended(q.upto, q.cap) :
            \/ req' = [req EXCEPT ![h].pc = "record", ![h].upto = m]
            \/ Faults \cap {"body", "gone"} # {} /\ Return(h)
      BY <1>3 DEF AppendAt
    <2>2. CASE Return(h)
      BY <1>3, <2>2, ReturnSafetyInv DEF AppendAt
    <2>3. CASE req' = [req EXCEPT ![h].pc = "record", ![h].upto = m]
      <3> DEFINE r == [q EXCEPT !.pc = "record", !.upto = m]
      <3>1. req' = [req EXCEPT ![h] = r]
        BY <2>3 DEF SafetyInv, TypeInv, TypeOK
      <3>2. /\ r.s = q.s /\ r.key = q.key /\ r.tx = q.tx /\ r.paid = q.paid
            /\ r.upto = m /\ r.pc = "record"
        BY <1>q DEF Request
      <3>3. m \in Nat /\ q.upto <= m
        BY <1>q, MaxLenAssumption DEF Appended
      <3> HIDE DEF r
      <3> QED
        BY <1>3, <3>1, <3>2, <3>3, GoOnSafetyInv DEF AppendAt
    <2> QED
      BY <2>1, <2>2, <2>3
  <1>4. CASE RecordChunk(h)
    <2>1. req[h].tx /\ Return(h) /\ UNCHANGED <<files, account, sweep>>
      BY <1>4 DEF RecordChunk
    <2>2. CASE UNCHANGED <<row, heard>>
      BY <2>1, <2>2, ReturnSafetyInv
    <2>3. CASE RecordProgress(h) /\ UNCHANGED heard
      BY <2>1, <2>3, ProgressSafetyInv
    <2>4. CASE RecordProgress(h) /\ heard' = [heard EXCEPT ![q.s].offset = q.upto]
      <3>1. /\ \A t \in Session : heard'[t].done = heard[t].done
            /\ \A t \in Session : heard'[t].offset = heard[t].offset
                                  \/ (t = q.s /\ heard'[t].offset <= q.upto)
        BY <1>q, <2>4 DEF SafetyInv, TypeInv, TypeOK
      <3> QED
        BY <2>1, <2>4, <3>1, ProgressSafetyInv
    <2> QED
      BY <1>4, <2>2, <2>3, <2>4 DEF RecordChunk
  <1>5. CASE RecordLastChunk(h) \/ InsertFile(h)
    BY <1>5, <1>g DEF RecordLastChunk, InsertFile, Steps
  <1>6. CASE MoveToFinal(h)
    <2>1. PICK k \in Key : FreshKey(k) /\ req' = [req EXCEPT ![h].pc = "book", ![h].key = k]
      BY <1>6 DEF MoveToFinal
    <2> DEFINE r == [q EXCEPT !.pc = "book", !.key = k]
    <2>2. req' = [req EXCEPT ![h] = r]
      BY <2>1 DEF SafetyInv, TypeInv, TypeOK
    <2>3. /\ r.s = q.s /\ r.key = k /\ r.tx = q.tx /\ r.paid = q.paid
          /\ r.upto = q.upto /\ r.pc = "book"
      BY <1>q DEF Request
    <2> HIDE DEF r
    <2>4. Sound(r)
      BY <2>1, <2>3, ReadyRequest DEF Sound, FreshKey
    <2>5. \A g \in Handler \ {h} : Apart(r, req[g])
      BY <2>1, <2>3, ReadyRequest DEF Apart, FreshKey
    <2>6. RequestsInv'
      BY <1>6, <2>2, <2>4, <2>5, KeepRequests DEF MoveToFinal
    <2> QED
      BY <1>6, <2>6, KeepTables DEF MoveToFinal, SafetyInv, TablesInv
  <1>7. CASE NameConflict(h) \/ DeadlockDetected(h)
    BY <1>7, <1>u DEF NameConflict, DeadlockDetected
  <1>8. CASE ChargeUser(h)
    <2> DEFINE u == Owner[q.s]
               r == [q EXCEPT !.paid = TRUE, !.pc = "check"]
    <2>1. req' = [req EXCEPT ![h] = r]
      BY <1>8 DEF ChargeUser, SafetyInv, TypeInv, TypeOK
    <2>2. /\ r.s = q.s /\ r.key = q.key /\ r.tx = q.tx /\ r.paid /\ r.upto = q.upto
          /\ r.pc = "check"
      BY <1>q DEF Request
    <2> HIDE DEF r
    <2>3. Sound(r)
      BY <2>2, ReadyRequest DEF Sound
    <2>4. \A g \in Handler \ {h} : req[g].paid => Owner[req[g].s] # u
      BY <1>8, NilAssumption
         DEF ChargeUser, AccountFree, HoldsUpdate, ForUser, SafetyInv, TypeInv, Equipped
    <2>5. \A g \in Handler \ {h} : Apart(r, req[g])
      BY <2>2, <2>4, ReadyRequest DEF Apart
    <2>6. RequestsInv'
      BY <1>8, <2>1, <2>3, <2>5, KeepRequests DEF ChargeUser
    <2> QED
      BY <1>8, <2>6, KeepTables DEF ChargeUser, SafetyInv, TablesInv
  <1>k. ASSUME NEW step \in {"audit", "commit"}, req' = [req EXCEPT ![h].pc = step],
               UNCHANGED <<row, files, account, heard, sweep>>,
               q.tx => /\ q.paid
                       /\ Fits(account[Owner[q.s]].used + q.upto, account[Owner[q.s]].quota)
        PROVE  RequestsInv' /\ TablesInv'
    <2> DEFINE r == [q EXCEPT !.pc = step]
    <2>1. req' = [req EXCEPT ![h] = r]
      BY <1>k DEF SafetyInv, TypeInv, TypeOK
    <2>2. /\ r.s = q.s /\ r.key = q.key /\ r.tx = q.tx /\ r.paid = q.paid
          /\ r.upto = q.upto /\ r.pc = step
      BY <1>q DEF Request
    <2> HIDE DEF r
    <2>3. Sound(r)
      BY <1>k, <2>2, ReadyRequest DEF Sound
    <2>4. \A g \in Handler \ {h} : Apart(r, req[g])
      BY <2>2, ReadyRequest DEF Apart
    <2>5. RequestsInv'
      BY <1>k, <2>1, <2>3, <2>4, KeepRequests
    <2> QED
      BY <1>k, <2>5, KeepTables DEF SafetyInv, TablesInv
  <1>15. CASE EnsureQuota(h)
    <2>1. CASE EnsureQuotaAllows(Owner[q.s], q.upto)
      <3> DEFINE step == AfterCheck(q.kind)
      <3>1. step \in {"audit", "commit"}
        BY DEF AfterCheck
      <3>2. /\ req' = [req EXCEPT ![h].pc = step]
            /\ UNCHANGED <<row, files, account, heard, sweep>>
        BY <1>15, <2>1 DEF EnsureQuota
      <3>3. q.paid /\ Fits(account[Owner[q.s]].used + q.upto, account[Owner[q.s]].quota)
        BY <1>15, <2>1, ReadyRequest DEF EnsureQuota, EnsureQuotaAllows, Sound
      <3> HIDE DEF step
      <3> QED
        BY <1>k, <3>1, <3>2, <3>3
    <2>2. CASE ~EnsureQuotaAllows(Owner[q.s], q.upto)
      BY <1>15, <1>g, <2>2 DEF EnsureQuota, Steps
    <2> QED
      BY <2>1, <2>2
  <1>16. CASE InsertAudit(h)
    <2>1. q.tx => /\ q.paid
                  /\ Fits(account[Owner[q.s]].used + q.upto, account[Owner[q.s]].quota)
      BY <1>16, ReadyRequest DEF InsertAudit, Sound
    <2> QED
      BY <1>16, <1>k, <2>1 DEF InsertAudit
  <1>9. ASSUME q.tx, q.pc = "commit", ApplyCompletion(h), UNCHANGED <<heard, sweep>>,
               Return(h) \/ AfterFailedCommit(h) \/ Reporting(h)
        PROVE  RequestsInv' /\ TablesInv'
    <2>1. heard[q.s].offset <= q.upto
      <3>1. q.s \in Session /\ row[q.s].uploaded <= q.upto
        BY <1>9, LockedAlone
      <3>2. heard[q.s].offset <= row[q.s].uploaded /\ heard[q.s].offset \in Nat
            /\ row[q.s].uploaded \in Nat
        BY <3>1 DEF SafetyInv, TypeInv, TypeOK, TablesInv, Row
      <3> QED
        BY <1>q, <3>1, <3>2
    <2> QED
      BY <1>9, <2>1, CompletionSafetyInv
  <1>10. CASE Commit(h)
    <2>1. CASE q.kind = "complete"
      BY <1>9, <1>10, <2>1 DEF Commit, Reporting
    <2>2. CASE q.kind # "complete"
      <3>1. \A t \in Session \ {q.s} : heard'[t] = heard[t]
        BY <1>10, <2>2 DEF Commit, Completed, SafetyInv, TypeInv, TypeOK
      <3>2. heard'[q.s].offset <= q.upto
        BY <1>10, <1>q, <2>2 DEF Commit, Completed, SafetyInv, TypeInv, TypeOK, Ready
      <3> QED
        BY <1>10, <2>2, <3>1, <3>2, CompletionSafetyInv DEF Commit
    <2> QED
      BY <2>1, <2>2
  <1>11. CASE CommitUnacknowledged(h)
    BY <1>9, <1>11 DEF CommitUnacknowledged
  <1>12. CASE StatementFails(h)
    BY <1>12, <1>f, <1>u, ReturnSafetyInv DEF StatementFails
  <1>13. CASE Disconnect(h)
    <2>1. Return(h) /\ UNCHANGED <<heard, sweep>>
      BY <1>13 DEF Disconnect
    <2>2. CASE UNCHANGED <<row, files, account>>
      BY <2>1, <2>2, ReturnSafetyInv
    <2>3. CASE q.pc = "commit" /\ q.tx /\ ApplyCompletion(h)
      BY <1>9, <2>1, <2>3
    <2>4. CASE q.tx /\ RecordProgress(h) /\ UNCHANGED <<files, account>>
      BY <2>1, <2>4, ProgressSafetyInv
    <2> QED
      BY <1>13, <2>2, <2>3, <2>4 DEF Disconnect
  <1>14. CASE LoseConnection(h)
    <2> DEFINE r == [q EXCEPT !.tx = FALSE, !.paid = FALSE]
    <2>1. req' = [req EXCEPT ![h] = r]
      BY <1>14 DEF LoseConnection, SafetyInv, TypeInv, TypeOK
    <2>2. ~r.tx /\ ~r.paid /\ r.s = q.s /\ r.key = q.key /\ r.pc = q.pc
      BY <1>q DEF Request
    <2> HIDE DEF r
    <2>3. q.pc # "insert"
      BY <1>14 DEF LoseConnection, SafetyInv, TypeInv, Equipped
    <2>4. Sound(r) /\ \A g \in Handler \ {h} : Apart(r, req[g])
      BY <2>2, <2>3, ReadyRequest DEF Sound, Apart
    <2>5. RequestsInv'
      BY <1>14, <2>1, <2>4, KeepRequests DEF LoseConnection
    <2> QED
      BY <1>14, <2>5, KeepTables DEF LoseConnection, SafetyInv, TablesInv
  <1>17. CASE Report(h)
    <2>1. q.s \in Session /\ Return(h) /\ UNCHANGED <<row, files, account, sweep>>
      BY <1>17, <1>q DEF Report, Ready
    <2>2. RequestsInv'
      BY <2>1, FreeRequests, KeepFree DEF Return
    <2>3. CASE q.kind = "complete"
      <3>1. Stored(q.s) /\ row[q.s].uploaded = q.upto
        BY <1>17, <2>3 DEF Report, SafetyInv, ReportsInv
      <3>2. /\ heard'[q.s].offset = q.upto
            /\ \A t \in Session \ {q.s} : heard'[t] = heard[t]
        BY <1>17, <2>1, <2>3 DEF Report, Completed, SafetyInv, TypeInv, TypeOK
      <3>3. row[q.s].status # "absent"
        BY <3>1 DEF Stored, SafetyInv, TablesInv, Terminal
      <3>4. /\ \A t \in Session : heard'[t].done => Stored(t)
            /\ \A t \in Session : heard'[t].offset <= row[t].uploaded
            /\ \A t \in Session : row[t].status = "absent" => heard'[t].offset = 0
        BY <1>q, <3>1, <3>2, <3>3 DEF SafetyInv, TablesInv
      <3>5. TablesInv'
        BY <2>1, <3>4 DEF SafetyInv, TablesInv, OneFilePerSession, Stored
      <3> QED
        BY <2>2, <3>5
    <2>4. CASE q.kind # "complete"
      BY <1>17, <2>1, <2>4, ReturnSafetyInv DEF Report
    <2> QED
      BY <2>3, <2>4
  <1> QED
    BY <1>1, <1>2, <1>3, <1>4, <1>5, <1>6, <1>7, <1>8, <1>10, <1>11, <1>12, <1>13, <1>14,
       <1>15, <1>16, <1>17 DEF Serve, Receive

LEMMA SystemSafetyInv ==
  ASSUME SafetyInv,
         \/ \E w \in Sweeper : Sweep(w) \/ SweepCut(w)
         \/ \E s \in Session : Replay(s) \/ UploadStatus(s) \/ Expire(s)
         \/ \E u \in User, q \in Quotas : SetQuota(u, q)
         \/ Crash
  PROVE  RequestsInv' /\ TablesInv'
  <1>r. ASSUME UNCHANGED <<row, files, account, req>> PROVE RequestsInv'
    BY <1>r DEF SafetyInv, RequestsInv, Sound, Apart
  <1>1. ASSUME NEW w \in Sweeper, Sweep(w) \/ SweepCut(w) PROVE RequestsInv' /\ TablesInv'
    <2>0. /\ sweep \in [Sweeper -> Sweeping]
          /\ sweep[w].at \in Session \cup {Nil} /\ sweep[w].todo \subseteq Session
      BY DEF SafetyInv, TypeInv, TypeOK, Sweeping
    <2>1. CASE UNCHANGED row
      <3>1. UNCHANGED <<files, account, req, heard>>
        BY <1>1 DEF Sweep, SweepSelect, SweepNext, SweepUnlink, SweepMark, SweepMarkUnrecorded,
                    SweepCut
      <3>2. \A v \in Sweeper \ {w} : sweep'[v] = sweep[v]
        BY <1>1, <2>0 DEF Sweep, SweepSelect, SweepNext, SweepUnlink, SweepMark,
                          SweepMarkUnrecorded, SweepCut
      <3>3. \A s \in Chosen(sweep'[w]) : s \in Chosen(sweep[w]) \/ row[s].status \in Active
        <4>1. CASE SweepSelect(w)
          <5> DEFINE S == {s \in due : row[s].status \in Active}
          <5>1. sweep'[w].todo = S /\ sweep'[w].at = sweep[w].at
            BY <2>0, <4>1 DEF SweepSelect, Sweeping
          <5>2. \A s \in S : row[s].status \in Active
            OBVIOUS
          <5> HIDE DEF S
          <5> QED
            BY <5>1, <5>2 DEF Chosen
        <4>2. CASE SweepCut(w)
          BY <2>0, <4>2 DEF SweepCut, Resting, Chosen
        <4>3. CASE SweepUnlink(w) \/ SweepMark(w) \/ SweepMarkUnrecorded(w)
          <5>1. sweep'[w].todo = sweep[w].todo /\ sweep'[w].at \in {sweep[w].at, Nil}
            BY <2>0, <4>3 DEF SweepUnlink, SweepMark, SweepMarkUnrecorded, Sweeping
          <5> QED
            BY <5>1 DEF Chosen
        <4>4. ASSUME NEW s \in Session, SweepNext(w, s)
              PROVE  Chosen(sweep'[w]) \subseteq Chosen(sweep[w])
          <5>1. s \in sweep[w].todo /\ sweep'[w].todo = sweep[w].todo \ {s} /\ sweep'[w].at = s
            BY <2>0, <4>4 DEF SweepNext, Sweeping
          <5> QED
            BY <5>1 DEF Chosen
        <4> QED
          BY <1>1, <4>1, <4>2, <4>3, <4>4 DEF Sweep
      <3>4. \A v \in Sweeper : \A s \in Chosen(sweep'[v]) : row[s].status # "absent"
        BY <3>2, <3>3 DEF SafetyInv, TablesInv, Active
      <3> QED
        BY <1>r, <2>1, <3>1, <3>4, KeepTables
    <2>2. CASE SweepMark(w)
      <3> PICK s \in Session : s = sweep[w].at
        BY <2>0, <2>2 DEF SweepMark
      <3> DEFINE r == [row[s] EXCEPT !.status = "expired"]
      <3>1. r \in Row /\ r.status = "expired" /\ r.uploaded = row[s].uploaded
            /\ row[s].uploaded \in Nat
        <4>1. row[s] \in Row
          BY DEF SafetyInv, TypeInv, TypeOK
        <4> QED
          BY <4>1 DEF Row, Terminal
      <3>2. row' = [row EXCEPT ![s] = r] /\ UNCHANGED <<files, account, req, heard>>
        BY <2>2 DEF SweepMark
      <3> HIDE DEF r
      <3>3. \A t \in Session \ {s} : row'[t] = row[t]
        BY <3>2 DEF SafetyInv, TypeInv, TypeOK
      <3>4. row[s].status # "absent" /\ \A g \in Handler : ~(req[g].tx /\ req[g].s = s)
        BY <2>2, NilAssumption DEF SweepMark, SessionFree, SafetyInv, TablesInv, Chosen
      <3>5. ASSUME NEW g \in Handler PROVE Sound(req[g])'
        <4>1. req[g].tx \/ req[g].pc = "insert" => req[g].s \in Session \ {s}
          BY <3>4 DEF SafetyInv, TypeInv, Equipped, RequestsInv, Sound
        <4> QED
          BY <3>2, <3>3, <4>1, StillSound
      <3>6. RequestsInv'
        BY <3>2, <3>5 DEF RequestsInv, Apart, SafetyInv
      <3>7. /\ heard[s].offset <= r.uploaded /\ r.status \notin {"absent", "completed"}
            /\ Stored(s) => r.status \in Terminal /\ r.uploaded = row[s].uploaded
        BY <3>1 DEF Terminal, SafetyInv, TablesInv
      <3>8. /\ \A t \in Session : heard'[t].done = heard[t].done
            /\ \A t \in Session : heard'[t].offset = heard[t].offset
                                  \/ (t = s /\ heard'[t].offset <= r.uploaded)
        BY <3>2
      <3>9. \A v \in Sweeper : Chosen(sweep'[v]) \subseteq Chosen(sweep[v])
        <4>1. sweep'[w].todo = sweep[w].todo /\ sweep'[w].at = Nil
          BY <2>0, <2>2 DEF SweepMark, Sweeping
        <4>2. \A v \in Sweeper \ {w} : sweep'[v] = sweep[v]
          BY <2>0, <2>2 DEF SweepMark
        <4> QED
          BY <4>1, <4>2 DEF Chosen
      <3> QED
        BY <3>1, <3>2, <3>6, <3>7, <3>8, <3>9, WriteRow
    <2> QED
      BY <1>1, <2>1, <2>2
         DEF Sweep, SweepSelect, SweepNext, SweepUnlink, SweepMarkUnrecorded, SweepCut
  <1>2. ASSUME NEW s \in Session, Replay(s) \/ UploadStatus(s) PROVE RequestsInv' /\ TablesInv'
    <2>1. RequestsInv'
      BY <1>2, <1>r DEF Replay, UploadStatus
    <2>2. /\ row' = row /\ files' = files /\ sweep' = sweep
          /\ \A t \in Session \ {s} : heard'[t] = heard[t]
      BY <1>2 DEF Replay, UploadStatus, SafetyInv, TypeInv, TypeOK
    <2>3. heard'[s].offset = row[s].uploaded /\ row[s].status # "absent"
      BY <1>2 DEF Replay, UploadStatus, SafetyInv, TypeInv, TypeOK
    <2>4. heard'[s].done => heard[s].done \/ row[s].status = "completed"
      BY <1>2 DEF Replay, UploadStatus, SafetyInv, TypeInv, TypeOK
    <2>5. \A t \in Session : heard'[t].offset <= row[t].uploaded
      <3>1. row[s].uploaded \in Nat
        BY DEF SafetyInv, TypeInv, TypeOK, Row
      <3> QED
        BY <2>2, <2>3, <3>1 DEF SafetyInv, TablesInv
    <2>6. \A t \in Session : heard'[t].done => Stored(t)
      BY <2>2, <2>4 DEF SafetyInv, TablesInv
    <2>7. \A t \in Session : row[t].status = "absent" => heard'[t].offset = 0
      BY <2>2, <2>3 DEF SafetyInv, TablesInv
    <2> QED
      BY <2>1, <2>2, <2>5, <2>6, <2>7 DEF SafetyInv, TablesInv, OneFilePerSession, Stored
  <1>3. ASSUME NEW s \in Session, Expire(s) PROVE RequestsInv' /\ TablesInv'
    BY <1>3, <1>r, KeepTables DEF Expire, SafetyInv, TablesInv
  <1>4. ASSUME NEW u \in User, NEW q \in Quotas, SetQuota(u, q) PROVE RequestsInv' /\ TablesInv'
    <2>1. \A v \in User \ {u} : account'[v] = account[v]
      BY <1>4 DEF SetQuota, SafetyInv, TypeInv, TypeOK
    <2>2. UNCHANGED <<row, files, req, heard, sweep>>
      BY <1>4 DEF SetQuota
    <2>3. ASSUME NEW g \in Handler PROVE Sound(req[g])'
      <3>1. req[g].paid => Owner[req[g].s] \in User \ {u}
        BY <1>4, NilAssumption, OwnerAssumption
           DEF SetQuota, AccountFree, HoldsUpdate, ForUser, SafetyInv, TypeInv, Equipped
      <3> QED
        BY <2>1, <2>2, <3>1, StillSound
    <2>4. RequestsInv'
      BY <2>2, <2>3 DEF RequestsInv, Apart, SafetyInv
    <2> QED
      BY <2>2, <2>4, KeepTables DEF SafetyInv, TablesInv
  <1>5. CASE Crash
    <2>1. RequestsInv'
      BY <1>5, NilAssumption DEF Crash, RequestsInv, Sound, Apart, NoRequest
    <2>2. UNCHANGED <<row, files, heard>> /\ \A w \in Sweeper : Chosen(sweep'[w]) = {}
      BY <1>5 DEF Crash, Resting, Chosen
    <2> QED
      BY <2>1, <2>2, KeepTables
  <1> QED
    BY <1>1, <1>2, <1>3, <1>4, <1>5

-----------------------------------------------------------------------------
(* What a step does to the tables: a session is created, makes progress or  *)
(* is ended; a completion is booked; a quota is set; or nothing.            *)

WriteStep(s, r) ==
    /\ row' = [row EXCEPT ![s] = r]
    /\ UNCHANGED <<files, account>>
    /\ \/ row[s].status = "absent" /\ r.status = "initialized"
       \/ row[s].status \in Active /\ r.status = "uploading"
       \/ /\ row[s].status # "absent" /\ r.status \in Terminal
          /\ r.uploaded = row[s].uploaded

BookStep(h) == req[h].tx /\ req[h].pc = "commit" /\ ApplyCompletion(h)

LEMMA TableSteps ==
  ASSUME SafetyInv, Next
  PROVE  \/ UNCHANGED <<row, files, account>>
         \/ \E s \in Session, r \in Row : WriteStep(s, r)
         \/ \E h \in Handler : BookStep(h)
         \/ \E u \in User, q \in Quotas : SetQuota(u, q)
  <1> DEFINE Goal == \/ UNCHANGED <<row, files, account>>
                     \/ \E s \in Session, r \in Row : WriteStep(s, r)
                     \/ \E h \in Handler : BookStep(h)
                     \/ \E u \in User, q \in Quotas : SetQuota(u, q)
  <1>p. ASSUME NEW h \in Handler, req[h].tx, RecordProgress(h), UNCHANGED <<files, account>>
        PROVE  Goal
    <2> DEFINE s == req[h].s
               r == [row[s] EXCEPT !.status = "uploading", !.uploaded = req[h].upto]
    <2>1. s \in Session /\ row[s].status \in Active /\ req[h].upto \in Nat
      BY <1>p, LockedAlone, ReadyRequest
    <2>2. row[s] \in Row
      BY <2>1 DEF SafetyInv, TypeInv, TypeOK
    <2>3. r \in Row /\ r.status = "uploading"
      BY <2>1, <2>2 DEF Row, Active
    <2>4. row' = [row EXCEPT ![s] = r]
      BY <1>p DEF RecordProgress
    <2> HIDE DEF r, s
    <2>5. WriteStep(s, r)
      BY <1>p, <2>1, <2>3, <2>4 DEF WriteStep
    <2> QED
      BY <2>1, <2>3, <2>5
  <1>e. ASSUME NEW s \in Session, NEW st \in {"canceled", "expired"},
               row' = [row EXCEPT ![s].status = st], row[s].status # "absent",
               UNCHANGED <<files, account>>
        PROVE  Goal
    <2> DEFINE r == [row[s] EXCEPT !.status = st]
    <2>1. row[s] \in Row
      BY DEF SafetyInv, TypeInv, TypeOK
    <2>2. r \in Row /\ r.status = st /\ r.uploaded = row[s].uploaded
      BY <2>1 DEF Row, Terminal
    <2>3. row' = [row EXCEPT ![s] = r]
      BY <1>e
    <2> HIDE DEF r
    <2>4. WriteStep(s, r)
      BY <1>e, <2>2, <2>3 DEF WriteStep, Terminal
    <2> QED
      BY <2>2, <2>4
  <1>1. ASSUME NEW h \in Handler, Arrive(h) PROVE Goal
    <2>1. ASSUME NEW s \in Session, Cancel(h, s) PROVE Goal
      BY <1>e, <2>1 DEF Cancel
    <2> QED
      BY <1>1, <2>1 DEF Arrive, UploadInit, TusCreate, Admit, UploadChunk, TusPatch,
                        UploadComplete, LockUploadSession, TusDeleteUnrecorded
  <1>2. ASSUME NEW h \in Handler, Serve(h) PROVE Goal
    <2>1. CASE InsertSession(h)
      <3> DEFINE s == req[h].s
                 r == [status |-> "initialized", total |-> req[h].cap, uploaded |-> 0]
      <3>1. /\ s \in Session /\ row[s].status = "absent" /\ r \in Row
            /\ r.status = "initialized"
        BY <2>1, ReadyRequest DEF InsertSession, Ready, Request, Sound, Row, Active
      <3>2. row' = [row EXCEPT ![s] = r] /\ UNCHANGED <<files, account>>
        BY <2>1 DEF InsertSession
      <3> HIDE DEF r, s
      <3>3. WriteStep(s, r)
        BY <3>1, <3>2 DEF WriteStep
      <3> QED
        BY <3>1, <3>3
    <2>2. CASE RecordChunk(h)
      BY <1>p, <2>2 DEF RecordChunk
    <2>3. CASE Commit(h) \/ CommitUnacknowledged(h)
      BY <2>3 DEF Commit, CommitUnacknowledged, BookStep
    <2> QED
      BY <1>2, <2>1, <2>2, <2>3
         DEF Serve, RejectChunk, RecordLastChunk, MoveToFinal, MoveFails, NameConflict,
             InsertFile, ChargeUser, EnsureQuota, DeadlockDetected, InsertAudit,
             StatementFails, Undo, Unlink, Report
  <1>3. ASSUME NEW h \in Handler, Receive(h) \/ Disconnect(h) \/ LoseConnection(h) PROVE Goal
    BY <1>p, <1>3 DEF Receive, AppendMismatch, AppendAt, Disconnect, LoseConnection, BookStep
  <1>4. ASSUME NEW w \in Sweeper, Sweep(w) \/ SweepCut(w) PROVE Goal
    <2>1. CASE SweepMark(w)
      <3> PICK s \in Session : s = sweep[w].at
        BY <2>1 DEF SweepMark, SafetyInv, TypeInv, TypeOK
      <3>1. row[s].status # "absent" /\ row' = [row EXCEPT ![s].status = "expired"]
        BY <2>1, NilAssumption DEF SweepMark, SafetyInv, TablesInv, Chosen
      <3> QED
        BY <1>e, <2>1, <3>1 DEF SweepMark
    <2> QED
      BY <1>4, <2>1
         DEF Sweep, SweepSelect, SweepNext, SweepUnlink, SweepMarkUnrecorded, SweepCut
  <1> QED
    BY <1>1, <1>2, <1>3, <1>4 DEF Next, Replay, UploadStatus, Expire, Crash

LEMMA BookedRow ==
  ASSUME SafetyInv, NEW h \in Handler, BookStep(h)
  PROVE  LET s == req[h].s  u == Owner[s]  n == req[h].upto  k == req[h].key IN
         /\ s \in Session /\ row[s].status \in Active /\ u \in User /\ n \in Nat
         /\ k \in Key /\ files[k] = Nil
         /\ row'[s].status = "completed" /\ row'[s].uploaded = n
         /\ \A t \in Session \ {s} : row'[t] = row[t]
         /\ files' = [files EXCEPT ![k] = [session |-> s, size |-> n]]
         /\ account'[u].used = account[u].used + n
         /\ account'[u].quota = account[u].quota
         /\ \A v \in User \ {u} : account'[v] = account[v]
         /\ Fits(account[u].used + n, account[u].quota)
  <1>1. req[h].s \in Session /\ row[req[h].s].status \in Active
    BY LockedAlone DEF BookStep
  <1>2. req[h].upto \in Nat /\ req[h].key \in Key /\ Sound(req[h])
    BY ReadyRequest DEF Ready, BookStep
  <1>3. files[req[h].key] = Nil
    BY <1>2, NilAssumption DEF Sound, BookStep
  <1>4. Fits(account[Owner[req[h].s]].used + req[h].upto, account[Owner[req[h].s]].quota)
    BY <1>2 DEF Sound, BookStep
  <1>5. /\ row'[req[h].s].status = "completed" /\ row'[req[h].s].uploaded = req[h].upto
        /\ \A t \in Session \ {req[h].s} : row'[t] = row[t]
    BY <1>1 DEF BookStep, ApplyCompletion, SafetyInv, TypeInv, TypeOK
  <1>6. files' = [files EXCEPT ![req[h].key] = [session |-> req[h].s, size |-> req[h].upto]]
    BY DEF BookStep, ApplyCompletion
  <1>7. Owner[req[h].s] \in User
    BY <1>1, OwnerAssumption
  <1>8. /\ account'[Owner[req[h].s]].used = account[Owner[req[h].s]].used + req[h].upto
        /\ account'[Owner[req[h].s]].quota = account[Owner[req[h].s]].quota
        /\ \A v \in User \ {Owner[req[h].s]} : account'[v] = account[v]
    BY <1>7 DEF BookStep, ApplyCompletion, SafetyInv, TypeInv, TypeOK
  <1> QED
    BY <1>1, <1>2, <1>3, <1>4, <1>5, <1>6, <1>7, <1>8

-----------------------------------------------------------------------------
(* The invariant.                                                           *)

(* A session with a file row keeps it, and its offset.                      *)
LEMMA StoredStays ==
  ASSUME SafetyInv, Next, NEW s \in Session, Stored(s)
  PROVE  Stored(s)' /\ row'[s].uploaded = row[s].uploaded
  <1>0. row[s].status \in Terminal
    BY DEF Stored, SafetyInv, TablesInv
  <1>1. CASE UNCHANGED <<row, files, account>>
    BY <1>1 DEF Stored
  <1>2. ASSUME NEW x \in Session, NEW r \in Row, WriteStep(x, r)
        PROVE  Stored(s)' /\ row'[s].uploaded = row[s].uploaded
    <2>1. Stored(s)'
      BY <1>2 DEF WriteStep, Stored
    <2>2. row'[s].uploaded = row[s].uploaded
      BY <1>0, <1>2 DEF WriteStep, SafetyInv, TypeInv, TypeOK, Active, Terminal
    <2> QED
      BY <2>1, <2>2
  <1>3. ASSUME NEW h \in Handler, BookStep(h)
        PROVE  Stored(s)' /\ row'[s].uploaded = row[s].uploaded
    <2>1. /\ row[req[h].s].status \in Active /\ files[req[h].key] = Nil
          /\ \A x \in Session \ {req[h].s} : row'[x] = row[x]
          /\ files' = [files EXCEPT ![req[h].key] =
                         [session |-> req[h].s, size |-> req[h].upto]]
      BY <1>3, BookedRow
    <2>2. row'[s] = row[s]
      BY <1>0, <2>1 DEF Active, Terminal
    <2>3. \A j \in Key : files[j] # Nil => files'[j] = files[j]
      BY <2>1 DEF SafetyInv, TypeInv, TypeOK
    <2> QED
      BY <2>2, <2>3 DEF Stored
  <1>4. ASSUME NEW u \in User, NEW q \in Quotas, SetQuota(u, q)
        PROVE  Stored(s)' /\ row'[s].uploaded = row[s].uploaded
    BY <1>4 DEF SetQuota, Stored
  <1> QED
    BY <1>1, <1>2, <1>3, <1>4, TableSteps

(* Only a commit has uploadComplete report.                                 *)
LEMMA ReportsBegin ==
  ASSUME SafetyInv, Next, NEW g \in Handler,
         req'[g].pc = "report", req'[g].kind = "complete"
  PROVE  req'[g] = req[g] \/ Commit(g)
  <1> DEFINE Goal == req'[g] = req[g] \/ Commit(g)
  <1>1. ASSUME NEW h \in Handler, NEW r, req' = [req EXCEPT ![h] = r],
               r.pc # "report" \/ r.kind # "complete"
        PROVE  Goal
    BY <1>1 DEF SafetyInv, TypeInv, TypeOK
  <1>2. ASSUME NEW h \in Handler, NEW step \in Steps \ {"report"},
               req' = [req EXCEPT ![h].pc = step] \/ Aborted(h, step)
        PROVE  Goal
    BY <1>2 DEF Aborted, SafetyInv, TypeInv, TypeOK, Request
  <1>3. ASSUME NEW h \in Handler, Return(h) PROVE Goal
    BY <1>1, <1>3 DEF Return, NoRequest
  <1>4. ASSUME NEW h \in Handler, Arrive(h) PROVE Goal
    <2> PICK s \in Session :
          \/ UploadInit(h, s) \/ TusCreate(h, s)
          \/ UploadChunk(h, s) \/ TusPatch(h, s) \/ UploadComplete(h, s)
          \/ Cancel(h, s) \/ TusDeleteUnrecorded(h, s)
      BY <1>4 DEF Arrive
    <2>1. ASSUME NEW x, Admit(h, s, x) PROVE Goal
      BY <1>1, <2>1 DEF Admit, Serving, NoRequest
    <2>2. ASSUME NEW kind, NEW step \in {"append", "move"}, NEW cap,
                 LockUploadSession(h, s, kind, step, cap)
          PROVE  Goal
      BY <1>1, <2>2 DEF LockUploadSession, Serving, NoRequest
    <2>3. CASE Cancel(h, s) \/ TusDeleteUnrecorded(h, s)
      BY <1>1, <2>3 DEF Cancel, TusDeleteUnrecorded, Serving, NoRequest
    <2>4. CASE UploadInit(h, s) \/ TusCreate(h, s)
      BY <2>1, <2>4 DEF UploadInit, TusCreate
    <2>5. CASE UploadChunk(h, s) \/ TusPatch(h, s) \/ UploadComplete(h, s)
      BY <2>2, <2>5 DEF UploadChunk, TusPatch, UploadComplete
    <2> QED
      BY <2>3, <2>4, <2>5
  <1>5. ASSUME NEW h \in Handler, Receive(h) PROVE Goal
    <2>1. CASE AppendMismatch(h)
      BY <1>3, <2>1 DEF AppendMismatch
    <2>2. CASE AppendAt(h)
      <3>1. Return(h) \/ \E m \in Appended(req[h].upto, req[h].cap) :
                            req' = [req EXCEPT ![h].pc = "record", ![h].upto = m]
        BY <2>2 DEF AppendAt
      <3> QED
        BY <1>3, <3>1 DEF SafetyInv, TypeInv, TypeOK, Request
    <2> QED
      BY <1>5, <2>1, <2>2 DEF Receive
  <1>6. ASSUME NEW h \in Handler, Serve(h) PROVE Goal
    <2>1. CASE Return(h)
      BY <1>3, <2>1
    <2>2. CASE Commit(h)
      BY <2>1, <2>2 DEF Commit, SafetyInv, TypeInv, TypeOK
    <2>3. CASE MoveToFinal(h)
      BY <2>3 DEF MoveToFinal, SafetyInv, TypeInv, TypeOK, Request
    <2>4. CASE ChargeUser(h)
      BY <2>4 DEF ChargeUser, SafetyInv, TypeInv, TypeOK, Request
    <2>5. CASE Unlink(h)
      BY <2>1, <2>5 DEF Unlink, SafetyInv, TypeInv, TypeOK, Request
    <2>6. CASE EnsureQuota(h)
      <3>1. \E step \in Steps \ {"report"} : req' = [req EXCEPT ![h].pc = step]
        BY <2>6 DEF EnsureQuota, AfterCheck, Steps
      <3> QED
        BY <1>2, <3>1
    <2>7. CASE RecordLastChunk(h) \/ InsertFile(h) \/ InsertAudit(h)
      BY <1>2, <2>7 DEF RecordLastChunk, InsertFile, InsertAudit, Steps
    <2>8. CASE Aborted(h, "undo")
      BY <1>2, <2>8 DEF Steps
    <2> QED
      BY <1>6, <2>1, <2>2, <2>3, <2>4, <2>5, <2>6, <2>7, <2>8
         DEF Serve, InsertSession, RejectChunk, RecordChunk, MoveFails, NameConflict,
             DeadlockDetected, CommitUnacknowledged, AfterFailedCommit, StatementFails, Undo,
             Report
  <1>7. ASSUME NEW h \in Handler, Disconnect(h) \/ LoseConnection(h) PROVE Goal
    <2>1. CASE Disconnect(h)
      BY <1>3, <2>1 DEF Disconnect
    <2>2. CASE LoseConnection(h)
      BY <2>2 DEF LoseConnection, SafetyInv, TypeInv, TypeOK, Equipped, Request
    <2> QED
      BY <1>7, <2>1, <2>2
  <1>8. ASSUME NEW w \in Sweeper, Sweep(w) \/ SweepCut(w) PROVE Goal
    BY <1>8 DEF Sweep, SweepSelect, SweepNext, SweepUnlink, SweepMark, SweepMarkUnrecorded,
                SweepCut
  <1>9. CASE Crash
    BY <1>9 DEF Crash, NoRequest
  <1> QED
    BY <1>4, <1>5, <1>6, <1>7, <1>8, <1>9 DEF Next, Replay, UploadStatus, Expire, SetQuota

LEMMA StepReportsInv == SafetyInv /\ Next => ReportsInv'
  <1> SUFFICES ASSUME SafetyInv, Next, NEW g \in Handler,
                      req'[g].pc = "report", req'[g].kind = "complete"
               PROVE  Stored(req[g].s)' /\ row'[req'[g].s].uploaded = req'[g].upto
    BY DEF ReportsInv
  <1>1. CASE req'[g] = req[g]
    <2> PICK s \in Session : s = req[g].s
      BY <1>1 DEF SafetyInv, TypeInv, Equipped
    <2>1. Stored(s) /\ row[s].uploaded = req[g].upto
      BY <1>1 DEF SafetyInv, ReportsInv
    <2>2. Stored(s)' /\ row'[s].uploaded = row[s].uploaded
      BY <2>1, StoredStays
    <2> QED
      BY <1>1, <2>1, <2>2 DEF Stored
  <1>2. CASE Commit(g)
    <2>1. BookStep(g)
      BY <1>2 DEF Commit, BookStep
    <2>2. /\ req[g].s \in Session /\ req[g].key \in Key /\ row'[req[g].s].uploaded = req[g].upto
          /\ files'[req[g].key] = [session |-> req[g].s, size |-> req[g].upto]
          /\ req[g].upto \in Nat
      BY <2>1, BookedRow DEF SafetyInv, TypeInv, TypeOK
    <2>3. files'[req[g].key] # Nil /\ files'[req[g].key].session = req[g].s
      BY <2>2, NilAssumption
    <2>4. req'[g].s = req[g].s /\ req'[g].upto = req[g].upto
      BY <1>2 DEF Commit, Return, NoRequest, SafetyInv, TypeInv, TypeOK, Request
    <2> QED
      BY <2>2, <2>3, <2>4 DEF Stored
  <1> QED
    BY <1>1, <1>2, ReportsBegin

LEMMA InitSafetyInv == Init => SafetyInv
  <1> SUFFICES ASSUME Init PROVE SafetyInv
    OBVIOUS
  <1>1. RequestsInv
    BY DEF Init, RequestsInv, Sound, Apart, NoRequest
  <1>2. TablesInv
    BY NilAssumption DEF Init, TablesInv, OneFilePerSession, Resting, Chosen
  <1>3. ReportsInv
    BY DEF Init, ReportsInv, NoRequest
  <1> QED
    BY <1>1, <1>2, <1>3, InitTypeInv DEF SafetyInv

LEMMA StepSafetyInv == SafetyInv /\ [Next]_vars => SafetyInv'
  <1> SUFFICES ASSUME SafetyInv, [Next]_vars PROVE SafetyInv'
    OBVIOUS
  <1>1. TypeInv'
    BY StepTypeInv DEF SafetyInv
  <1>2. RequestsInv' /\ TablesInv'
    <2>1. CASE UNCHANGED vars
      BY <2>1 DEF vars, SafetyInv, RequestsInv, Sound, Apart, TablesInv, OneFilePerSession,
                  Stored, Chosen
    <2>2. CASE Next
      BY <2>2, ArriveSafetyInv, ServeSafetyInv, SystemSafetyInv DEF Next
    <2> QED
      BY <2>1, <2>2
  <1>3. ReportsInv'
    <2>1. CASE UNCHANGED vars
      BY <2>1 DEF vars, SafetyInv, ReportsInv, Stored
    <2>2. CASE Next
      BY <2>2, StepReportsInv
    <2> QED
      BY <2>1, <2>2
  <1> QED
    BY <1>1, <1>2, <1>3 DEF SafetyInv

LEMMA SafetyInvariant == Spec => []SafetyInv
  BY InitSafetyInv, StepSafetyInv, PTL DEF Spec

-----------------------------------------------------------------------------
(* Theorems.                                                                *)

(* No race or retry of completions stores a session twice.                  *)
THEOREM SessionStoredOnce == Spec => []OneFilePerSession
  <1>1. SafetyInv => OneFilePerSession
    BY DEF SafetyInv, TablesInv
  <1> QED
    BY SafetyInvariant, <1>1, PTL

(* What a client was told of its upload survives every failure.             *)
THEOREM AcknowledgementsDurable == Spec => []AcknowledgedIsDurable
  <1>1. SafetyInv => AcknowledgedIsDurable
    <2> SUFFICES ASSUME SafetyInv, NEW s \in Session
                 PROVE  /\ heard[s].offset <= row[s].uploaded
                        /\ heard[s].done =>
                             \E k \in Key : files[k] = [session |-> s, size |-> row[s].uploaded]
      BY DEF AcknowledgedIsDurable
    <2>1. heard[s].offset <= row[s].uploaded
      BY DEF SafetyInv, TablesInv
    <2>2. ASSUME heard[s].done
          PROVE  \E k \in Key : files[k] = [session |-> s, size |-> row[s].uploaded]
      <3>1. PICK k \in Key : files[k] # Nil /\ files[k].session = s
        BY <2>2 DEF SafetyInv, TablesInv, Stored
      <3>2. files[k] \in File /\ files[k].size = row[s].uploaded
        BY <3>1 DEF SafetyInv, TypeInv, TypeOK, TablesInv
      <3>3. files[k] = [session |-> s, size |-> row[s].uploaded]
        BY <3>1, <3>2 DEF File
      <3> QED
        BY <3>3
    <2> QED
      BY <2>1, <2>2
  <1> QED
    BY SafetyInvariant, <1>1, PTL

(* A step leaves an ended session ended.                                    *)
LEMMA StaysEnded ==
  ASSUME SafetyInv, Next, NEW s \in Session, row[s].status \in Terminal
  PROVE  row'[s].status \in Terminal
  <1>1. CASE UNCHANGED <<row, files, account>>
    BY <1>1
  <1>2. ASSUME NEW t \in Session, NEW r \in Row, WriteStep(t, r)
        PROVE  row'[s].status \in Terminal
    BY <1>2 DEF WriteStep, Active, Terminal, SafetyInv, TypeInv, TypeOK
  <1>3. ASSUME NEW h \in Handler, BookStep(h) PROVE row'[s].status \in Terminal
    BY <1>3, BookedRow DEF Terminal
  <1>4. ASSUME NEW u \in User, NEW q \in Quotas, SetQuota(u, q)
        PROVE  row'[s].status \in Terminal
    BY <1>4 DEF SetQuota
  <1> QED
    BY <1>1, <1>2, <1>3, <1>4, TableSteps

(* Completions, chunks, cancellations and sweeps that race on one session   *)
(* never reopen it.                                                         *)
THEOREM EndedForGood == Spec => TerminalIsFinal
  <1>1. SafetyInv /\ [Next]_vars =>
          [\A s \in Session : row[s].status \in Terminal => row'[s].status \in Terminal]_vars
    BY StaysEnded
  <1> QED
    BY SafetyInvariant, <1>1, PTL DEF Spec, TerminalIsFinal

(* The check under the user's row lock holds at the commit.                 *)
THEOREM ChargesWithinQuota == Spec => ChargeWithinQuota
  <1>1. SafetyInv /\ [Next]_vars =>
          [\A u \in User : account'[u].used > account[u].used =>
               Fits(account'[u].used, account'[u].quota)]_vars
    <2> SUFFICES ASSUME SafetyInv, Next, NEW u \in User, account'[u].used > account[u].used
                 PROVE  Fits(account'[u].used, account'[u].quota)
      OBVIOUS
    <2>1. account[u].used \in Nat
      BY DEF SafetyInv, TypeInv, TypeOK
    <2>2. account'[u] # account[u]
      BY <2>1
    <2>3. PICK h \in Handler : BookStep(h)
      <3>1. ~ \E v \in User, q \in Quotas : SetQuota(v, q)
        BY <2>1 DEF SetQuota, SafetyInv, TypeInv, TypeOK
      <3> QED
        BY <2>2, <3>1, TableSteps DEF WriteStep
    <2>4. u = Owner[req[h].s]
      BY <2>2, <2>3, BookedRow
    <2> QED
      BY <2>3, <2>4, BookedRow
  <1> QED
    BY SafetyInvariant, <1>1, PTL DEF Spec, ChargeWithinQuota

-----------------------------------------------------------------------------
(* The usage of a user is the sum of the sizes of the user's files.         *)

Usage(u) == SumFunction([k \in FilesOf(u) |-> files[k].size])

UsageInv ==
    \A u \in User : IsFiniteSet(FilesOf(u)) /\ account[u].used = Usage(u)

(* A user whose file rows do not change keeps the sum.                      *)
LEMMA UsageKept ==
  ASSUME UsageInv, NEW u \in User, FilesOf(u)' = FilesOf(u),
         \A k \in FilesOf(u) : files'[k] = files[k],
         account'[u].used = account[u].used
  PROVE  IsFiniteSet(FilesOf(u)') /\ account'[u].used = Usage(u)'
  <1>1. Usage(u)' = Usage(u)
    BY DEF Usage
  <1> QED
    BY <1>1 DEF UsageInv

(* A file row under an unused key adds its size to the sum of its owner and *)
(* leaves the sums of the others.                                           *)
LEMMA UsageCharged ==
  ASSUME SafetyInv, UsageInv, NEW s \in Session, NEW k \in Key, NEW n \in Nat,
         files[k] = Nil, files' = [files EXCEPT ![k] = [session |-> s, size |-> n]],
         account'[Owner[s]].used = account[Owner[s]].used + n,
         \A v \in User \ {Owner[s]} : account'[v] = account[v]
  PROVE  UsageInv'
  <1> DEFINE f == [session |-> s, size |-> n]
  <1>1. f # Nil /\ f.session = s /\ f.size = n
    BY NilAssumption
  <1>2. files'[k] = f /\ \A j \in Key \ {k} : files'[j] = files[j]
    BY DEF SafetyInv, TypeInv, TypeOK
  <1> HIDE DEF f
  <1>3. ASSUME NEW u \in User, u # Owner[s]
        PROVE  IsFiniteSet(FilesOf(u)') /\ account'[u].used = Usage(u)'
    <2>1. FilesOf(u)' = FilesOf(u) /\ k \notin FilesOf(u)
      BY <1>1, <1>2, <1>3 DEF FilesOf
    <2> QED
      BY <1>2, <1>3, <2>1, UsageKept DEF FilesOf
  <1>4. ASSUME NEW u \in User, u = Owner[s]
        PROVE  IsFiniteSet(FilesOf(u)') /\ account'[u].used = Usage(u)'
    <2> DEFINE S == FilesOf(u)
               a == [j \in S |-> files[j].size]
               b == [j \in S \cup {k} |-> files'[j].size]
    <2>1. FilesOf(u)' = S \cup {k} /\ k \notin S
      BY <1>1, <1>2, <1>4 DEF FilesOf
    <2>2. Usage(u)' = SumFunctionOnSet(b, S \cup {k}) /\ Usage(u) = SumFunctionOnSet(a, S)
      BY <2>1 DEF Usage, SumFunction
    <2>3. IsFiniteSet(S) /\ IsFiniteSet(S \cup {k})
      BY FS_AddElement DEF UsageInv
    <2>4. \A j \in S : a[j] = b[j] /\ b[j] \in Nat
      BY <1>2, <2>1 DEF FilesOf, SafetyInv, TypeInv, TypeOK, File
    <2>5. b[k] = n
      BY <1>1, <1>2
    <2> HIDE DEF S, a, b
    <2>6. SumFunctionOnSet(b, S \cup {k}) = n + SumFunctionOnSet(b, S)
      BY <2>1, <2>3, <2>4, <2>5, SumAdd
    <2>7. SumFunctionOnSet(b, S) = SumFunctionOnSet(a, S) /\ SumFunctionOnSet(b, S) \in Nat
      BY <2>3, <2>4, SumSame, SumNat
    <2>8. account[u].used = SumFunctionOnSet(a, S)
      BY <2>2 DEF UsageInv
    <2> QED
      BY <1>4, <2>1, <2>2, <2>3, <2>6, <2>7, <2>8
  <1> QED
    BY <1>3, <1>4 DEF UsageInv

LEMMA StepUsageInv == SafetyInv /\ UsageInv /\ [Next]_vars => UsageInv'
  <1> SUFFICES ASSUME SafetyInv, UsageInv, [Next]_vars PROVE UsageInv'
    OBVIOUS
  <1>1. CASE UNCHANGED files /\ \A u \in User : account'[u].used = account[u].used
    <2>1. \A u \in User : FilesOf(u)' = FilesOf(u)
      BY <1>1 DEF FilesOf
    <2> QED
      BY <1>1, <2>1, UsageKept DEF UsageInv
  <1>2. ASSUME NEW h \in Handler, BookStep(h) PROVE UsageInv'
    <2> PICK s \in Session, u \in User, n \in Nat, k \in Key :
          s = req[h].s /\ u = Owner[s] /\ n = req[h].upto /\ k = req[h].key
      BY <1>2, BookedRow
    <2>1. /\ files[k] = Nil /\ files' = [files EXCEPT ![k] = [session |-> s, size |-> n]]
          /\ account'[u].used = account[u].used + n
          /\ \A v \in User \ {u} : account'[v] = account[v]
      BY <1>2, BookedRow
    <2> QED
      BY <2>1, UsageCharged
  <1>3. ASSUME NEW u \in User, NEW q \in Quotas, SetQuota(u, q) PROVE UsageInv'
    BY <1>1, <1>3 DEF SetQuota, SafetyInv, TypeInv, TypeOK
  <1>4. CASE UNCHANGED vars
    BY <1>1, <1>4 DEF vars
  <1> QED
    BY <1>1, <1>2, <1>3, <1>4, TableSteps DEF WriteStep

(* A user's used_storage_bytes is at every moment the size of the user's    *)
(* file rows, whatever fails and however completions of one user race.      *)
THEOREM UsageMatchesFiles == Spec => []UsedMatchesFiles
  <1>1. Init => UsageInv
    <2> SUFFICES ASSUME Init, NEW u \in User
                 PROVE  IsFiniteSet(FilesOf(u)) /\ account[u].used = Usage(u)
      BY DEF UsageInv
    <2>1. FilesOf(u) = {} /\ account[u].used = 0
      BY DEF Init, FilesOf
    <2>2. Usage(u) = 0
      BY <2>1, SumEmpty DEF Usage, SumFunction
    <2> QED
      BY <2>1, <2>2, FS_EmptySet
  <1>2. UsageInv => UsedMatchesFiles
    BY DEF UsageInv, UsedMatchesFiles, Usage
  <1> QED
    BY SafetyInvariant, StepUsageInv, <1>1, <1>2, PTL DEF Spec

-----------------------------------------------------------------------------
(* The bytes behind the tables, while nothing fails but request bodies.     *)
(* A statement that fails then still ends its transaction, so another       *)
(* request may take the row of a session whose object is about to be moved  *)
(* back; the session is crossed from there on, and nothing is claimed of    *)
(* its lengths.                                                             *)

OnlyBodiesFail == Faults \subseteq {"body"}

(* A request that writes holds its session row, unless it only has its      *)
(* object to move back; one that unlinks does it for an ended session; the  *)
(* bytes a request counts on are in the temporary file, and under its key,  *)
(* which no file row names yet, once they are moved.                        *)
Backing(r) ==
    /\ r.pc \in Locking \ {"undo"} => r.tx
    /\ r.pc = "unlink" => row[r.s].status \in Terminal
    /\ r.key # Nil => r.pc \in Moved
    /\ r.pc \in {"record", "move"} => Length(temp[r.s]) >= r.upto \/ r.s \in crossed
    /\ r.pc \in Moved =>
         /\ object[r.key] # Nil /\ files[r.key] = Nil
         /\ \/ object[r.key] >= r.upto /\ row[r.s].uploaded <= r.upto
            \/ r.s \in crossed

(* Two requests have locked the same session only when it was crossed.      *)
LockersApart ==
    \A g, h \in Handler :
        g # h /\ req[g].pc \in Locking /\ req[h].pc \in Locking /\ req[g].s = req[h].s
        => req[g].s \in crossed

(* The bytes of an active session are in its temporary file, unless a       *)
(* completion that is not over yet has moved them.                          *)
Moving(s) == \E h \in Handler : req[h].s = s /\ req[h].pc \in Moved

Covered(s) ==
    row[s].status \in Active =>
        Length(temp[s]) >= row[s].uploaded \/ Moving(s) \/ s \in crossed

BackedInv ==
    /\ \A h \in Handler : Backing(req[h])
    /\ LockersApart
    /\ \A w \in Sweeper : sweep[w].doomed # Nil => row[sweep[w].doomed].status \in Terminal
    /\ \A s \in Session : Covered(s)
    /\ FileIsBacked
    /\ NoOrphanObject

LEMMA InitBackedInv == Init => BackedInv
  BY NilAssumption DEF Init, BackedInv, Backing, LockersApart, NoRequest, Covered, Length,
                       FileIsBacked, NoOrphanObject, Active, Resting

(* What the type invariant gives for lengths and offsets.                   *)
LEMMA Lengths ==
  ASSUME SafetyInv
  PROVE  /\ \A s \in Session : Length(temp[s]) \in Nat /\ row[s].uploaded \in Nat
         /\ \A k \in Key : object[k] # Nil => object[k] \in Nat /\ Length(object[k]) = object[k]
         /\ \A k \in Key : files[k] # Nil => files[k].size \in Nat
  BY DEF SafetyInv, TypeInv, TypeOK, Length, Row, File

(* A crossed session stays crossed.                                         *)
LEMMA CrossedGrows ==
  ASSUME Next
  PROVE  crossed \subseteq crossed'
  <1>1. ASSUME NEW h \in Handler, Arrive(h) PROVE crossed \subseteq crossed'
    BY <1>1 DEF Arrive, UploadInit, TusCreate, Admit, UploadChunk, TusPatch, UploadComplete,
                LockUploadSession, Cancel, TusDeleteUnrecorded, Cross
  <1>2. ASSUME NEW h \in Handler, Receive(h) \/ Disconnect(h) \/ LoseConnection(h)
        PROVE  crossed \subseteq crossed'
    BY <1>2 DEF Receive, AppendMismatch, AppendAt, Disconnect, LoseConnection
  <1>3. ASSUME NEW h \in Handler, Serve(h) PROVE crossed \subseteq crossed'
    BY <1>3 DEF Serve, InsertSession, RejectChunk, RecordChunk, RecordLastChunk, MoveToFinal,
                MoveFails, NameConflict, InsertFile, ChargeUser, EnsureQuota,
                DeadlockDetected, InsertAudit, Commit, CommitUnacknowledged,
                StatementFails, Undo, Unlink, Report
  <1>4. ASSUME NEW w \in Sweeper, Sweep(w) \/ SweepCut(w) PROVE crossed \subseteq crossed'
    BY <1>4 DEF Sweep, SweepSelect, SweepNext, SweepMark, SweepMarkUnrecorded, SweepUnlink,
                SweepCut, Cross
  <1> QED
    BY <1>1, <1>2, <1>3, <1>4 DEF Next, Replay, UploadStatus, Expire, SetQuota, Crash

(* The other requests keep what they count on when the step of h shortens   *)
(* no temporary file of a session they lock and touches neither the object  *)
(* nor the file row of their key.                                           *)
LEMMA OthersBacked ==
  ASSUME SafetyInv, BackedInv, Next, NEW h \in Handler,
         \A g \in Handler \ {h} : req'[g] = req[g],
         \A g \in Handler \ {h} : req[g].pc \in {"record", "move"} =>
             Length(temp'[req[g].s]) >= Length(temp[req[g].s]) \/ req[g].s \in crossed,
         \A g \in Handler \ {h} : req[g].pc \in Moved =>
             /\ object'[req[g].key] = object[req[g].key]
             /\ files'[req[g].key] = files[req[g].key]
             /\ row'[req[g].s].uploaded \in {0, row[req[g].s].uploaded} \/ req[g].s \in crossed
  PROVE  \A g \in Handler \ {h} : Backing(req[g])'
  <1> SUFFICES ASSUME NEW g \in Handler \ {h} PROVE Backing(req[g])'
    OBVIOUS
  <1>1. Backing(req[g]) /\ req'[g] = req[g] /\ crossed \subseteq crossed'
    BY CrossedGrows DEF BackedInv
  <1>3. req[g].pc = "unlink" => row'[req[g].s].status \in Terminal
    BY <1>1, ReadyRequest, StaysEnded DEF Backing, Ready
  <1>4. req[g].pc \in {"record", "move"} =>
          Length(temp'[req[g].s]) >= req[g].upto \/ req[g].s \in crossed'
    <2> SUFFICES ASSUME req[g].pc \in {"record", "move"}, req[g].s \notin crossed
                 PROVE  Length(temp'[req[g].s]) >= req[g].upto
      BY <1>1
    <2>1. req[g].s \in Session /\ req[g].upto \in Nat
      BY ReadyRequest DEF Ready
    <2>2. Length(temp[req[g].s]) >= req[g].upto /\ Length(temp[req[g].s]) \in Nat
      BY <1>1, <2>1, Lengths DEF Backing
    <2>3. Length(temp'[req[g].s]) \in Nat
      BY <2>1, StepTypeInv DEF SafetyInv, TypeInv, TypeOK, Length
    <2>4. Length(temp'[req[g].s]) >= Length(temp[req[g].s])
      BY <2>1
    <2> QED
      BY <2>1, <2>2, <2>3, <2>4
  <1>5. ASSUME req[g].pc \in Moved
        PROVE  /\ object'[req[g].key] # Nil /\ files'[req[g].key] = Nil
               /\ \/ object'[req[g].key] >= req[g].upto /\ row'[req[g].s].uploaded <= req[g].upto
                  \/ req[g].s \in crossed'
    <2>1. req[g].upto \in Nat
      BY ReadyRequest
    <2> QED
      BY <1>1, <1>5, <2>1 DEF Backing
  <1> QED
    BY <1>1, <1>3, <1>4, <1>5 DEF Backing

(* ... the lockers stay apart when h locks no session, keeps its own or     *)
(* takes one that only crossed ones have locked ...                         *)
LEMMA LockersStayApart ==
  ASSUME BackedInv, Next, NEW h \in Handler,
         \A g \in Handler \ {h} : req'[g] = req[g],
         req'[h].pc \in Locking =>
             \/ req[h].pc \in Locking /\ req'[h].s = req[h].s
             \/ \A g \in Handler \ {h} :
                   req[g].pc \in Locking /\ req[g].s = req'[h].s => req'[h].s \in crossed'
  PROVE  LockersApart'
  <1>1. crossed \subseteq crossed' /\ LockersApart
    BY CrossedGrows DEF BackedInv
  <1>2. ASSUME NEW g \in Handler \ {h}, req'[g].pc \in Locking, req'[h].pc \in Locking,
               req'[g].s = req'[h].s
        PROVE  req'[h].s \in crossed'
    <2>1. req'[g] = req[g]
      OBVIOUS
    <2>2. CASE req[h].pc \in Locking /\ req'[h].s = req[h].s
      <3>1. req[g].s \in crossed
        BY <1>1, <1>2, <2>1, <2>2 DEF LockersApart
      <3> QED
        BY <1>1, <1>2, <2>1, <3>1
    <2>3. CASE ~(req[h].pc \in Locking /\ req'[h].s = req[h].s)
      <3>1. req[g].pc \in Locking /\ req[g].s = req'[h].s
        BY <1>2, <2>1
      <3> QED
        BY <1>2, <2>3, <3>1
    <2> QED
      BY <2>2, <2>3
  <1>3. ASSUME NEW f \in Handler \ {h}, NEW g \in Handler \ {h}, f # g,
               req'[f].pc \in Locking, req'[g].pc \in Locking, req'[f].s = req'[g].s
        PROVE  req'[f].s \in crossed'
    <2>1. req'[f] = req[f] /\ req'[g] = req[g]
      OBVIOUS
    <2>2. req[f].s \in crossed
      BY <1>1, <1>3, <2>1 DEF LockersApart
    <2> QED
      BY <1>1, <2>1, <2>2
  <1>4. ASSUME NEW f \in Handler, NEW g \in Handler, f # g,
               req'[f].pc \in Locking, req'[g].pc \in Locking, req'[f].s = req'[g].s
        PROVE  req'[f].s \in crossed'
    BY <1>2, <1>3, <1>4
  <1> QED
    BY <1>4 DEF LockersApart

(* ... and a session whose row and file only h may touch stays covered.     *)
LEMMA StillCovered ==
  ASSUME SafetyInv, BackedInv, Next, NEW h \in Handler, NEW s \in Session,
         \A g \in Handler \ {h} : req'[g] = req[g],
         req[h].pc \in Moved =>
             req[h].s # s \/ (req'[h].s = s /\ req'[h].pc \in Moved),
         row'[s] = row[s] \/ row'[s].status \notin Active,
         Length(temp'[s]) \in Nat, Length(temp'[s]) >= Length(temp[s])
  PROVE  Covered(s)'
  <1>1. CASE Moving(s)
    <2>1. PICK g \in Handler : req[g].s = s /\ req[g].pc \in Moved
      BY <1>1 DEF Moving
    <2>2. req'[g].s = s /\ req'[g].pc \in Moved
      BY <2>1
    <2>3. Moving(s)'
      BY <2>2 DEF Moving
    <2> QED
      BY <2>3 DEF Covered
  <1>2. CASE s \in crossed
    BY <1>2, CrossedGrows DEF Covered
  <1>3. CASE ~Moving(s) /\ s \notin crossed
    BY <1>3, Lengths DEF BackedInv, Covered
  <1> QED
    BY <1>1, <1>2, <1>3

(* Objects and file rows that do not change keep belonging together.        *)
LEMMA QuietObjects ==
  ASSUME BackedInv, Next, UNCHANGED <<files, object>>,
         \A g \in Handler : req[g].key # Nil => req'[g].key = req[g].key
  PROVE  FileIsBacked' /\ NoOrphanObject'
  <1>1. FileIsBacked'
    BY CrossedGrows DEF BackedInv, FileIsBacked
  <1>2. NoOrphanObject'
    BY NilAssumption DEF BackedInv, NoOrphanObject
  <1> QED
    BY <1>1, <1>2

(* A step of h that leaves objects and file rows alone and shortens no      *)
(* temporary file.                                                          *)
LEMMA QuietStep ==
  ASSUME SafetyInv, BackedInv, Next, NEW h \in Handler, NEW r,
         req' = [req EXCEPT ![h] = r],
         UNCHANGED <<files, object>>,
         \A s \in Session : Length(temp'[s]) >= Length(temp[s]),
         \A w \in Sweeper : sweep'[w].doomed = sweep[w].doomed,
         Backing(r)', req[h].key # Nil => r.key = req[h].key,
         req[h].pc \in Moved => r.s = req[h].s /\ r.pc \in Moved,
         r.pc \in Locking =>
             \/ req[h].pc \in Locking /\ r.s = req[h].s
             \/ \A g \in Handler \ {h} :
                   req[g].pc \in Locking /\ req[g].s = r.s => r.s \in crossed',
         \A s \in Session : row'[s] = row[s] \/ row'[s].status \notin Active
                            \/ row'[s].uploaded <= Length(temp[s]) \/ s \in crossed,
         \A s \in Session : row'[s].uploaded \in {0, row[s].uploaded}
                            \/ (req[h].pc \in Locking /\ s = req[h].s)
  PROVE  BackedInv'
  <1>0. req'[h] = r /\ \A g \in Handler \ {h} : req'[g] = req[g]
    BY DEF SafetyInv, TypeInv, TypeOK
  <1>1. \A s \in Session : Length(temp'[s]) \in Nat /\ row'[s].uploaded \in Nat
    BY StepTypeInv DEF SafetyInv, TypeInv, TypeOK, Length, Row
  <1>2. \A g \in Handler : Backing(req[g])'
    <2>1. \A g \in Handler \ {h} : Backing(req[g])'
      <3>1. ASSUME NEW g \in Handler \ {h}, req[g].pc \in {"record", "move"}
            PROVE  Length(temp'[req[g].s]) >= Length(temp[req[g].s])
        BY <3>1, ReadyRequest DEF Ready
      <3>2. ASSUME NEW g \in Handler \ {h}, req[g].pc \in Moved
            PROVE  row'[req[g].s].uploaded \in {0, row[req[g].s].uploaded}
                   \/ req[g].s \in crossed
        <4>1. req[g].s \in Session
          BY <3>2, ReadyRequest DEF Ready
        <4>2. CASE req[h].pc \in Locking /\ req[g].s = req[h].s
          BY <3>2, <4>2 DEF BackedInv, LockersApart
        <4> QED
          BY <4>1, <4>2
      <3>3. UNCHANGED <<files, object>>
        OBVIOUS
      <3> HIDE DEF Moved, Locking
      <3> QED
        BY <1>0, <3>1, <3>2, <3>3, OthersBacked
    <2>2. Backing(req[h])'
      BY <1>0 DEF Backing
    <2> QED
      BY <2>1, <2>2
  <1>3. \A w \in Sweeper : sweep'[w].doomed # Nil => row'[sweep'[w].doomed].status \in Terminal
    BY StaysEnded DEF BackedInv, SafetyInv, TypeInv, TypeOK
  <1>4. ASSUME NEW s \in Session PROVE Covered(s)'
    <2>1. CASE row'[s].uploaded <= Length(temp[s])
      <3>1. Length(temp'[s]) >= row'[s].uploaded
        BY <1>1, <2>1, Lengths
      <3> QED
        BY <3>1 DEF Covered
    <2>2. CASE s \in crossed
      BY <2>2, CrossedGrows DEF Covered
    <2>3. CASE row'[s] = row[s] \/ row'[s].status \notin Active
      BY <1>0, <1>1, <2>3, StillCovered
    <2> QED
      BY <2>1, <2>2, <2>3
  <1>5. FileIsBacked' /\ NoOrphanObject'
    BY <1>0, QuietObjects
  <1>6. LockersApart'
    <2> HIDE DEF Moved, Locking
    <2> QED
      BY <1>0, LockersStayApart
  <1> QED
    BY <1>2, <1>3, <1>4, <1>5, <1>6 DEF BackedInv

(* ... in particular one that ends a request which has moved nothing.       *)
LEMMA QuietReturn ==
  ASSUME SafetyInv, BackedInv, Next, NEW h \in Handler, Return(h),
         req[h].pc \notin Moved,
         UNCHANGED <<files, object, sweep>>,
         \A s \in Session : Length(temp'[s]) >= Length(temp[s]),
         \A s \in Session : row'[s] = row[s] \/ row'[s].status \notin Active
                            \/ row'[s].uploaded <= Length(temp[s]) \/ s \in crossed,
         \A s \in Session : row'[s].uploaded \in {0, row[s].uploaded}
                            \/ (req[h].pc \in Locking /\ s = req[h].s)
  PROVE  BackedInv'
  <1>1. Backing(NoRequest)' /\ req[h].key = Nil /\ NoRequest.pc \notin Locking
    BY DEF BackedInv, Backing, NoRequest
  <1> QED
    BY <1>1, QuietStep DEF Return

LEMMA SameLengths ==
  ASSUME SafetyInv, UNCHANGED temp
  PROVE  \A s \in Session : Length(temp'[s]) >= Length(temp[s])
  BY Lengths

LEMMA ArriveBacked ==
  ASSUME OnlyBodiesFail, SafetyInv, BackedInv, NEW h \in Handler, Arrive(h)
  PROVE  BackedInv'
  <1>n. Next
    BY DEF Next
  <1>h. req[h].pc = "idle" => req[h].key = Nil /\ req[h].pc \notin Moved
    BY DEF BackedInv, Backing
  <1> PICK s \in Session :
        \/ UploadInit(h, s) \/ TusCreate(h, s)
        \/ UploadChunk(h, s) \/ TusPatch(h, s) \/ UploadComplete(h, s)
        \/ Cancel(h, s) \/ TusDeleteUnrecorded(h, s)
    BY DEF Arrive
  <1>1. ASSUME NEW t, Admit(h, s, t) PROVE BackedInv'
    <2> PICK r : r = [Serving("init", "insert", s) EXCEPT !.cap = t]
      OBVIOUS
    <2>1. r.pc = "insert" /\ r.key = Nil
      BY DEF Serving, NoRequest
    <2>2. req' = [req EXCEPT ![h] = r]
      BY <1>1 DEF Admit
    <2>3. Backing(r)'
      BY <2>1 DEF Backing
    <2> QED
      BY <1>1, <1>n, <1>h, <2>1, <2>2, <2>3, QuietStep, SameLengths DEF Admit
  <1>2. ASSUME NEW kind, NEW step \in {"append", "move"}, NEW cap,
               LockUploadSession(h, s, kind, step, cap)
        PROVE  BackedInv'
    <2> PICK r : r = [Serving(kind, step, s) EXCEPT
                        !.upto = row[s].uploaded, !.cap = cap, !.tx = TRUE]
      OBVIOUS
    <2>1. r.pc = step /\ r.key = Nil /\ r.tx /\ r.s = s /\ r.upto = row[s].uploaded
      BY DEF Serving, NoRequest
    <2>2. req' = [req EXCEPT ![h] = r]
      BY <1>2 DEF LockUploadSession
    <2>3. ASSUME NEW g \in Handler, req[g].pc \in Locking, req[g].s = s PROVE s \in crossed'
      <3>1. ~req[g].tx
        BY <1>2, <2>3 DEF LockUploadSession, SessionFree
      <3>2. req[g].pc = "undo"
        BY <2>3, <3>1 DEF BackedInv, Backing
      <3> QED
        BY <1>2, <2>3, <3>2 DEF LockUploadSession, Cross
    <2>4. Length(temp[s]) >= row[s].uploaded \/ s \in crossed'
      <3>1. CASE Moving(s)
        BY <2>3, <3>1 DEF Moving
      <3>2. CASE ~Moving(s)
        BY <1>2, <1>n, <3>2, CrossedGrows DEF LockUploadSession, Covered, BackedInv
      <3> QED
        BY <3>1, <3>2
    <2>5. UNCHANGED <<row, files, temp, object, sweep>> /\ req[h].pc = "idle"
      BY <1>2 DEF LockUploadSession
    <2>6. Backing(r)'
      BY <2>1, <2>4, <2>5 DEF Backing
    <2>7. \A g \in Handler \ {h} : req[g].pc \in Locking /\ req[g].s = r.s => r.s \in crossed'
      BY <2>1, <2>3
    <2> QED
      BY <1>n, <1>h, <2>1, <2>2, <2>5, <2>6, <2>7, QuietStep, SameLengths
  <1>3. CASE Cancel(h, s)
    <2> PICK kind \in Kinds : req' = [req EXCEPT ![h] = Serving(kind, "unlink", s)]
      BY <1>3 DEF Cancel, Kinds
    <2> PICK r : r = Serving(kind, "unlink", s)
      OBVIOUS
    <2>1. r.pc = "unlink" /\ r.key = Nil /\ r.s = s
      BY DEF Serving, NoRequest
    <2>2. req' = [req EXCEPT ![h] = r]
      BY <1>3 DEF Cancel
    <2>3. /\ row'[s].status = "canceled" /\ \A t \in Session \ {s} : row'[t] = row[t]
          /\ row'[s].uploaded = row[s].uploaded
      BY <1>3 DEF Cancel, SafetyInv, TypeInv, TypeOK, Row
    <2>4. Backing(r)'
      BY <2>1, <2>3 DEF Backing, Terminal
    <2>5. /\ \A t \in Session : row'[t] = row[t] \/ row'[t].status \notin Active
          /\ \A t \in Session : row'[t].uploaded = row[t].uploaded
      BY <2>3 DEF Active
    <2> QED
      BY <1>3, <1>n, <1>h, <2>1, <2>2, <2>4, <2>5, QuietStep, SameLengths DEF Cancel
  <1>4. ~TusDeleteUnrecorded(h, s)
    BY DEF TusDeleteUnrecorded, OnlyBodiesFail
  <1>5. CASE UploadInit(h, s) \/ TusCreate(h, s)
    BY <1>1, <1>5 DEF UploadInit, TusCreate
  <1>6. CASE UploadChunk(h, s) \/ TusPatch(h, s) \/ UploadComplete(h, s)
    BY <1>2, <1>6 DEF UploadChunk, TusPatch, UploadComplete
  <1> QED
    BY <1>3, <1>4, <1>5, <1>6

(* Storage.Move keeps the bytes: what the temporary file held, the object   *)
(* holds.                                                                   *)
LEMMA MoveBacked ==
  ASSUME SafetyInv, BackedInv, Next, NEW h \in Handler, MoveToFinal(h)
  PROVE  BackedInv'
  <1> PICK s : s = req[h].s
    OBVIOUS
  <1>1. PICK k \in Key :
          /\ FreshKey(k)
          /\ object' = [object EXCEPT ![k] = temp[s]]
          /\ req' = [req EXCEPT ![h].pc = "book", ![h].key = k]
    BY DEF MoveToFinal
  <1>2. /\ req[h].pc = "move" /\ req[h].tx /\ req[h].upto \in Nat
        /\ Length(temp[s]) >= req[h].upto \/ s \in crossed
    BY ReadyRequest DEF MoveToFinal, BackedInv, Backing
  <1>3. /\ s \in Session /\ temp[s] # Nil /\ temp' = [temp EXCEPT ![s] = Nil]
        /\ row[s].uploaded <= req[h].upto
        /\ \A g \in Handler \ {h} : req[g].s = s => ~req[g].tx
        /\ UNCHANGED <<row, files, sweep, crossed>>
    BY <1>2, LockedAlone DEF MoveToFinal
  <1>4. /\ req'[h].pc = "book" /\ req'[h].key = k /\ req'[h].tx /\ req'[h].s = s
        /\ req'[h].upto = req[h].upto
        /\ \A g \in Handler \ {h} : req'[g] = req[g]
    BY <1>1, <1>2 DEF SafetyInv, TypeInv, TypeOK, Request
  <1>5. object'[k] = temp[s] /\ \A j \in Key \ {k} : object'[j] = object[j]
    BY <1>1 DEF SafetyInv, TypeInv, TypeOK
  <1>6. /\ temp[s] >= req[h].upto \/ s \in crossed
        /\ object[k] = Nil /\ files[k] = Nil
        /\ \A g \in Handler : req[g].key # k
    BY <1>1, <1>2, <1>3 DEF Length, FreshKey
  <1>7. \A t \in Session \ {s} : temp'[t] = temp[t]
    BY <1>3 DEF SafetyInv, TypeInv, TypeOK
  <1>8. \A g \in Handler : Backing(req[g])'
    <2>1. Backing(req[h])'
      BY <1>3, <1>4, <1>5, <1>6 DEF Backing
    <2>2. ASSUME NEW g \in Handler \ {h}, req[g].pc \in {"record", "move"}
          PROVE  Length(temp'[req[g].s]) >= Length(temp[req[g].s])
      <3>1. req[g].s \in Session \ {s}
        BY <1>3, <2>2, ReadyRequest DEF BackedInv, Backing, Ready
      <3> QED
        BY <1>7, <3>1, Lengths
    <2>3. ASSUME NEW g \in Handler \ {h}, req[g].pc \in Moved
          PROVE  /\ object'[req[g].key] = object[req[g].key]
                 /\ files'[req[g].key] = files[req[g].key]
                 /\ row'[req[g].s].uploaded = row[req[g].s].uploaded
      BY <1>3, <1>5, <1>6, <2>3, ReadyRequest DEF Ready
    <2>4. \A g \in Handler \ {h} : Backing(req[g])'
      BY <1>4, <2>2, <2>3, OthersBacked
    <2> QED
      BY <2>1, <2>4
  <1>9. \A w \in Sweeper : sweep'[w].doomed # Nil => row'[sweep'[w].doomed].status \in Terminal
    BY <1>3 DEF BackedInv
  <1>10. ASSUME NEW t \in Session PROVE Covered(t)'
    <2>1. CASE t = s
      <3>1. Moving(s)'
        BY <1>4 DEF Moving
      <3> QED
        BY <2>1, <3>1 DEF Covered
    <2>2. CASE t # s
      <3>1. Length(temp'[t]) = Length(temp[t]) /\ Length(temp[t]) \in Nat
        BY <1>7, <2>2, Lengths
      <3> QED
        BY <1>2, <1>3, <1>4, <2>2, <3>1, StillCovered
    <2> QED
      BY <2>1, <2>2
  <1>11. FileIsBacked'
    BY <1>3, <1>5, <1>6 DEF BackedInv, FileIsBacked
  <1>12. NoOrphanObject'
    <2> SUFFICES ASSUME NEW j \in Key, object'[j] # Nil
                 PROVE  files'[j] # Nil \/ \E g \in Handler : req'[g].key = j
      BY DEF NoOrphanObject
    <2>1. CASE j = k
      BY <1>4, <2>1
    <2>2. CASE j # k
      <3>1. files[j] # Nil \/ \E g \in Handler : req[g].key = j
        BY <1>5, <2>2 DEF BackedInv, NoOrphanObject
      <3>2. req[h].key = Nil
        BY <1>2 DEF BackedInv, Backing
      <3> QED
        BY <1>3, <1>4, <3>1, <3>2, NilAssumption
    <2> QED
      BY <2>1, <2>2
  <1>13. LockersApart'
    BY <1>2, <1>4, LockersStayApart
  <1> QED
    BY <1>8, <1>9, <1>10, <1>11, <1>12, <1>13 DEF BackedInv

(* The object of a commit gets its file row.                                *)
LEMMA CommitBacked ==
  ASSUME SafetyInv, BackedInv, Next, NEW h \in Handler, Commit(h)
  PROVE  BackedInv'
  <1>1. BookStep(h) /\ UNCHANGED <<temp, object, sweep, crossed>> /\ req[h].pc = "commit"
    BY DEF Commit, BookStep
  <1> PICK s \in Session, n \in Nat, k \in Key :
        s = req[h].s /\ n = req[h].upto /\ k = req[h].key
    BY <1>1, BookedRow
  <1>2. /\ row'[s].status = "completed" /\ \A t \in Session \ {s} : row'[t] = row[t]
        /\ files' = [files EXCEPT ![k] = [session |-> s, size |-> n]]
    BY <1>1, BookedRow
  <1>3. /\ req'[h].pc \in {"idle", "report"} /\ req'[h].key = Nil
        /\ \A g \in Handler \ {h} : req'[g] = req[g]
    BY DEF Commit, Return, NoRequest, SafetyInv, TypeInv, TypeOK, Request
  <1>4. object[k] # Nil /\ (object[k] >= n \/ s \in crossed)
    BY DEF Commit, BackedInv, Backing
  <1>5. /\ files'[k].size = n /\ files'[k].session = s /\ files'[k] # Nil
        /\ \A j \in Key \ {k} : files'[j] = files[j]
    <2>1. [session |-> s, size |-> n] # Nil
      BY NilAssumption
    <2> QED
      BY <1>2, <2>1 DEF SafetyInv, TypeInv, TypeOK
  <1>6. \A g \in Handler : Backing(req[g])'
    <2>1. Backing(req[h])'
      BY <1>3 DEF Backing
    <2>2. ASSUME NEW g \in Handler \ {h}, req[g].pc \in {"record", "move"}
          PROVE  Length(temp'[req[g].s]) >= Length(temp[req[g].s])
      BY <1>1, <2>2, SameLengths, ReadyRequest DEF Ready
    <2>3. ASSUME NEW g \in Handler \ {h}, req[g].pc \in Moved
          PROVE  /\ object'[req[g].key] = object[req[g].key]
                 /\ files'[req[g].key] = files[req[g].key]
                 /\ row'[req[g].s].uploaded = row[req[g].s].uploaded \/ req[g].s \in crossed
      <3>1. req[g].s \in Session /\ req[g].key \in Key /\ req[g].key # k
        BY <2>3, ReadyRequest, NilAssumption DEF Ready, Apart
      <3>2. req[g].s = s => req[g].s \in crossed
        BY <1>1, <2>3 DEF BackedInv, LockersApart
      <3> QED
        BY <1>1, <1>2, <1>5, <3>1, <3>2
    <2>4. \A g \in Handler \ {h} : Backing(req[g])'
      BY <1>3, <2>2, <2>3, OthersBacked
    <2> QED
      BY <2>1, <2>4
  <1>7. \A w \in Sweeper : sweep'[w].doomed # Nil => row'[sweep'[w].doomed].status \in Terminal
    BY <1>1, StaysEnded DEF BackedInv, SafetyInv, TypeInv, TypeOK
  <1>8. ASSUME NEW t \in Session PROVE Covered(t)'
    <2>1. CASE t = s
      BY <1>2, <2>1 DEF Covered, Active
    <2>2. CASE t # s
      <3>1. Length(temp'[t]) = Length(temp[t]) /\ Length(temp[t]) \in Nat
        BY <1>1, Lengths
      <3> QED
        BY <1>2, <1>3, <2>2, <3>1, StillCovered
    <2> QED
      BY <2>1, <2>2
  <1>9. FileIsBacked'
    BY <1>1, <1>4, <1>5 DEF BackedInv, FileIsBacked
  <1>10. NoOrphanObject'
    BY <1>1, <1>3, <1>5 DEF BackedInv, NoOrphanObject
  <1>11. LockersApart'
    BY <1>3, LockersStayApart
  <1> QED
    BY <1>6, <1>7, <1>8, <1>9, <1>10, <1>11 DEF BackedInv

(* The compensating move brings the bytes back, on top of what a request    *)
(* that crossed the session may have written.                               *)
LEMMA UndoBacked ==
  ASSUME SafetyInv, BackedInv, Next, NEW h \in Handler, Undo(h)
  PROVE  BackedInv'
  <1> PICK s, k : s = req[h].s /\ k = req[h].key
    OBVIOUS
  <1>1. /\ req[h].pc = "undo" /\ object[k] # Nil /\ files[k] = Nil
        /\ (object[k] >= req[h].upto /\ row[s].uploaded <= req[h].upto) \/ s \in crossed
        /\ s \in Session /\ k \in Key /\ req[h].upto \in Nat
    BY ReadyRequest DEF Undo, BackedInv, Backing, Ready
  <1>2. \A g \in Handler \ {h} : req[g].pc \in Locking /\ req[g].s = s => s \in crossed
    BY <1>1 DEF BackedInv, LockersApart
  <1>3. /\ temp'[s] = object[k] /\ \A t \in Session \ {s} : temp'[t] = temp[t]
        /\ object'[k] = Nil /\ \A j \in Key \ {k} : object'[j] = object[j]
        /\ UNCHANGED <<row, files, sweep, crossed>>
    BY <1>1 DEF Undo, SafetyInv, TypeInv, TypeOK
  <1>4. req'[h] = NoRequest /\ \A g \in Handler \ {h} : req'[g] = req[g]
    BY DEF Undo, Return, SafetyInv, TypeInv, TypeOK
  <1>5. k # Nil /\ \A g \in Handler \ {h} : req[g].key # k
    BY <1>1, ReadyRequest, NilAssumption DEF Apart
  <1>6. \A g \in Handler : Backing(req[g])'
    <2>1. Backing(req[h])'
      BY <1>4 DEF Backing, NoRequest
    <2>2. ASSUME NEW g \in Handler \ {h}, req[g].pc \in {"record", "move"}
          PROVE  Length(temp'[req[g].s]) >= Length(temp[req[g].s]) \/ req[g].s \in crossed
      BY <1>2, <1>3, <2>2, Lengths, ReadyRequest DEF Ready
    <2>3. ASSUME NEW g \in Handler \ {h}, req[g].pc \in Moved
          PROVE  /\ object'[req[g].key] = object[req[g].key]
                 /\ files'[req[g].key] = files[req[g].key]
                 /\ row'[req[g].s].uploaded = row[req[g].s].uploaded
      BY <1>3, <1>5, <2>3, ReadyRequest DEF Ready
    <2>4. \A g \in Handler \ {h} : Backing(req[g])'
      BY <1>4, <2>2, <2>3, OthersBacked
    <2> QED
      BY <2>1, <2>4
  <1>7. \A w \in Sweeper : sweep'[w].doomed # Nil => row'[sweep'[w].doomed].status \in Terminal
    BY <1>3 DEF BackedInv
  <1>8. ASSUME NEW t \in Session PROVE Covered(t)'
    <2>1. CASE t = s
      <3>1. object[k] \in Nat /\ Length(object[k]) = object[k] /\ row[s].uploaded \in Nat
        BY <1>1, Lengths
      <3>2. Length(temp'[s]) >= row'[s].uploaded \/ s \in crossed'
        BY <1>1, <1>3, <3>1
      <3> QED
        BY <2>1, <3>2 DEF Covered
    <2>2. CASE t # s
      <3>1. Length(temp'[t]) = Length(temp[t]) /\ Length(temp[t]) \in Nat
        BY <1>3, <2>2, Lengths
      <3> QED
        BY <1>3, <1>4, <2>2, <3>1, StillCovered
    <2> QED
      BY <2>1, <2>2
  <1>9. FileIsBacked'
    BY <1>1, <1>3 DEF BackedInv, FileIsBacked
  <1>10. NoOrphanObject'
    BY <1>3, <1>4 DEF BackedInv, NoOrphanObject
  <1>11. LockersApart'
    BY <1>4, LockersStayApart DEF NoRequest
  <1> QED
    BY <1>6, <1>7, <1>8, <1>9, <1>10, <1>11 DEF BackedInv

(* Removing the temporary file of an ended session: no request holds its    *)
(* row, so none counts on the file.                                         *)
LEMMA UnlinkBacked ==
  ASSUME SafetyInv, BackedInv, Next, NEW s \in Session, row[s].status \in Terminal,
         temp' = [temp EXCEPT ![s] = Nil], UNCHANGED <<row, files, object, crossed>>,
         \A h \in Handler : \/ req'[h] = req[h]
                            \/ /\ req[h].pc = "unlink" /\ req'[h].key = Nil
                               /\ req'[h].pc \in {"idle", "report"},
         \A w \in Sweeper : sweep'[w].doomed \in {sweep[w].doomed, Nil}
  PROVE  BackedInv'
  <1>1. \A t \in Session \ {s} : temp'[t] = temp[t]
    BY DEF SafetyInv, TypeInv, TypeOK
  <1>2. ASSUME NEW h \in Handler PROVE Backing(req[h])'
    <2>1. CASE req'[h] = req[h]
      <3>1. req[h].tx => req[h].s \in Session \ {s}
        BY LockedAlone DEF Active, Terminal
      <3>2. req[h].pc \in {"record", "move"} => temp'[req[h].s] = temp[req[h].s]
        BY <1>1, <3>1 DEF BackedInv, Backing
      <3>3. Backing(req[h])
        BY DEF BackedInv
      <3> QED
        BY <2>1, <3>2, <3>3 DEF Backing
    <2>2. CASE req'[h] # req[h]
      BY <2>2 DEF Backing
    <2> QED
      BY <2>1, <2>2
  <1>3. \A w \in Sweeper : sweep'[w].doomed # Nil => row'[sweep'[w].doomed].status \in Terminal
    BY DEF BackedInv
  <1>4. \A h \in Handler : req[h].pc \in Locking \/ req'[h].pc \in Locking => req'[h] = req[h]
    OBVIOUS
  <1>5. ASSUME NEW t \in Session PROVE Covered(t)'
    <2>1. CASE t = s
      BY <2>1 DEF Covered, Active, Terminal
    <2>2. CASE t # s
      BY <1>1, <1>4, <2>2 DEF BackedInv, Covered, Moving
    <2> QED
      BY <2>1, <2>2
  <1>6. \A h \in Handler : req[h].key # Nil => req'[h].key = req[h].key
    BY DEF BackedInv, Backing
  <1>7. LockersApart'
    BY <1>4 DEF BackedInv, LockersApart
  <1> QED
    BY <1>2, <1>3, <1>5, <1>6, <1>7, QuietObjects DEF BackedInv

LEMMA ReceiveBacked ==
  ASSUME SafetyInv, BackedInv, NEW h \in Handler, Receive(h)
  PROVE  BackedInv'
  <1>n. Next
    BY DEF Next
  <1> PICK s : s = req[h].s
    OBVIOUS
  <1>b. /\ Backing(req[h]) /\ req[h].upto \in Nat /\ req[h].pc = "append" /\ s \in Session
        /\ temp \in [Session -> Nat \cup {Nil}] /\ req \in [Handler -> Request]
    BY ReadyRequest
       DEF BackedInv, Ready, Receive, AppendMismatch, AppendAt, SafetyInv, TypeInv, TypeOK
  <1>1. CASE AppendMismatch(h)
    <2>1. ASSUME NEW t \in Session PROVE Length(temp'[t]) >= Length(temp[t])
      <3>1. CASE t = s
        <4>1. temp'[t] = Length(temp[s]) /\ Length(temp[s]) \in Nat
          BY <1>1, <1>b, <3>1, Lengths DEF AppendMismatch
        <4> QED
          BY <3>1, <4>1, NilAssumption DEF Length
      <3>2. CASE t # s
        BY <1>1, <1>b, <3>2, Lengths DEF AppendMismatch
      <3> QED
        BY <3>1, <3>2
    <2> QED
      BY <1>1, <1>n, <2>1, QuietReturn DEF AppendMismatch
  <1>2. CASE AppendAt(h)
    <2>1. PICK m \in Appended(req[h].upto, req[h].cap) :
            /\ temp' = [temp EXCEPT ![s] = m]
            /\ \/ req' = [req EXCEPT ![h].pc = "record", ![h].upto = m]
               \/ Faults \cap {"body", "gone"} # {} /\ Return(h)
      BY <1>2 DEF AppendAt
    <2>2. m \in Nat /\ m >= req[h].upto /\ Length(temp[s]) = req[h].upto
      BY <1>2, <1>b, MaxLenAssumption DEF AppendAt, Appended
    <2>3. temp'[s] = m /\ Length(temp'[s]) = m /\ \A t \in Session \ {s} : temp'[t] = temp[t]
      BY <1>b, <2>1, <2>2, NilAssumption DEF Length
    <2>4. \A t \in Session : Length(temp'[t]) >= Length(temp[t])
      BY <2>2, <2>3, Lengths
    <2>5. UNCHANGED <<row, files, object, sweep>>
      BY <1>2 DEF AppendAt
    <2>6. CASE req' = [req EXCEPT ![h].pc = "record", ![h].upto = m]
      <3> PICK r : r = [req[h] EXCEPT !.pc = "record", !.upto = m]
        OBVIOUS
      <3>1. req' = [req EXCEPT ![h] = r]
        BY <1>b, <2>6
      <3>2. /\ r.pc = "record" /\ r.upto = m /\ r.s = s /\ r.key = req[h].key
            /\ r.tx = req[h].tx
        BY <1>b DEF Request
      <3>3. Backing(r)' /\ req[h].pc \notin Moved /\ req[h].pc \in Locking
        BY <1>b, <2>2, <2>3, <3>2 DEF Backing
      <3> QED
        BY <1>n, <2>4, <2>5, <3>1, <3>2, <3>3, QuietStep
    <2>7. CASE Return(h)
      BY <1>b, <1>n, <2>4, <2>5, <2>7, QuietReturn
    <2> QED
      BY <2>1, <2>6, <2>7
  <1> QED
    BY <1>1, <1>2 DEF Receive

(* A completion that has moved its object goes on to another step.          *)
GoesOn(h, r) ==
    /\ req[h].pc \in Moved /\ r.pc \in Moved
    /\ r.s = req[h].s /\ r.upto = req[h].upto /\ r.key = req[h].key
    /\ r.pc # "undo" => r.tx = req[h].tx /\ req[h].pc # "undo"
    /\ req' = [req EXCEPT ![h] = r]
    /\ UNCHANGED <<row, files, object, sweep, temp, crossed>>

LEMMA MovedGoesOn ==
  ASSUME SafetyInv, BackedInv, Next, NEW h \in Handler, NEW r, GoesOn(h, r)
  PROVE  BackedInv'
  <1>1. Backing(req[h])
    BY DEF BackedInv
  <1>2. Backing(r)' /\ r.pc \in Locking /\ req[h].pc \in Locking
    BY <1>1 DEF Backing, GoesOn
  <1>3. /\ \A w \in Sweeper : sweep'[w].doomed = sweep[w].doomed
        /\ \A t \in Session : row'[t] = row[t]
        /\ \A t \in Session : row'[t].uploaded \in {0, row[t].uploaded}
        /\ UNCHANGED <<files, object, temp>>
    BY DEF GoesOn
  <1>4. req[h].pc \in Moved /\ r.pc \in Moved /\ r.s = req[h].s /\ r.key = req[h].key
        /\ req' = [req EXCEPT ![h] = r]
    BY DEF GoesOn
  <1> HIDE DEF Moved, Locking
  <1> QED
    BY <1>2, <1>3, <1>4, QuietStep, SameLengths

LEMMA ServeBacked ==
  ASSUME OnlyBodiesFail, SafetyInv, BackedInv, NEW h \in Handler, Serve(h)
  PROVE  BackedInv'
  <1>n. Next
    BY DEF Next
  <1> PICK s : s = req[h].s
    OBVIOUS
  <1>b. /\ Backing(req[h]) /\ req[h].upto \in Nat
        /\ req[h].pc # "idle" => s \in Session
        /\ temp \in [Session -> Nat \cup {Nil}] /\ req \in [Handler -> Request]
    BY ReadyRequest DEF BackedInv, Ready, SafetyInv, TypeInv, TypeOK
  <1>1. CASE InsertSession(h)
    <2>1. s \in Session /\ row'[s].uploaded = 0 /\ \A t \in Session \ {s} : row'[t] = row[t]
      BY <1>1, <1>b DEF InsertSession, SafetyInv, TypeInv, TypeOK
    <2>2. /\ \A t \in Session : row'[t] = row[t] \/ row'[t].uploaded <= Length(temp[t])
          /\ \A t \in Session : row'[t].uploaded \in {0, row[t].uploaded}
      BY <2>1, Lengths
    <2> QED
      BY <1>1, <1>n, <2>2, QuietReturn, SameLengths DEF InsertSession
  <1>2. CASE RejectChunk(h)
    BY <1>2, <1>n, QuietReturn, SameLengths DEF RejectChunk
  <1>3. CASE MoveFails(h)
    BY <1>3, <1>n, QuietReturn, SameLengths DEF MoveFails
  <1>4. CASE Report(h)
    BY <1>4, <1>n, QuietReturn, SameLengths DEF Report
  <1>5. CASE RecordChunk(h)
    <2>1. RecordProgress(h) /\ req[h].pc = "record"
      BY <1>5 DEF RecordChunk, OnlyBodiesFail
    <2>2. s \in Session /\ (req[h].upto <= Length(temp[s]) \/ s \in crossed)
      BY <1>b, <2>1, Lengths DEF Backing
    <2>3. row'[s].uploaded = req[h].upto /\ \A x \in Session \ {s} : row'[x] = row[x]
      BY <2>1, <2>2 DEF RecordProgress, SafetyInv, TypeInv, TypeOK, Row
    <2>4. \A t \in Session : row'[t] = row[t] \/ row'[t].uploaded <= Length(temp[t])
                             \/ t \in crossed
      BY <2>2, <2>3
    <2>5. \A t \in Session : row'[t].uploaded \in {0, row[t].uploaded}
                             \/ (req[h].pc \in Locking /\ t = req[h].s)
      BY <2>1, <2>3
    <2> QED
      BY <1>5, <1>n, <2>1, <2>4, <2>5, QuietReturn, SameLengths DEF RecordChunk
  <1>6. CASE RecordLastChunk(h)
    <2> PICK r : r = [req[h] EXCEPT !.pc = "move"]
      OBVIOUS
    <2>1. req' = [req EXCEPT ![h] = r] /\ UNCHANGED <<row, files, object, sweep, temp, crossed>>
      BY <1>6, <1>b DEF RecordLastChunk
    <2>2. /\ r.pc = "move" /\ r.upto = req[h].upto /\ r.s = s /\ r.key = req[h].key
          /\ r.tx = req[h].tx
      BY <1>b DEF Request
    <2>3. Backing(r)' /\ req[h].pc \notin Moved /\ req[h].pc \in Locking
      BY <1>6, <1>b, <2>1, <2>2 DEF RecordLastChunk, Backing
    <2> QED
      BY <1>n, <2>1, <2>2, <2>3, QuietStep, SameLengths
  <1>7. CASE MoveToFinal(h)
    BY <1>7, <1>n, MoveBacked
  <1>g. ASSUME NEW step \in Moved, req[h].pc \in Moved \ {"undo"},
               req' = [req EXCEPT ![h].pc = step],
               UNCHANGED <<row, files, object, sweep, temp, crossed>>
        PROVE  BackedInv'
    <2> PICK r : r = [req[h] EXCEPT !.pc = step]
      OBVIOUS
    <2>1. /\ r.pc = step /\ r.upto = req[h].upto /\ r.s = s /\ r.key = req[h].key
          /\ r.tx = req[h].tx
      BY <1>b DEF Request
    <2>2. req' = [req EXCEPT ![h] = r]
      BY <1>g, <1>b
    <2>3. GoesOn(h, r)
      BY <1>g, <2>1, <2>2 DEF GoesOn
    <2> QED
      BY <1>n, <2>3, MovedGoesOn
  <1>u. ASSUME req[h].pc \in Moved, Aborted(h, "undo"),
               UNCHANGED <<row, files, object, sweep, temp, crossed>>
        PROVE  BackedInv'
    <2> PICK r : r = [req[h] EXCEPT !.pc = "undo", !.tx = FALSE, !.paid = FALSE]
      OBVIOUS
    <2>1. r.pc = "undo" /\ r.upto = req[h].upto /\ r.s = s /\ r.key = req[h].key
      BY <1>b DEF Request
    <2>2. req' = [req EXCEPT ![h] = r]
      BY <1>u, <1>b DEF Aborted
    <2>3. GoesOn(h, r)
      BY <1>u, <2>1, <2>2 DEF GoesOn
    <2> QED
      BY <1>n, <2>3, MovedGoesOn
  <1>8. CASE NameConflict(h) \/ DeadlockDetected(h)
    BY <1>8, <1>u DEF NameConflict, DeadlockDetected
  <1>9. CASE InsertFile(h) \/ InsertAudit(h)
    BY <1>9, <1>g DEF InsertFile, InsertAudit
  <1>10. CASE ChargeUser(h)
    <2> PICK r : r = [req[h] EXCEPT !.pc = "check", !.paid = TRUE]
      OBVIOUS
    <2>1. /\ r.pc = "check" /\ r.upto = req[h].upto /\ r.s = s /\ r.key = req[h].key
          /\ r.tx = req[h].tx
      BY <1>b DEF Request
    <2>2. req' = [req EXCEPT ![h] = r] /\ req[h].pc = "charge"
      BY <1>10, <1>b DEF ChargeUser
    <2>3. UNCHANGED <<row, files, object, sweep, temp, crossed>>
      BY <1>10 DEF ChargeUser
    <2>4. GoesOn(h, r)
      BY <2>1, <2>2, <2>3 DEF GoesOn
    <2> QED
      BY <1>n, <2>4, MovedGoesOn
  <1>11. CASE EnsureQuota(h)
    <2>1. \E step \in Moved : req' = [req EXCEPT ![h].pc = step]
      BY <1>11 DEF EnsureQuota, AfterCheck
    <2> QED
      BY <1>11, <1>g, <2>1 DEF EnsureQuota
  <1>12. CASE Commit(h)
    BY <1>12, <1>n, CommitBacked
  <1>13. CASE Undo(h)
    BY <1>13, <1>n, UndoBacked
  <1>14. CASE Unlink(h)
    <2>1. s \in Session /\ row[s].status \in Terminal
      BY <1>14, <1>b DEF Unlink, Backing
    <2>2. req[h].key = Nil /\ req[h].pc = "unlink"
      BY <1>14, <1>b DEF Unlink, Backing
    <2>3. \A g \in Handler : \/ req'[g] = req[g]
                             \/ /\ req[g].pc = "unlink" /\ req'[g].key = Nil
                                /\ req'[g].pc \in {"idle", "report"}
      BY <1>14, <1>b, <2>2 DEF Unlink, Return, NoRequest, Request
    <2> QED
      BY <1>14, <1>n, <2>1, <2>3, UnlinkBacked DEF Unlink
  <1>15. ~CommitUnacknowledged(h) /\ ~StatementFails(h)
    BY <1>b DEF CommitUnacknowledged, StatementFails, OnlyBodiesFail, Backing
  <1> QED
    BY <1>1, <1>2, <1>3, <1>4, <1>5, <1>6, <1>7, <1>8, <1>9, <1>10, <1>11, <1>12, <1>13,
       <1>14, <1>15 DEF Serve

(* Steps of the sweeps and of the administrator, clients that only ask.     *)
LEMMA SystemBacked ==
  ASSUME OnlyBodiesFail, SafetyInv, BackedInv, Next,
         \/ \E w \in Sweeper : Sweep(w) \/ SweepCut(w)
         \/ \E s \in Session : Replay(s) \/ UploadStatus(s) \/ Expire(s)
         \/ \E u \in User, q \in Quotas : SetQuota(u, q)
         \/ Crash
  PROVE  BackedInv'
  <1>1. ASSUME UNCHANGED <<files, temp, object, req>>,
               \A w \in Sweeper : sweep'[w].doomed # Nil =>
                  row'[sweep'[w].doomed].status \in Terminal,
               \A s \in Session :
                  \/ row'[s] = row[s]
                  \/ row'[s].status \in Terminal /\ row'[s].uploaded = row[s].uploaded
        PROVE  BackedInv'
    <2>0. crossed \subseteq crossed'
      BY CrossedGrows
    <2>1. ASSUME NEW h \in Handler PROVE Backing(req[h])'
      <3>1. Backing(req[h]) /\ req'[h] = req[h]
        BY <1>1 DEF BackedInv
      <3>2. req[h].pc # "idle" =>
              /\ row[req[h].s].status \in Terminal => row'[req[h].s].status \in Terminal
              /\ row'[req[h].s].uploaded = row[req[h].s].uploaded
        BY <1>1, StaysEnded, ReadyRequest DEF Ready
      <3> QED
        BY <1>1, <2>0, <3>1, <3>2 DEF Backing
    <2>2. \A s \in Session : Covered(s)'
      BY <1>1, <2>0 DEF BackedInv, Covered, Moving, Active, Terminal
    <2>3. LockersApart'
      BY <1>1, <2>0 DEF BackedInv, LockersApart
    <2> QED
      BY <1>1, <2>1, <2>2, <2>3, QuietObjects DEF BackedInv
  <1>2. ASSUME NEW w \in Sweeper, Sweep(w) PROVE BackedInv'
    <2>0. /\ sweep \in [Sweeper -> Sweeping] /\ sweep[w] \in Sweeping
          /\ sweep[w].at \in Session \cup {Nil} /\ sweep[w].doomed \in Session \cup {Nil}
      BY DEF SafetyInv, TypeInv, TypeOK, Sweeping
    <2>1. CASE SweepSelect(w) \/ \E s \in Session : SweepNext(w, s)
      <3>1. /\ \A v \in Sweeper : sweep'[v].doomed = sweep[v].doomed
            /\ UNCHANGED <<row, files, temp, object, req>>
        <4> DEFINE Kept == /\ \A v \in Sweeper : sweep'[v].doomed = sweep[v].doomed
                           /\ UNCHANGED <<row, files, temp, object, req>>
        <4>1. CASE SweepSelect(w)
          <5>1. \A v \in Sweeper : sweep'[v].doomed = sweep[v].doomed
            BY <2>0, <4>1 DEF SweepSelect, Sweeping
          <5> QED
            BY <4>1, <5>1 DEF SweepSelect
        <4>2. ASSUME NEW s \in Session, SweepNext(w, s) PROVE Kept
          <5>1. \A v \in Sweeper : sweep'[v].doomed = sweep[v].doomed
            BY <2>0, <4>2 DEF SweepNext, Sweeping
          <5> QED
            BY <4>2, <5>1 DEF SweepNext
        <4> QED
          BY <2>1, <4>1, <4>2
      <3> QED
        BY <1>1, <3>1 DEF BackedInv
    <2>2. CASE SweepMark(w)
      <3> PICK s \in Session : s = sweep[w].at
        BY <2>0, <2>2 DEF SweepMark
      <3>1. /\ row'[s].status = "expired" /\ row'[s].uploaded = row[s].uploaded
            /\ \A t \in Session \ {s} : row'[t] = row[t]
        BY <2>2 DEF SweepMark, SafetyInv, TypeInv, TypeOK, Row
      <3>2. sweep'[w].doomed = s /\ \A v \in Sweeper \ {w} : sweep'[v] = sweep[v]
        BY <2>0, <2>2 DEF SweepMark, Sweeping
      <3>3. \A v \in Sweeper : sweep'[v].doomed # Nil =>
               row'[sweep'[v].doomed].status \in Terminal
        <4>1. ASSUME NEW v \in Sweeper \ {w}, sweep'[v].doomed # Nil
              PROVE  row'[sweep'[v].doomed].status \in Terminal
          <5>1. sweep[v].doomed \in Session
            BY <2>0, <3>2, <4>1 DEF Sweeping
          <5> QED
            BY <3>2, <4>1, <5>1, StaysEnded DEF BackedInv
        <4> QED
          BY <3>1, <3>2, <4>1 DEF Terminal
      <3>4. \A t \in Session :
               \/ row'[t] = row[t]
               \/ row'[t].status \in Terminal /\ row'[t].uploaded = row[t].uploaded
        BY <3>1 DEF Terminal
      <3> QED
        BY <1>1, <2>2, <3>3, <3>4 DEF SweepMark
    <2>3. CASE SweepUnlink(w)
      <3>1. sweep[w].doomed \in Session /\ row[sweep[w].doomed].status \in Terminal
        BY <2>0, <2>3 DEF SweepUnlink, BackedInv
      <3>2. \A v \in Sweeper : sweep'[v].doomed \in {sweep[v].doomed, Nil}
        BY <2>0, <2>3 DEF SweepUnlink, Sweeping
      <3> QED
        BY <2>3, <3>1, <3>2, UnlinkBacked DEF SweepUnlink
    <2>4. ~SweepMarkUnrecorded(w)
      BY DEF SweepMarkUnrecorded, OnlyBodiesFail
    <2> QED
      BY <1>2, <2>1, <2>2, <2>3, <2>4 DEF Sweep
  <1>3. ASSUME NEW s \in Session, Replay(s) \/ UploadStatus(s) \/ Expire(s) PROVE BackedInv'
    BY <1>1, <1>3 DEF Replay, UploadStatus, Expire, BackedInv
  <1>4. ASSUME NEW u \in User, NEW q \in Quotas, SetQuota(u, q) PROVE BackedInv'
    BY <1>1, <1>4 DEF SetQuota, BackedInv
  <1>5. ~Crash /\ \A w \in Sweeper : ~SweepCut(w)
    BY DEF Crash, SweepCut, OnlyBodiesFail
  <1> QED
    BY <1>2, <1>3, <1>4, <1>5

LEMMA StepBackedInv ==
  ASSUME OnlyBodiesFail, SafetyInv, BackedInv, [Next]_vars
  PROVE  BackedInv'
  <1>1. CASE UNCHANGED vars
    BY <1>1 DEF vars, BackedInv, Backing, LockersApart, Covered, Moving, FileIsBacked,
                NoOrphanObject
  <1>2. ASSUME NEW h \in Handler, Disconnect(h) \/ LoseConnection(h) PROVE FALSE
    BY <1>2 DEF Disconnect, LoseConnection, OnlyBodiesFail
  <1>3. CASE Next
    BY <1>2, <1>3, ArriveBacked, ReceiveBacked, ServeBacked, SystemBacked DEF Next
  <1> QED
    BY <1>1, <1>3

LEMMA BackedInvariant ==
  ASSUME OnlyBodiesFail
  PROVE  Spec => []BackedInv
  <1>1. SafetyInv /\ BackedInv /\ [Next]_vars => BackedInv'
    BY StepBackedInv
  <1> QED
    BY SafetyInvariant, InitBackedInv, <1>1, PTL DEF Spec

(* While request bodies are all that fails, every file row points at an     *)
(* object, and unless the session was crossed the object holds at least the *)
(* bytes the row promises: through completions that race with chunks,       *)
(* cancellations and sweeps, through deadlocks of two completions, and      *)
(* through the moves back (uploads.go 344-376, local.go Move).              *)
THEOREM FilesAreBacked ==
  ASSUME OnlyBodiesFail
  PROVE  Spec => []FileIsBacked
  <1>1. BackedInv => FileIsBacked
    BY DEF BackedInv
  <1> QED
    BY BackedInvariant, <1>1, PTL

(* ... and no object is left under a final key without a file row or a      *)
(* completion that will book it or move it back.                            *)
THEOREM NoObjectOrphaned ==
  ASSUME OnlyBodiesFail
  PROVE  Spec => []NoOrphanObject
  <1>1. BackedInv => NoOrphanObject
    BY DEF BackedInv
  <1> QED
    BY BackedInvariant, <1>1, PTL

-----------------------------------------------------------------------------
(* The handlers implement the ledger.                                       *)

PhaseIs(s) ==
    /\ Stored(s) => Phase(s) = "stored"
    /\ ~Stored(s) /\ row[s].status = "absent" => Phase(s) = "none"
    /\ ~Stored(s) /\ row[s].status \in Active => Phase(s) = "open"
    /\ ~Stored(s) /\ row[s].status \in Terminal => Phase(s) = "closed"

Size(s) == IF Stored(s) THEN row[s].uploaded ELSE 0

LEMMA Phases ==
  ASSUME NEW s \in Session
  PROVE  PhaseIs(s) /\ PhaseIs(s)'
  <1>1. ~Stored(s) \/ Stored(s)
    OBVIOUS
  <1>2. "absent" \notin Active /\ Active \cap Terminal = {} /\ "absent" \notin Terminal
    BY DEF Active, Terminal
  <1>3. PhaseIs(s)
    BY <1>2 DEF PhaseIs, Phase
  <1>4. PhaseIs(s)'
    BY <1>2 DEF PhaseIs, Phase
  <1> QED
    BY <1>3, <1>4

(* A write to one session row opens it, closes it or shows nothing.         *)
LEMMA WriteStepLedger ==
  ASSUME SafetyInv, NEW s \in Session, NEW r \in Row, WriteStep(s, r)
  PROVE  [Ledger!LedgerNext]_(Ledger!ledgerVars)
  <1>1. row'[s] = r /\ \A t \in Session \ {s} : row'[t] = row[t]
    BY DEF WriteStep, SafetyInv, TypeInv, TypeOK
  <1>2. \A t \in Session : Stored(t)' <=> Stored(t)
    BY DEF WriteStep, Stored
  <1>3. \A t \in Session \ {s} : Phase(t)' = Phase(t) /\ Size(t)' = Size(t)
    <2> SUFFICES ASSUME NEW t \in Session \ {s}
                 PROVE  Phase(t)' = Phase(t) /\ Size(t)' = Size(t)
      OBVIOUS
    <2>1. row[t].status \in {"absent"} \cup Active \cup Terminal
      BY DEF SafetyInv, TypeInv, TypeOK, Row
    <2>2. Phase(t)' = Phase(t)
      BY <1>1, <1>2, <2>1, Phases DEF PhaseIs
    <2>3. Size(t)' = Size(t)
      BY <1>1, <1>2 DEF Size
    <2> QED
      BY <2>2, <2>3
  <1>4. Size(s)' = Size(s)
    BY <1>1, <1>2 DEF WriteStep, Size, SafetyInv, TablesInv, Stored, Active, Terminal
  <1>5. \/ Phase(s)' = Phase(s)
        \/ Phase(s) = "none" /\ Phase(s)' = "open"
        \/ Phase(s) = "open" /\ Phase(s)' = "closed"
    <2>1. row[s].status \in {"absent"} \cup Active \cup Terminal
      BY DEF SafetyInv, TypeInv, TypeOK, Row
    <2>2. Stored(s) => row[s].status \in Terminal
      BY DEF SafetyInv, TablesInv, Stored
    <2> QED
      BY <1>1, <1>2, <2>1, <2>2, Phases DEF PhaseIs, WriteStep, Active, Terminal
  <1>6. /\ [t \in Session |-> Size(t)]' = [t \in Session |-> Size(t)]
        /\ UNCHANGED account
    BY <1>3, <1>4 DEF WriteStep
  <1>7. CASE Phase(s)' = Phase(s)
    BY <1>3, <1>6, <1>7 DEF Ledger!ledgerVars, Size
  <1>8. CASE Phase(s) = "none" /\ Phase(s)' = "open"
    <2>1. Ledger!Open(s)
      BY <1>3, <1>6, <1>8 DEF Ledger!Open, Size
    <2> QED
      BY <2>1 DEF Ledger!LedgerNext
  <1>9. CASE Phase(s) = "open" /\ Phase(s)' = "closed"
    <2>1. Ledger!Close(s)
      BY <1>3, <1>6, <1>9 DEF Ledger!Close, Size
    <2> QED
      BY <2>1 DEF Ledger!LedgerNext
  <1> QED
    BY <1>5, <1>7, <1>8, <1>9

(* A commit of a completion is the ledger's Store.                          *)
LEMMA StoreLedger ==
  ASSUME SafetyInv, NEW s \in Session, NEW u \in User, NEW n \in Nat, NEW k \in Key,
         u = Owner[s], row[s].status \in Active, files[k] = Nil,
         row'[s].uploaded = n,
         \A t \in Session \ {s} : row'[t] = row[t],
         files' = [files EXCEPT ![k] = [session |-> s, size |-> n]],
         account'[u].used = account[u].used + n,
         account'[u].quota = account[u].quota,
         \A v \in User \ {u} : account'[v] = account[v],
         Fits(account[u].used + n, account[u].quota)
  PROVE  Ledger!LedgerNext
  <1>2. files'[k].session = s /\ files'[k] # Nil /\ \A j \in Key \ {k} : files'[j] = files[j]
    <2>1. [session |-> s, size |-> n] # Nil
      BY NilAssumption
    <2> QED
      BY <2>1 DEF SafetyInv, TypeInv, TypeOK
  <1>3. Stored(s)' /\ ~Stored(s)
    <2>1. Stored(s)'
      BY <1>2 DEF Stored
    <2>2. ~Stored(s)
      BY DEF Stored, SafetyInv, TablesInv, Active, Terminal
    <2> QED
      BY <2>1, <2>2
  <1>4. ASSUME NEW t \in Session \ {s} PROVE Phase(t)' = Phase(t) /\ Size(t)' = Size(t)
    <2>1. row[t].status \in {"absent"} \cup Active \cup Terminal
      BY DEF SafetyInv, TypeInv, TypeOK, Row
    <2>2. Stored(t)' <=> Stored(t)
      BY <1>2 DEF Stored
    <2>3. Phase(t)' = Phase(t)
      BY <2>1, <2>2, Phases DEF PhaseIs
    <2>4. Size(t)' = Size(t)
      BY <2>2 DEF Size
    <2> QED
      BY <2>3, <2>4
  <1>5. Phase(s) = "open" /\ Phase(s)' = "stored" /\ Size(s)' = n
    <2>1. Phase(s) = "open" /\ Phase(s)' = "stored"
      BY <1>3, Phases DEF PhaseIs
    <2>2. Size(s)' = n
      BY <1>3 DEF Size
    <2> QED
      BY <2>1, <2>2
  <1>6. \A t \in Session : Size(t)' \in Nat
    <2>1. ASSUME NEW t \in Session \ {s} PROVE Size(t) \in Nat
      BY DEF Size, SafetyInv, TypeInv, TypeOK, Row
    <2> QED
      BY <1>4, <1>5, <2>1
  <1>7. Ledger!Store(s)
    <2>1. /\ [t \in Session |-> Phase(t)][s] = "open"
          /\ [t \in Session |-> Phase(t)]'
               = [[t \in Session |-> Phase(t)] EXCEPT ![s] = "stored"]
      BY <1>4, <1>5
    <2>2. /\ [t \in Session |-> Size(t)]' \in [Session -> Nat]
          /\ \A t \in Session \ {s} : [r \in Session |-> Size(r)]'[t] = [r \in Session |-> Size(r)][t]
          /\ [t \in Session |-> Size(t)]'[s] = n
      BY <1>4, <1>5, <1>6
    <2>3. [v \in User |-> account[v].used]'
            = [[v \in User |-> account[v].used] EXCEPT ![u] = @ + n]
      BY DEF SafetyInv, TypeInv, TypeOK
    <2>4. UNCHANGED [v \in User |-> account[v].quota]
      BY DEF SafetyInv, TypeInv, TypeOK
    <2>5. account[u].quota # Nil => account'[u].used <= account[u].quota
      BY DEF Fits
    <2> QED
      BY <2>1, <2>2, <2>3, <2>4, <2>5 DEF Ledger!Store, Size
  <1> QED
    BY <1>7 DEF Ledger!LedgerNext

LEMMA BookStepLedger ==
  ASSUME SafetyInv, NEW h \in Handler, BookStep(h)
  PROVE  Ledger!LedgerNext
  <1> PICK s \in Session, u \in User, n \in Nat, k \in Key :
        s = req[h].s /\ u = Owner[s] /\ n = req[h].upto /\ k = req[h].key
    BY BookedRow
  <1>1. /\ row[s].status \in Active /\ files[k] = Nil
        /\ row'[s].uploaded = n
        /\ \A t \in Session \ {s} : row'[t] = row[t]
        /\ files' = [files EXCEPT ![k] = [session |-> s, size |-> n]]
        /\ account'[u].used = account[u].used + n
        /\ account'[u].quota = account[u].quota
        /\ \A v \in User \ {u} : account'[v] = account[v]
        /\ Fits(account[u].used + n, account[u].quota)
    BY BookedRow
  <1> QED
    BY <1>1, StoreLedger

(* Setting a quota changes the quota of one user.                           *)
LEMMA SetQuotaLedger ==
  ASSUME SafetyInv, NEW u \in User, NEW q \in Quotas, SetQuota(u, q)
  PROVE  Ledger!LedgerNext
  <1>1. UNCHANGED <<row, files>>
    BY DEF SetQuota
  <1>2. \A t \in Session : Phase(t)' = Phase(t) /\ Size(t)' = Size(t)
    BY <1>1 DEF Phase, Size, Stored
  <1>3. /\ account'[u].used = account[u].used /\ account'[u].quota = q
        /\ \A v \in User \ {u} : account'[v] = account[v]
    BY DEF SetQuota, SafetyInv, TypeInv, TypeOK
  <1>4. [v \in User |-> account[v].quota]' \in [User -> Nat \cup {Nil}]
    BY <1>3, QuotasAssumption DEF SafetyInv, TypeInv, TypeOK
  <1>5. Ledger!SetLedgerQuota(u)
    BY <1>2, <1>3, <1>4 DEF Ledger!SetLedgerQuota, Size
  <1> QED
    BY <1>5 DEF Ledger!LedgerNext

(* Seen through their files and accounts, the handlers of both protocols    *)
(* and the sweep behave like the ledger, whatever fails.                    *)
THEOREM UploadsImplementLedger == Spec => ImplementsLedger
  <1>1. Init => Ledger!LedgerInit
    <2> SUFFICES ASSUME Init PROVE Ledger!LedgerInit
      OBVIOUS
    <2>1. \A s \in Session : ~Stored(s) /\ row[s].status = "absent"
      BY DEF Init, Stored
    <2>2. \A s \in Session : Phase(s) = "none" /\ Size(s) = 0
      BY <2>1, Phases DEF PhaseIs, Size
    <2>3. \A u \in User : account[u].used = 0
      BY DEF Init
    <2>4. \A u \in User : account[u].quota \in Nat \cup {Nil}
      <3>1. account \in [User -> [used : Nat, quota : Nat \cup {Nil}]]
        BY InitTypeInv DEF TypeInv, TypeOK
      <3> QED
        BY <3>1
    <2> QED
      BY <2>2, <2>3, <2>4 DEF Ledger!LedgerInit, Size
  <1>2. SafetyInv /\ [Next]_vars => [Ledger!LedgerNext]_(Ledger!ledgerVars)
    <2> SUFFICES ASSUME SafetyInv, [Next]_vars
                 PROVE  [Ledger!LedgerNext]_(Ledger!ledgerVars)
      OBVIOUS
    <2>1. CASE UNCHANGED <<row, files, account>>
      BY <2>1 DEF Ledger!ledgerVars, Phase, Stored
    <2>2. CASE UNCHANGED vars
      BY <2>1, <2>2 DEF vars
    <2>3. CASE Next
      BY <2>1, <2>3, TableSteps, WriteStepLedger, BookStepLedger, SetQuotaLedger
    <2> QED
      BY <2>2, <2>3
  <1> QED
    BY SafetyInvariant, <1>1, <1>2, PTL DEF Spec, ImplementsLedger, Ledger!LedgerSpec
=============================================================================
