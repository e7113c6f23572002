---------------------------- MODULE DirectUploads ----------------------------
(***************************************************************************)
(* Multipart uploads: uploadFiles and copyPartToStorage                     *)
(* (internal/http/files.go) with LocalStorage.PutStream, Move and Delete    *)
(* (internal/storage/local.go).                                             *)
(*                                                                          *)
(* Two goroutines copy a part: the filler reads the body and writes a pipe, *)
(* the handler stores what it reads from the pipe.  The handler then waits  *)
(* for the filler's result, and moves, records or removes the object.       *)
(* The accounts are in FileTree; here a file's bytes are chunks, as many as *)
(* the client sends and the two goroutines pass on.                         *)
(***************************************************************************)
EXTENDS Integers, Pipe

CONSTANTS
    Request,      \* requests to /files/upload
    MaxParts,     \* bound: parts of a request
    MaxChunks,    \* bound: chunks of a part
    MaxFileSize,  \* upload.max_file_size_bytes, in chunks
    Faults        \* the failures this instance suffers

(* "disk":   creating, writing, closing or renaming a file fails.           *)
(* "db":     the commit reports an error, having taken effect or not.       *)
(* "body":   the multipart body is malformed or breaks off.                 *)
(* "hangup": the client goes away: its request's context is canceled.       *)
AllFaults == {"disk", "db", "body", "hangup"}

Chunk == 1..MaxChunks
Size == 0..MaxChunks
Part == Request \X (1..MaxParts)   \* each has keys of its own, from a new id

ASSUME NilAssumption == Nil \notin Size /\ Nil \notin {"ok", "exceeded", "failed"}
ASSUME BoundAssumption == MaxParts \in Nat /\ MaxChunks \in Nat /\ MaxFileSize \in Nat
ASSUME FaultsAssumption == Faults \subseteq AllFaults

VARIABLES
    body,     \* what the clients send in each part, in chunks
    req,      \* what each request's handler and filler are doing
    gone,     \* requests whose context is canceled
    tmp,      \* the size of the file under tmpKey with ".tmp", or Nil
    part,     \* the size of the object under tmpKey, or Nil
    final,    \* the size of the object under finalKey, or Nil
    saved,    \* size_bytes of the committed files row, or Nil
    doubted   \* history: parts whose row was committed, but not so reported

vars == <<body, req, gone, tmp, part, final, saved, doubted>>

-----------------------------------------------------------------------------
Steps == {"idle", "next", "create", "check", "read", "publish", "await", "discard",
          "move", "quota", "commit", "undo", "end"}

(* read: the filler's count of bytes; result: what it has sent to           *)
(* copyErrCh; stored: whether PutStream has returned no error.              *)
Task == [pc : Steps, part : 0..MaxParts, filler : {"none", "read", "write", "done"},
         pipe : Pipe(Chunk), read : {n \in Size : n <= MaxFileSize},
         result : {Nil, "ok", "exceeded", "failed"}, stored : BOOLEAN]

NoTask == [pc |-> "idle", part |-> 0, filler |-> "none", pipe |-> NewPipe, read |-> 0,
           result |-> Nil, stored |-> FALSE]

At(r, pc) == req[r].pc = pc
Key(r) == <<r, req[r].part>>
Goto(r, pc) == req' = [req EXCEPT ![r].pc = pc]

Init ==
    /\ body \in [Part -> Size]
    /\ req = [r \in Request |-> NoTask]
    /\ gone = {}
    /\ tmp = [k \in Part |-> Nil]
    /\ part = [k \in Part |-> Nil]
    /\ final = [k \in Part |-> Nil]
    /\ saved = [k \in Part |-> Nil]
    /\ doubted = {}

-----------------------------------------------------------------------------
(* The loop over the parts.                                                 *)

Start(r) ==
    /\ At(r, "idle")
    /\ Goto(r, "next")
    /\ UNCHANGED <<body, gone, tmp, part, final, saved, doubted>>

(* A file part: copyPartToStorage starts the filler and calls PutStream.    *)
NextPart(r) ==
    /\ At(r, "next")
    /\ req[r].part < MaxParts
    /\ req' = [req EXCEPT ![r] = [NoTask EXCEPT !.pc = "create", !.filler = "read",
                                                !.part = req[r].part + 1]]
    /\ UNCHANGED <<body, gone, tmp, part, final, saved, doubted>>

(* The end of the body, or an error of NextPart: the response is written.   *)
Respond(r) ==
    /\ At(r, "next")
    /\ Goto(r, "end")
    /\ UNCHANGED <<body, gone, tmp, part, final, saved, doubted>>

-----------------------------------------------------------------------------
(* The filler.                                                              *)


(* A send to copyErrCh, which has room, and the deferred pw.Close().        *)
FillerReturns(r, result) ==
    req' = [req EXCEPT ![r].filler = "done", ![r].result = result,
                       ![r].pipe = CloseWriter(@, "eof")]

(* Not the code: the chunk is counted before the limit is looked at.        *)
BugCountedFirst(r) ==
    LET n == req[r].read + 1 IN
    /\ req[r].filler = "read"
    /\ n <= body[Key(r)]
    /\ IF n > MaxFileSize
       THEN req' = [req EXCEPT ![r].filler = "done", ![r].result = "exceeded", ![r].read = n,
                               ![r].pipe = CloseWriter(@, "eof")]
       ELSE req' = [req EXCEPT ![r].filler = "write", ![r].read = n,
                               ![r].pipe = WriteTo(@, n)]
    /\ UNCHANGED <<body, gone, tmp, part, final, saved, doubted>>

(* part.Read returns a chunk: over the limit, or into the pipe.             *)
ReadChunk(r) ==
    LET n == req[r].read + 1 IN
    /\ req[r].filler = "read"
    /\ n <= body[Key(r)]
    /\ IF n > MaxFileSize
       THEN FillerReturns(r, "exceeded")
       ELSE req' = [req EXCEPT ![r].filler = "write", ![r].read = n,
                               ![r].pipe = WriteTo(@, n)]
    /\ UNCHANGED <<body, gone, tmp, part, final, saved, doubted>>

ReadEOF(r) ==
    /\ req[r].filler = "read"
    /\ req[r].read = body[Key(r)]
    /\ FillerReturns(r, "ok")
    /\ UNCHANGED <<body, gone, tmp, part, final, saved, doubted>>

ReadFails(r) ==
    /\ req[r].filler = "read"
    /\ "body" \in Faults \/ r \in gone
    /\ FillerReturns(r, "failed")
    /\ UNCHANGED <<body, gone, tmp, part, final, saved, doubted>>

(* pw.Write returns: the handler has taken the chunk.                       *)
WriteReturns(r) ==
    /\ req[r].filler = "write"
    /\ Written(req[r].pipe)
    /\ req' = [req EXCEPT ![r].filler = "read"]
    /\ UNCHANGED <<body, gone, tmp, part, final, saved, doubted>>

-----------------------------------------------------------------------------
(* PutStream, by the handler.                                               *)

CreateTemp(r) ==
    /\ At(r, "create")
    /\ tmp' = [tmp EXCEPT ![Key(r)] = 0]
    /\ Goto(r, "check")
    /\ UNCHANGED <<body, gone, part, final, saved, doubted>>

(* contextReader looks at the context, and only then reads the pipe.        *)
CheckContext(r) ==
    /\ At(r, "check")
    /\ IF r \in gone
       THEN /\ tmp' = [tmp EXCEPT ![Key(r)] = Nil]
            /\ req' = [req EXCEPT ![r].pc = "await", ![r].stored = FALSE]
       ELSE Goto(r, "read") /\ UNCHANGED tmp
    /\ UNCHANGED <<body, gone, part, final, saved, doubted>>

CopyChunk(r) ==
    /\ At(r, "read")
    /\ Readable(req[r].pipe)
    /\ tmp' = [tmp EXCEPT ![Key(r)] = @ + 1]
    /\ req' = [req EXCEPT ![r].pc = "check", ![r].pipe = ReadFrom(@)]
    /\ UNCHANGED <<body, gone, part, final, saved, doubted>>

(* Whatever made the filler close the pipe, it reads as the end.            *)
CopyEnds(r) ==
    /\ At(r, "read")
    /\ AtEnd(req[r].pipe)
    /\ Goto(r, "publish")
    /\ UNCHANGED <<body, gone, tmp, part, final, saved, doubted>>

(* Close and os.Rename.                                                     *)
Publish(r) ==
    /\ At(r, "publish")
    /\ part' = [part EXCEPT ![Key(r)] = tmp[Key(r)]]
    /\ tmp' = [tmp EXCEPT ![Key(r)] = Nil]
    /\ req' = [req EXCEPT ![r].pc = "await", ![r].stored = TRUE]
    /\ UNCHANGED <<body, gone, final, saved, doubted>>

(* An error of the file system; the chunk at hand was taken from the pipe.  *)
StoreFails(r) ==
    /\ "disk" \in Faults
    /\ \/ At(r, "create") \/ At(r, "publish")
       \/ At(r, "read") /\ Readable(req[r].pipe)
    /\ tmp' = [tmp EXCEPT ![Key(r)] = Nil]
    /\ req' = [req EXCEPT ![r].pc = "await", ![r].stored = FALSE,
                          ![r].pipe = IF At(r, "read") THEN ReadFrom(@) ELSE @]
    /\ UNCHANGED <<body, gone, part, final, saved, doubted>>

-----------------------------------------------------------------------------
(* What becomes of the part.                                                *)

(* Not the code: the filler's error is not looked at.                       *)
BugStoredSuffices(r) == req[r].stored

CopySucceeded(r) == req[r].result = "ok" /\ req[r].stored

(* The handler receives from copyErrCh.                                     *)
AwaitFiller(r) ==
    /\ At(r, "await")
    /\ req[r].result # Nil
    /\ Goto(r, IF CopySucceeded(r) THEN "move" ELSE "discard")
    /\ UNCHANGED <<body, gone, tmp, part, final, saved, doubted>>

(* Not the code: an oversized part is refused and left where it is.         *)
BugOversizeKept(r) ==
    /\ At(r, "discard")
    /\ part' = IF r \in gone \/ req[r].result = "exceeded" THEN part
               ELSE [part EXCEPT ![Key(r)] = Nil]
    /\ Goto(r, IF req[r].result = "exceeded" THEN "end" ELSE "next")
    /\ UNCHANGED <<body, gone, tmp, final, saved, doubted>>

(* Delete(tmpKey), which a canceled context keeps from deleting; a part     *)
(* over the limit ends the request.                                         *)
DiscardPart(r) ==
    /\ At(r, "discard")
    /\ part' = IF r \in gone THEN part ELSE [part EXCEPT ![Key(r)] = Nil]
    /\ Goto(r, IF req[r].result = "exceeded" THEN "end" ELSE "next")
    /\ UNCHANGED <<body, gone, tmp, final, saved, doubted>>

MoveToFinal(r) ==
    /\ At(r, "move")
    /\ \/ /\ r \notin gone
          /\ final' = [final EXCEPT ![Key(r)] = part[Key(r)]]
          /\ part' = [part EXCEPT ![Key(r)] = Nil]
          /\ Goto(r, "quota")
       \/ /\ r \in gone \/ "disk" \in Faults
          /\ Goto(r, "discard")
          /\ UNCHANGED <<part, final>>
    /\ UNCHANGED <<body, gone, tmp, saved, doubted>>

(* canUserStoreBytes.                                                       *)
CheckQuota(r) ==
    /\ At(r, "quota")
    /\ \/ r \notin gone /\ Goto(r, "commit")
       \/ Goto(r, "undo")
    /\ UNCHANGED <<body, gone, tmp, part, final, saved, doubted>>

(* The transaction: it is committed; refused or rolled back; or committed   *)
(* with an answer that does not arrive.                                     *)
CommitFile(r) ==
    /\ At(r, "commit")
    /\ \/ /\ r \notin gone
          /\ saved' = [saved EXCEPT ![Key(r)] = req[r].read]
          /\ Goto(r, "next")
          /\ UNCHANGED doubted
       \/ /\ Goto(r, "undo")
          /\ UNCHANGED <<saved, doubted>>
       \/ /\ "db" \in Faults \/ r \in gone
          /\ saved' = [saved EXCEPT ![Key(r)] = req[r].read]
          /\ doubted' = doubted \cup {Key(r)}
          /\ Goto(r, "undo")
    /\ UNCHANGED <<body, gone, tmp, part, final>>

(* Delete(finalKey).                                                        *)
UndoFinal(r) ==
    /\ At(r, "undo")
    /\ final' = IF r \in gone THEN final ELSE [final EXCEPT ![Key(r)] = Nil]
    /\ Goto(r, "next")
    /\ UNCHANGED <<body, gone, tmp, part, saved, doubted>>

(* The connection is lost: the server cancels the request's context, here   *)
(* at any step.                                                             *)
HangUp(r) ==
    /\ "hangup" \in Faults
    /\ ~At(r, "idle") /\ ~At(r, "end")
    /\ gone' = gone \cup {r}
    /\ UNCHANGED <<body, req, tmp, part, final, saved, doubted>>

-----------------------------------------------------------------------------
Fill(r) == ReadChunk(r) \/ ReadEOF(r) \/ ReadFails(r) \/ WriteReturns(r)

Handle(r) ==
    \/ NextPart(r) \/ Respond(r)
    \/ CreateTemp(r) \/ CheckContext(r) \/ CopyChunk(r) \/ CopyEnds(r) \/ Publish(r)
    \/ StoreFails(r)
    \/ AwaitFiller(r) \/ DiscardPart(r) \/ MoveToFinal(r) \/ CheckQuota(r)
    \/ CommitFile(r) \/ UndoFinal(r)

Next == \E r \in Request : Start(r) \/ Fill(r) \/ Handle(r) \/ HangUp(r)

Spec == Init /\ [][Next]_vars

(* Each goroutine goes on; the client sends its body or goes away.          *)
FairSpec == Spec /\ \A r \in Request : WF_vars(Fill(r)) /\ WF_vars(Handle(r))

-----------------------------------------------------------------------------
(* Properties.                                                              *)

(* The shape of every variable; no file is counted beyond the limit.        *)
TypeOK ==
    /\ body \in [Part -> Size]
    /\ req \in [Request -> Task]
    /\ gone \subseteq Request
    /\ tmp \in [Part -> Size \cup {Nil}]
    /\ part \in [Part -> Size \cup {Nil}]
    /\ final \in [Part -> Size \cup {Nil}]
    /\ saved \in [Part -> Size \cup {Nil}]
    /\ doubted \subseteq Part

(* A file that is recorded is stored, whole: what the client sent, no more  *)
(* than the limit, under the key and with the size of its row.  A copy that *)
(* was cut short is published like any other before the filler's result is  *)
(* known; a failure after the move takes the object away.  Neither may leave *)
(* a row behind, but for a commit that was reported as failed.              *)
RecordedWhole ==
    \A k \in Part :
        saved[k] # Nil => /\ saved[k] = body[k] /\ saved[k] <= MaxFileSize
                          /\ k \notin doubted => final[k] = saved[k]

Finished(r, n) == n < req[r].part \/ (n = req[r].part /\ req[r].pc \in {"next", "end"})

(* When a part is dealt with, whatever failed, its temporary names are gone *)
(* and its object is there only with a row, unless the client hung up.      *)
NothingLeftBehind ==
    \A r \in Request, n \in 1..MaxParts :
        Finished(r, n) /\ r \notin gone
          => /\ tmp[<<r, n>>] = Nil /\ part[<<r, n>>] = Nil
             /\ final[<<r, n>>] # Nil => saved[<<r, n>>] # Nil

(* The handler waits for a filler that waits for a reader: PutStream has    *)
(* given up, and nobody will read or close the pipe.                        *)
Stuck(r) == At(r, "await") /\ req[r].filler = "write" /\ Readable(req[r].pipe)

Busy(r) == ~At(r, "idle") /\ ~At(r, "end")


(* Every request is answered.                                               *)
UploadsAnswered == \A r \in Request : Busy(r) ~> At(r, "end")
=============================================================================
