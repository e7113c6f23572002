------------------------------ MODULE Downloads ------------------------------
(***************************************************************************)
(* What is read from storage: files and previews streamed whole or by a     *)
(* range (streamOwnedFile and parseSingleRange in internal/http/files.go,   *)
(* publicShareFileStream in shares.go), and folders as zip archives         *)
(* (internal/http/zip.go), while files are deleted and previews replaced.   *)
(*                                                                          *)
(* A response is announced from one object, by Stat, and sent from the one  *)
(* that is opened later; an open descriptor keeps what it was opened on.    *)
(* An archive is written by one goroutine into a pipe and sent by another.  *)
(***************************************************************************)
EXTENDS Integers, Pipe, Ranges, SequencesExt

CONSTANTS
    File,       \* files of one folder, each with an object
    Previewed,  \* the file that has a preview
    Preview,    \* the key of that preview
    Stream,     \* requests for a file or a preview
    Archive,    \* requests for the folder as a zip
    MaxSize,    \* bound: bytes of an object
    MaxStored   \* bound: previews stored after the first

Key == File \cup {Preview}
Bytes == 0..MaxSize

(* An object's ETag is its size and its modification time.                  *)
Object == [size : Bytes, mtime : 0..MaxStored]

(* The Range headers that are sent.                                         *)
Position == 0..MaxSize + 1
Asked == [first : Position \cup {None}, last : Position \cup {None}]

VARIABLES
    live,     \* files whose row is not deleted
    object,   \* what is stored under each key, or Nil
    stored,   \* how many previews have been stored since the first
    stream,   \* what each request for a file or preview is doing
    archive,  \* what each request for the folder is doing
    away      \* requests whose client has gone

vars == <<live, object, stored, stream, archive, away>>

-----------------------------------------------------------------------------
Streaming == [pc : {"idle", "row", "stat", "open", "send", "end"}, key : Key,
              range : Asked \cup {Nil}, info : Object \cup {Nil}, file : Object \cup {Nil},
              status : {0, 200, 206, 400, 404, 416, 500},
              sent : SUBSET Bytes, length : Int]

NotStreaming == [pc |-> "idle", key |-> Preview, range |-> Nil, info |-> Nil, file |-> Nil,
                 status |-> 0, sent |-> {}, length |-> 0]

(* The parts of an archive: header and data of each entry, the directory.   *)
Piece == (File \X {"header", "data"}) \cup {<<"directory">>}

(* entries: those still to be written; filler: the goroutine's next step.   *)
Archiving == [pc : {"idle", "collect", "copy", "end"},
              filler : {"none", "open", "header", "data", "directory", "close", "done"},
              entries : Seq(File), collected : Seq(File),
              pipe : Pipe(Piece), sent : Seq(Piece)]

NotArchiving == [pc |-> "idle", filler |-> "none", entries |-> <<>>, collected |-> <<>>,
                 pipe |-> NewPipe, sent |-> <<>>]

Init ==
    /\ live = File
    /\ object \in [Key -> {o \in Object : o.mtime = 0}]
    /\ stored = 0
    /\ stream = [s \in Stream |-> NotStreaming]
    /\ archive = [a \in Archive |-> NotArchiving]
    /\ away = {}

-----------------------------------------------------------------------------
(* A file or a preview.                                                     *)

FileOf(k) == IF k = Preview THEN Previewed ELSE k

StartStream(s, k, h) ==
    /\ stream[s].pc = "idle"
    /\ stream' = [stream EXCEPT ![s] = [NotStreaming EXCEPT !.pc = "row", !.key = k,
                                                            !.range = h]]
    /\ UNCHANGED <<live, object, stored, archive, away>>

End(s, status) == stream' = [stream EXCEPT ![s].pc = "end", ![s].status = status]

(* The row of the file; for a preview its row as well, which stays.         *)
FindRow(s) ==
    /\ stream[s].pc = "row"
    /\ IF FileOf(stream[s].key) \in live
       THEN stream' = [stream EXCEPT ![s].pc = "stat"] ELSE End(s, 404)
    /\ UNCHANGED <<live, object, stored, archive, away>>

(* Stat announces size and ETag.                                            *)
StatObject(s) ==
    LET o == object[stream[s].key] IN
    /\ stream[s].pc = "stat"
    /\ IF o # Nil THEN stream' = [stream EXCEPT ![s].pc = "open", ![s].info = o]
                  ELSE End(s, 404)
    /\ UNCHANGED <<live, object, stored, archive, away>>

(* GetStream or GetRangeStream open what is there now.  length is the       *)
(* Content-Length, from what Stat found; sent, what the body would be.      *)
OpenObject(s) ==
    LET o == object[stream[s].key]
        h == stream[s].range
        size == stream[s].info.size
        asked == ParseSingleRange(h, size)
        given == RangeStream(asked, o.size)
        Send(status, length, positions) ==
            stream' = [stream EXCEPT ![s].pc = "send", ![s].status = status, ![s].file = o,
                                     ![s].length = length, ![s].sent = positions]
    IN
    /\ stream[s].pc = "open"
    /\ CASE h = Nil /\ o = Nil -> End(s, 500)
         [] h = Nil /\ o # Nil -> Send(200, size, 0..o.size - 1)
         [] h # Nil /\ (o = Nil \/ ~asked.ok) ->
              stream' = [stream EXCEPT ![s].pc = "end", ![s].status = 416, ![s].file = o]
         [] h # Nil /\ o # Nil /\ asked.ok ->
              IF given.ok THEN Send(206, asked.end - asked.start + 1, given.start..given.end)
              ELSE stream' = [stream EXCEPT ![s].pc = "end", ![s].status = 416, ![s].file = o]
    /\ UNCHANGED <<live, object, stored, archive, away>>

(* io.Copy, to the end or until the client or the disk fails.  The server   *)
(* sends no more than the Content-Length.                                   *)
SendBody(s) ==
    LET body == stream[s].sent
        First(n) == {i \in body : Cardinality({j \in body : j < i}) < n}
    IN
    /\ stream[s].pc = "send"
    /\ \E n \in 0..Smaller(stream[s].length, Cardinality(body)) :
         stream' = [stream EXCEPT ![s].pc = "end", ![s].sent = First(n)]
    /\ UNCHANGED <<live, object, stored, archive, away>>

(* A refusal of the settings, or a query that fails.                        *)
RefuseStream(s) ==
    /\ stream[s].pc = "row"
    /\ End(s, 400)
    /\ UNCHANGED <<live, object, stored, archive, away>>

-----------------------------------------------------------------------------
(* A folder as a zip: the handler.                                          *)

StartArchive(a) ==
    /\ archive[a].pc = "idle"
    /\ archive' = [archive EXCEPT ![a].pc = "collect"]
    /\ UNCHANGED <<live, object, stored, stream, away>>

(* collectFolderZipEntries, in the order of their paths, which may be any;  *)
(* then the goroutine starts.                                               *)
CollectEntries(a) ==
    /\ archive[a].pc = "collect"
    /\ \E entries \in SetToSeqs(live) :
         archive' = [archive EXCEPT ![a].pc = "copy", ![a].entries = entries,
                        ![a].collected = entries,
                        ![a].filler = IF entries = <<>> THEN "directory" ELSE "open"]
    /\ UNCHANGED <<live, object, stored, stream, away>>

(* Refused by the rate limit, no folder, or a query that fails.             *)
RefuseArchive(a) ==
    /\ archive[a].pc = "collect"
    /\ archive' = [archive EXCEPT ![a].pc = "end"]
    /\ UNCHANGED <<live, object, stored, stream, away>>

(* Not the code: the handler returns without closing its side.              *)
BugReaderLeftOpen(a) ==
    LET p == archive[a].pipe IN
    /\ archive[a].pc = "copy"
    /\ Readable(p)
    /\ \/ archive' = [archive EXCEPT ![a].sent = Append(@, p.held), ![a].pipe = ReadFrom(p)]
       \/ /\ a \in away
          /\ archive' = [archive EXCEPT ![a].pc = "end"]
    /\ UNCHANGED <<live, object, stored, stream, away>>

(* io.Copy passes a piece on, or fails once the client is gone; then, and    *)
(* at the end of the pipe, the handler closes its side and returns.         *)
CopyPiece(a) ==
    LET p == archive[a].pipe IN
    /\ archive[a].pc = "copy"
    /\ Readable(p)
    /\ \/ archive' = [archive EXCEPT ![a].sent = Append(@, p.held), ![a].pipe = ReadFrom(p)]
       \/ /\ a \in away
          /\ archive' = [archive EXCEPT ![a].pc = "end", ![a].pipe = CloseReader(p)]
    /\ UNCHANGED <<live, object, stored, stream, away>>

CopyDone(a) ==
    /\ archive[a].pc = "copy"
    /\ AtEnd(archive[a].pipe)
    /\ archive' = [archive EXCEPT ![a].pc = "end", ![a].pipe = CloseReader(@)]
    /\ UNCHANGED <<live, object, stored, stream, away>>

-----------------------------------------------------------------------------
(* The goroutine.  Its writes return when the handler has taken the piece,  *)
(* or has closed its side.                                                  *)

FillerEnds(a, how) == archive' = [archive EXCEPT ![a].filler = "done",
                                                 ![a].pipe = CloseWriter(@, how)]

FillerFree(a) == Written(archive[a].pipe)

Write(a, piece, next) ==
    archive' = [archive EXCEPT ![a].filler = next, ![a].pipe = WriteTo(@, piece)]

(* Not the code: an entry that cannot be opened is left out.                *)
BugEntrySkipped(a) ==
    LET f == Head(archive[a].entries)
        rest == Tail(archive[a].entries)
    IN
    /\ archive[a].filler = "open"
    /\ FillerFree(a)
    /\ archive' = IF object[f] # Nil THEN [archive EXCEPT ![a].filler = "header"]
                  ELSE [archive EXCEPT ![a].entries = rest,
                          ![a].filler = IF rest = <<>> THEN "directory" ELSE "open"]
    /\ UNCHANGED <<live, object, stored, stream, away>>

(* GetStream: an entry that is not there any more ends the archive.         *)
OpenEntry(a) ==
    /\ archive[a].filler = "open"
    /\ FillerFree(a)
    /\ IF object[Head(archive[a].entries)] # Nil
       THEN archive' = [archive EXCEPT ![a].filler = "header"]
       ELSE FillerEnds(a, "error")
    /\ UNCHANGED <<live, object, stored, stream, away>>

WriteHeader(a) ==
    /\ archive[a].filler = "header"
    /\ FillerFree(a)
    /\ Write(a, <<Head(archive[a].entries), "header">>, "data")
    /\ UNCHANGED <<live, object, stored, stream, away>>

WriteData(a) ==
    LET rest == Tail(archive[a].entries) IN
    /\ archive[a].filler = "data"
    /\ FillerFree(a)
    /\ archive' = [archive EXCEPT ![a].entries = rest,
                     ![a].filler = IF rest = <<>> THEN "directory" ELSE "open",
                     ![a].pipe = WriteTo(@, <<Head(archive[a].entries), "data">>)]
    /\ UNCHANGED <<live, object, stored, stream, away>>

(* zw.Close(), and pipeW.Close().                                           *)
WriteDirectory(a) ==
    /\ archive[a].filler = "directory"
    /\ FillerFree(a)
    /\ Write(a, <<"directory">>, "close")
    /\ UNCHANGED <<live, object, stored, stream, away>>

ClosePipe(a) ==
    /\ archive[a].filler = "close"
    /\ FillerFree(a)
    /\ FillerEnds(a, "eof")
    /\ UNCHANGED <<live, object, stored, stream, away>>

(* The object cannot be read any further: its stream asks the context, too. *)
(* Or the last write has returned an error.                                 *)
FillerFails(a) ==
    /\ \/ archive[a].filler = "data" /\ FillerFree(a)
       \/ archive[a].filler \notin {"none", "done"} /\ WriteRefused(archive[a].pipe)
    /\ FillerEnds(a, "error")
    /\ UNCHANGED <<live, object, stored, stream, away>>

-----------------------------------------------------------------------------
(* Around them.                                                             *)

(* deleteFile: the row, and then, if nothing fails, the object.             *)
DeleteRow(f) ==
    /\ f \in live
    /\ live' = live \ {f}
    /\ UNCHANGED <<object, stored, stream, archive, away>>

UnlinkObject(f) ==
    /\ f \notin live
    /\ object[f] # Nil
    /\ object' = [object EXCEPT ![f] = Nil]
    /\ UNCHANGED <<live, stored, stream, archive, away>>

(* The worker stores the preview anew; the administrator clears the cache.  *)
StorePreview(size) ==
    /\ stored < MaxStored
    /\ stored' = stored + 1
    /\ object' = [object EXCEPT ![Preview] = [size |-> size, mtime |-> stored + 1]]
    /\ UNCHANGED <<live, stream, archive, away>>

ClearPreview ==
    /\ object[Preview] # Nil
    /\ object' = [object EXCEPT ![Preview] = Nil]
    /\ UNCHANGED <<live, stored, stream, archive, away>>

HangUp(a) ==
    /\ archive[a].pc \notin {"idle", "end"}
    /\ away' = away \cup {a}
    /\ UNCHANGED <<live, object, stored, stream, archive>>

-----------------------------------------------------------------------------
Send(s) ==
    \/ \E k \in Key, h \in Asked \cup {Nil} : StartStream(s, k, h)
    \/ FindRow(s) \/ RefuseStream(s) \/ StatObject(s) \/ OpenObject(s) \/ SendBody(s)

Handle(a) == CollectEntries(a) \/ RefuseArchive(a) \/ CopyPiece(a) \/ CopyDone(a)

Fill(a) ==
    \/ OpenEntry(a) \/ WriteHeader(a) \/ WriteData(a) \/ WriteDirectory(a)
    \/ ClosePipe(a) \/ FillerFails(a)

Surroundings ==
    \/ \E f \in File : DeleteRow(f) \/ UnlinkObject(f)
    \/ \E size \in Bytes : StorePreview(size)
    \/ ClearPreview

Next ==
    \/ \E s \in Stream : Send(s)
    \/ \E a \in Archive : StartArchive(a) \/ Handle(a) \/ Fill(a) \/ HangUp(a)
    \/ Surroundings

Spec == Init /\ [][Next]_vars

(* Both goroutines of an archive go on.                                     *)
FairSpec == Spec /\ \A a \in Archive : WF_vars(Handle(a)) /\ WF_vars(Fill(a))

-----------------------------------------------------------------------------
(* Properties.                                                              *)

(* The shape of every variable.                                             *)
TypeOK ==
    /\ live \subseteq File
    /\ object \in [Key -> Object \cup {Nil}]
    /\ stored \in 0..MaxStored
    /\ \A s \in Stream : stream[s] \in Streaming
    /\ \A a \in Archive : /\ archive[a].entries \in Seq(File)
                           /\ archive[a].pipe \in Pipe(Piece)
                           /\ archive[a].sent \in Seq(Piece)
    /\ away \subseteq Archive

(* A range is refused exactly when it asks for nothing the object has, and  *)
(* otherwise announced and sent as asked, also for an empty object, a range *)
(* past the end and a suffix longer than the object.  Only an object that   *)
(* was replaced or removed after Stat may be answered otherwise.            *)
RangeAsRequested ==
    \A s \in Stream :
        LET t == stream[s]
            asked == IF t.range = Nil THEN 0..t.info.size - 1
                     ELSE Requested(t.range, t.info.size)
        IN  t.pc = "end" /\ t.info # Nil /\ t.file = t.info =>
              /\ t.status = 416 => asked = {}
              /\ t.status = 206 => asked # {}
              /\ t.status \in {200, 206} =>
                   /\ t.length = Cardinality(asked)
                   /\ t.sent \subseteq asked
                   /\ \A i \in t.sent, j \in asked : j < i => j \in t.sent

(* An archive that has its directory has every file that was in the folder  *)
(* when its entries were collected, each whole and once, although files     *)
(* were deleted and their objects removed while it was written.             *)
ArchiveComplete ==
    \A a \in Archive :
        LET sent == archive[a].sent
            entries == archive[a].collected
        IN  (\E i \in DOMAIN sent : sent[i] = <<"directory">>) =>
              sent = [i \in 1..2 * Len(entries) + 1 |->
                        IF i > 2 * Len(entries) THEN <<"directory">>
                        ELSE <<entries[(i + 1) \div 2], IF i % 2 = 1 THEN "header" ELSE "data">>]

(* Handler and goroutine of an archive both come to an end, whichever of    *)
(* the client, the storage and the other goroutine fails first.             *)
ArchivesEnd ==
    \A a \in Archive :
        archive[a].pc \notin {"idle", "end"}
            ~> archive[a].pc = "end" /\ archive[a].filler \in {"none", "done"}
=============================================================================
