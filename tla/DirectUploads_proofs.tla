------------------------ MODULE DirectUploads_proofs ------------------------
(***************************************************************************)
(* Theorems about DirectUploads for any requests, parts, chunks and faults. *)
(***************************************************************************)
EXTENDS DirectUploads, TLAPS

USE NilAssumption, BoundAssumption

Whole(k) ==
    saved[k] # Nil => /\ saved[k] = body[k] /\ saved[k] <= MaxFileSize
                      /\ k \notin doubted => final[k] = saved[k]

Held(r) == IF req[r].pipe.held = Nil THEN 0 ELSE 1

(* The two goroutines of a request and its current part: the bytes that the *)
(* filler has counted are in the file, or one chunk of them in the pipe.    *)
Counted(r) ==
    /\ req[r].pc = "create" => req[r].read = Held(r)
    /\ req[r].pc \in {"check", "read", "publish"} =>
         tmp[Key(r)] \in Nat /\ req[r].read = tmp[Key(r)] + Held(r)
    /\ req[r].pc = "await" /\ req[r].stored =>
         req[r].filler = "done" /\ part[Key(r)] = req[r].read
    /\ req[r].pc = "move" => req[r].result = "ok" /\ part[Key(r)] = req[r].read
    /\ req[r].pc \in {"quota", "commit"} => req[r].result = "ok" /\ final[Key(r)] = req[r].read

(* What the filler's state says of the pipe and of the body.                *)
Piped(r) ==
    /\ req[r].filler = "none" <=> req[r].part = 0
    /\ req[r].filler \in {"read", "done"} => req[r].pipe.held = Nil
    /\ req[r].pipe.writer # "open" => req[r].filler = "done"
    /\ req[r].result # Nil => req[r].filler = "done"
    /\ req[r].result = "ok" => req[r].read = body[Key(r)]

(* The handler's step and the rows of the request.                          *)
Recorded(r) ==
    /\ req[r].part = 0 => req[r].pc \in {"idle", "next", "end"}
    /\ req[r].pc = "idle" => req[r].part = 0
    /\ req[r].pc = "publish" => req[r].filler = "done"
    /\ \A n \in 1..MaxParts : n > req[r].part => saved[<<r, n>>] = Nil
    /\ req[r].pc \notin {"idle", "next", "end", "undo"} => saved[Key(r)] = Nil
    /\ req[r].pc = "undo" => saved[Key(r)] = Nil \/ Key(r) \in doubted

Copy(r) == Counted(r) /\ Piped(r) /\ Recorded(r)

Inv == TypeOK /\ RecordedWhole /\ \A r \in Request : Copy(r)

-----------------------------------------------------------------------------
(* What a step of a request leaves alone.                                   *)

Elsewhere(r) ==
    /\ body' = body /\ doubted \subseteq doubted'
    /\ \A q \in Request \ {r} : req'[q] = req[q]
    /\ \A k \in Part : k # Key(r) => /\ tmp'[k] = tmp[k] /\ part'[k] = part[k]
                                     /\ final'[k] = final[k] /\ saved'[k] = saved[k]

Tables == <<body, gone, tmp, part, final, saved, doubted>>

SameCopy(r) ==
    /\ req'[r].part = req[r].part /\ req'[r].filler = req[r].filler
    /\ req'[r].pipe = req[r].pipe /\ req'[r].read = req[r].read
    /\ req'[r].result = req[r].result

(* What is shown of a step of a request.                                    *)
Kept(r) ==
    /\ TypeOK' /\ Copy(r)' /\ Elsewhere(r)
    /\ \A k \in Part : k = Key(r) => Whole(k)'

LEMMA KeyIsPart ==
  ASSUME TypeOK, NEW r \in Request, req[r].part # 0
  PROVE  Key(r) \in Part
  BY DEF TypeOK, Key, Part, Task

LEMMA StepOfRequest ==
  ASSUME TypeOK, NEW r \in Request, NEW t \in Task, req' = [req EXCEPT ![r] = t]
  PROVE  /\ req' \in [Request -> Task] /\ req'[r] = t
         /\ \A q \in Request \ {r} : req'[q] = req[q]
  BY DEF TypeOK

LEMMA GotoStep ==
  ASSUME TypeOK, NEW r \in Request, NEW pc \in Steps, Goto(r, pc)
  PROVE  /\ req' \in [Request -> Task] /\ req'[r].pc = pc /\ SameCopy(r)
         /\ req'[r].stored = req[r].stored
         /\ \A q \in Request \ {r} : req'[q] = req[q]
  <1> DEFINE t == [req[r] EXCEPT !.pc = pc]
  <1>1. req[r] \in Task
    BY DEF TypeOK
  <1>2. /\ t \in Task /\ t.pc = pc /\ t.part = req[r].part /\ t.filler = req[r].filler
        /\ t.pipe = req[r].pipe /\ t.read = req[r].read /\ t.result = req[r].result
        /\ t.stored = req[r].stored
    BY <1>1 DEF Task
  <1>3. req' = [req EXCEPT ![r] = t]
    BY DEF Goto
  <1> HIDE DEF t
  <1> QED
    BY <1>2, <1>3, StepOfRequest DEF SameCopy

(* Steps that change no table.                                              *)
LEMMA QuietStep ==
  ASSUME Inv, NEW r \in Request, req' \in [Request -> Task], Copy(r)', UNCHANGED Tables,
         \A q \in Request \ {r} : req'[q] = req[q]
  PROVE  Kept(r)
  BY DEF Inv, Kept, TypeOK, Tables, Elsewhere, RecordedWhole, Whole

(* The others do not notice.                                                *)
LEMMA OthersKept ==
  ASSUME Inv, NEW r \in Request, Kept(r)
  PROVE  Inv'
  <1>1. ASSUME NEW q \in Request, q # r PROVE Copy(q)'
    <2>1. /\ req'[q] = req[q] /\ Key(q)' = Key(q) /\ Held(q)' = Held(q) /\ Copy(q)
          /\ body' = body /\ doubted \subseteq doubted'
      BY <1>1 DEF Inv, Kept, Elsewhere, Key, Held
    <2>2. ASSUME NEW n \in 1..MaxParts PROVE saved'[<<q, n>>] = saved[<<q, n>>]
      BY <1>1, <2>2 DEF Kept, Elsewhere, Part, Key
    <2>3. ASSUME req[q].part # 0
          PROVE  /\ tmp'[Key(q)] = tmp[Key(q)] /\ part'[Key(q)] = part[Key(q)]
                 /\ final'[Key(q)] = final[Key(q)] /\ saved'[Key(q)] = saved[Key(q)]
      <3>1. Key(q) \in Part /\ Key(q) # Key(r)
        BY <1>1, <2>3, KeyIsPart DEF Inv, Key
      <3> QED
        BY <3>1 DEF Kept, Elsewhere
    <2>4. req[q].part = 0 => req[q].pc \in {"idle", "next", "end"}
      BY <2>1 DEF Copy, Recorded
    <2>5. Counted(q)'
      BY <2>1, <2>3, <2>4 DEF Copy, Counted
    <2>6. Piped(q)'
      BY <2>1 DEF Copy, Piped
    <2>7. Recorded(q)'
      BY <2>1, <2>2, <2>3, <2>4 DEF Copy, Recorded
    <2> QED
      BY <2>5, <2>6, <2>7 DEF Copy
  <1>2. ASSUME NEW k \in Part PROVE Whole(k)'
    <2>1. CASE k = Key(r)
      BY <2>1 DEF Kept
    <2>2. CASE k # Key(r)
      BY <2>2 DEF Kept, Elsewhere, Inv, RecordedWhole, Whole
    <2> QED
      BY <2>1, <2>2
  <1> QED
    BY <1>1, <1>2 DEF Kept, Inv, RecordedWhole, Whole

-----------------------------------------------------------------------------
(* The filler.                                                              *)

(* The fields that a step of the filler leaves.                             *)
SameHandler(r) ==
    req'[r].pc = req[r].pc /\ req'[r].part = req[r].part /\ req'[r].stored = req[r].stored

LEMMA FillerStep ==
  ASSUME Inv, NEW r \in Request, req' \in [Request -> Task], UNCHANGED Tables,
         \A q \in Request \ {r} : req'[q] = req[q],
         SameHandler(r), Piped(r)', req[r].filler \in {"read", "write"},
         req[r].pc \in {"create", "check", "read"} =>
            req'[r].read - Held(r)' = req[r].read - Held(r)
  PROVE  Kept(r)
  <1>1. /\ Key(r)' = Key(r) /\ Copy(r) /\ req'[r].pc = req[r].pc
        /\ tmp' = tmp /\ part' = part /\ saved' = saved /\ doubted' = doubted
    BY DEF SameHandler, Inv, Tables, Key
  <1>2. req[r].filler # "done" /\ req[r].result # "ok" /\ req[r].part # 0
    BY <1>1 DEF Copy, Piped
  <1>3. req[r].pc \notin {"publish", "move", "quota", "commit"}
        /\ ~(req[r].pc = "await" /\ req[r].stored)
    BY <1>1, <1>2 DEF Copy, Counted, Recorded
  <1>4. /\ req[r].read \in Int /\ req'[r].read \in Int
        /\ Held(r) \in {0, 1} /\ Held(r)' \in {0, 1}
    BY DEF Inv, TypeOK, Task, Held, Size
  <1>5. Counted(r)'
    BY <1>1, <1>3, <1>4 DEF SameHandler, Copy, Counted
  <1>6. Recorded(r)'
    BY <1>1, <1>3 DEF SameHandler, Copy, Recorded
  <1> QED
    BY <1>5, <1>6, QuietStep DEF Copy

LEMMA FillerReturnsKept ==
  ASSUME Inv, NEW r \in Request, NEW result \in {"ok", "exceeded", "failed"},
         FillerReturns(r, result), UNCHANGED Tables, req[r].filler = "read",
         result = "ok" => req[r].read = body[Key(r)]
  PROVE  Kept(r)
  <1> DEFINE p == CloseWriter(req[r].pipe, "eof")
             t == [req[r] EXCEPT !.filler = "done", !.result = result, !.pipe = p]
  <1>1. /\ req[r] \in Task /\ req[r].pipe.held = Nil /\ Piped(r)
        /\ req[r].pipe \in Pipe(Chunk) /\ result # Nil
    BY DEF Inv, TypeOK, Copy, Piped, Task, Pipe
  <1>2. p \in Pipe(Chunk) /\ p.held = Nil
    BY <1>1 DEF Pipe, CloseWriter
  <1>3. req' = [req EXCEPT ![r] = t]
    BY DEF FillerReturns
  <1> HIDE DEF p
  <1>4. /\ t \in Task /\ t.filler = "done" /\ t.result = result /\ t.pipe = p /\ t.pc = req[r].pc
        /\ t.part = req[r].part /\ t.read = req[r].read /\ t.stored = req[r].stored
    BY <1>1, <1>2 DEF Task
  <1> HIDE DEF t
  <1>5. /\ req' \in [Request -> Task] /\ req'[r] = t
        /\ \A q \in Request \ {r} : req'[q] = req[q]
    BY <1>3, <1>4, StepOfRequest DEF Inv
  <1>6. Key(r)' = Key(r) /\ body' = body
    BY <1>4, <1>5 DEF Key, Tables
  <1>7. Piped(r)'
    BY <1>1, <1>2, <1>4, <1>5, <1>6 DEF Piped
  <1>8. Held(r)' = Held(r)
    BY <1>1, <1>2, <1>4, <1>5 DEF Held
  <1> QED
    BY <1>4, <1>5, <1>7, <1>8, FillerStep DEF SameHandler

LEMMA ReadChunkKept == ASSUME Inv, NEW r \in Request, ReadChunk(r) PROVE Kept(r)
  <1> DEFINE n == req[r].read + 1
  <1>1. CASE n > MaxFileSize
    BY <1>1, FillerReturnsKept DEF ReadChunk, Tables
  <1>2. CASE ~(n > MaxFileSize)
    <2> DEFINE p == WriteTo(req[r].pipe, n)
               t == [req[r] EXCEPT !.filler = "write", !.read = n, !.pipe = p]
    <2>0. req[r].filler = "read" /\ n <= body[Key(r)] /\ UNCHANGED Tables
      BY DEF ReadChunk, Tables
    <2>1. /\ req[r] \in Task /\ req[r].pipe.held = Nil /\ Piped(r)
          /\ req[r].pipe \in Pipe(Chunk) /\ req[r].part # 0 /\ req[r].read \in Size
      BY <2>0 DEF Inv, TypeOK, Copy, Piped, Task, Pipe
    <2>2. body[Key(r)] \in Size
      BY <2>1, KeyIsPart DEF Inv, TypeOK
    <2>3. n \in Chunk /\ n \in Size /\ n <= MaxFileSize /\ n # Nil
      BY <1>2, <2>0, <2>1, <2>2 DEF Size, Chunk
    <2>4. p \in Pipe(Chunk) /\ p.held = n /\ p.writer = req[r].pipe.writer
      BY <2>1, <2>3 DEF Pipe, WriteTo
    <2>5. req' = [req EXCEPT ![r] = t]
      BY <1>2 DEF ReadChunk
    <2> HIDE DEF p
    <2>6. /\ t \in Task /\ t.filler = "write" /\ t.result = req[r].result /\ t.pipe = p
          /\ t.pc = req[r].pc /\ t.part = req[r].part /\ t.read = n /\ t.stored = req[r].stored
      BY <2>1, <2>3, <2>4 DEF Task
    <2> HIDE DEF t
    <2>7. /\ req' \in [Request -> Task] /\ req'[r] = t
          /\ \A q \in Request \ {r} : req'[q] = req[q]
      BY <2>5, <2>6, StepOfRequest DEF Inv
    <2>8. Piped(r)'
      BY <2>0, <2>1, <2>4, <2>6, <2>7 DEF Piped
    <2>9. req'[r].read - Held(r)' = req[r].read - Held(r)
      BY <2>1, <2>3, <2>4, <2>6, <2>7 DEF Held, Size
    <2> QED
      BY <2>0, <2>6, <2>7, <2>8, <2>9, FillerStep DEF SameHandler
  <1> QED
    BY <1>1, <1>2

LEMMA WriteReturnsKept == ASSUME Inv, NEW r \in Request, WriteReturns(r) PROVE Kept(r)
  <1> DEFINE t == [req[r] EXCEPT !.filler = "read"]
  <1>1. /\ req[r] \in Task /\ req[r].pipe.held = Nil /\ req[r].filler = "write" /\ Piped(r)
        /\ req' = [req EXCEPT ![r] = t] /\ UNCHANGED Tables
    BY DEF WriteReturns, Written, Inv, TypeOK, Copy, Tables
  <1>2. /\ t \in Task /\ t.filler = "read" /\ t.result = req[r].result /\ t.pipe = req[r].pipe
        /\ t.pc = req[r].pc /\ t.part = req[r].part /\ t.read = req[r].read
        /\ t.stored = req[r].stored
    BY <1>1 DEF Task
  <1> HIDE DEF t
  <1>3. /\ req' \in [Request -> Task] /\ req'[r] = t
        /\ \A q \in Request \ {r} : req'[q] = req[q]
    BY <1>1, <1>2, StepOfRequest DEF Inv
  <1>4. Piped(r)' /\ Held(r)' = Held(r)
    BY <1>1, <1>2, <1>3 DEF Piped, Held
  <1> QED
    BY <1>1, <1>2, <1>3, <1>4, FillerStep DEF SameHandler

LEMMA FillKept == ASSUME Inv, NEW r \in Request, Fill(r) PROVE Kept(r)
  <1>1. CASE ReadEOF(r)
    BY <1>1, FillerReturnsKept DEF ReadEOF, Tables
  <1>2. CASE ReadFails(r)
    BY <1>2, FillerReturnsKept DEF ReadFails, Tables
  <1> QED
    BY <1>1, <1>2, ReadChunkKept, WriteReturnsKept DEF Fill

-----------------------------------------------------------------------------
(* The handler.                                                             *)

(* Steps that do not touch the filler's part of the request.                *)
LEMMA HandlerStep ==
  ASSUME Inv, NEW r \in Request, req' \in [Request -> Task], SameCopy(r),
         \A q \in Request \ {r} : req'[q] = req[q],
         body' = body, gone' = gone, doubted \subseteq doubted', doubted' \subseteq Part,
         tmp' \in [Part -> Size \cup {Nil}], part' \in [Part -> Size \cup {Nil}],
         final' \in [Part -> Size \cup {Nil}], saved' \in [Part -> Size \cup {Nil}],
         \A k \in Part : k # Key(r) => /\ tmp'[k] = tmp[k] /\ part'[k] = part[k]
                                       /\ final'[k] = final[k] /\ saved'[k] = saved[k],
         Counted(r)', Recorded(r)', \A k \in Part : k = Key(r) => Whole(k)'
  PROVE  Kept(r)
  <1>1. Key(r)' = Key(r) /\ Piped(r)
    BY DEF SameCopy, Key, Inv, Copy
  <1>2. Piped(r)'
    BY <1>1 DEF SameCopy, Piped
  <1>3. TypeOK'
    BY DEF Inv, TypeOK
  <1> QED
    BY <1>2, <1>3 DEF Kept, Copy, Elsewhere

LEMMA QuietGoto ==
  ASSUME Inv, NEW r \in Request, NEW pc \in Steps, Goto(r, pc), UNCHANGED Tables,
         pc \notin {"idle", "quota", "create", "check", "read", "await"},
         pc = "publish" => req[r].filler = "done" /\ tmp[Key(r)] \in Nat
                           /\ req[r].read = tmp[Key(r)] + Held(r),
         pc = "move" => req[r].result = "ok" /\ part[Key(r)] = req[r].read,
         pc = "commit" => req[r].result = "ok" /\ final[Key(r)] = req[r].read,
         req[r].part = 0 => pc \in {"next", "end"},
         pc \notin {"next", "end"} => saved[Key(r)] = Nil
  PROVE  Kept(r)
  <1>1. /\ req' \in [Request -> Task] /\ req'[r].pc = pc /\ SameCopy(r)
        /\ \A q \in Request \ {r} : req'[q] = req[q]
    BY GotoStep DEF Inv
  <1>2. Key(r)' = Key(r) /\ Held(r)' = Held(r) /\ Copy(r)
    BY <1>1 DEF SameCopy, Key, Held, Inv
  <1>3. Counted(r)'
    BY <1>1, <1>2 DEF SameCopy, Counted, Tables
  <1>4. Recorded(r)'
    BY <1>1, <1>2 DEF SameCopy, Recorded, Copy, Tables
  <1>5. Piped(r)'
    BY <1>1, <1>2 DEF SameCopy, Piped, Copy, Tables
  <1> QED
    BY <1>1, <1>3, <1>4, <1>5, QuietStep DEF Copy

LEMMA NextPartKept == ASSUME Inv, NEW r \in Request, NextPart(r) PROVE Kept(r)
  <1> DEFINE t == [NoTask EXCEPT !.pc = "create", !.filler = "read", !.part = req[r].part + 1]
             k == <<r, req[r].part + 1>>
  <1>1. /\ req' = [req EXCEPT ![r] = t] /\ UNCHANGED Tables
        /\ req[r].part \in 0..MaxParts /\ req[r].part < MaxParts /\ Recorded(r)
    BY DEF NextPart, Tables, Inv, TypeOK, Task, Copy
  <1>2. /\ t \in Task /\ t.filler = "read" /\ t.result = Nil /\ t.pipe = NewPipe
        /\ t.pc = "create" /\ t.part = req[r].part + 1 /\ t.read = 0
    <2>1. NoTask \in Task /\ NoTask.result = Nil /\ NoTask.pipe = NewPipe /\ NoTask.read = 0
      BY DEF NoTask, Task, Steps, NewPipe, Pipe, Size
    <2>2. req[r].part + 1 \in 0..MaxParts
      BY <1>1
    <2> QED
      BY <2>1, <2>2 DEF Task, Steps
  <1> HIDE DEF t
  <1>3. /\ req' \in [Request -> Task] /\ req'[r] = t
        /\ \A q \in Request \ {r} : req'[q] = req[q]
    BY <1>1, <1>2, StepOfRequest DEF Inv
  <1>4. Key(r)' = k /\ Held(r)' = 0
    BY <1>2, <1>3 DEF Key, Held, NewPipe
  <1>5. Counted(r)'
    BY <1>2, <1>3, <1>4 DEF Counted
  <1>6. Piped(r)'
    BY <1>1, <1>2, <1>3 DEF Piped, NewPipe
  <1>7. saved'[k] = Nil /\ \A n \in 1..MaxParts : n > req[r].part + 1 => saved'[<<r, n>>] = Nil
    BY <1>1 DEF Recorded, Tables
  <1>8. Recorded(r)'
    BY <1>1, <1>2, <1>3, <1>4, <1>7 DEF Recorded
  <1> QED
    BY <1>1, <1>3, <1>5, <1>6, <1>8, QuietStep DEF Copy

(* Steps of PutStream.                                                      *)
LEMMA PutStreamKept ==
  ASSUME Inv, NEW r \in Request,
         CreateTemp(r) \/ CheckContext(r) \/ CopyChunk(r) \/ CopyEnds(r) \/ Publish(r)
           \/ StoreFails(r)
  PROVE  Kept(r)
  <1> DEFINE k == Key(r)
  <1>1. req[r].pc \in {"create", "check", "read", "publish"}
    BY DEF CreateTemp, CheckContext, CopyChunk, CopyEnds, Publish, StoreFails, At
  <1>2. /\ req[r] \in Task /\ req[r].part # 0 /\ saved[k] = Nil /\ Copy(r)
        /\ req[r].read \in Size /\ req[r].pipe \in Pipe(Chunk) /\ k \in Part
    BY <1>1, KeyIsPart DEF Inv, TypeOK, Task, Copy, Recorded, Size
  <1>3. /\ body' = body /\ gone' = gone /\ final' = final /\ saved' = saved /\ doubted' = doubted
        /\ final' \in [Part -> Size \cup {Nil}] /\ saved' \in [Part -> Size \cup {Nil}]
        /\ doubted \subseteq doubted' /\ doubted' \subseteq Part
    BY DEF CreateTemp, CheckContext, CopyChunk, CopyEnds, Publish, StoreFails, Inv, TypeOK
  <1>4. \A i \in Part : i = k => Whole(i)'
    BY <1>2, <1>3 DEF Whole
  <1>5. CASE CreateTemp(r)
    <2>1. tmp' = [tmp EXCEPT ![k] = 0] /\ part' = part /\ Goto(r, "check") /\ req[r].pc = "create"
      BY <1>5 DEF CreateTemp, At
    <2>2. /\ req' \in [Request -> Task] /\ req'[r].pc = "check" /\ SameCopy(r)
          /\ \A q \in Request \ {r} : req'[q] = req[q]
      BY <2>1, GotoStep DEF Inv, Steps
    <2>3. Key(r)' = k /\ Held(r)' = Held(r)
      BY <2>2 DEF SameCopy, Key, Held
    <2>4. tmp' \in [Part -> Size \cup {Nil}] /\ tmp'[k] = 0
      BY <1>2, <2>1 DEF Inv, TypeOK, Size
    <2>5. Counted(r)'
      BY <1>2, <2>1, <2>2, <2>3, <2>4 DEF SameCopy, Counted, Copy, Held
    <2>6. Recorded(r)'
      BY <1>2, <1>3, <2>2, <2>3 DEF SameCopy, Recorded, Copy
    <2> HIDE DEF k
    <2> QED
      BY <1>3, <1>4, <2>1, <2>2, <2>4, <2>5, <2>6, HandlerStep DEF Inv, TypeOK, k
  <1>6. ASSUME NEW T \in [Part -> Size \cup {Nil}], NEW p \in Pipe(Chunk), NEW stored \in BOOLEAN,
               req' = [req EXCEPT ![r].pc = "await", ![r].stored = stored, ![r].pipe = p],
               tmp' = [tmp EXCEPT ![k] = Nil], part' = T, \A i \in Part : i # k => T[i] = part[i],
               p.held \in {Nil, req[r].pipe.held}, p.writer = req[r].pipe.writer,
               stored => req[r].filler = "done" /\ T[k] = req[r].read
        PROVE  Kept(r)
    <2> DEFINE t == [req[r] EXCEPT !.pc = "await", !.stored = stored, !.pipe = p]
    <2>1. /\ t \in Task /\ t.filler = req[r].filler /\ t.result = req[r].result /\ t.pipe = p
          /\ t.pc = "await" /\ t.part = req[r].part /\ t.read = req[r].read /\ t.stored = stored
      BY <1>2 DEF Task, Steps
    <2>2. req' = [req EXCEPT ![r] = t]
      BY <1>6
    <2> HIDE DEF t
    <2>3. /\ req' \in [Request -> Task] /\ req'[r] = t
          /\ \A q \in Request \ {r} : req'[q] = req[q]
      BY <2>1, <2>2, StepOfRequest DEF Inv
    <2>4. Key(r)' = k
      BY <2>1, <2>3 DEF Key
    <2>5. Counted(r)'
      BY <1>6, <2>1, <2>3, <2>4 DEF Counted
    <2>6. Recorded(r)'
      BY <1>2, <1>3, <2>1, <2>3, <2>4 DEF Recorded, Copy
    <2>7. Piped(r)'
      BY <1>2, <1>3, <1>6, <2>1, <2>3, <2>4 DEF Piped, Copy
    <2>8. TypeOK'
      BY <1>2, <1>3, <1>6, <2>3 DEF Inv, TypeOK
    <2>9. \A i \in Part : i # k => tmp'[i] = tmp[i] /\ part'[i] = part[i]
      BY <1>6 DEF Inv, TypeOK
    <2> QED
      BY <1>3, <1>4, <2>3, <2>5, <2>6, <2>7, <2>8, <2>9 DEF Kept, Copy, Elsewhere
  <1>7. CASE CheckContext(r)
    <2>1. CASE r \in gone
      <3>1. /\ tmp' = [tmp EXCEPT ![k] = Nil] /\ part' = part
            /\ req' = [req EXCEPT ![r].pc = "await", ![r].stored = FALSE]
        BY <1>7, <2>1 DEF CheckContext
      <3>2. req' = [req EXCEPT ![r].pc = "await", ![r].stored = FALSE, ![r].pipe = req[r].pipe]
        BY <1>2, <3>1 DEF Task
      <3> QED
        BY <1>2, <1>6, <3>1, <3>2 DEF Inv, TypeOK
    <2>2. CASE r \notin gone
      <3>1. tmp' = tmp /\ part' = part /\ Goto(r, "read") /\ req[r].pc = "check"
        BY <1>7, <2>2 DEF CheckContext, At
      <3>2. /\ req' \in [Request -> Task] /\ req'[r].pc = "read" /\ SameCopy(r)
            /\ \A q \in Request \ {r} : req'[q] = req[q]
        BY <3>1, GotoStep DEF Inv, Steps
      <3>3. Key(r)' = k /\ Held(r)' = Held(r)
        BY <3>2 DEF SameCopy, Key, Held
      <3>4. Counted(r)' /\ Recorded(r)'
        BY <1>2, <1>3, <3>1, <3>2, <3>3 DEF SameCopy, Counted, Recorded, Copy
      <3> QED
        BY <1>3, <1>4, <3>1, <3>2, <3>4, HandlerStep DEF Inv, TypeOK
    <2> QED
      BY <2>1, <2>2
  <1>8. CASE CopyChunk(r)
    <2> DEFINE p == ReadFrom(req[r].pipe)
               t == [req[r] EXCEPT !.pc = "check", !.pipe = p]
    <2>1. /\ tmp' = [tmp EXCEPT ![k] = @ + 1] /\ part' = part /\ req[r].pc = "read"
          /\ req' = [req EXCEPT ![r] = t] /\ req[r].pipe.held # Nil
      BY <1>8 DEF CopyChunk, At, Readable
    <2>2. p \in Pipe(Chunk) /\ p.held = Nil /\ p.writer = req[r].pipe.writer
      BY <1>2 DEF ReadFrom, Pipe
    <2> HIDE DEF p
    <2>3. /\ t \in Task /\ t.filler = req[r].filler /\ t.result = req[r].result /\ t.pipe = p
          /\ t.pc = "check" /\ t.part = req[r].part /\ t.read = req[r].read
      BY <1>2, <2>2 DEF Task, Steps
    <2> HIDE DEF t
    <2>4. /\ req' \in [Request -> Task] /\ req'[r] = t
          /\ \A q \in Request \ {r} : req'[q] = req[q]
      BY <2>1, <2>3, StepOfRequest DEF Inv
    <2>5. Key(r)' = k /\ Held(r)' = 0 /\ Held(r) = 1
      BY <2>1, <2>2, <2>3, <2>4 DEF Key, Held
    <2>6. tmp[k] \in Nat /\ req[r].read = tmp[k] + 1
      BY <1>2, <2>1, <2>5 DEF Copy, Counted
    <2>7. tmp' \in [Part -> Size \cup {Nil}] /\ tmp'[k] = req[r].read
      BY <1>2, <2>1, <2>6 DEF Inv, TypeOK
    <2>8. Counted(r)'
      BY <1>2, <2>3, <2>4, <2>5, <2>6, <2>7 DEF Counted
    <2>9. Recorded(r)'
      BY <1>2, <1>3, <2>3, <2>4, <2>5 DEF Recorded, Copy
    <2>10. Piped(r)'
      BY <1>2, <1>3, <2>2, <2>3, <2>4, <2>5 DEF Piped, Copy
    <2>11. TypeOK'
      BY <1>3, <2>1, <2>4, <2>7 DEF Inv, TypeOK
    <2>12. \A i \in Part : i # k => tmp'[i] = tmp[i] /\ part'[i] = part[i]
      BY <2>1 DEF Inv, TypeOK
    <2> QED
      BY <1>3, <1>4, <2>4, <2>8, <2>9, <2>10, <2>11, <2>12 DEF Kept, Copy, Elsewhere
  <1>9. CASE CopyEnds(r)
    <2>1. /\ req[r].pc = "read" /\ req[r].filler = "done" /\ Goto(r, "publish") /\ UNCHANGED Tables
      BY <1>2, <1>9 DEF CopyEnds, At, AtEnd, Copy, Piped, Tables
    <2> QED
      BY <1>2, <2>1, QuietGoto DEF Copy, Counted, Steps
  <1>10. CASE Publish(r)
    <2>1. /\ req[r].pc = "publish" /\ part' = [part EXCEPT ![k] = tmp[k]]
          /\ tmp' = [tmp EXCEPT ![k] = Nil]
          /\ req' = [req EXCEPT ![r].pc = "await", ![r].stored = TRUE]
      BY <1>10 DEF Publish, At
    <2>2. req[r].filler = "done" /\ tmp[k] = req[r].read
      BY <1>2, <2>1 DEF Copy, Recorded, Piped, Counted, Held, Size
    <2>3. req' = [req EXCEPT ![r].pc = "await", ![r].stored = TRUE, ![r].pipe = req[r].pipe]
      BY <1>2, <2>1 DEF Task
    <2>4. part' \in [Part -> Size \cup {Nil}] /\ part'[k] = req[r].read
          /\ \A i \in Part : i # k => part'[i] = part[i]
      BY <1>2, <2>1, <2>2 DEF Inv, TypeOK
    <2> QED
      BY <1>2, <1>6, <2>1, <2>2, <2>3, <2>4
  <1>11. CASE StoreFails(r)
    <2> DEFINE p == IF At(r, "read") THEN ReadFrom(req[r].pipe) ELSE req[r].pipe
    <2>1. /\ tmp' = [tmp EXCEPT ![k] = Nil] /\ part' = part
          /\ req' = [req EXCEPT ![r].pc = "await", ![r].stored = FALSE, ![r].pipe = p]
      BY <1>11 DEF StoreFails
    <2>2. p \in Pipe(Chunk) /\ p.held \in {Nil, req[r].pipe.held} /\ p.writer = req[r].pipe.writer
      BY <1>2 DEF ReadFrom, Pipe
    <2> HIDE DEF p
    <2> QED
      BY <1>2, <1>6, <2>1, <2>2 DEF Inv, TypeOK
  <1> QED
    BY <1>5, <1>7, <1>8, <1>9, <1>10, <1>11

(* What becomes of the part.                                                *)
LEMMA SettleKept ==
  ASSUME Inv, NEW r \in Request,
         AwaitFiller(r) \/ DiscardPart(r) \/ MoveToFinal(r) \/ CheckQuota(r) \/ CommitFile(r)
           \/ UndoFinal(r)
  PROVE  Kept(r)
  <1> DEFINE k == Key(r)
  <1>1. req[r].pc \in {"await", "discard", "move", "quota", "commit", "undo"}
    BY DEF AwaitFiller, DiscardPart, MoveToFinal, CheckQuota, CommitFile, UndoFinal, At
  <1>2. /\ req[r] \in Task /\ req[r].part # 0 /\ Copy(r) /\ req[r].read \in Size
        /\ req[r].read <= MaxFileSize /\ k \in Part
    BY <1>1, KeyIsPart DEF Inv, TypeOK, Task, Copy, Recorded, Size
  <1>g. ASSUME NEW pc \in {"discard", "next", "end", "quota", "undo"}, Goto(r, pc)
        PROVE  /\ req' \in [Request -> Task] /\ req'[r].pc = pc /\ SameCopy(r)
               /\ \A q \in Request \ {r} : req'[q] = req[q]
               /\ Key(r)' = k
    <2>1. pc \in Steps
      BY DEF Steps
    <2> QED
      BY <1>g, <2>1, GotoStep DEF Inv, SameCopy, Key
  <1>3. CASE AwaitFiller(r)
    <2>1. /\ req[r].pc = "await" /\ UNCHANGED Tables /\ saved[k] = Nil
          /\ Goto(r, IF CopySucceeded(r) THEN "move" ELSE "discard")
      BY <1>2, <1>3 DEF AwaitFiller, At, Tables, Copy, Recorded
    <2>2. CASE CopySucceeded(r)
      <3>1. req[r].result = "ok" /\ part[k] = req[r].read /\ Goto(r, "move")
        BY <1>2, <2>1, <2>2 DEF CopySucceeded, Copy, Counted
      <3> QED
        BY <1>2, <2>1, <3>1, QuietGoto DEF Steps
    <2>3. CASE ~CopySucceeded(r)
      BY <1>2, <2>1, <2>3, QuietGoto DEF Steps
    <2> QED
      BY <2>2, <2>3
  <1>4. CASE CheckQuota(r)
    <2>1. /\ req[r].pc = "quota" /\ UNCHANGED Tables /\ saved[k] = Nil
          /\ req[r].result = "ok" /\ final[k] = req[r].read
          /\ Goto(r, "commit") \/ Goto(r, "undo")
      BY <1>2, <1>4 DEF CheckQuota, At, Tables, Copy, Recorded, Counted
    <2> QED
      BY <1>2, <2>1, QuietGoto DEF Steps
  <1>5. CASE DiscardPart(r)
    <2>1. /\ req[r].pc = "discard" /\ saved[k] = Nil
          /\ body' = body /\ gone' = gone /\ tmp' = tmp /\ final' = final /\ saved' = saved
          /\ doubted' = doubted
          /\ part' = IF r \in gone THEN part ELSE [part EXCEPT ![k] = Nil]
      BY <1>2, <1>5 DEF DiscardPart, At, Copy, Recorded
    <2>2. PICK pc \in {"next", "end"} : Goto(r, pc)
      BY <1>5 DEF DiscardPart
    <2>3. /\ req' \in [Request -> Task] /\ req'[r].pc = pc /\ SameCopy(r)
          /\ \A q \in Request \ {r} : req'[q] = req[q]
          /\ Key(r)' = k
      BY <1>g, <2>2
    <2>4. Counted(r)' /\ Recorded(r)'
      BY <1>2, <2>1, <2>3 DEF SameCopy, Counted, Recorded, Copy
    <2>5. \A i \in Part : i = k => Whole(i)'
      BY <2>1 DEF Whole
    <2> QED
      BY <2>1, <2>3, <2>4, <2>5, HandlerStep DEF Inv, TypeOK
  <1>6. CASE MoveToFinal(r)
    <2>1. /\ req[r].pc = "move" /\ saved[k] = Nil /\ saved' = saved
          /\ body' = body /\ gone' = gone /\ tmp' = tmp /\ doubted' = doubted
          /\ req[r].result = "ok" /\ part[k] = req[r].read
      BY <1>2, <1>6 DEF MoveToFinal, At, Copy, Recorded, Counted
    <2>2. \A i \in Part : i = k => Whole(i)'
      BY <2>1 DEF Whole
    <2>3. CASE /\ final' = [final EXCEPT ![k] = part[k]] /\ part' = [part EXCEPT ![k] = Nil]
               /\ Goto(r, "quota")
      <3>1. /\ req' \in [Request -> Task] /\ req'[r].pc = "quota" /\ SameCopy(r)
            /\ \A q \in Request \ {r} : req'[q] = req[q]
            /\ Key(r)' = k
        BY <1>g, <2>3
      <3>2. final' \in [Part -> Size \cup {Nil}] /\ final'[k] = req[r].read
        BY <1>2, <2>1, <2>3 DEF Inv, TypeOK
      <3>3. Counted(r)' /\ Recorded(r)'
        BY <1>2, <2>1, <3>1, <3>2 DEF SameCopy, Counted, Recorded, Copy
      <3> QED
        BY <2>1, <2>2, <2>3, <3>1, <3>2, <3>3, HandlerStep DEF Inv, TypeOK
    <2>4. CASE Goto(r, "discard") /\ UNCHANGED <<part, final>>
      BY <1>2, <2>1, <2>4, QuietGoto DEF Steps, Tables
    <2> QED
      BY <1>6, <2>3, <2>4 DEF MoveToFinal
  <1>7. CASE CommitFile(r)
    <2>1. /\ req[r].pc = "commit" /\ saved[k] = Nil
          /\ body' = body /\ gone' = gone /\ tmp' = tmp /\ part' = part /\ final' = final
          /\ final[k] = req[r].read /\ req[r].read = body[k]
      BY <1>2, <1>7 DEF CommitFile, At, Copy, Recorded, Counted, Piped
    <2>2. ASSUME NEW pc \in {"next", "undo"}, Goto(r, pc),
                 saved' = [saved EXCEPT ![k] = req[r].read],
                 doubted' = IF pc = "undo" THEN doubted \cup {k} ELSE doubted
          PROVE  Kept(r)
      <3>1. /\ req' \in [Request -> Task] /\ req'[r].pc = pc /\ SameCopy(r)
            /\ \A q \in Request \ {r} : req'[q] = req[q]
            /\ Key(r)' = k
        BY <1>g, <2>2
      <3>2. /\ saved' \in [Part -> Size \cup {Nil}] /\ saved'[k] = req[r].read
            /\ \A i \in Part : i # k => saved'[i] = saved[i]
        BY <1>2, <2>2 DEF Inv, TypeOK
      <3>3. Counted(r)'
        BY <2>1, <3>1 DEF Counted
      <3>4. \A n \in 1..MaxParts : n > req[r].part => saved'[<<r, n>>] = Nil
        <4>1. ASSUME NEW n \in 1..MaxParts, n > req[r].part PROVE saved'[<<r, n>>] = Nil
          <5>1. <<r, n>> \in Part /\ <<r, n>> # k
            BY <1>2, <4>1 DEF Part, Key, Task
          <5> QED
            BY <1>2, <3>2, <4>1, <5>1 DEF Copy, Recorded
        <4> QED
          BY <4>1
      <3>5. Recorded(r)'
        BY <1>2, <2>2, <3>1, <3>4 DEF SameCopy, Recorded, Copy
      <3>6. \A i \in Part : i = k => Whole(i)'
        BY <1>2, <2>1, <3>2 DEF Whole
      <3> HIDE DEF k
      <3> QED
        BY <1>2, <2>1, <2>2, <3>1, <3>2, <3>3, <3>5, <3>6, HandlerStep DEF Inv, TypeOK, k
    <2>3. CASE Goto(r, "undo") /\ UNCHANGED <<saved, doubted>>
      BY <1>2, <2>1, <2>3, QuietGoto DEF Steps, Tables
    <2> QED
      BY <1>7, <2>2, <2>3 DEF CommitFile
  <1>8. CASE UndoFinal(r)
    <2>1. /\ req[r].pc = "undo" /\ (saved[k] = Nil \/ k \in doubted)
          /\ body' = body /\ gone' = gone /\ tmp' = tmp /\ part' = part /\ saved' = saved
          /\ doubted' = doubted
          /\ final' = IF r \in gone THEN final ELSE [final EXCEPT ![k] = Nil]
          /\ Goto(r, "next")
      BY <1>2, <1>8 DEF UndoFinal, At, Copy, Recorded
    <2>3. /\ req' \in [Request -> Task] /\ req'[r].pc = "next" /\ SameCopy(r)
          /\ \A q \in Request \ {r} : req'[q] = req[q]
          /\ Key(r)' = k
      BY <1>g, <2>1
    <2>4. Counted(r)' /\ Recorded(r)'
      BY <1>2, <2>1, <2>3 DEF SameCopy, Counted, Recorded, Copy
    <2>5. \A i \in Part : i = k => Whole(i)'
      BY <2>1 DEF Whole, Inv, RecordedWhole
    <2> QED
      BY <2>1, <2>3, <2>4, <2>5, HandlerStep DEF Inv, TypeOK
  <1> QED
    BY <1>3, <1>4, <1>5, <1>6, <1>7, <1>8

-----------------------------------------------------------------------------
LEMMA StepKeepsInv == Inv /\ [Next]_vars => Inv'
  <1> SUFFICES ASSUME Inv, [Next]_vars PROVE Inv'
    OBVIOUS
  <1>1. ASSUME NEW r \in Request, Start(r) \/ Respond(r) PROVE Kept(r)
    BY <1>1, QuietGoto DEF Start, Respond, Tables, Steps
  <1>2. ASSUME NEW r \in Request, Handle(r) PROVE Kept(r)
    BY <1>1, <1>2, NextPartKept, PutStreamKept, SettleKept DEF Handle
  <1>3. ASSUME NEW r \in Request, HangUp(r) PROVE Inv'
    <2>1. UNCHANGED <<body, req, tmp, part, final, saved, doubted>> /\ gone' \subseteq Request
      BY <1>3 DEF HangUp, Inv, TypeOK
    <2>2. \A q \in Request : Key(q)' = Key(q) /\ Held(q)' = Held(q)
      BY <2>1 DEF Key, Held
    <2>3. \A q \in Request : Copy(q)'
      BY <2>1, <2>2 DEF Inv, Copy, Counted, Piped, Recorded
    <2> QED
      BY <2>1, <2>3 DEF Inv, TypeOK, RecordedWhole
  <1>4. CASE UNCHANGED vars
    <2>1. \A q \in Request : Key(q)' = Key(q) /\ Held(q)' = Held(q)
      BY <1>4 DEF vars, Key, Held
    <2>2. \A q \in Request : Copy(q)'
      BY <1>4, <2>1 DEF vars, Inv, Copy, Counted, Piped, Recorded
    <2> QED
      BY <1>4, <2>2 DEF vars, Inv, TypeOK, RecordedWhole
  <1> QED
    BY <1>1, <1>2, <1>3, <1>4, FillKept, OthersKept DEF Next

LEMMA InitInv == Init => Inv
  <1> SUFFICES ASSUME Init PROVE Inv
    OBVIOUS
  <1>1. NoTask \in Task
    BY DEF NoTask, Task, Steps, NewPipe, Pipe, Size
  <1>2. TypeOK
    BY <1>1 DEF Init, TypeOK
  <1>3. ASSUME NEW r \in Request PROVE Copy(r)
    <2>1. /\ req[r].pc = "idle" /\ req[r].part = 0 /\ req[r].filler = "none" /\ req[r].result = Nil
          /\ req[r].pipe.writer = "open"
      BY DEF Init, NoTask, NewPipe
    <2>2. \A n \in 1..MaxParts : saved[<<r, n>>] = Nil
      BY DEF Init, Part
    <2> QED
      BY <2>1, <2>2 DEF Copy, Counted, Piped, Recorded
  <1>4. RecordedWhole
    BY DEF Init, RecordedWhole
  <1> QED
    BY <1>2, <1>3, <1>4 DEF Inv

(* For any number of requests, parts and chunks, and whatever the disk, the *)
(* database, the bodies and the clients do: a file that is recorded is what *)
(* the client sent, within the limit, and stored under its key with the     *)
(* size of its row, but for a commit that was reported as failed.           *)
THEOREM RecordsWhole == Spec => []RecordedWhole
  <1>1. Inv => RecordedWhole
    BY DEF Inv
  <1> QED
    BY <1>1, InitInv, StepKeepsInv, PTL DEF Spec

-----------------------------------------------------------------------------
(* What is left under the names of a part.                                  *)

Cleared(k) ==
    tmp[k] = Nil /\ part[k] = Nil /\ (final[k] # Nil => saved[k] # Nil)

(* Which names of the part at hand are free at which step.                  *)
Freed(r) ==
    req[r].pc \notin {"idle", "next", "end"} =>
        /\ req[r].pc \notin {"check", "read", "publish"} => tmp[Key(r)] = Nil
        /\ req[r].pc \notin {"discard", "move"} /\ ~(req[r].pc = "await" /\ req[r].stored)
             => part[Key(r)] = Nil
        /\ req[r].pc \notin {"quota", "commit", "undo"} => final[Key(r)] = Nil

Tidy(r) ==
    /\ Freed(r)
    /\ \A n \in 1..MaxParts :
         /\ n > req[r].part =>
              tmp[<<r, n>>] = Nil /\ part[<<r, n>>] = Nil /\ final[<<r, n>>] = Nil
         /\ Finished(r, n) /\ r \notin gone => Cleared(<<r, n>>)

TidyInv == \A r \in Request : Tidy(r)

(* A step about the part at hand.                                           *)
LEMMA TidyStep ==
  ASSUME Inv, NEW r \in Request, Tidy(r), Elsewhere(r), gone \subseteq gone',
         req'[r].part = req[r].part, Freed(r)',
         req'[r].pc \in {"next", "end"} /\ r \notin gone' =>
            \A k \in Part : k = Key(r) => Cleared(k)'
  PROVE  Tidy(r)'
  <1>1. req[r].part \in 0..MaxParts
    BY DEF Inv, TypeOK, Task
  <1>2. ASSUME NEW n \in 1..MaxParts, n # req[r].part
        PROVE  /\ tmp'[<<r, n>>] = tmp[<<r, n>>] /\ part'[<<r, n>>] = part[<<r, n>>]
               /\ final'[<<r, n>>] = final[<<r, n>>] /\ saved'[<<r, n>>] = saved[<<r, n>>]
    <2>1. <<r, n>> \in Part /\ <<r, n>> # Key(r)
      BY <1>2 DEF Part, Key
    <2> QED
      BY <2>1 DEF Elsewhere
  <1>3. ASSUME NEW n \in 1..MaxParts, n > req'[r].part
        PROVE  tmp'[<<r, n>>] = Nil /\ part'[<<r, n>>] = Nil /\ final'[<<r, n>>] = Nil
    BY <1>1, <1>2, <1>3 DEF Tidy
  <1>4. ASSUME NEW n \in 1..MaxParts, Finished(r, n)', r \notin gone'
        PROVE  Cleared(<<r, n>>)'
    <2>1. CASE n = req[r].part
      BY <1>1, <1>4, <2>1 DEF Finished, Key, Part
    <2>2. CASE n # req[r].part
      <3>1. Cleared(<<r, n>>)
        BY <1>1, <1>4, <2>2 DEF Finished, Tidy
      <3> QED
        BY <1>2, <2>2, <3>1 DEF Cleared
    <2> QED
      BY <2>1, <2>2
  <1> QED
    BY <1>3, <1>4 DEF Tidy

LEMMA TidyFill ==
  ASSUME Inv, NEW r \in Request, Tidy(r), Kept(r), Fill(r)
  PROVE  Tidy(r)'
  <1>1. /\ UNCHANGED Tables /\ req[r].filler \in {"read", "write"}
        /\ req'[r].pc = req[r].pc /\ req'[r].part = req[r].part /\ req'[r].stored = req[r].stored
    <2>1. req[r] \in Task /\ r \in DOMAIN req
      BY DEF Inv, TypeOK
    <2>2. ASSUME NEW result, FillerReturns(r, result)
          PROVE  /\ req'[r].pc = req[r].pc /\ req'[r].part = req[r].part
                 /\ req'[r].stored = req[r].stored
      BY <2>1, <2>2 DEF FillerReturns, Task
    <2>3. CASE ReadChunk(r)
      BY <2>1, <2>2, <2>3 DEF ReadChunk, Task, Tables
    <2>4. CASE ReadEOF(r) \/ ReadFails(r)
      BY <2>2, <2>4 DEF ReadEOF, ReadFails, Tables
    <2>5. CASE WriteReturns(r)
      BY <2>1, <2>5 DEF WriteReturns, Task, Tables
    <2> QED
      BY <2>3, <2>4, <2>5 DEF Fill
  <1>2. Freed(r)'
    BY <1>1 DEF Tidy, Freed, Key, Tables
  <1>3. ASSUME req'[r].pc \in {"next", "end"}, r \notin gone', NEW k \in Part, k = Key(r)
        PROVE  Cleared(k)'
    BY <1>1, <1>3 DEF Tidy, Finished, Key, Part, Cleared, Tables
  <1> QED
    BY <1>1, <1>2, <1>3, TidyStep DEF Kept, Tables

(* Steps of the handler that change nothing of its request but the step.    *)
LEMMA TidyGoto ==
  ASSUME Inv, NEW r \in Request, Tidy(r), Kept(r),
         Start(r) \/ Respond(r) \/ CreateTemp(r) \/ CopyEnds(r) \/ AwaitFiller(r)
           \/ DiscardPart(r) \/ MoveToFinal(r) \/ CheckQuota(r) \/ CommitFile(r) \/ UndoFinal(r)
  PROVE  Tidy(r)'
  <1> DEFINE k == Key(r)
  <1>1. /\ req[r].part = 0 => req[r].pc \in {"idle", "next", "end"}
        /\ req[r].pc = "idle" => req[r].part = 0
        /\ req[r].pc \notin {"idle", "next", "end"} => k \in Part
        /\ Freed(r) /\ Key(r) = k
    BY KeyIsPart DEF Inv, Tidy, Copy, Recorded
  <1>2. /\ tmp \in [Part -> Size \cup {Nil}] /\ part \in [Part -> Size \cup {Nil}]
        /\ final \in [Part -> Size \cup {Nil}] /\ saved \in [Part -> Size \cup {Nil}]
    BY DEF Inv, TypeOK
  <1>g. ASSUME NEW pc \in Steps, Goto(r, pc)
        PROVE  /\ req'[r].pc = pc /\ req'[r].part = req[r].part
               /\ req'[r].stored = req[r].stored /\ Key(r)' = k
    BY <1>g, GotoStep DEF Inv, SameCopy, Key
  <1>t. ASSUME NEW pc \in Steps, Goto(r, pc), gone' = gone, Freed(r)',
               pc \in {"next", "end"} /\ r \notin gone => \A i \in Part : i = k => Cleared(i)'
        PROVE  Tidy(r)'
    BY <1>g, <1>t, TidyStep DEF Kept
  <1>3. CASE Start(r)
    <2>1. Goto(r, "next") /\ gone' = gone /\ k \notin Part
      BY <1>1, <1>3 DEF Start, At, Part, Key
    <2>2. Freed(r)'
      BY <1>g, <2>1 DEF Freed, Steps
    <2> QED
      BY <1>t, <2>1, <2>2 DEF Steps
  <1>4. CASE Respond(r)
    <2>1. Goto(r, "end") /\ UNCHANGED Tables /\ req[r].pc = "next"
      BY <1>4 DEF Respond, At, Tables
    <2>2. Freed(r)'
      BY <1>g, <2>1 DEF Freed, Steps
    <2>3. ASSUME r \notin gone, NEW i \in Part, i = k PROVE Cleared(i)'
      BY <2>1, <2>3 DEF Tidy, Finished, Key, Part, Cleared, Tables
    <2> QED
      BY <1>t, <2>1, <2>2, <2>3 DEF Steps, Tables
  <1>5. CASE CreateTemp(r)
    <2>1. /\ Goto(r, "check") /\ gone' = gone /\ req[r].pc = "create"
          /\ part' = part /\ final' = final
      BY <1>5 DEF CreateTemp, At
    <2>2. Freed(r)'
      BY <1>1, <1>g, <2>1 DEF Freed, Steps
    <2> QED
      BY <1>t, <2>1, <2>2 DEF Steps
  <1>6. CASE CopyEnds(r)
    <2>1. /\ Goto(r, "publish") /\ gone' = gone /\ req[r].pc = "read"
          /\ part' = part /\ final' = final
      BY <1>6 DEF CopyEnds, At
    <2>2. Freed(r)'
      BY <1>1, <1>g, <2>1 DEF Freed, Steps
    <2> QED
      BY <1>t, <2>1, <2>2 DEF Steps
  <1>7. CASE AwaitFiller(r)
    <2>1. PICK pc \in {"move", "discard"} : Goto(r, pc)
      BY <1>7 DEF AwaitFiller
    <2>2. UNCHANGED Tables /\ req[r].pc = "await" /\ pc \in Steps
      BY <1>7 DEF AwaitFiller, At, Tables, Steps
    <2>3. Freed(r)'
      BY <1>1, <1>g, <2>1, <2>2 DEF Freed, Tables
    <2> QED
      BY <1>t, <2>1, <2>2, <2>3 DEF Tables
  <1>8. CASE DiscardPart(r)
    <2>1. PICK pc \in {"next", "end"} : Goto(r, pc)
      BY <1>8 DEF DiscardPart
    <2>2. /\ tmp' = tmp /\ final' = final /\ saved' = saved /\ gone' = gone
          /\ req[r].pc = "discard" /\ pc \in Steps
          /\ r \notin gone => part' = [part EXCEPT ![k] = Nil]
      BY <1>8 DEF DiscardPart, At, Steps
    <2>3. Freed(r)'
      BY <1>g, <2>1, <2>2 DEF Freed
    <2>4. ASSUME r \notin gone, NEW i \in Part, i = k PROVE Cleared(i)'
      BY <1>1, <1>2, <2>2, <2>4 DEF Freed, Cleared
    <2> HIDE DEF k
    <2> QED
      BY <1>t, <2>1, <2>2, <2>3, <2>4
  <1>9. CASE MoveToFinal(r)
    <2>1. tmp' = tmp /\ saved' = saved /\ gone' = gone /\ req[r].pc = "move"
      BY <1>9 DEF MoveToFinal, At
    <2>2. CASE Goto(r, "quota") /\ part' = [part EXCEPT ![k] = Nil]
      <3>1. Freed(r)'
        BY <1>1, <1>2, <1>g, <2>1, <2>2 DEF Freed, Steps
      <3> QED
        BY <1>t, <2>1, <2>2, <3>1 DEF Steps
    <2>3. CASE Goto(r, "discard") /\ UNCHANGED <<part, final>>
      <3>1. Freed(r)'
        BY <1>1, <1>g, <2>1, <2>3 DEF Freed, Steps
      <3> QED
        BY <1>t, <2>1, <2>3, <3>1 DEF Steps
    <2> QED
      BY <1>9, <2>2, <2>3 DEF MoveToFinal
  <1>10. CASE CheckQuota(r)
    <2>1. PICK pc \in {"commit", "undo"} : Goto(r, pc)
      BY <1>10 DEF CheckQuota
    <2>2. UNCHANGED Tables /\ req[r].pc = "quota" /\ pc \in Steps
      BY <1>10 DEF CheckQuota, At, Tables, Steps
    <2>3. Freed(r)'
      BY <1>1, <1>g, <2>1, <2>2 DEF Freed, Tables
    <2> QED
      BY <1>t, <2>1, <2>2, <2>3 DEF Tables
  <1>11. CASE CommitFile(r)
    <2>1. tmp' = tmp /\ part' = part /\ final' = final /\ gone' = gone /\ req[r].pc = "commit"
      BY <1>11 DEF CommitFile, At
    <2>2. CASE Goto(r, "next") /\ saved' = [saved EXCEPT ![k] = req[r].read]
      <3>1. Freed(r)'
        BY <1>g, <2>2 DEF Freed, Steps
      <3>2. req[r].read # Nil
        BY DEF Inv, TypeOK, Task
      <3>3. ASSUME NEW i \in Part, i = k PROVE Cleared(i)'
        BY <1>1, <1>2, <2>1, <2>2, <3>2, <3>3 DEF Freed, Cleared
      <3> HIDE DEF k
      <3> QED
        BY <1>t, <2>1, <2>2, <3>1, <3>3 DEF Steps
    <2>3. CASE Goto(r, "undo")
      <3>1. Freed(r)'
        BY <1>1, <1>g, <2>1, <2>3 DEF Freed, Steps
      <3> QED
        BY <1>t, <2>1, <2>3, <3>1 DEF Steps
    <2> QED
      BY <1>11, <2>2, <2>3 DEF CommitFile
  <1>12. CASE UndoFinal(r)
    <2>1. /\ Goto(r, "next") /\ tmp' = tmp /\ part' = part /\ gone' = gone /\ req[r].pc = "undo"
          /\ r \notin gone => final' = [final EXCEPT ![k] = Nil]
      BY <1>12 DEF UndoFinal, At
    <2>2. Freed(r)'
      BY <1>g, <2>1 DEF Freed, Steps
    <2>3. ASSUME r \notin gone, NEW i \in Part, i = k PROVE Cleared(i)'
      BY <1>1, <1>2, <2>1, <2>3 DEF Freed, Cleared
    <2> HIDE DEF k
    <2> QED
      BY <1>t, <2>1, <2>2, <2>3 DEF Steps
  <1> QED
    BY <1>3, <1>4, <1>5, <1>6, <1>7, <1>8, <1>9, <1>10, <1>11, <1>12

(* Steps of PutStream that are of more than that.                           *)
LEMMA TidyPutStream ==
  ASSUME Inv, NEW r \in Request, Tidy(r), Kept(r),
         CheckContext(r) \/ CopyChunk(r) \/ Publish(r) \/ StoreFails(r)
  PROVE  Tidy(r)'
  <1> DEFINE k == Key(r)
  <1>1. /\ req[r].pc \in {"create", "check", "read", "publish"}
        /\ gone' = gone /\ final' = final /\ saved' = saved
    BY DEF CheckContext, CopyChunk, Publish, StoreFails, At
  <1>2. k \in Part /\ Freed(r) /\ req[r] \in Task /\ r \in DOMAIN req
    BY <1>1, KeyIsPart DEF Inv, TypeOK, Tidy, Copy, Recorded
  <1>3. tmp \in [Part -> Size \cup {Nil}] /\ part[k] = Nil /\ final[k] = Nil
    BY <1>1, <1>2 DEF Inv, TypeOK, Freed
  <1>t. ASSUME req'[r].part = req[r].part, req'[r].pc \in {"check", "read", "await"},
               req'[r].pc = "await" => tmp'[k] = Nil,
               part'[k] = Nil \/ (req'[r].pc = "await" /\ req'[r].stored)
        PROVE  Tidy(r)'
    <2>1. Key(r)' = k
      BY <1>t DEF Key
    <2>2. Freed(r)'
      BY <1>1, <1>3, <1>t, <2>1 DEF Freed
    <2> QED
      BY <1>1, <1>t, <2>2, TidyStep DEF Kept
  <1>4. CASE CheckContext(r)
    <2>1. CASE r \in gone
      <3>1. /\ tmp' = [tmp EXCEPT ![k] = Nil] /\ part' = part
            /\ req' = [req EXCEPT ![r] = [req[r] EXCEPT !.pc = "await", !.stored = FALSE]]
        BY <1>4, <2>1 DEF CheckContext
      <3>2. req'[r].part = req[r].part /\ req'[r].pc = "await"
        BY <1>2, <3>1 DEF Task
      <3> QED
        BY <1>2, <1>3, <1>t, <3>1, <3>2
    <2>2. CASE r \notin gone
      <3>1. part' = part /\ Goto(r, "read")
        BY <1>4, <2>2 DEF CheckContext
      <3>2. req'[r].part = req[r].part /\ req'[r].pc = "read"
        BY <3>1, GotoStep DEF Inv, SameCopy, Steps
      <3> QED
        BY <1>3, <1>t, <3>1, <3>2
    <2> QED
      BY <2>1, <2>2
  <1>5. CASE CopyChunk(r)
    <2>1. /\ part' = part
          /\ req' = [req EXCEPT ![r] = [req[r] EXCEPT !.pc = "check", !.pipe = ReadFrom(@)]]
      BY <1>5 DEF CopyChunk
    <2>2. req'[r].part = req[r].part /\ req'[r].pc = "check"
      BY <1>2, <2>1 DEF Task
    <2> QED
      BY <1>3, <1>t, <2>1, <2>2
  <1>6. CASE Publish(r)
    <2>1. /\ tmp' = [tmp EXCEPT ![k] = Nil]
          /\ req' = [req EXCEPT ![r] = [req[r] EXCEPT !.pc = "await", !.stored = TRUE]]
      BY <1>6 DEF Publish
    <2>2. req'[r].part = req[r].part /\ req'[r].pc = "await" /\ req'[r].stored
      BY <1>2, <2>1 DEF Task
    <2> QED
      BY <1>2, <1>3, <1>t, <2>1, <2>2
  <1>7. CASE StoreFails(r)
    <2> DEFINE p == IF At(r, "read") THEN ReadFrom(req[r].pipe) ELSE req[r].pipe
    <2>1. /\ tmp' = [tmp EXCEPT ![k] = Nil] /\ part' = part
          /\ req' = [req EXCEPT ![r] = [req[r] EXCEPT !.pc = "await", !.stored = FALSE, !.pipe = p]]
      BY <1>7 DEF StoreFails
    <2> HIDE DEF p
    <2>2. req'[r].part = req[r].part /\ req'[r].pc = "await"
      BY <1>2, <2>1 DEF Task
    <2> QED
      BY <1>2, <1>3, <1>t, <2>1, <2>2
  <1> QED
    BY <1>4, <1>5, <1>6, <1>7

LEMMA TidyNextPart ==
  ASSUME Inv, NEW r \in Request, Tidy(r), NextPart(r)
  PROVE  Tidy(r)'
  <1> DEFINE t == [NoTask EXCEPT !.pc = "create", !.filler = "read", !.part = req[r].part + 1]
             k == <<r, req[r].part + 1>>
  <1>1. /\ req' = [req EXCEPT ![r] = t] /\ UNCHANGED Tables /\ req[r].pc = "next"
        /\ req[r].part \in 0..MaxParts /\ req[r].part < MaxParts /\ r \in DOMAIN req
    BY DEF NextPart, Tables, Inv, TypeOK, Task, At
  <1>2. t.pc = "create" /\ t.part = req[r].part + 1
    BY DEF NoTask
  <1> HIDE DEF t
  <1>3. req'[r].pc = "create" /\ req'[r].part = req[r].part + 1 /\ Key(r)' = k
    BY <1>1, <1>2 DEF Key
  <1>4. tmp'[k] = Nil /\ part'[k] = Nil /\ final'[k] = Nil
    BY <1>1 DEF Tidy, Tables
  <1>5. Freed(r)'
    BY <1>3, <1>4 DEF Freed
  <1>6. ASSUME NEW n \in 1..MaxParts, n > req[r].part + 1
        PROVE  tmp'[<<r, n>>] = Nil /\ part'[<<r, n>>] = Nil /\ final'[<<r, n>>] = Nil
    BY <1>1, <1>6 DEF Tidy, Tables
  <1>7. ASSUME NEW n \in 1..MaxParts, Finished(r, n)', r \notin gone'
        PROVE  Cleared(<<r, n>>)'
    <2>1. Finished(r, n) /\ r \notin gone
      BY <1>1, <1>3, <1>7 DEF Finished, Tables
    <2> QED
      BY <1>1, <2>1 DEF Tidy, Cleared, Tables
  <1> QED
    BY <1>3, <1>5, <1>6, <1>7 DEF Tidy

(* The rows of the others.                                                  *)
LEMMA TidyOthers ==
  ASSUME Inv, NEW r \in Request, Elsewhere(r), gone \subseteq gone', NEW q \in Request, q # r,
         Tidy(q)
  PROVE  Tidy(q)'
  <1>1. req'[q] = req[q] /\ Key(q)' = Key(q)
    BY DEF Elsewhere, Key
  <1>2. ASSUME NEW n \in 1..MaxParts
        PROVE  /\ tmp'[<<q, n>>] = tmp[<<q, n>>] /\ part'[<<q, n>>] = part[<<q, n>>]
               /\ final'[<<q, n>>] = final[<<q, n>>] /\ saved'[<<q, n>>] = saved[<<q, n>>]
    BY DEF Elsewhere, Part, Key
  <1>3. ASSUME req[q].pc \notin {"idle", "next", "end"}
        PROVE  /\ tmp'[Key(q)] = tmp[Key(q)] /\ part'[Key(q)] = part[Key(q)]
               /\ final'[Key(q)] = final[Key(q)]
    <2>1. Key(q) \in Part /\ Key(q) # Key(r)
      BY <1>3, KeyIsPart DEF Inv, Copy, Recorded, Key
    <2> QED
      BY <2>1 DEF Elsewhere
  <1>4. Freed(q)'
    BY <1>1, <1>3 DEF Tidy, Freed
  <1>5. ASSUME NEW n \in 1..MaxParts
        PROVE  /\ n > req'[q].part =>
                    tmp'[<<q, n>>] = Nil /\ part'[<<q, n>>] = Nil /\ final'[<<q, n>>] = Nil
               /\ Finished(q, n)' /\ q \notin gone' => Cleared(<<q, n>>)'
    BY <1>1, <1>2 DEF Tidy, Finished, Cleared
  <1> QED
    BY <1>4, <1>5 DEF Tidy

LEMMA StepKeepsTidy == Inv /\ TidyInv /\ [Next]_vars => TidyInv'
  <1> SUFFICES ASSUME Inv, TidyInv, [Next]_vars, NEW q \in Request PROVE Tidy(q)'
    BY DEF TidyInv
  <1>0. Tidy(q)
    BY DEF TidyInv
  <1>1. ASSUME NEW r \in Request, Start(r) \/ Fill(r) \/ Handle(r) PROVE Kept(r)
    BY <1>1, QuietGoto, FillKept, NextPartKept, PutStreamKept, SettleKept
       DEF Handle, Start, Respond, Tables, Steps
  <1>2. ASSUME NEW r \in Request, Start(r) \/ Fill(r) \/ Handle(r) PROVE gone' = gone
    <2>1. CASE Start(r) \/ Fill(r)
      BY <2>1 DEF Start, Fill, ReadChunk, ReadEOF, ReadFails, WriteReturns
    <2>2. CASE Handle(r)
      BY <2>2 DEF Handle, NextPart, Respond, CreateTemp, CheckContext, CopyChunk, CopyEnds, Publish,
         StoreFails, AwaitFiller, DiscardPart, MoveToFinal, CheckQuota, CommitFile, UndoFinal
    <2> QED
      BY <1>2, <2>1, <2>2
  <1>3. ASSUME NEW r \in Request, r = q, Start(r) \/ Fill(r) \/ Handle(r) PROVE Tidy(q)'
    <2>1. Kept(r) /\ Tidy(r)
      BY <1>0, <1>1, <1>3
    <2>2. CASE Start(r)
      BY <1>3, <2>1, <2>2, TidyGoto
    <2>3. CASE Fill(r)
      BY <1>3, <2>1, <2>3, TidyFill
    <2>4. CASE Handle(r)
      BY <1>3, <2>1, <2>4, TidyGoto, TidyPutStream, TidyNextPart DEF Handle
    <2> QED
      BY <1>3, <2>2, <2>3, <2>4
  <1>4. ASSUME NEW r \in Request, r # q, Start(r) \/ Fill(r) \/ Handle(r) PROVE Tidy(q)'
    <2>1. Elsewhere(r) /\ gone' = gone
      BY <1>1, <1>2, <1>4 DEF Kept
    <2> QED
      BY <1>0, <1>4, <2>1, TidyOthers
  <1>5. ASSUME UNCHANGED <<body, req, tmp, part, final, saved, doubted>>, gone \subseteq gone'
        PROVE  Tidy(q)'
    <2>1. Key(q)' = Key(q)
      BY <1>5 DEF Key
    <2>2. Freed(q)'
      BY <1>0, <1>5, <2>1 DEF Tidy, Freed
    <2> QED
      BY <1>0, <1>5, <2>2 DEF Tidy, Finished, Cleared
  <1>6. ASSUME NEW r \in Request, HangUp(r) PROVE Tidy(q)'
    BY <1>5, <1>6 DEF HangUp
  <1>7. CASE UNCHANGED vars
    BY <1>5, <1>7 DEF vars
  <1> QED
    BY <1>3, <1>4, <1>6, <1>7 DEF Next

LEMMA InitTidy == Init => TidyInv
  <1> SUFFICES ASSUME Init, NEW r \in Request PROVE Tidy(r)
    BY DEF TidyInv
  <1>1. req[r].pc = "idle" /\ req[r].part = 0
    BY DEF Init, NoTask
  <1>2. ASSUME NEW n \in 1..MaxParts
        PROVE  tmp[<<r, n>>] = Nil /\ part[<<r, n>>] = Nil /\ final[<<r, n>>] = Nil
    BY DEF Init, Part
  <1> QED
    BY <1>1, <1>2 DEF Tidy, Freed, Finished

(* However parts fail, none of them leaves a temporary name or an object    *)
(* without a row, as long as the client stays.                              *)
THEOREM LeavesNothing == Spec => []NothingLeftBehind
  <1>1. TidyInv => NothingLeftBehind
    BY DEF TidyInv, Tidy, Cleared, NothingLeftBehind
  <1>2. Inv /\ TidyInv /\ [Next]_vars => (Inv /\ TidyInv)'
    BY StepKeepsInv, StepKeepsTidy
  <1> QED
    BY <1>1, <1>2, InitInv, InitTidy, PTL DEF Spec
=============================================================================
