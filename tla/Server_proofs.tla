---------------------------- MODULE Server_proofs ----------------------------
(***************************************************************************)
(* Proofs about the parts of the server that share no state: ranges and the *)
(* responses made of them, zip downloads, the rate limit and the migrations *)
(* (multipart uploads are in DirectUploads_proofs), and about all of them   *)
(* together.  Each part has an invariant of its own that its next-state     *)
(* relation keeps; a step of the server is a step of one part and leaves    *)
(* the others as they are.                                                  *)
(***************************************************************************)
EXTENDS MCServer, Sequences, DirectUploads_proofs, Sums_proofs

-----------------------------------------------------------------------------
(* What parseSingleRange and GetRangeStream give together, for any header   *)
(* and any object.                                                          *)

(* A refusal has no interval; an interval that is not refused lies in the   *)
(* object it was made for, or is the one before the start of an empty one.  *)
LEMMA ParsedShape ==
  ASSUME NEW h \in Header, NEW size \in Nat
  PROVE  LET asked == ParseSingleRange(h, size) IN
         /\ asked.ok \in BOOLEAN /\ asked.start \in Nat /\ asked.end \in Int
         /\ asked.ok => asked.end < size /\ asked.start <= asked.end + 1
  <1>1. h.first \in Nat \cup {None} /\ h.last \in Nat \cup {None}
    BY DEF Header
  <1>2. CASE h.first = None
    BY <1>1, <1>2 DEF ParseSingleRange, Suffix, Smaller, Refused, Interval
  <1>3. CASE h.first # None
    BY <1>1, <1>3 DEF ParseSingleRange, From, Smaller, Refused, Interval
  <1> QED
    BY <1>2, <1>3

(* The parser refuses a header only if no byte of the object is asked for.  *)
LEMMA RefusedAsksNothing ==
  ASSUME NEW h \in Header, NEW size \in Nat, ~ParseSingleRange(h, size).ok
  PROVE  Requested(h, size) = {}
  <1>1. h.first \in Nat \cup {None} /\ h.last \in Nat \cup {None}
    BY DEF Header
  <1>2. CASE h.first = None
    BY <1>1, <1>2 DEF ParseSingleRange, Suffix, Refused, Interval, Requested
  <1>3. CASE h.first # None
    BY <1>1, <1>3 DEF ParseSingleRange, From, Refused, Interval, Requested
  <1> QED
    BY <1>2, <1>3

(* Otherwise its interval is what is asked for.                             *)
LEMMA ParsedIsRequested ==
  ASSUME NEW h \in Header, NEW size \in Nat, ParseSingleRange(h, size).ok
  PROVE  LET asked == ParseSingleRange(h, size) IN asked.start..asked.end = Requested(h, size)
  <1> DEFINE asked == ParseSingleRange(h, size)
  <1>1. h.first \in Nat \cup {None} /\ h.last \in Nat \cup {None}
    BY DEF Header
  <1>2. CASE h.first = None
    <2>1. h.last \in Nat /\ asked = Interval(size - Smaller(h.last, size), size - 1)
      BY <1>1, <1>2 DEF ParseSingleRange, Suffix, Refused
    <2>2. \A i \in Int : i \in asked.start..asked.end <=> i \in Requested(h, size)
      BY <1>2, <2>1, NoneAssumption DEF Interval, Smaller, Requested
    <2> QED
      BY <2>2, ParsedShape DEF Requested
  <1>3. CASE h.first # None
    <2>1. /\ h.first \in Nat /\ h.first < size
          /\ asked = Interval(h.first, IF h.last = None THEN size - 1 ELSE Smaller(h.last, size - 1))
      BY <1>1, <1>3 DEF ParseSingleRange, From, Refused
    <2>2. \A i \in Int : i \in asked.start..asked.end <=> i \in Requested(h, size)
      BY <1>1, <1>3, <2>1, NoneAssumption DEF Interval, Smaller, Requested
    <2> QED
      BY <2>2, ParsedShape DEF Requested
  <1> QED
    BY <1>2, <1>3

(* A range is answered exactly when it asks for something the object has,   *)
(* and then with just that: also for the empty object, whose suffixes the   *)
(* parser lets pass as 0..-1 and GetRangeStream refuses, for suffixes       *)
(* longer than the object and for ends beyond it.                           *)
THEOREM RangesExact ==
  ASSUME NEW h \in Header, NEW size \in Nat
  PROVE  LET asked == ParseSingleRange(h, size)
             given == RangeStream(asked, size)
         IN /\ asked.ok /\ given.ok <=> Requested(h, size) # {}
            /\ asked.ok /\ given.ok => /\ given = asked
                                       /\ given.start..given.end = Requested(h, size)
  <1> DEFINE asked == ParseSingleRange(h, size)
             given == RangeStream(asked, size)
  <1>1. CASE ~asked.ok
    BY <1>1, RefusedAsksNothing
  <1>2. CASE asked.ok
    <2>1. /\ asked.start \in Nat /\ asked.end \in Int /\ asked.end < size
          /\ asked.start..asked.end = Requested(h, size)
      BY <1>2, ParsedShape, ParsedIsRequested
    <2>2. given = IF asked.end < asked.start THEN Refused ELSE Interval(asked.start, asked.end)
      BY <2>1 DEF RangeStream, Smaller
    <2>3. CASE asked.end < asked.start
      <3>1. ~given.ok /\ asked.start..asked.end = {}
        BY <2>1, <2>2, <2>3 DEF Refused
      <3> QED
        BY <2>1, <3>1
    <2>4. CASE ~(asked.end < asked.start)
      <3>1. given = Interval(asked.start, asked.end) /\ asked.start \in asked.start..asked.end
        BY <2>1, <2>2, <2>4
      <3>2. asked = Interval(asked.start, asked.end)
        BY <1>2 DEF ParseSingleRange, Suffix, From, Refused, Interval
      <3> QED
        BY <1>2, <2>1, <3>1, <3>2 DEF Interval
    <2> QED
      BY <2>3, <2>4
  <1> QED
    BY <1>1, <1>2

(* Whatever has become of the object since its size was announced, what     *)
(* GetRangeStream reads lies in it and in the announced interval.           *)
THEOREM RangesInside ==
  ASSUME NEW h \in Header, NEW size \in Nat, NEW found \in Nat, ParseSingleRange(h, size).ok
  PROVE  LET asked == ParseSingleRange(h, size)
             given == RangeStream(asked, found)
         IN given.ok => /\ given.start..given.end \subseteq 0..found - 1
                        /\ given.start..given.end \subseteq asked.start..asked.end
  <1> DEFINE asked == ParseSingleRange(h, size)
             given == RangeStream(asked, found)
  <1>1. asked.start \in Nat /\ asked.end \in Int
    BY ParsedShape
  <1> HIDE DEF asked
  <1>2. SUFFICES ASSUME given.ok PROVE /\ given.start..given.end \subseteq 0..found - 1
                                       /\ given.start..given.end \subseteq asked.start..asked.end
    BY DEF asked
  <1>3. /\ given = Interval(asked.start, Smaller(asked.end, found - 1))
        /\ asked.start < found
    BY <1>1, <1>2 DEF RangeStream, Refused
  <1> QED
    BY <1>1, <1>3 DEF Interval, Smaller
-----------------------------------------------------------------------------
(* Files and previews, by range.                                            *)

StreamShape ==
    /\ live \subseteq File
    /\ object \in [D!Key -> D!Object \cup {Nil}]
    /\ stored \in 0..MaxStored
    /\ stream \in [Stream -> D!Streaming]

(* The positions that a request asks for, in an object of this size.        *)
AskedOf(range, size) == IF range = Nil THEN 0..size - 1 ELSE Requested(range, size)

(* What a response promises when the object is still the one announced.     *)
Promised(t) ==
    LET asked == AskedOf(t.range, t.info.size) IN
    /\ t.status = 416 => asked = {}
    /\ t.status = 206 => asked # {}
    /\ t.status \in {200, 206} =>
         /\ t.length = Cardinality(asked)
         /\ t.sent \subseteq asked
         /\ \A i \in t.sent, j \in asked : j < i => j \in t.sent

Served(t) ==
    /\ t.pc \in {"idle", "row", "stat"} => t.info = Nil
    /\ t.pc \in {"idle", "row", "stat", "open"} => t.file = Nil
    /\ t.pc \in {"open", "send"} => t.info # Nil
    /\ t.pc \in {"send", "end"} /\ t.info # Nil /\ t.file = t.info => Promised(t)

StreamInv == StreamShape /\ \A s \in Stream : Served(stream[s])

LEMMA CardinalityIn ==
  ASSUME NEW S
  PROVE  D!Cardinality(S) = Cardinality(S)
  BY DEF D!Cardinality, Cardinality

LEMMA StreamInvImplies == StreamInv => D!RangeAsRequested
  <1> SUFFICES ASSUME StreamInv PROVE D!RangeAsRequested
    OBVIOUS
  <1>1. \A s \in Stream :
          stream[s].pc = "end" /\ stream[s].info # Nil /\ stream[s].file = stream[s].info
            => Promised(stream[s])
    BY DEF StreamInv, Served
  <1>2. \A h, size : D!Requested(h, size) = Requested(h, size)
    BY DEF D!Requested, Requested
  <1> QED
    BY <1>1, <1>2, CardinalityIn DEF D!RangeAsRequested, Promised, AskedOf

LEMMA NotStreamingFits == D!NotStreaming \in D!Streaming /\ Served(D!NotStreaming)
  <1>1. Nil \notin D!Object /\ Preview \in D!Key
    BY ItemAssumption DEF D!Key
  <1> QED
    BY <1>1, SizeAssumption DEF D!NotStreaming, D!Streaming, Served, D!Bytes

LEMMA InitStreamInv == D!Init => StreamInv
  <1> SUFFICES ASSUME D!Init PROVE StreamInv
    OBVIOUS
  <1>1. StreamShape
    BY NotStreamingFits, SizeAssumption DEF D!Init, StreamShape
  <1> QED
    BY <1>1, NotStreamingFits DEF D!Init, StreamInv

(* A step of one request.                                                   *)
LEMMA StreamMoves ==
  ASSUME StreamInv, NEW s \in Stream, UNCHANGED <<live, object, stored>>,
         NEW t \in D!Streaming, Served(t), stream' = [stream EXCEPT ![s] = t]
  PROVE  StreamInv'
  <1>1. StreamShape'
    BY DEF StreamInv, StreamShape
  <1>2. stream'[s] = t /\ \A r \in Stream \ {s} : stream'[r] = stream[r]
    BY DEF StreamInv, StreamShape
  <1> QED
    BY <1>1, <1>2 DEF StreamInv

(* One field of a request is given a value of its kind.                     *)
LEMMA PcSet ==
  ASSUME NEW x \in D!Streaming, NEW v \in {"idle", "row", "stat", "open", "send", "end"}
  PROVE  [x EXCEPT !.pc = v] \in D!Streaming
  BY DEF D!Streaming

LEMMA KeySet ==
  ASSUME NEW x \in D!Streaming, NEW v \in D!Key
  PROVE  [x EXCEPT !.key = v] \in D!Streaming
  BY DEF D!Streaming

LEMMA RangeSet ==
  ASSUME NEW x \in D!Streaming, NEW v \in D!Asked \cup {Nil}
  PROVE  [x EXCEPT !.range = v] \in D!Streaming
  BY DEF D!Streaming

LEMMA InfoSet ==
  ASSUME NEW x \in D!Streaming, NEW v \in D!Object \cup {Nil}
  PROVE  [x EXCEPT !.info = v] \in D!Streaming
  BY DEF D!Streaming

LEMMA FileSet ==
  ASSUME NEW x \in D!Streaming, NEW v \in D!Object \cup {Nil}
  PROVE  [x EXCEPT !.file = v] \in D!Streaming
  BY DEF D!Streaming

Statuses == {0, 200, 206, 400, 404, 416, 500}

LEMMA StatusSet ==
  ASSUME NEW x \in D!Streaming, NEW v \in Statuses
  PROVE  [x EXCEPT !.status = v] \in D!Streaming
  BY DEF D!Streaming, Statuses

LEMMA SentSet ==
  ASSUME NEW x \in D!Streaming, NEW v \in SUBSET D!Bytes
  PROVE  [x EXCEPT !.sent = v] \in D!Streaming
  BY DEF D!Streaming

LEMMA LengthSet ==
  ASSUME NEW x \in D!Streaming, NEW v \in Int
  PROVE  [x EXCEPT !.length = v] \in D!Streaming
  BY DEF D!Streaming

(* What a request is answered, with the object found; and with a body.      *)
Found(x, pc, status, o) == [x EXCEPT !.pc = pc, !.status = status, !.file = o]

Given(x, status, o, length, sent) ==
    [Found(x, "send", status, o) EXCEPT !.length = length, !.sent = sent]

LEMMA FoundFits ==
  ASSUME NEW x \in D!Streaming, NEW pc \in {"send", "end"}, NEW status \in Statuses,
         NEW o \in D!Object \cup {Nil}
  PROVE  Found(x, pc, status, o) \in D!Streaming
  <1>1. PICK a \in D!Streaming : a = [x EXCEPT !.pc = pc]
    BY PcSet
  <1>2. PICK b \in D!Streaming : b = [a EXCEPT !.status = status]
    BY StatusSet
  <1>3. [b EXCEPT !.file = o] \in D!Streaming
    BY FileSet
  <1> QED
    BY <1>1, <1>2, <1>3 DEF Found

LEMMA GivenFits ==
  ASSUME NEW x \in D!Streaming, NEW status \in Statuses,
         NEW o \in D!Object \cup {Nil}, NEW length \in Int, NEW sent \in SUBSET D!Bytes
  PROVE  Given(x, status, o, length, sent) \in D!Streaming
  <1>1. PICK c \in D!Streaming : c = Found(x, "send", status, o)
    BY FoundFits
  <1>2. PICK d \in D!Streaming : d = [c EXCEPT !.length = length]
    BY LengthSet
  <1>3. [d EXCEPT !.sent = sent] \in D!Streaming
    BY SentSet
  <1> QED
    BY <1>1, <1>2, <1>3 DEF Given

(* Ending a request that has nothing to send.                               *)
LEMMA StreamEnds ==
  ASSUME StreamInv, NEW s \in Stream, UNCHANGED <<live, object, stored>>,
         NEW status \in Statuses, D!End(s, status),
         stream[s].info = Nil \/ stream[s].file = Nil
  PROVE  StreamInv'
  <1> DEFINE t == [stream[s] EXCEPT !.pc = "end", !.status = status]
  <1>1. stream[s] \in D!Streaming /\ stream \in [Stream -> D!Streaming]
    BY DEF StreamInv, StreamShape
  <1>2. t.info = stream[s].info /\ t.file = stream[s].file /\ t.pc = "end"
    BY <1>1 DEF D!Streaming
  <1>3. t \in D!Streaming
    <2>1. PICK a \in D!Streaming : a = [stream[s] EXCEPT !.pc = "end"]
      BY <1>1, PcSet
    <2>2. [a EXCEPT !.status = status] \in D!Streaming
      BY StatusSet
    <2> QED
      BY <2>1, <2>2
  <1>4. stream' = [stream EXCEPT ![s] = t]
    BY <1>1 DEF D!End
  <1> HIDE DEF t
  <1>5. Served(t)
    BY <1>2 DEF Served
  <1> QED
    BY <1>3, <1>4, <1>5, StreamMoves

LEMMA RangesIn ==
  ASSUME NEW h, NEW size, NEW interval
  PROVE  /\ D!ParseSingleRange(h, size) = ParseSingleRange(h, size)
         /\ D!RangeStream(interval, size) = RangeStream(interval, size)
  BY DEF D!ParseSingleRange, D!Suffix, D!From, D!Smaller, D!Refused, D!Interval, D!RangeStream,
         ParseSingleRange, Suffix, From, Smaller, Refused, Interval, RangeStream

(* The requests that are looked up, and an object that is found.            *)
LEMMA StreamLookup ==
  ASSUME StreamInv, NEW s \in Stream, D!FindRow(s) \/ D!RefuseStream(s) \/ D!StatObject(s)
  PROVE  StreamInv'
  <1> DEFINE x == stream[s]
  <1>1. /\ x \in D!Streaming /\ stream \in [Stream -> D!Streaming] /\ Served(x)
        /\ UNCHANGED <<live, object, stored>>
    BY DEF StreamInv, StreamShape, D!FindRow, D!RefuseStream, D!StatObject
  <1>2. {400, 404} \subseteq Statuses
    BY DEF Statuses
  <1>3. x.pc \in {"row", "stat"} /\ x.info = Nil /\ x.file = Nil
    BY <1>1 DEF D!FindRow, D!RefuseStream, D!StatObject, Served
  <1>4. CASE D!End(s, 400) \/ D!End(s, 404)
    BY <1>1, <1>2, <1>3, <1>4, StreamEnds
  <1>5. CASE stream' = [stream EXCEPT ![s].pc = "stat"]
    <2>1. PICK t \in D!Streaming : t = [x EXCEPT !.pc = "stat"]
      BY <1>1, PcSet
    <2>2. stream' = [stream EXCEPT ![s] = t]
      BY <1>1, <1>5, <2>1
    <2>3. t.pc = "stat" /\ t.info = Nil /\ t.file = Nil
      BY <1>1, <1>3, <2>1 DEF D!Streaming
    <2> QED
      BY <1>1, <2>2, <2>3, StreamMoves DEF Served
  <1>6. ASSUME NEW o \in D!Object, stream' = [stream EXCEPT ![s].pc = "open", ![s].info = o]
        PROVE  StreamInv'
    <2>1. PICK a \in D!Streaming : a = [x EXCEPT !.pc = "open"]
      BY <1>1, PcSet
    <2>2. PICK t \in D!Streaming : t = [a EXCEPT !.info = o]
      BY InfoSet
    <2>3. t = [x EXCEPT !.pc = "open", !.info = o]
      BY <2>1, <2>2
    <2>4. stream' = [stream EXCEPT ![s] = t]
      BY <1>1, <1>6, <2>3
    <2>5. t.pc = "open" /\ t.info = o /\ t.file = Nil
      BY <1>1, <1>3, <2>3 DEF D!Streaming
    <2> QED
      BY <1>1, <2>4, <2>5, ItemAssumption, StreamMoves DEF Served
  <1>7. object[x.key] \in D!Object \cup {Nil}
    BY <1>1 DEF StreamInv, StreamShape, D!Streaming
  <1> QED
    BY <1>4, <1>5, <1>6, <1>7 DEF D!FindRow, D!RefuseStream, D!StatObject

LEMMA StreamStarts ==
  ASSUME StreamInv, NEW s \in Stream, NEW k \in D!Key, NEW h \in D!Asked \cup {Nil},
         D!StartStream(s, k, h)
  PROVE  StreamInv'
  <1>1. PICK a \in D!Streaming : a = [D!NotStreaming EXCEPT !.pc = "row"]
    BY NotStreamingFits, PcSet
  <1>2. PICK b \in D!Streaming : b = [a EXCEPT !.key = k]
    BY KeySet
  <1>3. PICK t \in D!Streaming : t = [b EXCEPT !.range = h]
    BY RangeSet
  <1>4. t = [D!NotStreaming EXCEPT !.pc = "row", !.key = k, !.range = h]
    BY <1>1, <1>2, <1>3
  <1>5. t.pc = "row" /\ t.info = Nil /\ t.file = Nil
    BY <1>4 DEF D!NotStreaming
  <1>6. Served(t) /\ stream' = [stream EXCEPT ![s] = t] /\ UNCHANGED <<live, object, stored>>
    BY <1>4, <1>5 DEF Served, D!StartStream
  <1> QED
    BY <1>6, StreamMoves

(* A body that breaks off keeps its beginning.                              *)
LEMMA StreamSends ==
  ASSUME StreamInv, NEW s \in Stream, D!SendBody(s)
  PROVE  StreamInv'
  <1> DEFINE x == stream[s]
             First(n) == {i \in x.sent : D!Cardinality({j \in x.sent : j < i}) < n}
  <1>1. /\ x \in D!Streaming /\ stream \in [Stream -> D!Streaming] /\ Served(x) /\ x.pc = "send"
        /\ UNCHANGED <<live, object, stored>>
    BY DEF StreamInv, StreamShape, D!SendBody
  <1>2. PICK n \in Int : stream' = [stream EXCEPT ![s].pc = "end", ![s].sent = First(n)]
    BY DEF D!SendBody
  <1>3. x.sent \in SUBSET D!Bytes /\ D!Bytes \subseteq Nat /\ IsFiniteSet(D!Bytes)
    <2>1. x.sent \in SUBSET D!Bytes
      BY <1>1 DEF D!Streaming
    <2>2. D!Bytes \subseteq Nat
      BY SizeAssumption DEF D!Bytes
    <2>3. IsFiniteSet(D!Bytes)
      BY SizeAssumption, FS_Interval DEF D!Bytes
    <2> QED
      BY <2>1, <2>2, <2>3
  <1> DEFINE kept == First(n)
  <1>4. kept \in SUBSET x.sent /\ kept \in SUBSET D!Bytes
    BY <1>3
  <1>5. \A i \in kept, j \in x.sent : j < i => j \in kept
    <2> SUFFICES ASSUME NEW i \in kept, NEW j \in x.sent, j < i
                 PROVE  D!Cardinality({k \in x.sent : k < j}) < n
      OBVIOUS
    <2> DEFINE I == {k \in x.sent : k < i}
               J == {k \in x.sent : k < j}
    <2>1. D!Cardinality(I) < n /\ i \in x.sent
      OBVIOUS
    <2>2. J \in SUBSET I /\ I \in SUBSET D!Bytes
      <3>1. \A m \in D!Bytes : m \in Nat
        BY <1>3
      <3>2. i \in Nat /\ j \in Nat /\ x.sent \subseteq Nat
        BY <1>3, <2>1, <3>1
      <3>3. \A k \in Nat : k < j => k < i
        BY <3>2
      <3>4. \A k \in x.sent : k < j => k < i
        <4> HIDE DEF x, First
        <4> QED
          BY <3>2, <3>3
      <3> QED
        BY <1>3, <3>4
    <2> HIDE DEF I, J, kept
    <2>3. IsFiniteSet(I) /\ IsFiniteSet(J) /\ Cardinality(J) <= Cardinality(I)
      BY <1>3, <2>2, FS_Subset
    <2>4. Cardinality(I) \in Nat /\ Cardinality(J) \in Nat
      BY <2>3, FS_CardinalityType
    <2>5. Cardinality(J) < n
      BY <1>2, <2>1, <2>3, <2>4, CardinalityIn
    <2> QED
      BY <2>5, CardinalityIn DEF J
  <1>6. stream' = [stream EXCEPT ![s].pc = "end", ![s].sent = kept]
    BY <1>2
  <1> HIDE DEF kept
  <1>7. PICK a \in D!Streaming : a = [x EXCEPT !.pc = "end"]
    BY <1>1, PcSet
  <1>8. PICK t \in D!Streaming : t = [a EXCEPT !.sent = kept]
    BY <1>4, SentSet
  <1>9. t = [x EXCEPT !.pc = "end", !.sent = kept]
    BY <1>7, <1>8
  <1>10. stream' = [stream EXCEPT ![s] = t]
    BY <1>1, <1>6, <1>9
  <1>11. /\ t.pc = "end" /\ t.sent = kept /\ t.info = x.info /\ t.file = x.file
         /\ t.range = x.range /\ t.status = x.status /\ t.length = x.length
    BY <1>1, <1>9 DEF D!Streaming
  <1>12. Served(t)
    <2> SUFFICES ASSUME t.info # Nil, t.file = t.info PROVE Promised(t)
      BY <1>11 DEF Served
    <2>1. Promised(x)
      BY <1>1, <1>11 DEF Served
    <2> DEFINE asked == AskedOf(x.range, x.info.size)
    <2>2. AskedOf(t.range, t.info.size) = asked
      BY <1>11
    <2>3. t.status \in {200, 206} =>
            kept \subseteq asked /\ \A i \in kept, j \in asked : j < i => j \in kept
      <3> SUFFICES ASSUME t.status \in {200, 206}
                   PROVE  kept \subseteq asked /\ \A i \in kept, j \in asked : j < i => j \in kept
        OBVIOUS
      <3>1. x.sent \subseteq asked /\ \A i \in x.sent, j \in asked : j < i => j \in x.sent
        BY <1>11, <2>1 DEF Promised
      <3> HIDE DEF asked
      <3> QED
        BY <1>4, <1>5, <3>1
    <2> HIDE DEF asked
    <2> QED
      BY <1>11, <2>1, <2>2, <2>3 DEF Promised, asked
  <1> QED
    BY <1>1, <1>10, <1>12, StreamMoves

(* What a response is made of, when an object is opened.                    *)
LEMMA StreamOpens ==
  ASSUME StreamInv, NEW s \in Stream, UNCHANGED <<live, object, stored>>, stream[s].pc = "open",
         NEW t \in D!Streaming, t.pc \in {"send", "end"}, t.info = stream[s].info,
         stream' = [stream EXCEPT ![s] = t], t.file = t.info => Promised(t)
  PROVE  StreamInv'
  <1>1. Served(stream[s])
    BY DEF StreamInv
  <1>2. t.info # Nil
    BY <1>1 DEF Served
  <1>3. Served(t)
    BY <1>2 DEF Served
  <1> QED
    BY <1>3, StreamMoves

LEMMA AskedIsHeader == D!Asked \subseteq Header
  BY SizeAssumption DEF D!Asked, D!Position, Header

LEMMA ObjectSize ==
  ASSUME NEW o \in D!Object
  PROVE  o.size \in Nat /\ 0..o.size - 1 \in SUBSET D!Bytes
  BY SizeAssumption DEF D!Object, D!Bytes

LEMMA ObjectOpened ==
  ASSUME StreamInv, NEW s \in Stream, D!OpenObject(s)
  PROVE  StreamInv'
  <1> DEFINE x == stream[s]
             o == object[x.key]
             h == x.range
             size == x.info.size
             asked == ParseSingleRange(h, size)
             given == RangeStream(asked, o.size)
  <1>1. /\ x \in D!Streaming /\ stream \in [Stream -> D!Streaming] /\ Served(x) /\ x.pc = "open"
        /\ UNCHANGED <<live, object, stored>>
    BY DEF StreamInv, StreamShape, D!OpenObject
  <1>2. x.info \in D!Object /\ x.file = Nil /\ h \in D!Asked \cup {Nil} /\ o \in D!Object \cup {Nil}
    BY <1>1 DEF Served, D!Streaming, StreamInv, StreamShape
  <1>3. size \in Nat /\ 0..size - 1 \in SUBSET D!Bytes
    BY <1>2, ObjectSize
  <1>4. /\ D!ParseSingleRange(h, size) = asked
        /\ D!RangeStream(asked, o.size) = given
    BY RangesIn
  <1>5. 200 \in Statuses /\ 206 \in Statuses /\ 416 \in Statuses /\ 500 \in Statuses
    BY DEF Statuses
  <1>6. stream \in [Stream -> D!Streaming] /\ stream[s] = x
    BY <1>1
  <1>7. UNCHANGED <<live, object, stored>> /\ stream[s].pc = "open"
    BY <1>1
  <1>8. CASE h = Nil /\ o = Nil
    <2>1. D!End(s, 500)
      BY <1>1, <1>8 DEF D!OpenObject
    <2> QED
      BY <1>1, <1>2, <1>5, <2>1, StreamEnds
  <1>9. CASE h = Nil /\ o # Nil
    <2>1. stream' = [stream EXCEPT ![s].pc = "send", ![s].status = 200, ![s].file = o,
                                   ![s].length = size, ![s].sent = 0..o.size - 1]
      BY <1>1, <1>9 DEF D!OpenObject
    <2>2. o \in D!Object /\ o.size \in Nat /\ 0..o.size - 1 \in SUBSET D!Bytes
      BY <1>2, <1>9, ObjectSize
    <2> DEFINE sent == 0..o.size - 1
    <2> HIDE DEF x, o, size, h, sent
    <2>3. /\ x \in D!Streaming /\ o \in D!Object \cup {Nil} /\ size \in Int
          /\ sent \in SUBSET D!Bytes /\ 200 \in Statuses
      BY <1>1, <1>3, <1>5, <2>2 DEF sent
    <2>4. PICK t \in D!Streaming : t = Given(x, 200, o, size, sent)
      BY <2>3, GivenFits
    <2>5. t = [x EXCEPT !.pc = "send", !.status = 200, !.file = o,
                        !.length = size, !.sent = 0..o.size - 1]
      BY <2>4 DEF Given, Found, sent
    <2>6. /\ t.pc = "send" /\ t.info = x.info /\ t.range = x.range /\ t.file = o
          /\ t.status = 200 /\ t.length = size /\ t.sent = 0..o.size - 1
      BY <1>1, <2>5 DEF D!Streaming
    <2>7. stream' = [stream EXCEPT ![s] = t]
      BY <1>1, <2>1, <2>5, ZenonT(60) DEF x
    <2>8. ASSUME o = t.info PROVE Promised(t)
      <3>1. t.range = Nil /\ t.info.size = size /\ o.size = size
        BY <1>9, <2>6, <2>8 DEF x, size, h
      <3>2. AskedOf(t.range, t.info.size) = 0..size - 1
        BY <3>1 DEF AskedOf
      <3>3. Cardinality(0..size - 1) = size
        BY <1>3, FS_Interval
      <3>4. t.sent = 0..size - 1
        BY <2>6, <3>1
      <3> DEFINE bytes == 0..size - 1
      <3>5. AskedOf(t.range, t.info.size) = bytes /\ Cardinality(bytes) = size /\ t.sent = bytes
        BY <3>2, <3>3, <3>4
      <3>6. t.status = 200 /\ t.length = size /\ t.status # 206 /\ t.status # 416
        BY <2>6
      <3> HIDE DEF bytes
      <3> QED
        BY <3>5, <3>6 DEF Promised
    <2>9. t.pc \in {"send", "end"} /\ t.info = stream[s].info /\ t.file = o
      BY <1>6, <2>6
    <2> QED
      BY <1>7, <2>9, <2>7, <2>8, StreamOpens
  (* A refusal.                                                             *)
  <1>10. ASSUME stream' = [stream EXCEPT ![s].pc = "end", ![s].status = 416, ![s].file = o],
               o = x.info => AskedOf(h, size) = {}
        PROVE  StreamInv'
    <2> HIDE DEF x, o, size, h
    <2>1. x \in D!Streaming /\ o \in D!Object \cup {Nil} /\ 416 \in Statuses
      BY <1>1, <1>2, <1>5
    <2>2. PICK t \in D!Streaming : t = Found(x, "end", 416, o)
      BY <2>1, FoundFits
    <2>3. t = [x EXCEPT !.pc = "end", !.status = 416, !.file = o]
      BY <2>2 DEF Found
    <2>4. t.pc = "end" /\ t.info = x.info /\ t.range = x.range /\ t.file = o /\ t.status = 416
      BY <1>1, <2>3 DEF D!Streaming
    <2>5. stream' = [stream EXCEPT ![s] = t]
      BY <1>1, <1>10, <2>3, ZenonT(60) DEF x
    <2>6. o = t.info => AskedOf(t.range, t.info.size) = {}
      BY <1>10, <2>4 DEF x, size, h
    <2>7. o = t.info => Promised(t)
      BY <2>4, <2>6 DEF Promised
    <2>8. t.pc \in {"send", "end"} /\ t.info = stream[s].info /\ t.file = o
      BY <1>6, <2>4
    <2> QED
      BY <1>7, <2>8, <2>5, <2>7, StreamOpens
  <1>11. CASE h # Nil /\ (o = Nil \/ ~asked.ok)
    <2>1. stream' = [stream EXCEPT ![s].pc = "end", ![s].status = 416, ![s].file = o]
      BY <1>1, <1>4, <1>11 DEF D!OpenObject
    <2>2. h \in Header
      BY <1>2, <1>11, AskedIsHeader
    <2>3. o = x.info => ~asked.ok
      BY <1>2, <1>11, ItemAssumption
    <2>4. o = x.info => AskedOf(h, size) = {}
      BY <1>3, <1>11, <2>2, <2>3, RefusedAsksNothing DEF AskedOf
    <2> QED
      BY <1>10, <2>1, <2>4
  <1>12. CASE h # Nil /\ o # Nil /\ asked.ok
    <2>1. h \in Header /\ o \in D!Object
      BY <1>2, <1>12, AskedIsHeader
    <2>2. o.size \in Nat /\ 0..o.size - 1 \in SUBSET D!Bytes
      BY <2>1, ObjectSize
    <2>3. asked.start \in Nat /\ asked.end \in Int
      BY <1>3, <2>1, ParsedShape
    <2>4. AskedOf(h, size) = Requested(h, size)
      BY <1>12 DEF AskedOf
    <2> HIDE DEF given, asked, o, size, h
    <2>5. CASE ~given.ok
      <3>1. stream' = [stream EXCEPT ![s].pc = "end", ![s].status = 416, ![s].file = o]
        BY <1>1, <1>4, <1>12, <2>5 DEF D!OpenObject, o, size, h
      <3>2. o = x.info => Requested(h, size) = {}
        BY <1>3, <2>1, <2>5, RangesExact DEF given, asked, o, size
      <3> QED
        BY <1>10, <2>4, <3>1, <3>2
    <2>6. CASE given.ok
      <3> DEFINE length == asked.end - asked.start + 1
                 sent == given.start..given.end
      <3>1. stream' = [stream EXCEPT ![s].pc = "send", ![s].status = 206, ![s].file = o,
                                     ![s].length = length, ![s].sent = sent]
        BY <1>1, <1>4, <1>12, <2>6 DEF D!OpenObject, o, size, h
      <3>2. length \in Int
        BY <2>3
      <3>3. sent \in SUBSET D!Bytes
        <4>1. sent \subseteq 0..o.size - 1
          BY <1>3, <1>12, <2>1, <2>2, <2>6, RangesInside DEF given, asked
        <4> QED
          BY <2>2, <4>1
      <3>4. o = x.info => /\ given = asked /\ sent = Requested(h, size)
                          /\ Requested(h, size) # {}
        BY <1>3, <1>12, <2>1, <2>6, RangesExact DEF given, asked, o, size
      <3>5. o = x.info => length = Cardinality(Requested(h, size))
        <4> SUFFICES ASSUME o = x.info PROVE length = Cardinality(Requested(h, size))
          OBVIOUS
        <4>1. asked.start..asked.end = Requested(h, size) /\ asked.start..asked.end # {}
          BY <3>4
        <4>2. asked.start <= asked.end
          BY <2>3, <4>1
        <4>3. Cardinality(asked.start..asked.end) = length
          BY <2>3, <4>2, FS_Interval
        <4> QED
          BY <4>1, <4>3
      <3> HIDE DEF length, sent, x
      <3>6. x \in D!Streaming /\ o \in D!Object \cup {Nil} /\ 206 \in Statuses
        BY <1>1, <1>2, <1>5
      <3>7. PICK t \in D!Streaming : t = Given(x, 206, o, length, sent)
        BY <3>2, <3>3, <3>6, GivenFits
      <3>8. t = [x EXCEPT !.pc = "send", !.status = 206, !.file = o, !.length = length,
                          !.sent = sent]
        BY <3>7 DEF Given, Found
      <3>9. /\ t.pc = "send" /\ t.info = x.info /\ t.range = x.range /\ t.file = o
            /\ t.status = 206 /\ t.length = length /\ t.sent = sent
        BY <1>1, <3>8 DEF D!Streaming
      <3>10. stream' = [stream EXCEPT ![s] = t]
        BY <1>1, <3>1, <3>8, ZenonT(60) DEF x
      <3>11. ASSUME o = t.info PROVE Promised(t)
        <4>1. AskedOf(t.range, t.info.size) = sent /\ sent # {} /\ length = Cardinality(sent)
          BY <2>4, <3>4, <3>5, <3>9, <3>11 DEF x, h, size
        <4> QED
          BY <3>9, <4>1 DEF Promised
      <3>12. t.pc \in {"send", "end"} /\ t.info = stream[s].info /\ t.file = o
        BY <1>6, <3>9
      <3> QED
        BY <1>7, <3>12, <3>10, <3>11, StreamOpens
    <2> QED
      BY <2>5, <2>6
  <1> QED
    BY <1>8, <1>9, <1>11, <1>12

(* What is around the requests.                                             *)
LEMMA StreamsKept ==
  ASSUME StreamInv, stream' = stream, StreamShape'
  PROVE  StreamInv'
  BY DEF StreamInv

LEMMA SurroundingsKeepStreams ==
  ASSUME StreamInv, D!Surroundings
  PROVE  StreamInv'
  <1>1. StreamShape
    BY DEF StreamInv
  <1>2. ASSUME NEW f \in File, D!DeleteRow(f) \/ D!UnlinkObject(f)
        PROVE  StreamInv'
    <2>1. StreamShape' /\ stream' = stream
      BY <1>1, <1>2 DEF StreamShape, D!DeleteRow, D!UnlinkObject
    <2> QED
      BY <2>1, StreamsKept
  <1>3. ASSUME NEW size \in D!Bytes, D!StorePreview(size)
        PROVE  StreamInv'
    <2>1. [size |-> size, mtime |-> stored + 1] \in D!Object /\ stored + 1 \in 0..MaxStored
      BY <1>1, <1>3, SizeAssumption DEF StreamShape, D!StorePreview, D!Object
    <2>2. PICK o \in D!Object : o = [size |-> size, mtime |-> stored + 1]
      BY <2>1
    <2>3. object' \in [D!Key -> D!Object \cup {Nil}]
      BY <1>1, <1>3, <2>2 DEF StreamShape, D!StorePreview
    <2>4. StreamShape' /\ stream' = stream
      BY <1>1, <1>3, <2>1, <2>3 DEF StreamShape, D!StorePreview
    <2> QED
      BY <2>4, StreamsKept
  <1>4. CASE D!ClearPreview
    <2>1. StreamShape' /\ stream' = stream
      BY <1>1, <1>4 DEF StreamShape, D!ClearPreview
    <2> QED
      BY <2>1, StreamsKept
  <1> QED
    BY <1>2, <1>3, <1>4 DEF D!Surroundings

LEMMA ArchivesKeepStreams ==
  ASSUME StreamInv, NEW a \in Archive,
         D!StartArchive(a) \/ D!Handle(a) \/ D!Fill(a) \/ D!HangUp(a)
  PROVE  StreamInv'
  <1>1. UNCHANGED <<live, object, stored, stream>>
    BY DEF D!StartArchive, D!HangUp, D!Handle, D!CollectEntries, D!RefuseArchive, D!CopyPiece,
           D!CopyDone, D!Fill, D!OpenEntry, D!WriteHeader, D!WriteData, D!WriteDirectory,
           D!ClosePipe, D!FillerFails
  <1> QED
    BY <1>1 DEF StreamInv, StreamShape

LEMMA StepStreamInv == StreamInv /\ [D!Next]_(D!vars) => StreamInv'
  <1> SUFFICES ASSUME StreamInv, [D!Next]_(D!vars) PROVE StreamInv'
    OBVIOUS
  <1>1. CASE UNCHANGED D!vars
    BY <1>1 DEF D!vars, StreamInv, StreamShape
  <1>2. CASE \E s \in Stream : D!Send(s)
    BY <1>2, StreamStarts, StreamLookup, ObjectOpened, StreamSends DEF D!Send
  <1>3. CASE \E a \in Archive : D!StartArchive(a) \/ D!Handle(a) \/ D!Fill(a) \/ D!HangUp(a)
    BY <1>3, ArchivesKeepStreams
  <1> QED
    BY <1>1, <1>2, <1>3, SurroundingsKeepStreams DEF D!Next

-----------------------------------------------------------------------------
(* Zip downloads.                                                           *)

(* The parts of an archive of these files, in the order they are written.   *)
Item(files, i) ==
    IF i > 2 * Len(files) THEN <<"directory">>
    ELSE <<files[(i + 1) \div 2], IF i % 2 = 1 THEN "header" ELSE "data">>

(* What was sent is a beginning of the archive, and what the pipe holds is  *)
(* the part that comes next.                                                *)
InOrder(x) ==
    /\ Len(x.sent) <= 2 * Len(x.collected) + 1
    /\ \A i \in 1..Len(x.sent) : x.sent[i] = Item(x.collected, i)
    /\ x.pipe.held # Nil => /\ Len(x.sent) <= 2 * Len(x.collected)
                            /\ x.pipe.held = Item(x.collected, Len(x.sent) + 1)

(* The entries still to be written are the last of those collected.         *)
Remaining(x) ==
    /\ Len(x.entries) <= Len(x.collected)
    /\ \A i \in 1..Len(x.entries) :
         x.entries[i] = x.collected[Len(x.collected) - Len(x.entries) + i]
    /\ x.filler \in {"open", "header", "data"} => x.entries # <<>>
    /\ x.filler \in {"directory", "close"} => x.entries = <<>>

(* As long as the handler reads, the goroutine is as far as what was sent   *)
(* and what it has handed over.                                             *)
InPipe(x) == IF x.pipe.held = Nil THEN 0 ELSE 1
Begun(x) == IF x.filler \in {"data", "close"} THEN 1 ELSE 0

InStep(x) ==
    x.filler \in {"open", "header", "data", "directory", "close"} /\ x.pipe.reader = "open" =>
        Len(x.sent) + InPipe(x) = 2 * (Len(x.collected) - Len(x.entries)) + Begun(x)

NotBegun(x) ==
    /\ x.pc \in {"idle", "collect"} => x.filler = "none"
    /\ x.filler = "none" => x.pipe.held = Nil /\ x.sent = <<>>

Filled(x) == InOrder(x) /\ Remaining(x) /\ InStep(x) /\ NotBegun(x)

ArchiveInv ==
    /\ archive \in [Archive -> D!Archiving]
    /\ away \subseteq Archive
    /\ \A a \in Archive : Filled(archive[a])

LEMMA ItemKinds ==
  ASSUME NEW c \in Seq(File), NEW k \in Nat, k < Len(c)
  PROVE  /\ Item(c, 2 * k + 1) = <<c[k + 1], "header">>
         /\ Item(c, 2 * k + 2) = <<c[k + 1], "data">>
  <1>1. Len(c) \in Nat
    OBVIOUS
  <1>2. (2 * k + 1 + 1) \div 2 = k + 1 /\ (2 * k + 2 + 1) \div 2 = k + 1
    OBVIOUS
  <1>3. (2 * k + 1) % 2 = 1 /\ (2 * k + 2) % 2 = 0
    OBVIOUS
  <1>4. ~(2 * k + 1 > 2 * Len(c)) /\ ~(2 * k + 2 > 2 * Len(c))
    BY <1>1
  <1> QED
    BY <1>2, <1>3, <1>4 DEF Item

LEMMA ItemLast ==
  ASSUME NEW c \in Seq(File)
  PROVE  Item(c, 2 * Len(c) + 1) = <<"directory">>
  BY DEF Item

(* The directory is the last part, and no other.                            *)
LEMMA OnlyLast ==
  ASSUME NEW c \in Seq(File), NEW i \in Nat, Item(c, i) = <<"directory">>
  PROVE  i > 2 * Len(c)
  <1>1. \A f, w : <<f, w>> # <<"directory">>
    <2> SUFFICES ASSUME NEW f, NEW w PROVE Len(<<f, w>>) # Len(<<"directory">>)
      OBVIOUS
    <2> QED
      OBVIOUS
  <1> QED
    BY <1>1 DEF Item

LEMMA ArchiveInvImplies == ArchiveInv => D!ArchiveComplete
  <1> SUFFICES ASSUME ArchiveInv, NEW a \in Archive,
                      NEW i \in DOMAIN archive[a].sent, archive[a].sent[i] = <<"directory">>
               PROVE  archive[a].sent = [j \in 1..2 * Len(archive[a].collected) + 1 |->
                                           Item(archive[a].collected, j)]
    BY DEF D!ArchiveComplete, Item
  <1> DEFINE x == archive[a]
             n == Len(x.collected)
  <1>1. x.sent \in Seq(D!Piece) /\ x.collected \in Seq(File)
    BY DEF ArchiveInv, D!Archiving
  <1>2. n \in Nat /\ Len(x.sent) \in Nat /\ i \in 1..Len(x.sent) /\ DOMAIN x.sent = 1..Len(x.sent)
    BY <1>1
  <1>3. Len(x.sent) <= 2 * n + 1 /\ \A j \in 1..Len(x.sent) : x.sent[j] = Item(x.collected, j)
    BY DEF ArchiveInv, Filled, InOrder
  <1>4. i > 2 * n
    <2>1. Item(x.collected, i) = <<"directory">>
      BY <1>2, <1>3
    <2>2. i \in Nat
      <3> DEFINE m == Len(x.sent)
      <3>1. m \in Nat /\ i \in 1..m
        BY <1>2
      <3> HIDE DEF m
      <3> QED
        BY <3>1
    <2> HIDE DEF x
    <2> QED
      BY <1>1, <2>1, <2>2, OnlyLast DEF x
  <1>5. Len(x.sent) = 2 * n + 1
    BY <1>2, <1>3, <1>4
  <1>6. x.sent = [j \in 1..Len(x.sent) |-> x.sent[j]]
    BY <1>1, <1>2
  <1> QED
    BY <1>3, <1>5, <1>6

LEMMA InitArchiveInv == D!Init => ArchiveInv
  <1> DEFINE x == D!NotArchiving
  <1>1. x \in D!Archiving
    <2>1. D!NewPipe \in D!Pipe(D!Piece)
      BY DEF D!NewPipe, D!Pipe
    <2>2. <<>> \in Seq(File) /\ <<>> \in Seq(D!Piece)
      OBVIOUS
    <2> QED
      BY <2>1, <2>2 DEF D!NotArchiving, D!Archiving
  <1>2. /\ x.pc = "idle" /\ x.filler = "none" /\ x.sent = <<>> /\ x.pipe.held = Nil
        /\ x.entries = <<>> /\ x.collected = <<>>
    BY DEF D!NotArchiving, D!NewPipe
  <1> HIDE DEF x
  <1>3. Filled(x)
    BY <1>2 DEF Filled, InOrder, Remaining, InStep, NotBegun
  <1> QED
    BY <1>1, <1>3 DEF D!Init, ArchiveInv, x

(* A step of one archive.                                                   *)
LEMMA ArchiveMoves ==
  ASSUME ArchiveInv, NEW a \in Archive, UNCHANGED away,
         NEW t \in D!Archiving, Filled(t), archive' = [archive EXCEPT ![a] = t]
  PROVE  ArchiveInv'
  <1>1. archive' \in [Archive -> D!Archiving] /\ (away \subseteq Archive)'
    BY DEF ArchiveInv
  <1>2. archive'[a] = t /\ \A b \in Archive \ {a} : archive'[b] = archive[b]
    BY DEF ArchiveInv
  <1> QED
    BY <1>1, <1>2 DEF ArchiveInv

(* One field of it is given a value of its kind.                            *)
LEMMA ArchivePcSet ==
  ASSUME NEW x \in D!Archiving, NEW v \in {"idle", "collect", "copy", "end"}
  PROVE  [x EXCEPT !.pc = v] \in D!Archiving
  BY DEF D!Archiving

Fillers == {"none", "open", "header", "data", "directory", "close", "done"}

LEMMA FillerSet ==
  ASSUME NEW x \in D!Archiving, NEW v \in Fillers
  PROVE  [x EXCEPT !.filler = v] \in D!Archiving
  BY DEF D!Archiving, Fillers

LEMMA EntriesSet ==
  ASSUME NEW x \in D!Archiving, NEW v \in Seq(File)
  PROVE  [x EXCEPT !.entries = v] \in D!Archiving
  BY DEF D!Archiving

LEMMA CollectedSet ==
  ASSUME NEW x \in D!Archiving, NEW v \in Seq(File)
  PROVE  [x EXCEPT !.collected = v] \in D!Archiving
  BY DEF D!Archiving

LEMMA PipeSet ==
  ASSUME NEW x \in D!Archiving, NEW v \in D!Pipe(D!Piece)
  PROVE  [x EXCEPT !.pipe = v] \in D!Archiving
  BY DEF D!Archiving

LEMMA PassedSet ==
  ASSUME NEW x \in D!Archiving, NEW v \in Seq(D!Piece)
  PROVE  [x EXCEPT !.sent = v] \in D!Archiving
  BY DEF D!Archiving

(* What the operations on a pipe do to it.                                  *)
LEMMA Pipes ==
  ASSUME NEW p \in D!Pipe(D!Piece), NEW item \in D!Piece, NEW how \in {"eof", "error"}
  PROVE  /\ D!WriteTo(p, item) \in D!Pipe(D!Piece) /\ D!WriteTo(p, item).held = item
         /\ D!WriteTo(p, item).reader = p.reader
         /\ D!ReadFrom(p) \in D!Pipe(D!Piece) /\ D!ReadFrom(p).held = Nil
         /\ D!ReadFrom(p).reader = p.reader
         /\ D!CloseWriter(p, how) \in D!Pipe(D!Piece) /\ D!CloseWriter(p, how).held = p.held
         /\ D!CloseWriter(p, how).reader = p.reader
         /\ D!CloseReader(p) \in D!Pipe(D!Piece) /\ D!CloseReader(p).held = Nil
         /\ D!CloseReader(p).reader = "closed"
  BY DEF D!Pipe, D!WriteTo, D!ReadFrom, D!CloseWriter, D!CloseReader

(* What an archive with the invariant looks like, for the steps below.      *)
LEMMA ArchiveFacts ==
  ASSUME ArchiveInv, NEW a \in Archive
  PROVE  /\ archive \in [Archive -> D!Archiving] /\ archive[a] \in D!Archiving
         /\ Filled(archive[a])
         /\ archive[a].pipe \in D!Pipe(D!Piece)
         /\ archive[a].entries \in Seq(File) /\ archive[a].collected \in Seq(File)
         /\ archive[a].sent \in Seq(D!Piece)
  BY DEF ArchiveInv, D!Archiving

(* A handler that has not begun, or is over, keeps all but its state.       *)
LEMMA HandlerStarts ==
  ASSUME ArchiveInv, NEW a \in Archive, D!StartArchive(a) \/ D!RefuseArchive(a)
  PROVE  ArchiveInv'
  <1> DEFINE x == archive[a]
  <1>1. PICK pc \in {"collect", "end"} : archive' = [archive EXCEPT ![a].pc = pc]
    BY DEF D!StartArchive, D!RefuseArchive
  <1>2. x.pc \in {"idle", "collect"} /\ UNCHANGED away
    BY DEF D!StartArchive, D!RefuseArchive
  <1>3. x \in D!Archiving /\ archive \in [Archive -> D!Archiving] /\ Filled(x)
    BY ArchiveFacts
  <1>4. PICK t \in D!Archiving : t = [x EXCEPT !.pc = pc]
    BY <1>3, ArchivePcSet
  <1>5. /\ t.filler = x.filler /\ t.entries = x.entries /\ t.collected = x.collected
        /\ t.pipe = x.pipe /\ t.sent = x.sent
    BY <1>3, <1>4 DEF D!Archiving
  <1>6. archive' = [archive EXCEPT ![a] = t]
    BY <1>1, <1>3, <1>4
  <1>7. Filled(t)
    <2> HIDE DEF x
    <2>1. InOrder(t) /\ Remaining(t)
      BY <1>3, <1>5 DEF Filled, InOrder, Remaining
    <2>2. InStep(t)
      BY <1>3, <1>5 DEF Filled, InStep, InPipe, Begun
    <2>3. NotBegun(t)
      BY <1>2, <1>3, <1>5 DEF Filled, NotBegun, x
    <2> QED
      BY <2>1, <2>2, <2>3 DEF Filled
  <1> QED
    BY <1>2, <1>6, <1>7, ArchiveMoves

LEMMA FilesListed ==
  ASSUME live \subseteq File, NEW files \in D!SetToSeqs(live)
  PROVE  files \in Seq(File)
  <1>1. IsFiniteSet(live)
    BY FileAssumption, FS_Subset
  <1>2. PICK n \in Nat : n = D!Cardinality(live)
    BY <1>1, FS_CardinalityType, CardinalityIn
  <1>3. files \in [1..n -> live]
    BY <1>2 DEF D!SetToSeqs
  <1> QED
    BY <1>2, <1>3

LEMMA EntriesCollected ==
  ASSUME StreamInv, ArchiveInv, NEW a \in Archive, D!CollectEntries(a)
  PROVE  ArchiveInv'
  <1> DEFINE x == archive[a]
  <1>1. x.pc = "collect" /\ UNCHANGED away
    BY DEF D!CollectEntries
  <1>2. PICK files \in D!SetToSeqs(live) :
          archive' = [archive EXCEPT ![a].pc = "copy", ![a].entries = files,
                        ![a].collected = files,
                        ![a].filler = IF files = <<>> THEN "directory" ELSE "open"]
    BY DEF D!CollectEntries
  <1>3. files \in Seq(File)
    BY FilesListed DEF StreamInv, StreamShape
  <1>4. PICK filler \in Fillers : filler = IF files = <<>> THEN "directory" ELSE "open"
    BY DEF Fillers
  <1>5. x \in D!Archiving /\ archive \in [Archive -> D!Archiving] /\ Filled(x)
    BY ArchiveFacts
  <1>6. PICK b \in D!Archiving : b = [x EXCEPT !.pc = "copy"]
    BY <1>5, ArchivePcSet
  <1>7. PICK c \in D!Archiving : c = [b EXCEPT !.entries = files]
    BY <1>3, EntriesSet
  <1>8. PICK d \in D!Archiving : d = [c EXCEPT !.collected = files]
    BY <1>3, CollectedSet
  <1>9. PICK t \in D!Archiving : t = [d EXCEPT !.filler = filler]
    BY FillerSet
  <1>10. t = [x EXCEPT !.pc = "copy", !.entries = files, !.collected = files, !.filler = filler]
    BY <1>6, <1>7, <1>8, <1>9
  <1>11. archive' = [archive EXCEPT ![a] = t]
    BY <1>2, <1>4, <1>5, <1>10
  <1>12. /\ t.pc = "copy" /\ t.entries = files /\ t.collected = files /\ t.filler = filler
         /\ t.pipe = x.pipe /\ t.sent = x.sent
    BY <1>5, <1>10 DEF D!Archiving
  <1>13. x.pipe.held = Nil /\ x.sent = <<>>
    BY <1>1, <1>5 DEF Filled, NotBegun
  <1>14. Filled(t)
    <2> HIDE DEF x
    <2>1. Len(files) \in Nat /\ filler \notin {"none", "data", "close"}
      BY <1>3, <1>4
    <2>2. InOrder(t) /\ NotBegun(t)
      BY <1>3, <1>12, <1>13, <2>1 DEF InOrder, NotBegun
    <2>3. Remaining(t)
      BY <1>3, <1>4, <1>12, <2>1 DEF Remaining
    <2>4. InStep(t)
      BY <1>3, <1>12, <1>13, <2>1 DEF InStep, InPipe, Begun
    <2> QED
      BY <2>2, <2>3, <2>4 DEF Filled
  <1> QED
    BY <1>1, <1>11, <1>14, ArchiveMoves

(* The handler passes on what the pipe holds.                               *)
LEMMA PiecePassed ==
  ASSUME ArchiveInv, NEW a \in Archive, archive[a].pipe.held # Nil, UNCHANGED away,
         archive' = [archive EXCEPT ![a].sent = Append(@, archive[a].pipe.held),
                                    ![a].pipe = D!ReadFrom(archive[a].pipe)]
  PROVE  ArchiveInv'
  <1> DEFINE x == archive[a]
  <1>1. /\ x \in D!Archiving /\ archive \in [Archive -> D!Archiving] /\ Filled(x)
        /\ x.pipe \in D!Pipe(D!Piece) /\ x.sent \in Seq(D!Piece) /\ x.collected \in Seq(File)
        /\ x.entries \in Seq(File)
    BY ArchiveFacts
  <1>2. x.pipe.held \in D!Piece
    BY <1>1 DEF D!Pipe
  <1>3. PICK p \in D!Pipe(D!Piece) : p = D!ReadFrom(x.pipe)
    BY <1>1, <1>2, Pipes
  <1>4. PICK sent \in Seq(D!Piece) : sent = Append(x.sent, x.pipe.held)
    <2>1. PICK s \in Seq(D!Piece) : s = x.sent
      BY <1>1
    <2>2. PICK item \in D!Piece : item = x.pipe.held
      BY <1>2
    <2>3. Append(s, item) \in Seq(D!Piece)
      OBVIOUS
    <2> QED
      BY <2>1, <2>2, <2>3
  <1>5. PICK b \in D!Archiving : b = [x EXCEPT !.sent = sent]
    BY <1>1, PassedSet
  <1>6. PICK t \in D!Archiving : t = [b EXCEPT !.pipe = p]
    BY PipeSet
  <1>7. archive' = [archive EXCEPT ![a] = t]
    BY <1>1, <1>3, <1>4, <1>5, <1>6
  <1>8. /\ t.pc = x.pc /\ t.filler = x.filler /\ t.entries = x.entries
        /\ t.collected = x.collected /\ t.pipe = p /\ t.sent = sent
    BY <1>1, <1>5, <1>6 DEF D!Archiving
  <1>9. p.held = Nil /\ p.reader = x.pipe.reader
    BY <1>1, <1>2, <1>3, Pipes
  <1>10. /\ Len(x.collected) \in Nat /\ Len(x.sent) \in Nat /\ Len(sent) = Len(x.sent) + 1
         /\ sent[Len(x.sent) + 1] = x.pipe.held /\ \A i \in 1..Len(x.sent) : sent[i] = x.sent[i]
         /\ Len(x.entries) \in Nat
    <2>1. PICK s \in Seq(D!Piece) : s = x.sent
      BY <1>1
    <2>2. PICK item \in D!Piece : item = x.pipe.held
      BY <1>2
    <2>3. sent = Append(s, item)
      BY <1>4, <2>1, <2>2
    <2>4. Len(sent) = Len(s) + 1 /\ sent[Len(s) + 1] = item /\ \A i \in 1..Len(s) : sent[i] = s[i]
      BY <2>3
    <2>5. Len(x.collected) \in Nat /\ Len(x.entries) \in Nat
      BY <1>1
    <2>6. Len(x.sent) \in Nat /\ s = x.sent /\ item = x.pipe.held
      BY <2>1, <2>2
    <2> QED
      BY <2>4, <2>5, <2>6
  <1>11. x.filler # "none"
    BY <1>1 DEF Filled, NotBegun
  <1>12. Filled(t)
    <2>1. /\ Len(x.sent) <= 2 * Len(x.collected)
          /\ x.pipe.held = Item(x.collected, Len(x.sent) + 1)
          /\ \A i \in 1..Len(x.sent) : x.sent[i] = Item(x.collected, i)
      BY <1>1 DEF Filled, InOrder
    <2> HIDE DEF x
    <2>2. \A i \in 1..Len(sent) : sent[i] = Item(x.collected, i)
      BY <1>10, <2>1
    <2>3. InOrder(t)
      BY <1>8, <1>9, <1>10, <2>1, <2>2 DEF InOrder
    <2>4. Remaining(t) /\ NotBegun(t)
      BY <1>1, <1>8, <1>11 DEF Filled, Remaining, NotBegun
    <2>5. InPipe(t) = 0 /\ InPipe(x) = 1 /\ Begun(t) = Begun(x)
      BY <1>8, <1>9 DEF InPipe, Begun, x
    <2>6. InStep(t)
      <3>1. InStep(x)
        BY <1>1 DEF Filled
      <3>2. Len(sent) + InPipe(t) = Len(x.sent) + InPipe(x)
        BY <1>10, <2>5
      <3> QED
        BY <1>8, <1>9, <2>5, <3>1, <3>2 DEF InStep
    <2> QED
      BY <2>3, <2>4, <2>6 DEF Filled
  <1> QED
    BY <1>7, <1>12, ArchiveMoves

(* It closes its side and returns.                                          *)
LEMMA HandlerReturns ==
  ASSUME ArchiveInv, NEW a \in Archive, UNCHANGED away,
         archive' = [archive EXCEPT ![a].pc = "end",
                                    ![a].pipe = D!CloseReader(archive[a].pipe)]
  PROVE  ArchiveInv'
  <1> DEFINE x == archive[a]
  <1>1. /\ x \in D!Archiving /\ archive \in [Archive -> D!Archiving] /\ Filled(x)
        /\ x.pipe \in D!Pipe(D!Piece)
    BY ArchiveFacts
  <1>2. PICK p \in D!Pipe(D!Piece) : p = D!CloseReader(x.pipe)
    BY <1>1 DEF D!Pipe, D!CloseReader
  <1>3. PICK b \in D!Archiving : b = [x EXCEPT !.pc = "end"]
    BY <1>1, ArchivePcSet
  <1>4. PICK t \in D!Archiving : t = [b EXCEPT !.pipe = p]
    BY PipeSet
  <1>5. archive' = [archive EXCEPT ![a] = t]
    BY <1>1, <1>2, <1>3, <1>4
  <1>6. /\ t.pc = "end" /\ t.filler = x.filler /\ t.entries = x.entries
        /\ t.collected = x.collected /\ t.pipe = p /\ t.sent = x.sent
    BY <1>1, <1>3, <1>4 DEF D!Archiving
  <1>7. p.held = Nil /\ p.reader = "closed"
    BY <1>1, <1>2 DEF D!Pipe, D!CloseReader
  <1>8. Filled(t)
    <2> HIDE DEF x
    <2>1. InOrder(t) /\ Remaining(t)
      BY <1>1, <1>6, <1>7 DEF Filled, InOrder, Remaining
    <2>2. InStep(t) /\ NotBegun(t)
      BY <1>1, <1>6, <1>7 DEF Filled, InStep, NotBegun
    <2> QED
      BY <2>1, <2>2 DEF Filled
  <1> QED
    BY <1>5, <1>8, ArchiveMoves

LEMMA HandlerSteps ==
  ASSUME StreamInv, ArchiveInv, NEW a \in Archive, D!Handle(a)
  PROVE  ArchiveInv'
  <1>1. CASE D!CopyPiece(a)
    <2>1. archive[a].pipe.held # Nil /\ UNCHANGED away
      BY <1>1 DEF D!CopyPiece, D!Readable
    <2>2. CASE archive' = [archive EXCEPT ![a].sent = Append(@, archive[a].pipe.held),
                                          ![a].pipe = D!ReadFrom(archive[a].pipe)]
      BY <2>1, <2>2, PiecePassed
    <2>3. CASE archive' = [archive EXCEPT ![a].pc = "end",
                                          ![a].pipe = D!CloseReader(archive[a].pipe)]
      BY <2>1, <2>3, HandlerReturns
    <2> QED
      BY <1>1, <2>2, <2>3 DEF D!CopyPiece
  <1>2. CASE D!CopyDone(a)
    <2>1. archive \in [Archive -> D!Archiving]
      BY ArchiveFacts
    <2>2. /\ UNCHANGED away
          /\ archive' = [archive EXCEPT ![a].pc = "end",
                                        ![a].pipe = D!CloseReader(archive[a].pipe)]
      BY <1>2, <2>1 DEF D!CopyDone
    <2> QED
      BY <2>2, HandlerReturns
  <1> QED
    BY <1>1, <1>2, EntriesCollected, HandlerStarts DEF D!Handle

(* The goroutine hands over the part that comes next.                       *)
LEMMA PieceWritten ==
  ASSUME ArchiveInv, NEW a \in Archive, UNCHANGED away,
         NEW t \in D!Archiving, archive' = [archive EXCEPT ![a] = t],
         t.collected = archive[a].collected, t.sent = archive[a].sent,
         NEW n \in Nat, n = Len(t.collected), NEW m \in Nat, m = Len(t.sent), m <= 2 * n,
         t.pipe.held # Nil, t.pipe.held = Item(t.collected, m + 1),
         t.pc \notin {"idle", "collect"}, t.filler # "none", Remaining(t),
         m + 1 = 2 * (n - Len(t.entries)) + Begun(t)
  PROVE  ArchiveInv'
  <1>1. Filled(archive[a])
    BY ArchiveFacts
  <1>2. InOrder(t)
    BY <1>1 DEF Filled, InOrder
  <1>3. InStep(t)
    BY DEF InStep, InPipe
  <1>4. NotBegun(t)
    BY DEF NotBegun
  <1> QED
    BY <1>2, <1>3, <1>4, ArchiveMoves DEF Filled

(* How far a goroutine is that may go on.                                   *)
LEMMA FillerAt ==
  ASSUME ArchiveInv, NEW a \in Archive, D!FillerFree(a),
         archive[a].filler \in {"open", "header", "data", "directory", "close"}
  PROVE  LET x == archive[a] IN
         /\ x.pipe.held = Nil
         /\ Len(x.sent) \in Nat /\ Len(x.collected) \in Nat /\ Len(x.entries) \in Nat
         /\ Len(x.sent) = 2 * (Len(x.collected) - Len(x.entries)) + Begun(x)
         /\ x.pc \notin {"idle", "collect"} /\ Remaining(x)
  <1> DEFINE x == archive[a]
  <1>1. x.pipe.held = Nil /\ x.pipe.reader = "open"
    BY DEF D!FillerFree, D!Written
  <1>2. Filled(x) /\ Len(x.sent) \in Nat /\ Len(x.collected) \in Nat /\ Len(x.entries) \in Nat
    BY ArchiveFacts
  <1>3. InPipe(x) = 0
    BY <1>1 DEF InPipe
  <1> HIDE DEF x
  <1>4. Len(x.sent) + InPipe(x) = 2 * (Len(x.collected) - Len(x.entries)) + Begun(x)
    BY <1>1, <1>2 DEF Filled, InStep, x
  <1>5. x.pc \notin {"idle", "collect"} /\ Remaining(x) /\ x.pipe.held = Nil
    BY <1>1, <1>2 DEF Filled, NotBegun, x
  <1>6. Len(x.sent) = 2 * (Len(x.collected) - Len(x.entries)) + Begun(x)
    <2> DEFINE m == Len(x.sent)
    <2>1. m \in Nat /\ m + InPipe(x) = m
      BY <1>2, <1>3
    <2> HIDE DEF m
    <2>2. m = 2 * (Len(x.collected) - Len(x.entries)) + Begun(x)
      BY <1>4, <2>1 DEF m
    <2> QED
      BY <2>2 DEF m
  <1> QED
    BY <1>2, <1>5, <1>6 DEF x

(* The first of the entries that remain is the next of those collected.     *)
LEMMA NextEntry ==
  ASSUME NEW x \in D!Archiving, Remaining(x), x.entries # <<>>
  PROVE  LET k == Len(x.collected) - Len(x.entries) IN
         /\ k \in Nat /\ k < Len(x.collected) /\ Len(x.entries) > 0
         /\ Head(x.entries) = x.collected[k + 1] /\ Head(x.entries) \in File
         /\ Tail(x.entries) \in Seq(File) /\ Len(Tail(x.entries)) = Len(x.entries) - 1
         /\ \A i \in 1..Len(x.entries) - 1 : Tail(x.entries)[i] = x.collected[k + 1 + i]
  <1>1. PICK rest \in Seq(File) : rest = x.entries
    BY DEF D!Archiving
  <1>2. PICK all \in Seq(File) : all = x.collected
    BY DEF D!Archiving
  <1>3. Len(rest) <= Len(all) /\ \A i \in 1..Len(rest) : rest[i] = all[Len(all) - Len(rest) + i]
    BY <1>1, <1>2 DEF Remaining
  <1>4. /\ Len(rest) \in Nat /\ Len(all) \in Nat /\ Len(rest) > 0
        /\ Head(rest) = rest[1] /\ rest[1] \in File
        /\ Tail(rest) \in Seq(File) /\ Len(Tail(rest)) = Len(rest) - 1
        /\ \A i \in 1..Len(rest) - 1 : Tail(rest)[i] = rest[i + 1]
    BY <1>1
  <1>5. rest[1] = all[Len(all) - Len(rest) + 1]
    BY <1>3, <1>4
  <1>6. \A i \in 1..Len(rest) - 1 : Tail(rest)[i] = all[Len(all) - Len(rest) + 1 + i]
    <2> SUFFICES ASSUME NEW i \in 1..Len(rest) - 1
                 PROVE  Tail(rest)[i] = all[Len(all) - Len(rest) + 1 + i]
      OBVIOUS
    <2>1. i \in Int /\ i + 1 \in 1..Len(rest)
      BY <1>4
    <2>2. Tail(rest)[i] = rest[i + 1] /\ rest[i + 1] = all[Len(all) - Len(rest) + (i + 1)]
      BY <1>3, <1>4, <2>1
    <2>3. Len(all) - Len(rest) + (i + 1) = Len(all) - Len(rest) + 1 + i
      BY <1>4, <2>1
    <2> QED
      BY <2>2, <2>3
  <1>7. Len(all) - Len(rest) \in Nat /\ Len(all) - Len(rest) < Len(all)
    BY <1>3, <1>4
  <1> QED
    BY <1>1, <1>2, <1>4, <1>5, <1>6, <1>7

LEMMA EntryOpened ==
  ASSUME ArchiveInv, NEW a \in Archive, D!FillerFree(a), archive[a].filler = "open",
         UNCHANGED away, archive' = [archive EXCEPT ![a].filler = "header"]
  PROVE  ArchiveInv'
  <1> DEFINE x == archive[a]
  <1>1. x \in D!Archiving /\ archive \in [Archive -> D!Archiving] /\ Filled(x)
    BY ArchiveFacts
  <1>2. "header" \in Fillers
    BY DEF Fillers
  <1>3. PICK t \in D!Archiving : t = [x EXCEPT !.filler = "header"]
    BY <1>1, <1>2, FillerSet
  <1>4. archive' = [archive EXCEPT ![a] = t]
    BY <1>1, <1>3
  <1>5. /\ t.pc = x.pc /\ t.filler = "header" /\ t.entries = x.entries
        /\ t.collected = x.collected /\ t.pipe = x.pipe /\ t.sent = x.sent
    BY <1>1, <1>3 DEF D!Archiving
  <1>6. x.pc \notin {"idle", "collect"}
    BY <1>1 DEF Filled, NotBegun
  <1>7. Filled(t)
    <2>1. x.filler = "open"
      OBVIOUS
    <2> HIDE DEF x
    <2>2. InOrder(t) /\ Remaining(t)
      BY <1>1, <1>5, <2>1 DEF Filled, InOrder, Remaining
    <2>3. InStep(t)
      <3>1. InStep(x) /\ Begun(t) = Begun(x) /\ InPipe(t) = InPipe(x)
        BY <1>1, <1>5, <2>1 DEF Filled, Begun, InPipe
      <3> QED
        BY <1>5, <2>1, <3>1 DEF InStep
    <2>4. NotBegun(t)
      BY <1>5, <1>6 DEF NotBegun
    <2> QED
      BY <2>2, <2>3, <2>4 DEF Filled
  <1> QED
    BY <1>4, <1>7, ArchiveMoves

(* The goroutine closes its side and is over.                               *)
LEMMA FillerStops ==
  ASSUME ArchiveInv, NEW a \in Archive, NEW how \in {"eof", "error"}, UNCHANGED away,
         archive[a].filler # "none", D!FillerEnds(a, how)
  PROVE  ArchiveInv'
  <1> DEFINE x == archive[a]
  <1>1. /\ x \in D!Archiving /\ archive \in [Archive -> D!Archiving] /\ Filled(x)
        /\ x.pipe \in D!Pipe(D!Piece)
    BY ArchiveFacts
  <1>2. PICK p \in D!Pipe(D!Piece) : p = D!CloseWriter(x.pipe, how)
    BY <1>1 DEF D!Pipe, D!CloseWriter
  <1>3. "done" \in Fillers
    BY DEF Fillers
  <1>4. PICK b \in D!Archiving : b = [x EXCEPT !.filler = "done"]
    BY <1>1, <1>3, FillerSet
  <1>5. PICK t \in D!Archiving : t = [b EXCEPT !.pipe = p]
    BY PipeSet
  <1>6. archive' = [archive EXCEPT ![a] = t]
    BY <1>1, <1>2, <1>4, <1>5 DEF D!FillerEnds
  <1>7. /\ t.pc = x.pc /\ t.filler = "done" /\ t.entries = x.entries
        /\ t.collected = x.collected /\ t.pipe = p /\ t.sent = x.sent
    BY <1>1, <1>4, <1>5 DEF D!Archiving
  <1>8. p.held = x.pipe.held
    BY <1>1, <1>2 DEF D!Pipe, D!CloseWriter
  <1>9. x.pc \notin {"idle", "collect"}
    BY <1>1 DEF Filled, NotBegun
  <1>10. Filled(t)
    <2> HIDE DEF x
    <2>1. InOrder(t) /\ Remaining(t)
      BY <1>1, <1>7, <1>8 DEF Filled, InOrder, Remaining
    <2>2. InStep(t) /\ NotBegun(t)
      BY <1>7, <1>9 DEF InStep, NotBegun
    <2> QED
      BY <2>1, <2>2 DEF Filled
  <1> QED
    BY <1>6, <1>10, ArchiveMoves

LEMMA HeaderOrDirectoryWritten ==
  ASSUME ArchiveInv, NEW a \in Archive, D!WriteHeader(a) \/ D!WriteDirectory(a)
  PROVE  ArchiveInv'
  <1> DEFINE x == archive[a]
             k == Len(x.collected) - Len(x.entries)
  <1>1. /\ x \in D!Archiving /\ archive \in [Archive -> D!Archiving] /\ Filled(x)
        /\ x.pipe \in D!Pipe(D!Piece) /\ x.collected \in Seq(File) /\ x.entries \in Seq(File)
    BY ArchiveFacts
  <1>2. D!FillerFree(a) /\ x.filler \in {"header", "directory"} /\ UNCHANGED away
    BY DEF D!WriteHeader, D!WriteDirectory
  <1>3. /\ Len(x.sent) \in Nat /\ Len(x.collected) \in Nat /\ Len(x.entries) \in Nat
        /\ Len(x.sent) = 2 * k + Begun(x) /\ x.pc \notin {"idle", "collect"} /\ Remaining(x)
    BY <1>2, FillerAt
  <1>4. Begun(x) = 0
    BY <1>2 DEF Begun
  <1>5. PICK item \in D!Piece, next \in Fillers :
          /\ archive' = [archive EXCEPT ![a].filler = next, ![a].pipe = D!WriteTo(@, item)]
          /\ \/ x.filler = "header" /\ next = "data" /\ item = <<Head(x.entries), "header">>
             \/ x.filler = "directory" /\ next = "close" /\ item = <<"directory">>
    <2>1. CASE D!WriteHeader(a)
      <3>1. x.filler = "header" /\ Head(x.entries) \in File
        BY <1>1, <1>3, <2>1, NextEntry DEF D!WriteHeader, Remaining
      <3> QED
        BY <2>1, <3>1 DEF D!WriteHeader, D!Write, D!Piece, Fillers
    <2>2. CASE D!WriteDirectory(a)
      BY <2>2 DEF D!WriteDirectory, D!Write, D!Piece, Fillers
    <2> QED
      BY <2>1, <2>2
  <1>6. PICK p \in D!Pipe(D!Piece) : p = D!WriteTo(x.pipe, item)
    BY <1>1 DEF D!Pipe, D!WriteTo
  <1>7. PICK b \in D!Archiving : b = [x EXCEPT !.filler = next]
    BY <1>1, FillerSet
  <1>8. PICK t \in D!Archiving : t = [b EXCEPT !.pipe = p]
    BY PipeSet
  <1>9. archive' = [archive EXCEPT ![a] = t]
    BY <1>1, <1>5, <1>6, <1>7, <1>8
  <1>10. /\ t.pc = x.pc /\ t.filler = next /\ t.entries = x.entries
         /\ t.collected = x.collected /\ t.pipe = p /\ t.sent = x.sent
    BY <1>1, <1>7, <1>8 DEF D!Archiving
  <1>11. p.held = item /\ item # Nil
    BY <1>1, <1>6, ItemAssumption DEF D!Pipe, D!WriteTo
  <1>12. /\ Len(x.sent) <= 2 * Len(x.collected) /\ item = Item(x.collected, Len(x.sent) + 1)
         /\ Remaining(t) /\ Begun(t) = 1 /\ t.filler # "none"
    <2>1. CASE x.filler = "header" /\ next = "data" /\ item = <<Head(x.entries), "header">>
      <3>1. x.entries # <<>>
        BY <1>3, <2>1 DEF Remaining
      <3>2. k \in Nat /\ k < Len(x.collected) /\ Head(x.entries) = x.collected[k + 1]
        BY <1>1, <1>3, <3>1, NextEntry
      <3>3. Len(x.sent) = 2 * k
        BY <1>3, <1>4
      <3>4. item = Item(x.collected, 2 * k + 1)
        <4> HIDE DEF k, x
        <4> QED
          BY <1>1, <2>1, <3>2, ItemKinds
      <3>5. Remaining(t)
        BY <1>3, <1>10, <2>1, <3>1 DEF Remaining
      <3>6. Begun(t) = 1 /\ t.filler # "none"
        BY <1>10, <2>1 DEF Begun
      <3>7. Len(x.sent) <= 2 * Len(x.collected) /\ Len(x.sent) + 1 = 2 * k + 1
        <4> DEFINE m == Len(x.sent)
                   n == Len(x.collected)
        <4>1. m \in Nat /\ n \in Nat /\ m = 2 * k
          BY <1>3, <3>3
        <4> HIDE DEF m, n, k
        <4>2. m <= 2 * n /\ m + 1 = 2 * k + 1
          BY <3>2, <4>1 DEF n
        <4> QED
          BY <4>2 DEF m, n
      <3>8. item = Item(x.collected, Len(x.sent) + 1)
        BY <3>4, <3>7
      <3> QED
        BY <3>5, <3>6, <3>7, <3>8
    <2>2. CASE x.filler = "directory" /\ next = "close" /\ item = <<"directory">>
      <3>1. x.entries = <<>>
        BY <1>3, <2>2 DEF Remaining
      <3>2. Len(x.sent) = 2 * Len(x.collected)
        BY <1>3, <1>4, <3>1
      <3>3. item = Item(x.collected, Len(x.sent) + 1)
        BY <1>1, <2>2, <3>2, ItemLast
      <3>4. Remaining(t)
        BY <1>3, <1>10, <2>2, <3>1 DEF Remaining
      <3>5. Begun(t) = 1 /\ t.filler # "none"
        BY <1>10, <2>2 DEF Begun
      <3>6. Len(x.sent) <= 2 * Len(x.collected)
        <4> DEFINE n == Len(x.collected)
        <4>1. n \in Nat /\ Len(x.sent) = 2 * n
          BY <1>3, <3>2
        <4> HIDE DEF n
        <4>2. Len(x.sent) <= 2 * n
          BY <4>1
        <4> QED
          BY <4>2 DEF n
      <3> QED
        BY <3>3, <3>4, <3>5, <3>6
    <2> QED
      BY <1>5, <2>1, <2>2
  <1> QED
    <2>1. Len(t.sent) + 1 = 2 * (Len(t.collected) - Len(t.entries)) + Begun(t)
      <3> DEFINE m == Len(x.sent)
      <3> DEFINE n == Len(x.collected)
                 e == Len(x.entries)
      <3>1. m \in Nat /\ n \in Nat /\ e \in Nat /\ k = n - e /\ Begun(x) = 0
        BY <1>3, <1>4
      <3>2. m = 2 * k + Begun(x)
        BY <1>3
      <3>3. m \in Nat /\ k \in Int /\ m = 2 * k + Begun(x) /\ Begun(x) = 0
        <4> HIDE DEF m, n, e, k
        <4> QED
          BY <3>1, <3>2
      <3>4. Len(t.sent) = m /\ Len(t.collected) - Len(t.entries) = k /\ Begun(t) = 1
        BY <1>10, <1>12
      <3> HIDE DEF m, k
      <3>5. m + 1 = 2 * k + 1
        BY <3>3
      <3> QED
        BY <3>4, <3>5
    <2> HIDE DEF x, k
    <2> QED
      BY <1>2, <1>3, <1>9, <1>10, <1>11, <1>12, <2>1, PieceWritten DEF x

LEMMA DataWritten ==
  ASSUME ArchiveInv, NEW a \in Archive, D!WriteData(a)
  PROVE  ArchiveInv'
  <1> DEFINE x == archive[a]
             k == Len(x.collected) - Len(x.entries)
             rest == Tail(x.entries)
             item == <<Head(x.entries), "data">>
  <1>1. /\ x \in D!Archiving /\ archive \in [Archive -> D!Archiving] /\ Filled(x)
        /\ x.pipe \in D!Pipe(D!Piece) /\ x.collected \in Seq(File) /\ x.entries \in Seq(File)
    BY ArchiveFacts
  <1>2. D!FillerFree(a) /\ x.filler = "data" /\ UNCHANGED away
    BY DEF D!WriteData
  <1>3. /\ Len(x.sent) \in Nat /\ Len(x.collected) \in Nat /\ Len(x.entries) \in Nat
        /\ Len(x.sent) = 2 * k + Begun(x) /\ x.pc \notin {"idle", "collect"} /\ Remaining(x)
    BY <1>2, FillerAt
  <1>4. Begun(x) = 1 /\ x.entries # <<>>
    BY <1>2, <1>3 DEF Begun, Remaining
  <1>5. /\ k \in Nat /\ k < Len(x.collected) /\ Len(x.entries) > 0
        /\ Head(x.entries) = x.collected[k + 1] /\ Head(x.entries) \in File
        /\ rest \in Seq(File) /\ Len(rest) = Len(x.entries) - 1
        /\ \A i \in 1..Len(x.entries) - 1 : rest[i] = x.collected[k + 1 + i]
    BY <1>1, <1>3, <1>4, NextEntry
  <1>6. PICK next \in Fillers : next = IF rest = <<>> THEN "directory" ELSE "open"
    BY DEF Fillers
  <1>7. PICK piece \in D!Piece : piece = item
    BY <1>5 DEF D!Piece
  <1>8. PICK p \in D!Pipe(D!Piece) : p = D!WriteTo(x.pipe, piece)
    BY <1>1 DEF D!Pipe, D!WriteTo
  <1>9. PICK b \in D!Archiving : b = [x EXCEPT !.entries = rest]
    BY <1>1, <1>5, EntriesSet
  <1>10. PICK c \in D!Archiving : c = [b EXCEPT !.filler = next]
    BY FillerSet
  <1>11. PICK t \in D!Archiving : t = [c EXCEPT !.pipe = p]
    BY PipeSet
  <1>12. t = [x EXCEPT !.entries = rest, !.filler = next, !.pipe = p]
    BY <1>9, <1>10, <1>11
  <1>13. archive' = [archive EXCEPT ![a] = t]
    <2>1. archive' = [archive EXCEPT ![a].entries = rest, ![a].filler = next,
                                     ![a].pipe = D!WriteTo(@, piece)]
      BY <1>6, <1>7 DEF D!WriteData
    <2> QED
      BY <1>1, <1>8, <1>12, <2>1
  <1>14. /\ t.pc = x.pc /\ t.filler = next /\ t.entries = rest
         /\ t.collected = x.collected /\ t.pipe = p /\ t.sent = x.sent
    BY <1>1, <1>12 DEF D!Archiving
  <1>15. p.held = piece /\ piece # Nil
    BY <1>1, <1>8, ItemAssumption DEF D!Pipe, D!WriteTo
  <1>16. piece = Item(x.collected, Len(x.sent) + 1)
    <2>1. Len(x.sent) + 1 = 2 * k + 2
      BY <1>3, <1>4, <1>5
    <2>2. piece = <<x.collected[k + 1], "data">>
      BY <1>5, <1>7
    <2> HIDE DEF k, x
    <2> QED
      BY <1>1, <1>5, <2>1, <2>2, ItemKinds
  <1> DEFINE m == Len(x.sent)
             n == Len(x.collected)
             e == Len(x.entries)
  <1>17. /\ m \in Nat /\ n \in Nat /\ e \in Nat /\ k = n - e /\ k \in Nat /\ k < n
        /\ m = 2 * k + 1 /\ Len(rest) = e - 1
    BY <1>3, <1>4, <1>5
  <1>18. Remaining(t)
    <2>1. next \in {"directory", "open"} /\ (next = "directory" <=> rest = <<>>)
      BY <1>6
    <2>2. Len(rest) <= Len(x.collected) /\ Len(x.collected) - Len(rest) = k + 1
      <3> HIDE DEF m, n, e, k, rest
      <3>1. Len(rest) <= n /\ n - Len(rest) = k + 1
        BY <1>17
      <3> QED
        BY <3>1 DEF n
    <2>3. \A i \in 1..Len(rest) : rest[i] = x.collected[Len(x.collected) - Len(rest) + i]
      BY <1>5, <2>2
    <2> HIDE DEF x, k, rest
    <2> QED
      BY <1>14, <2>1, <2>2, <2>3 DEF Remaining
  <1>19. Begun(t) = 0 /\ t.filler # "none"
    BY <1>6, <1>14 DEF Begun
  <1>20. Len(t.sent) + 1 = 2 * (Len(t.collected) - Len(t.entries)) + Begun(t)
    <2>1. Len(t.sent) = m /\ Len(t.collected) = n /\ Len(t.entries) = Len(rest)
      BY <1>14
    <2> HIDE DEF m, n, e, k, rest
    <2> QED
      BY <1>19, <1>17, <2>1
  <1>21. Len(x.sent) <= 2 * Len(x.collected)
    <2> HIDE DEF m, n, e, k, rest
    <2>1. m <= 2 * n
      BY <1>17
    <2> QED
      BY <2>1 DEF m, n
  <1> HIDE DEF x, k, rest, item
  <1> QED
    BY <1>2, <1>3, <1>13, <1>14, <1>15, <1>16, <1>18, <1>19, <1>20, <1>21, PieceWritten DEF x

LEMMA FillerSteps ==
  ASSUME ArchiveInv, NEW a \in Archive, D!Fill(a)
  PROVE  ArchiveInv'
  <1>1. CASE D!OpenEntry(a)
    <2>1. D!FillerFree(a) /\ archive[a].filler = "open" /\ UNCHANGED away
      BY <1>1 DEF D!OpenEntry
    <2>2. D!FillerEnds(a, "error") \/ archive' = [archive EXCEPT ![a].filler = "header"]
      BY <1>1 DEF D!OpenEntry
    <2> QED
      BY <2>1, <2>2, FillerStops, EntryOpened
  <1>2. CASE D!ClosePipe(a)
    BY <1>2, FillerStops DEF D!ClosePipe
  <1>3. CASE D!FillerFails(a)
    BY <1>3, FillerStops DEF D!FillerFails
  <1> QED
    BY <1>1, <1>2, <1>3, HeaderOrDirectoryWritten, DataWritten DEF D!Fill

LEMMA StepArchiveInv == StreamInv /\ ArchiveInv /\ [D!Next]_(D!vars) => ArchiveInv'
  <1> SUFFICES ASSUME StreamInv, ArchiveInv, [D!Next]_(D!vars) PROVE ArchiveInv'
    OBVIOUS
  <1>1. CASE archive' = archive /\ away' = away
    BY <1>1 DEF ArchiveInv
  <1>2. ASSUME NEW s \in Stream, D!Send(s) PROVE ArchiveInv'
    <2>1. archive' = archive /\ away' = away
      BY <1>2 DEF D!Send, D!StartStream, D!FindRow, D!RefuseStream, D!StatObject, D!OpenObject,
                  D!SendBody
    <2> QED
      BY <1>1, <2>1
  <1>3. CASE D!Surroundings
    <2>1. archive' = archive /\ away' = away
      BY <1>3 DEF D!Surroundings, D!DeleteRow, D!UnlinkObject, D!StorePreview, D!ClearPreview
    <2> QED
      BY <1>1, <2>1
  <1>4. ASSUME NEW a \in Archive, D!HangUp(a) PROVE ArchiveInv'
    BY <1>4 DEF ArchiveInv, D!HangUp
  <1>5. ASSUME NEW a \in Archive, D!StartArchive(a) PROVE ArchiveInv'
    BY <1>5, HandlerStarts
  <1>6. CASE UNCHANGED D!vars
    BY <1>1, <1>6 DEF D!vars
  <1> QED
    BY <1>2, <1>3, <1>4, <1>5, <1>6, HandlerSteps, FillerSteps DEF D!Next

-----------------------------------------------------------------------------
(* The rate limit.  The calls admitted since the key was created are within *)
(* the limit and the count, those after its creation are one fewer, because *)
(* the first call made it; and so is any stretch of a window's length that  *)
(* ended at the creation, because the window before had a first call, too.  *)

LEMMA SumIn ==
  ASSUME NEW f, NEW S
  PROVE  L!SumFunctionOnSet(f, S) = SumFunctionOnSet(f, S)
  BY DEF L!SumFunctionOnSet, SumFunctionOnSet, L!FoldFunctionOnSet, FoldFunctionOnSet,
         L!MapThenFoldSet, MapThenFoldSet

Since(a) == {i \in L!Time : a <= i}
Within(a, b) == {i \in L!Time : a <= i /\ i < b}

Windows(ctr, start, adm, tells, time) ==
    /\ ctr.count = 0 => tells = {} /\ \A i \in L!Time : adm[i] = 0
    /\ ctr.count > 0 =>
         /\ ctr.ends = start + Window /\ start <= time
         /\ \A i \in L!Time : i > time \/ i >= ctr.ends => adm[i] = 0
         /\ \A t \in tells : t = ctr.ends \/ t <= start
         /\ SumFunctionOnSet(adm, Since(start)) <= ctr.count
         /\ SumFunctionOnSet(adm, Since(start)) <= Limit
         /\ SumFunctionOnSet(adm, Since(start + 1)) < ctr.count
         /\ SumFunctionOnSet(adm, Since(start + 1)) < Limit
         /\ \A t \in L!Time : start < t + Window => SumFunctionOnSet(adm, Within(t, start)) < Limit

Stretches(adm) ==
    \A t \in L!Time : SumFunctionOnSet(adm, Within(t, t + Window)) < 2 * Limit

LimInv ==
    /\ L!TypeOK
    /\ Windows(counter, began, admitted, told, now)
    /\ Stretches(admitted)

(* The sets of times are finite, and what is summed over them is natural.   *)
LEMMA TimesFinite ==
  ASSUME NEW adm \in [L!Time -> Nat], NEW S \in SUBSET L!Time
  PROVE  /\ IsFiniteSet(S) /\ \A i \in S : adm[i] \in Nat
         /\ SumFunctionOnSet(adm, S) \in Nat
         /\ \A T \in SUBSET S : SumFunctionOnSet(adm, T) <= SumFunctionOnSet(adm, S)
  <1>1. IsFiniteSet(L!Time)
    BY CountAssumption, FS_Interval DEF L!Time
  <1>2. IsFiniteSet(S) /\ \A i \in S : adm[i] \in Nat
    BY <1>1, FS_Subset
  <1> QED
    BY <1>2, SumNat, SumPart

(* A stretch that meets the present window.                                 *)
LEMMA StretchMeets ==
  ASSUME NEW ctr, ctr.count \in Nat, NEW start \in L!Time, NEW adm \in [L!Time -> Nat],
         NEW tells, NEW time, Windows(ctr, start, adm, tells, time),
         NEW t \in L!Time, ctr.count = 0 \/ start < t + Window
  PROVE  SumFunctionOnSet(adm, Within(t, t + Window)) < 2 * Limit
  <1> DEFINE S == Within(t, t + Window)
             T == Within(t, start)
  <1>1. S \in SUBSET L!Time /\ Since(start) \in SUBSET L!Time /\ Since(start + 1) \in SUBSET L!Time
    BY DEF Within, Since
  <1>2. t \in Nat /\ start \in Nat /\ Limit \in Nat \ {0} /\ Window \in Nat \ {0}
    BY LimitAssumption DEF L!Time
  <1>3. CASE ctr.count = 0
    <2>1. IsFiniteSet(S) /\ \A i \in S : adm[i] = 0
      BY <1>1, <1>3, TimesFinite DEF Windows
    <2> HIDE DEF S
    <2>2. SumFunctionOnSet(adm, S) = 0
      BY <2>1, SumZero
    <2> QED
      BY <1>2, <2>2 DEF S
  <1>4. CASE ctr.count # 0 /\ t > start
    <2>1. S \in SUBSET Since(start + 1)
      BY <1>2, <1>4 DEF Within, Since, L!Time
    <2> HIDE DEF S
    <2>2. /\ SumFunctionOnSet(adm, S) <= SumFunctionOnSet(adm, Since(start + 1))
          /\ SumFunctionOnSet(adm, Since(start + 1)) \in Nat /\ SumFunctionOnSet(adm, S) \in Nat
      BY <1>1, <2>1, TimesFinite
    <2>3. SumFunctionOnSet(adm, Since(start + 1)) < Limit
      BY <1>4 DEF Windows
    <2> QED
      BY <1>2, <2>2, <2>3 DEF S
  <1>5. CASE ctr.count # 0 /\ t <= start
    <2>1. T \in SUBSET S /\ S \ T \in SUBSET Since(start) /\ T \in SUBSET L!Time
      BY <1>2, <1>5 DEF Within, Since, L!Time
    <2>2. SumFunctionOnSet(adm, T) < Limit /\ SumFunctionOnSet(adm, Since(start)) <= Limit
      BY <1>5 DEF Windows
    <2> HIDE DEF S, T
    <2>3. SumFunctionOnSet(adm, S) = SumFunctionOnSet(adm, T) + SumFunctionOnSet(adm, S \ T)
      BY <1>1, <2>1, TimesFinite, SumSplit
    <2>4. /\ SumFunctionOnSet(adm, S \ T) <= SumFunctionOnSet(adm, Since(start))
          /\ SumFunctionOnSet(adm, S \ T) \in Nat /\ SumFunctionOnSet(adm, T) \in Nat
          /\ SumFunctionOnSet(adm, Since(start)) \in Nat
      BY <1>1, <2>1, TimesFinite
    <2> QED
      BY <1>2, <2>2, <2>3, <2>4 DEF S
  <1> QED
    BY <1>2, <1>3, <1>4, <1>5

(* A call is counted in the present window: refused, unanswered, or, within *)
(* the limit, admitted.                                                     *)
LEMMA WindowCounts ==
  ASSUME NEW ctr, ctr.count \in Nat \ {0}, NEW start \in L!Time, NEW time \in L!Time,
         NEW adm \in [L!Time -> Nat], NEW tells,
         Windows(ctr, start, adm, tells, time),
         NEW next, next.count = ctr.count + 1, next.ends = ctr.ends,
         NEW more, \A t \in more : t \in tells \/ t = ctr.ends
  PROVE  Windows(next, start, adm, more, time)
  <1>1. Since(start) \in SUBSET L!Time /\ Since(start + 1) \in SUBSET L!Time
    BY DEF Since
  <1>2. /\ SumFunctionOnSet(adm, Since(start)) \in Nat
        /\ SumFunctionOnSet(adm, Since(start + 1)) \in Nat
    BY <1>1, TimesFinite
  <1> QED
    BY <1>2 DEF Windows

LEMMA WindowAdmits ==
  ASSUME NEW ctr, ctr.count \in Nat \ {0}, NEW start \in L!Time, NEW time \in L!Time,
         NEW adm \in [L!Time -> Nat], NEW tells,
         Windows(ctr, start, adm, tells, time), time < ctr.ends,
         NEW next, next.count = ctr.count + 1, next.ends = ctr.ends, ctr.count < Limit
  PROVE  Windows(next, start, [adm EXCEPT ![time] = @ + 1], tells, time)
  <1> DEFINE bdm == [adm EXCEPT ![time] = @ + 1]
  <1>1. Since(start) \in SUBSET L!Time /\ Since(start + 1) \in SUBSET L!Time
    BY DEF Since
  <1>2. /\ bdm \in [L!Time -> Nat] /\ bdm[time] = adm[time] + 1
        /\ \A i \in L!Time \ {time} : bdm[i] = adm[i]
    OBVIOUS
  <1> HIDE DEF bdm
  <1>3. \A S \in SUBSET L!Time :
          SumFunctionOnSet(bdm, S) = SumFunctionOnSet(adm, S) + IF time \in S THEN 1 ELSE 0
    <2> SUFFICES ASSUME NEW S \in SUBSET L!Time
                 PROVE  SumFunctionOnSet(bdm, S) = SumFunctionOnSet(adm, S) + IF time \in S THEN 1 ELSE 0
      OBVIOUS
    <2>1. IsFiniteSet(S) /\ SumFunctionOnSet(adm, S) \in Nat /\ \A i \in S : adm[i] \in Nat
      BY TimesFinite
    <2>2. CASE time \in S
      <3>1. \A i \in S \ {time} : bdm[i] = adm[i]
        BY <1>2
      <3>2. SumFunctionOnSet(bdm, S) = SumFunctionOnSet(adm, S) + 1
        BY <1>2, <2>1, <2>2, <3>1, SumRaised
      <3> QED
        BY <2>2, <3>2
    <2>3. CASE time \notin S
      <3>1. \A i \in S : adm[i] = bdm[i]
        BY <1>2, <2>3
      <3>2. SumFunctionOnSet(adm, S) = SumFunctionOnSet(bdm, S)
        BY <2>1, <3>1, SumSame
      <3> QED
        BY <2>1, <2>3, <3>2
    <2> QED
      BY <2>2, <2>3
  <1>4. /\ start \in Nat /\ time \in Nat /\ start <= time /\ Limit \in Nat /\ ctr.count \in Nat
        /\ ctr.ends = start + Window /\ next.count > 0
    BY LimitAssumption DEF L!Time, Windows
  <1>5. /\ SumFunctionOnSet(bdm, Since(start)) <= next.count
        /\ SumFunctionOnSet(bdm, Since(start)) <= Limit
    <2>1. /\ SumFunctionOnSet(bdm, Since(start)) = SumFunctionOnSet(adm, Since(start)) + 1
          /\ SumFunctionOnSet(adm, Since(start)) \in Nat
      BY <1>1, <1>3, <1>4, TimesFinite DEF Since
    <2>2. SumFunctionOnSet(adm, Since(start)) <= ctr.count
      BY DEF Windows
    <2> QED
      BY <1>4, <2>1, <2>2
  <1>6. /\ SumFunctionOnSet(bdm, Since(start + 1)) < next.count
        /\ SumFunctionOnSet(bdm, Since(start + 1)) < Limit
    <2>1. /\ SumFunctionOnSet(bdm, Since(start + 1)) \in
                {SumFunctionOnSet(adm, Since(start + 1)), SumFunctionOnSet(adm, Since(start + 1)) + 1}
          /\ SumFunctionOnSet(adm, Since(start + 1)) \in Nat
      BY <1>1, <1>3, TimesFinite
    <2>2. SumFunctionOnSet(adm, Since(start + 1)) < ctr.count
      BY DEF Windows
    <2> QED
      BY <1>4, <2>1, <2>2
  <1>7. \A t \in L!Time : start < t + Window => SumFunctionOnSet(bdm, Within(t, start)) < Limit
    <2> SUFFICES ASSUME NEW t \in L!Time, start < t + Window
                 PROVE  SumFunctionOnSet(bdm, Within(t, start)) < Limit
      OBVIOUS
    <2>1. Within(t, start) \in SUBSET L!Time /\ time \notin Within(t, start)
      BY <1>4 DEF Within, L!Time
    <2>2. SumFunctionOnSet(bdm, Within(t, start)) = SumFunctionOnSet(adm, Within(t, start))
      BY <1>3, <2>1, TimesFinite
    <2> QED
      BY <2>2 DEF Windows
  <1>8. \A i \in L!Time : i > time \/ i >= next.ends => bdm[i] = 0
    <2> SUFFICES ASSUME NEW i \in L!Time, i > time \/ i >= next.ends PROVE bdm[i] = 0
      OBVIOUS
    <2>1. i # time
      BY <1>4, LimitAssumption DEF L!Time
    <2> QED
      BY <1>2, <2>1 DEF Windows
  <1>9. /\ next.ends = start + Window /\ start <= time /\ next.count # 0
        /\ \A t \in tells : t = next.ends \/ t <= start
    BY <1>4 DEF Windows
  <1>10. Windows(next, start, bdm, tells, time)
    BY <1>5, <1>6, <1>7, <1>8, <1>9 DEF Windows
  <1> QED
    BY <1>10 DEF bdm

(* The first call of a new window: the key had expired, or was not there.   *)
LEMMA WindowOpens ==
  ASSUME NEW ctr, ctr.count \in Nat, ctr.ends \in Nat, NEW start \in L!Time, NEW time \in L!Time,
         NEW adm \in [L!Time -> Nat], NEW tells, tells \subseteq Nat,
         Windows(ctr, start, adm, tells, time), ctr.count = 0 \/ time >= ctr.ends,
         NEW next, next.count = 1, next.ends = time + Window,
         NEW bdm \in [L!Time -> Nat], bdm[time] \in {adm[time], adm[time] + 1},
         \A i \in L!Time \ {time} : bdm[i] = adm[i]
  PROVE  Windows(next, time, bdm, tells, time)
  <1>1. /\ start \in Nat /\ time \in Nat /\ Limit \in Nat \ {0} /\ Window \in Nat \ {0}
        /\ ctr.count > 0 => ctr.ends = start + Window /\ start <= time
    BY LimitAssumption DEF L!Time, Windows
  <1>2. \A i \in L!Time : i >= time => adm[i] = 0
    BY <1>1 DEF Windows, L!Time
  <1>3. bdm[time] \in {0, 1} /\ \A i \in Since(time + 1) : bdm[i] = 0
    BY <1>1, <1>2 DEF Since, L!Time
  <1>4. /\ Since(time + 1) \in SUBSET L!Time /\ Since(time) = Since(time + 1) \cup {time}
        /\ time \notin Since(time + 1)
    BY <1>1 DEF Since, L!Time
  <1>5. SumFunctionOnSet(bdm, Since(time + 1)) = 0
    BY <1>3, <1>4, TimesFinite, SumZero
  <1>6. SumFunctionOnSet(bdm, Since(time)) \in {0, 1}
    <2>1. IsFiniteSet(Since(time + 1)) /\ \A i \in Since(time + 1) : bdm[i] \in Nat
      BY <1>4, TimesFinite
    <2>2. SumFunctionOnSet(bdm, Since(time + 1) \cup {time})
            = bdm[time] + SumFunctionOnSet(bdm, Since(time + 1))
      BY <1>4, <2>1, SumAdd
    <2>3. SumFunctionOnSet(bdm, Since(time)) = bdm[time] + SumFunctionOnSet(bdm, Since(time + 1))
      BY <1>4, <2>2, Zenon
    <2> QED
      BY <1>3, <1>5, <2>3
  <1>7. \A t \in L!Time : time < t + Window => SumFunctionOnSet(bdm, Within(t, time)) < Limit
    <2> SUFFICES ASSUME NEW t \in L!Time, time < t + Window
                 PROVE  SumFunctionOnSet(bdm, Within(t, time)) < Limit
      OBVIOUS
    <2>1. Within(t, time) \in SUBSET L!Time /\ \A i \in Within(t, time) : bdm[i] = adm[i]
      BY <1>1 DEF Within, L!Time
    <2>2. SumFunctionOnSet(bdm, Within(t, time)) = SumFunctionOnSet(adm, Within(t, time))
      BY <2>1, TimesFinite, SumSame
    <2>3. CASE ctr.count = 0
      <3>1. \A i \in Within(t, time) : adm[i] = 0
        BY <2>1, <2>3 DEF Windows
      <3>2. SumFunctionOnSet(adm, Within(t, time)) = 0
        BY <2>1, <3>1, TimesFinite, SumZero
      <3> QED
        BY <1>1, <2>2, <3>2
    <2>4. CASE ctr.count # 0
      <3>1. Within(t, time) \in SUBSET Since(start + 1) /\ Since(start + 1) \in SUBSET L!Time
        BY <1>1, <2>4 DEF Within, Since, L!Time
      <3>2. /\ SumFunctionOnSet(adm, Within(t, time)) <= SumFunctionOnSet(adm, Since(start + 1))
            /\ SumFunctionOnSet(adm, Since(start + 1)) \in Nat
            /\ SumFunctionOnSet(adm, Within(t, time)) \in Nat
        BY <2>1, <3>1, TimesFinite
      <3>3. SumFunctionOnSet(adm, Since(start + 1)) < Limit
        BY <2>4 DEF Windows
      <3> QED
        BY <1>1, <2>2, <3>2, <3>3
    <2> QED
      BY <2>3, <2>4
  <1>8. \A i \in L!Time : i > time \/ i >= next.ends => bdm[i] = 0
    BY <1>1, <1>3 DEF Since, L!Time
  <1>9. \A t \in tells : t <= time
    BY <1>1 DEF Windows
  <1> QED
    BY <1>1, <1>5, <1>6, <1>7, <1>8, <1>9 DEF Windows

(* The stretches after a step that admits calls at its own time only.       *)
LEMMA StretchesKept ==
  ASSUME NEW adm \in [L!Time -> Nat], Stretches(adm), NEW bdm \in [L!Time -> Nat],
         NEW time \in L!Time, \A i \in L!Time \ {time} : bdm[i] = adm[i],
         NEW ctr, ctr.count \in Nat, NEW start \in L!Time, start <= time,
         NEW tells, Windows(ctr, start, bdm, tells, time)
  PROVE  Stretches(bdm)
  <1> SUFFICES ASSUME NEW t \in L!Time
               PROVE  SumFunctionOnSet(bdm, Within(t, t + Window)) < 2 * Limit
    BY DEF Stretches
  <1>1. CASE ctr.count = 0 \/ start < t + Window
    BY <1>1, StretchMeets
  <1>2. CASE ~(ctr.count = 0 \/ start < t + Window)
    <2>1. Within(t, t + Window) \in SUBSET L!Time
      BY DEF Within
    <2>2. \A i \in Within(t, t + Window) : bdm[i] = adm[i]
      <3>1. time \notin Within(t, t + Window)
        BY <1>2, LimitAssumption DEF Within, L!Time
      <3> QED
        BY <2>1, <3>1
    <2>3. SumFunctionOnSet(bdm, Within(t, t + Window)) = SumFunctionOnSet(adm, Within(t, t + Window))
      BY <2>1, <2>2, TimesFinite, SumSame
    <2> QED
      BY <2>3 DEF Stretches
  <1> QED
    BY <1>1, <1>2

LEMMA InitLimInv == L!Init => LimInv
  <1> SUFFICES ASSUME L!Init PROVE LimInv
    OBVIOUS
  <1>1. L!TypeOK
    BY LimitAssumption, CountAssumption DEF L!Init, L!TypeOK, L!Time
  <1>2. Windows(counter, began, admitted, told, now)
    BY DEF L!Init, Windows
  <1>3. Stretches(admitted)
    <2>1. counter.count = 0 /\ began \in L!Time /\ admitted \in [L!Time -> Nat]
      BY <1>1 DEF L!Init, L!TypeOK
    <2> QED
      BY <1>2, <2>1, StretchMeets DEF Stretches
  <1> QED
    BY <1>1, <1>2, <1>3 DEF LimInv

(* A call is counted, and admitted at most then.                            *)
LEMMA CallKeeps ==
  ASSUME LimInv, UNCHANGED <<now, limiter>>, call' \in [Caller -> -1..MaxRetries],
         L!CountCall,
         \/ UNCHANGED <<admitted, told>>
         \/ /\ L!Over(counter'.count)
            /\ told' = told \cup {counter'.ends} /\ UNCHANGED admitted
         \/ /\ ~L!Over(counter'.count)
            /\ admitted' = [admitted EXCEPT ![now] = @ + 1] /\ UNCHANGED told
  PROVE  LimInv'
  <1>1. /\ now \in L!Time /\ now \in Nat /\ began \in L!Time /\ began \in Nat
        /\ counter.count \in Nat /\ counter.count <= MaxCount
        /\ counter.ends \in Nat /\ counter.ends <= MaxTime + Window
        /\ admitted \in [L!Time -> Nat] /\ told \subseteq 0..MaxTime + Window
        /\ counter \in [count : 0..MaxCount, ends : 0..MaxTime + Window] /\ limiter \in BOOLEAN
        /\ Windows(counter, began, admitted, told, now) /\ Stretches(admitted)
        /\ Limit \in Nat \ {0} /\ Window \in Nat \ {0} /\ MaxCount \in Nat \ {0} /\ MaxTime \in Nat
    BY LimitAssumption, CountAssumption DEF LimInv, L!TypeOK, L!Time
  <1>2. CASE L!Expired
    <2>1. /\ counter' = [count |-> 1, ends |-> now + Window] /\ began' = now /\ now' = now
      BY <1>2 DEF L!CountCall, L!Counted
    <2>2. /\ counter'.count = 1 /\ counter'.ends = now + Window /\ ~L!Over(counter'.count)
          /\ counter' \in [count : 0..MaxCount, ends : 0..MaxTime + Window]
      BY <1>1, <2>1 DEF L!Over, L!Time
    <2>3. /\ admitted' \in [L!Time -> Nat] /\ admitted'[now] \in {admitted[now], admitted[now] + 1}
          /\ \A i \in L!Time \ {now} : admitted'[i] = admitted[i]
          /\ told' = told
      BY <1>1, <2>2
    <2>4. told \subseteq Nat /\ (counter.count = 0 \/ now >= counter.ends)
      BY <1>1, <1>2 DEF L!Expired
    <2>5. Windows(counter', now, admitted', told, now)
      BY <1>1, <2>2, <2>3, <2>4, WindowOpens
    <2>6. Stretches(admitted')
      BY <1>1, <2>2, <2>3, <2>5, StretchesKept
    <2>7. L!TypeOK'
      BY <1>1, <2>1, <2>2, <2>3 DEF L!TypeOK
    <2> QED
      BY <2>1, <2>3, <2>5, <2>6, <2>7 DEF LimInv
  <1>3. CASE ~L!Expired
    <2>1. /\ counter' = [counter EXCEPT !.count = @ + 1] /\ began' = began /\ now' = now
          /\ counter.count # 0 /\ counter.count < MaxCount /\ now < counter.ends
      BY <1>1, <1>3 DEF L!CountCall, L!Counted, L!Expired
    <2>2. /\ counter'.count = counter.count + 1 /\ counter'.ends = counter.ends
          /\ counter' \in [count : 0..MaxCount, ends : 0..MaxTime + Window]
          /\ counter.count \in Nat \ {0} /\ counter'.count \in Nat
      BY <1>1, <2>1
    <2>3. /\ admitted' \in [L!Time -> Nat]
          /\ \A i \in L!Time \ {now} : admitted'[i] = admitted[i]
          /\ told' \in {told, told \cup {counter.ends}}
          /\ told' \subseteq 0..MaxTime + Window
      <3>1. counter.ends \in 0..MaxTime + Window
        BY <1>1
      <3>2. told' \in {told, told \cup {counter.ends}}
        BY <2>2
      <3>3. told' \subseteq 0..MaxTime + Window
        BY <1>1, <3>1, <3>2
      <3>4. admitted' \in {admitted, [admitted EXCEPT ![now] = @ + 1]}
        OBVIOUS
      <3>5. admitted' \in [L!Time -> Nat] /\ \A i \in L!Time \ {now} : admitted'[i] = admitted[i]
        BY <1>1, <3>4
      <3> QED
        BY <3>2, <3>3, <3>5
    <2>4. Windows(counter', began, admitted', told', now)
      <3>1. CASE UNCHANGED admitted
        <4>1. PICK next, more : next = counter' /\ more = told'
          OBVIOUS
        <4>2. /\ next.count = counter.count + 1 /\ next.ends = counter.ends
              /\ \A t \in more : t \in told \/ t = counter.ends
              /\ counter.count \in Nat \ {0} /\ began \in L!Time /\ now \in L!Time
              /\ admitted \in [L!Time -> Nat] /\ Windows(counter, began, admitted, told, now)
          BY <1>1, <2>2, <2>3, <4>1
        <4>3. Windows(next, began, admitted, more, now)
          BY <4>2, WindowCounts
        <4> QED
          BY <3>1, <4>1, <4>3
      <3>2. CASE ~UNCHANGED admitted
        <4>1. /\ ~L!Over(counter'.count) /\ told' = told
              /\ admitted' = [admitted EXCEPT ![now] = @ + 1]
          BY <3>2
        <4>2. counter.count < Limit
          BY <1>1, <2>2, <4>1 DEF L!Over
        <4>3. Windows(counter', began, [admitted EXCEPT ![now] = @ + 1], told, now)
          BY <1>1, <2>1, <2>2, <4>2, WindowAdmits
        <4> QED
          BY <4>1, <4>3
      <3> QED
        BY <3>1, <3>2
    <2>5. began <= now
      BY <1>1, <2>1 DEF Windows
    <2>6. Stretches(admitted')
      BY <1>1, <2>2, <2>3, <2>4, <2>5, StretchesKept
    <2>7. L!TypeOK'
      BY <1>1, <2>1, <2>2, <2>3 DEF L!TypeOK
    <2> QED
      BY <2>1, <2>4, <2>6, <2>7 DEF LimInv
  <1> QED
    BY <1>2, <1>3

LEMMA StepLimInv == LimInv /\ [L!Next]_(L!vars) => LimInv'
  <1> SUFFICES ASSUME LimInv, [L!Next]_(L!vars) PROVE LimInv'
    OBVIOUS
  <1>1. L!TypeOK /\ call \in [Caller -> -1..MaxRetries] /\ MaxRetries \in Nat
    BY CountAssumption DEF LimInv, L!TypeOK
  <1>2. ASSUME UNCHANGED <<now, counter, began, admitted, told>>, limiter' \in BOOLEAN,
               call' \in [Caller -> -1..MaxRetries]
        PROVE  LimInv'
    BY <1>1, <1>2 DEF LimInv, L!TypeOK
  <1>3. ASSUME NEW c \in Caller, L!Ask(c) PROVE LimInv'
    <2>1. call' \in [Caller -> -1..MaxRetries] /\ limiter' \in BOOLEAN
      BY <1>1, <1>3 DEF L!Ask, L!TypeOK
    <2> QED
      BY <1>2, <1>3, <2>1 DEF L!Ask
  <1>4. ASSUME NEW c \in Caller, L!Answer(c) PROVE LimInv'
    <2>1. call' \in [Caller -> -1..MaxRetries]
      BY <1>1, <1>4 DEF L!Answer
    <2> QED
      BY <1>4, <2>1, CallKeeps DEF L!Answer
  <1>5. ASSUME NEW c \in Caller, L!Fail(c) PROVE LimInv'
    <2>1. call' \in [Caller -> -1..MaxRetries] /\ limiter' \in BOOLEAN
      BY <1>1, <1>5 DEF L!Fail, L!TypeOK
    <2> QED
      BY <1>2, <1>5, <2>1, CallKeeps DEF L!Fail
  <1>6. CASE L!Tick
    <2>1. /\ now' = now + 1 /\ now' \in L!Time /\ now \in Nat
          /\ UNCHANGED <<limiter, counter, call, began, admitted, told>>
      BY <1>1, <1>6, CountAssumption DEF L!Tick, L!TypeOK, L!Time
    <2>2. began \in Nat /\ L!TypeOK'
      BY <1>1, <2>1 DEF L!TypeOK, L!Time
    <2>3. Windows(counter, began, admitted, told, now + 1)
      BY <2>1, <2>2 DEF LimInv, Windows, L!Time
    <2> QED
      BY <2>1, <2>2, <2>3 DEF LimInv
  <1>7. CASE L!RestartRedis
    <2>1. L!TypeOK'
      BY <1>1, <1>7, LimitAssumption, CountAssumption DEF L!RestartRedis, L!TypeOK
    <2>2. Windows(counter', began', admitted', told', now')
      BY <1>7 DEF L!RestartRedis, Windows
    <2>3. counter'.count = 0 /\ admitted' \in [L!Time -> Nat] /\ began' \in L!Time
      BY <1>1, <1>7 DEF L!RestartRedis, L!TypeOK
    <2>4. Stretches(admitted')
      BY <2>2, <2>3, StretchMeets DEF Stretches
    <2> QED
      BY <2>1, <2>2, <2>4 DEF LimInv
  <1>8. CASE L!RestartServer
    <2>1. call' \in [Caller -> -1..MaxRetries] /\ limiter' \in BOOLEAN
      BY <1>1, <1>8 DEF L!RestartServer
    <2> QED
      BY <1>2, <1>8, <2>1 DEF L!RestartServer
  <1>9. CASE UNCHANGED L!vars
    BY <1>1, <1>2, <1>9 DEF L!vars, L!TypeOK
  <1> QED
    BY <1>3, <1>4, <1>5, <1>6, <1>7, <1>8, <1>9 DEF L!Next
-----------------------------------------------------------------------------
(* Migrations.  The table has the versions up to some number; a migrator at *)
(* a version has seen the earlier ones recorded, and only one of them has   *)
(* inserted the row of a version that is not committed yet.                 *)

Ready(m) ==
    /\ mig[m].pc # "idle" => mig[m].at \in 1..Last /\ 1..mig[m].at - 1 \subseteq recorded
    /\ mig[m].pc = "commit" =>
         /\ mig[m].at \notin recorded
         /\ \A n \in Migrator \ {m} : ~(mig[n].pc = "commit" /\ mig[n].at = mig[m].at)

MigInv ==
    /\ M!TypeOK
    /\ schema = [i \in 1..Len(schema) |-> i]
    /\ recorded = 1..Len(schema)
    /\ serving => Len(schema) = Last
    /\ \A m \in Migrator : Ready(m)

LEMMA InitMigInv == M!Init => MigInv
  <1> SUFFICES ASSUME M!Init PROVE MigInv
    OBVIOUS
  <1>1. M!TypeOK
    <2>1. schema \in Seq(M!Versions)
      BY DEF M!Init
    <2>2. M!Idle \in [pc : {"idle", "check", "apply", "record", "commit"}, at : 0..Last]
      BY LastAssumption DEF M!Idle
    <2> QED
      BY <2>1, <2>2 DEF M!Init, M!TypeOK
  <1>2. Len(schema) = 0 /\ 1..Len(schema) = {} /\ schema = [i \in {} |-> i]
    BY DEF M!Init
  <1>3. schema = [i \in 1..Len(schema) |-> i]
    BY <1>2
  <1>4. recorded = 1..Len(schema)
    BY <1>2 DEF M!Init
  <1>5. \A m \in Migrator : Ready(m)
    BY DEF M!Init, M!Idle, Ready
  <1> QED
    BY <1>1, <1>3, <1>4, <1>5 DEF M!Init, MigInv

(* Another place for one migrator: nothing is committed.                    *)
LEMMA MigMoves ==
  ASSUME MigInv, NEW m \in Migrator, UNCHANGED <<schema, recorded, serving>>,
         NEW place \in [pc : {"idle", "check", "apply", "record", "commit"}, at : 0..Last],
         mig' = [mig EXCEPT ![m] = place],
         place.pc # "idle" => place.at \in 1..Last /\ 1..place.at - 1 \subseteq recorded,
         place.pc = "commit" =>
            /\ place.at \notin recorded
            /\ \A n \in Migrator \ {m} : ~(mig[n].pc = "commit" /\ mig[n].at = place.at)
  PROVE  MigInv'
  <1>1. M!TypeOK'
    BY DEF MigInv, M!TypeOK
  <1>2. mig'[m] = place /\ \A n \in Migrator \ {m} : mig'[n] = mig[n]
    BY DEF MigInv, M!TypeOK
  <1>3. \A n \in Migrator : Ready(n)'
    <2> SUFFICES ASSUME NEW n \in Migrator PROVE Ready(n)'
      OBVIOUS
    <2>1. CASE n = m
      BY <1>2, <2>1 DEF Ready
    <2>2. CASE n # m
      BY <1>2, <2>2 DEF MigInv, Ready
    <2> QED
      BY <2>1, <2>2
  <1> QED
    BY <1>1, <1>3 DEF MigInv

LEMMA MigAdvances ==
  ASSUME MigInv, NEW m \in Migrator, mig[m].pc # "idle",
         mig[m].at \in recorded, UNCHANGED <<schema, recorded, serving>>, M!Advance(m)
  PROVE  MigInv'
  <1> DEFINE at == mig[m].at
             place == IF at = Last THEN M!Idle ELSE [pc |-> "check", at |-> at + 1]
  <1>1. at \in 1..Last /\ 1..at - 1 \subseteq recorded
    BY DEF MigInv, Ready
  <1>2. place \in [pc : {"idle", "check", "apply", "record", "commit"}, at : 0..Last]
    BY <1>1, LastAssumption DEF M!Idle
  <1>3. place.pc \in {"idle", "check"} /\ (place.pc # "idle" => place.at = at + 1 /\ at < Last)
    BY <1>1, LastAssumption DEF M!Idle
  <1>4. place.pc # "idle" => place.at \in 1..Last /\ 1..place.at - 1 \subseteq recorded
    <2>1. at < Last => at + 1 \in 1..Last /\ 1..(at + 1) - 1 = (1..at - 1) \cup {at}
      BY <1>1, LastAssumption
    <2> HIDE DEF place
    <2> QED
      BY <1>1, <1>3, <2>1
  <1>5. mig' = [mig EXCEPT ![m] = place]
    BY DEF M!Advance
  <1> HIDE DEF place
  <1> QED
    BY <1>2, <1>3, <1>4, <1>5, MigMoves

LEMMA MigCommits ==
  ASSUME MigInv, NEW m \in Migrator, M!Commit(m)
  PROVE  MigInv'
  <1> DEFINE at == mig[m].at
  <1>1. /\ at \in 1..Last /\ at \notin recorded /\ 1..at - 1 \subseteq recorded
        /\ mig[m].pc = "commit"
    BY DEF MigInv, Ready, M!Commit, M!At
  <1>2. /\ schema \in Seq(1..Last) /\ Len(schema) \in Nat /\ recorded = 1..Len(schema)
        /\ recorded \subseteq 1..Last
    BY DEF MigInv, M!TypeOK, M!Versions
  <1>3. at = Len(schema) + 1
    <2>1. ~(at <= Len(schema))
      BY <1>1, <1>2
    <2>2. ~(Len(schema) + 1 < at)
      <3>1. Len(schema) + 1 < at => Len(schema) + 1 \in 1..at - 1
        BY <1>1, <1>2
      <3>2. Len(schema) + 1 \notin 1..Len(schema)
        BY <1>2
      <3> QED
        BY <1>1, <1>2, <3>1, <3>2
    <2> QED
      BY <1>1, <1>2, <2>1, <2>2
  <1>4. /\ schema' = Append(schema, at) /\ recorded' = recorded \cup {at} /\ serving' = serving
    BY DEF M!Commit
  <1> HIDE DEF at
  <1>5. /\ Len(schema') = Len(schema) + 1 /\ schema' \in Seq(1..Last)
        /\ recorded' = 1..Len(schema')
    BY <1>1, <1>2, <1>3, <1>4
  <1>6. schema' = [i \in 1..Len(schema') |-> i]
    <2>1. \A i \in 1..Len(schema') : schema'[i] = i
      BY <1>1, <1>2, <1>3, <1>4, <1>5 DEF MigInv
    <2> QED
      BY <1>5, <2>1
  <1>7. ~serving
    BY <1>1, <1>2, <1>3 DEF MigInv
  <1>8. PICK place \in [pc : {"idle", "check"}, at : 0..Last] :
          /\ mig' = [mig EXCEPT ![m] = place]
          /\ place.pc # "idle" => place.at = at + 1 /\ at < Last
    <2> DEFINE next == [pc |-> "check", at |-> at + 1]
    <2>1. mig' = [mig EXCEPT ![m] = M!Idle] \/ (at < Last /\ mig' = [mig EXCEPT ![m] = next])
      <3>1. M!Advance(m) => mig' = [mig EXCEPT ![m] = IF at = Last THEN M!Idle ELSE next]
        BY DEF M!Advance, at
      <3>2. at # Last => at < Last
        BY <1>1, LastAssumption
      <3> HIDE DEF next
      <3> QED
        BY <3>1, <3>2 DEF M!Commit
    <2>2. M!Idle \in [pc : {"idle", "check"}, at : 0..Last] /\ M!Idle.pc = "idle"
      BY LastAssumption DEF M!Idle
    <2>3. at < Last => next \in [pc : {"idle", "check"}, at : 0..Last] /\ next.at = at + 1
      BY <1>1, LastAssumption
    <2> QED
      BY <2>1, <2>2, <2>3
  <1>9. mig'[m] = place /\ \A n \in Migrator \ {m} : mig'[n] = mig[n]
    BY <1>8 DEF MigInv, M!TypeOK
  <1>10. \A n \in Migrator : Ready(n)'
    <2> SUFFICES ASSUME NEW n \in Migrator PROVE Ready(n)'
      OBVIOUS
    <2>1. CASE n = m
      <3>1. mig'[n].pc # "idle" => mig'[n].at = at + 1 /\ at + 1 \in 1..Last /\ (at + 1) - 1 = at
        BY <1>1, <1>8, <1>9, <2>1, LastAssumption
      <3>2. 1..at \subseteq recorded'
        BY <1>1, <1>2, <1>3, <1>4
      <3>3. mig'[n].pc # "commit"
        BY <1>8, <1>9, <2>1
      <3> QED
        BY <3>1, <3>2, <3>3 DEF Ready
    <2>2. CASE n # m
      <3>1. Ready(n) /\ mig'[n] = mig[n] /\ recorded \subseteq recorded'
        BY <1>4, <1>9, <2>2 DEF MigInv
      <3>2. mig[n].pc = "commit" => mig[n].at \notin recorded'
        BY <1>1, <1>4, <2>2, <3>1 DEF MigInv, Ready, at
      <3>3. mig[n].pc = "commit" =>
              \A k \in Migrator \ {n} : ~(mig'[k].pc = "commit" /\ mig'[k].at = mig[n].at)
        BY <1>8, <1>9, <3>1 DEF Ready
      <3> QED
        BY <3>1, <3>2, <3>3 DEF Ready
    <2> QED
      BY <2>1, <2>2
  <1>11. M!TypeOK'
    BY <1>1, <1>4, <1>5, <1>8 DEF MigInv, M!TypeOK, M!Versions
  <1> QED
    BY <1>4, <1>5, <1>6, <1>7, <1>10, <1>11 DEF MigInv

LEMMA StepMigInv == MigInv /\ [M!Next]_(M!vars) => MigInv'
  <1> SUFFICES ASSUME MigInv, [M!Next]_(M!vars) PROVE MigInv'
    OBVIOUS
  <1>1. mig \in [Migrator -> [pc : {"idle", "check", "apply", "record", "commit"}, at : 0..Last]]
    BY DEF MigInv, M!TypeOK
  <1>2. ASSUME NEW m \in Migrator, M!Start(m) PROVE MigInv'
    <2> DEFINE place == [pc |-> "check", at |-> 1]
    <2>1. place \in [pc : {"idle", "check", "apply", "record", "commit"}, at : 0..Last]
      BY LastAssumption
    <2>2. place.at \in 1..Last /\ 1..place.at - 1 = {}
      BY LastAssumption
    <2>3. mig' = [mig EXCEPT ![m] = place] /\ UNCHANGED <<schema, recorded, serving>>
      BY <1>2 DEF M!Start
    <2> QED
      BY <2>1, <2>2, <2>3, MigMoves
  <1>3. ASSUME NEW m \in Migrator, UNCHANGED <<schema, recorded, serving>>, mig[m].pc # "idle",
               mig' = [mig EXCEPT ![m] = M!Idle]
        PROVE  MigInv'
    <2>1. M!Idle \in [pc : {"idle", "check", "apply", "record", "commit"}, at : 0..Last]
          /\ M!Idle.pc = "idle"
      BY LastAssumption DEF M!Idle
    <2> QED
      BY <1>3, <2>1, MigMoves
  <1>4. ASSUME NEW m \in Migrator, UNCHANGED <<schema, recorded, serving>>, mig[m].pc # "idle",
               NEW pc \in {"apply", "record", "commit"}, M!Goto(m, pc),
               pc = "commit" => /\ mig[m].at \notin recorded
                                /\ \A n \in Migrator : ~(mig[n].pc = "commit" /\ mig[n].at = mig[m].at)
        PROVE  MigInv'
    <2> DEFINE place == [mig[m] EXCEPT !.pc = pc]
    <2>1. /\ place \in [pc : {"idle", "check", "apply", "record", "commit"}, at : 0..Last]
          /\ place.pc = pc /\ place.at = mig[m].at
      BY <1>1
    <2>2. mig' = [mig EXCEPT ![m] = place]
      BY <1>1, <1>4 DEF M!Goto
    <2> HIDE DEF place
    <2>3. mig[m].at \in 1..Last /\ 1..mig[m].at - 1 \subseteq recorded
      BY <1>4 DEF MigInv, Ready
    <2> QED
      BY <1>4, <2>1, <2>2, <2>3, MigMoves
  <1>5. ASSUME NEW m \in Migrator, M!CheckVersion(m) PROVE MigInv'
    BY <1>4, <1>5, MigAdvances DEF M!CheckVersion, M!At
  <1>6. ASSUME NEW m \in Migrator, M!ApplyBody(m) PROVE MigInv'
    BY <1>4, <1>6 DEF M!ApplyBody, M!At
  <1>7. ASSUME NEW m \in Migrator, M!InsertVersion(m) PROVE MigInv'
    BY <1>3, <1>4, <1>7 DEF M!InsertVersion, M!At
  <1>8. ASSUME NEW m \in Migrator, M!Exit(m) PROVE MigInv'
    BY <1>3, <1>8 DEF M!Exit, M!At
  <1>9. CASE M!StartServer
    <2>1. /\ schema \in Seq(1..Last) /\ Len(schema) \in Nat /\ recorded = 1..Len(schema)
          /\ recorded \subseteq 1..Last
      BY DEF MigInv, M!TypeOK, M!Versions
    <2>2. Last \in 1..Len(schema)
      BY <1>9, <2>1, LastAssumption DEF M!StartServer, M!Versions
    <2>3. Len(schema) \in 1..Last
      BY <2>1, <2>2
    <2>4. Len(schema) = Last
      BY <2>1, <2>2, <2>3, LastAssumption
    <2> QED
      BY <1>9, <2>4 DEF M!StartServer, MigInv, M!TypeOK, Ready
  <1>10. CASE M!StopServer
    BY <1>10 DEF M!StopServer, MigInv, M!TypeOK, Ready
  <1>11. CASE UNCHANGED M!vars
    BY <1>11 DEF M!vars, MigInv, M!TypeOK, Ready
  <1> QED
    BY <1>2, <1>5, <1>6, <1>7, <1>8, <1>9, <1>10, <1>11, MigCommits DEF M!Next, M!Migrate
-----------------------------------------------------------------------------
(* All parts together: a step of the server is a step of each part, or      *)
(* leaves it alone, so that each keeps its own invariant.                   *)

ServerInv == Inv /\ StreamInv /\ ArchiveInv /\ LimInv /\ MigInv

LEMMA StepOfEachPart ==
  [MCNext]_allVars => /\ [Next]_vars /\ [D!Next]_(D!vars)
                      /\ [L!Next]_(L!vars) /\ [M!Next]_(M!vars)
  <1> SUFFICES ASSUME [MCNext]_allVars
               PROVE  [Next]_vars /\ [D!Next]_(D!vars) /\ [L!Next]_(L!vars) /\ [M!Next]_(M!vars)
    OBVIOUS
  <1>1. /\ downloads' = downloads => UNCHANGED D!vars
        /\ limit' = limit => UNCHANGED L!vars
        /\ migrations' = migrations => UNCHANGED M!vars
    BY DEF downloads, limit, migrations, D!vars, L!vars, M!vars
  <1>2. /\ Next \/ vars' = vars
        /\ D!Next \/ downloads' = downloads
        /\ L!Next \/ limit' = limit
        /\ M!Next \/ migrations' = migrations
    BY DEF MCNext, allVars
  <1> QED
    BY <1>1, <1>2

LEMMA InitServerInv == MCInit => ServerInv
  BY InitInv, InitStreamInv, InitArchiveInv, InitLimInv, InitMigInv DEF MCInit, ServerInv

LEMMA StepServerInv == ServerInv /\ [MCNext]_allVars => ServerInv'
  BY StepOfEachPart, StepKeepsInv, StepStreamInv, StepArchiveInv, StepLimInv, StepMigInv
     DEF ServerInv

LEMMA ServerInvHolds == MCSpec => []ServerInv
  BY InitServerInv, StepServerInv, PTL DEF MCSpec

(* Every variable of every part of the server keeps its shape: what is      *)
(* uploaded, streamed and zipped, the rate limit's counter and the schema.  *)
THEOREM ServerTyped == MCSpec => []Typed
  <1>1. ASSUME ServerInv PROVE Typed
    <2>1. TypeOK /\ L!TypeOK /\ M!TypeOK
      BY <1>1 DEF ServerInv, Inv, LimInv, MigInv
    <2>2. D!TypeOK
      BY <1>1 DEF ServerInv, StreamInv, StreamShape, ArchiveInv, D!Archiving, D!TypeOK
    <2> QED
      BY <2>1, <2>2 DEF Typed
  <1> QED
    BY <1>1, ServerInvHolds, PTL

(* A file or a preview is announced and sent by the range that was asked    *)
(* for, and refused exactly when there is nothing in it, unless its object  *)
(* was replaced or removed between Stat and the open, whatever files are    *)
(* deleted and previews stored or cleared while requests are served.        *)
THEOREM RangesServed == MCSpec => []RangeAsRequested
  <1>1. ServerInv => RangeAsRequested
    BY StreamInvImplies DEF ServerInv, RangeAsRequested
  <1> QED
    BY <1>1, ServerInvHolds, PTL

(* A zip that has its directory has every file that was listed, whole and   *)
(* once, whoever of handler, goroutine, client and storage breaks off.      *)
THEOREM ArchivesWhole == MCSpec => []ArchiveComplete
  <1>1. ServerInv => ArchiveComplete
    BY ArchiveInvImplies DEF ServerInv, ArchiveComplete
  <1> QED
    BY <1>1, ServerInvHolds, PTL

(* Whatever calls are repeated, whichever answers are lost and whenever the *)
(* server restarts, a stretch of a window's length sees fewer than two      *)
(* limits of counted calls admitted.                                        *)
THEOREM LimitKept == MCSpec => []AdmittedWithinWindows
  <1>1. ASSUME ServerInv PROVE AdmittedWithinWindows
    <2>1. Stretches(admitted)
      BY <1>1 DEF ServerInv, LimInv
    <2> QED
      BY <2>1, SumIn DEF Stretches, Within, AdmittedWithinWindows, L!AdmittedWithinWindows
  <1> QED
    BY <1>1, ServerInvHolds, PTL

(* A subject that waits until the time its refusal named is not refused for *)
(* calls made before: the key it was counted by is another one then.        *)
THEOREM RefusalsPass == MCSpec => []RefusalsEnd
  <1>1. ASSUME ServerInv PROVE RefusalsEnd
    <2> SUFFICES ASSUME NEW t \in told, t <= now, ~L!Expired PROVE began >= t
      BY DEF RefusalsEnd, L!RefusalsEnd
    <2>1. L!TypeOK /\ Windows(counter, began, admitted, told, now)
      BY <1>1 DEF ServerInv, LimInv
    <2>2. counter.count \in Nat /\ counter.ends \in Nat /\ now \in Nat /\ began \in Nat /\ t \in Nat
      BY <2>1, CountAssumption, LimitAssumption DEF L!TypeOK, L!Time
    <2>3. counter.count > 0 /\ now < counter.ends
      BY <2>2 DEF L!Expired
    <2>4. t = counter.ends \/ t <= began
      BY <2>1, <2>3 DEF Windows
    <2> QED
      BY <2>2, <2>3, <2>4
  <1> QED
    BY <1>1, ServerInvHolds, PTL

(* However many migrators run and break off, and whenever the server starts *)
(* and stops, the schema is that of the first versions, each applied once   *)
(* and in order, the table says so, and a server that serves has them all.  *)
THEOREM SchemaKept == MCSpec => []SchemaInOrder
  <1>1. ASSUME ServerInv PROVE SchemaInOrder
    <2>1. /\ schema \in Seq(M!Versions) /\ schema = [i \in 1..Len(schema) |-> i]
          /\ recorded = 1..Len(schema) /\ serving => Len(schema) = Last
      BY <1>1 DEF ServerInv, MigInv, M!TypeOK
    <2>2. M!Range(schema) = 1..Len(schema)
      <3>1. DOMAIN schema = 1..Len(schema) /\ \A i \in 1..Len(schema) : schema[i] = i
        BY <2>1
      <3> QED
        BY <3>1 DEF M!Range
    <2>3. schema = [i \in 1..Len(schema) |-> i]
      BY <1>1 DEF ServerInv, MigInv
    <2>4. recorded = 1..Len(schema)
      BY <1>1 DEF ServerInv, MigInv
    <2>5. recorded = M!Range(schema)
      BY <2>2, <2>4, Zenon
    <2>6. serving => Len(schema) = Last
      BY <1>1 DEF ServerInv, MigInv
    <2> QED
      BY <2>3, <2>5, <2>6 DEF SchemaInOrder, M!SchemaInOrder
  <1> QED
    BY <1>1, ServerInvHolds, PTL
=============================================================================
