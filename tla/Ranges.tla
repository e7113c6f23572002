------------------------------- MODULE Ranges -------------------------------
(***************************************************************************)
(* Range requests: parseSingleRange (internal/http/files.go), and what      *)
(* GetRangeStream (internal/storage/local.go) makes of its result.          *)
(* A header is "bytes=first-last", each position a number or left out, and  *)
(* an interval that is refused has ok = FALSE.                              *)
(***************************************************************************)
EXTENDS Integers

CONSTANT None   \* a position that is left out

ASSUME NoneAssumption == None \notin Int

Header == [first : Nat \cup {None}, last : Nat \cup {None}]

Smaller(a, b) == IF a < b THEN a ELSE b

Refused == [ok |-> FALSE, start |-> 0, end |-> 0]
Interval(start, end) == [ok |-> TRUE, start |-> start, end |-> end]

(* Not the code: a suffix may be longer than the object.                    *)
BugLongSuffix(last, size) ==
    IF last \in {None, 0} THEN Refused ELSE Interval(size - last, size - 1)

(* bytes=-last: the last bytes, or as many as there are.                    *)
Suffix(last, size) ==
    IF last \in {None, 0} THEN Refused
    ELSE Interval(size - Smaller(last, size), size - 1)

(* bytes=first- and bytes=first-last, which may end beyond the object.      *)
From(first, last, size) ==
    IF first >= size \/ (last # None /\ last < first) THEN Refused
    ELSE Interval(first, IF last = None THEN size - 1 ELSE Smaller(last, size - 1))

ParseSingleRange(h, size) ==
    IF h.first = None THEN Suffix(h.last, size) ELSE From(h.first, h.last, size)

(* GetRangeStream: the bytes it finds in an object of this size.            *)
RangeStream(interval, size) ==
    IF interval.start < 0 \/ interval.end < interval.start \/ interval.start >= size
    THEN Refused ELSE Interval(interval.start, Smaller(interval.end, size - 1))

(* The reference: the positions of an object that a header asks for.        *)
Requested(h, size) ==
    {i \in 0..size - 1 :
        IF h.first = None THEN h.last # None /\ size - h.last <= i
                         ELSE h.first <= i /\ (h.last # None => i <= h.last)}
=============================================================================
