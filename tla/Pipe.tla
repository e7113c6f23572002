-------------------------------- MODULE Pipe --------------------------------
(***************************************************************************)
(* io.Pipe of the Go library, as internal/http uses it: one goroutine       *)
(* writes, one reads, and nothing is buffered.  A Write blocks until a Read *)
(* has taken what it holds or the reader is closed; a Read blocks until     *)
(* there is something to take or the writer is closed.                      *)
(***************************************************************************)

CONSTANT Nil

Pipe(Item) == [held : Item \cup {Nil}, writer : {"open", "eof", "error"},
               reader : {"open", "closed"}]

NewPipe == [held |-> Nil, writer |-> "open", reader |-> "open"]

(* A Write has begun; it has returned when nothing is held any more.        *)
WriteTo(p, item) == [p EXCEPT !.held = item]

Written(p) == p.held = Nil /\ p.reader = "open"

(* It returns an error, io.ErrClosedPipe.                                   *)
WriteRefused(p) == p.reader = "closed"

(* What a Read may do: take, or learn that the writer has closed.           *)
Readable(p) == p.held # Nil
ReadFrom(p) == [p EXCEPT !.held = Nil]
AtEnd(p) == p.held = Nil /\ p.writer # "open"

(* Close is CloseWithError(io.EOF).                                         *)
CloseWriter(p, how) == [p EXCEPT !.writer = how]
CloseReader(p) == [p EXCEPT !.reader = "closed", !.held = Nil]
=============================================================================
