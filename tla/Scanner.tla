------------------------------ MODULE Scanner -------------------------------
(***************************************************************************)
(* cc/sse.go: the reader of the body of /alpha/generate, which accepts two *)
(* framings, one JSON object a line and SSE's data: lines closed by a      *)
(* blank one.                                                              *)
(*                                                                         *)
(* A line is its kind and, for the two kinds that carry something, a       *)
(* chunk: part `part' of `of' of the JSON of an event.  JSON parses when   *)
(* it is all the parts of one event.  Next reads lines until it has        *)
(* something to say; ReadLine is one turn of its loop.                     *)
(***************************************************************************)
EXTENDS Naturals, Sequences

CONSTANT ScanBufMax    (* chunks of a frame: 4 MiB in the code             *)

ASSUME ScanBufMaxAssumption == ScanBufMax \in Nat \ {0}

Chunk(ev, part, of) == [ev |-> ev, part |-> part, of |-> of]

Line(kind)            == [kind |-> kind]
ChunkLine(kind, chunk) == [kind |-> kind, chunk |-> chunk]

NoEvent == [type |-> "none"]

\* What a turn of the loop leaves and returns; neither event nor error means
\* that the loop goes on.
Returns(sc, ev, err) == [sc |-> sc, ev |-> ev, err |-> err]
GoesOn(sc)           == Returns(sc, NoEvent, "none")

NewScanner == [dataBuf |-> <<>>, err |-> "none"]

Parses(buf) ==
  \A i \in DOMAIN buf : buf[i] = Chunk(buf[1].ev, i, Len(buf))

flush(sc, err) ==
  LET reset == [sc EXCEPT !.dataBuf = <<>>] IN
  IF Parses(sc.dataBuf) THEN Returns(reset, sc.dataBuf[1].ev, err)
                        ELSE Returns(reset, NoEvent, "parse")

Fails(sc, err) == Returns([sc EXCEPT !.err = err], NoEvent, err)

\* A frame that outgrows the buffer is fatal, not cut.
DataLine(sc, chunk) ==
  IF Len(sc.dataBuf) + 1 > ScanBufMax
  THEN Fails(sc, "too long")
  ELSE GoesOn([sc EXCEPT !.dataBuf = Append(@, chunk)])

\* Comments, fields that are not data, and a raw line while data is pending
\* are passed over.
ReadLine(sc, line) ==
  CASE line.kind = "blank" /\ sc.dataBuf # <<>> -> flush(sc, "none")
    [] line.kind = "data"                       -> DataLine(sc, line.chunk)
    [] line.kind = "json" /\ sc.dataBuf = <<>>  ->
         flush([sc EXCEPT !.dataBuf = <<line.chunk>>], "none")
    [] OTHER                                    -> GoesOn(sc)

\* Mutant: a frame the body ends in is dropped.
AtEOF_Drops(sc) == Fails(sc, "EOF")

\* The body ended: what is pending is the last frame, its blank line left out.
AtEOF(sc) ==
  LET ended == [sc EXCEPT !.err = "EOF"] IN
  IF sc.dataBuf # <<>> THEN flush(ended, "EOF") ELSE Returns(ended, NoEvent, "EOF")

\* The read failed: the error stays, a line begun is dropped.
ReadFails(sc) == Fails(sc, "read")
=============================================================================
