------------------------- MODULE ConversationProofs -------------------------
(***************************************************************************)
(* For any events, framings, failures, protocols and number of turns: the  *)
(* reader loses and repeats nothing, the messages sent only grow, they     *)
(* show upstream everything that was said, and the results in them follow  *)
(* their calls.                                                            *)
(***************************************************************************)
EXTENDS Conversation, FoldLemmas, SequenceTheorems

Scanning(buf, err) == [dataBuf |-> buf, err |-> err]

\* The first n parts of an event's frame.
PartsOf(ev, of, n) == [i \in 1 .. n |-> Chunk(ev, i, of)]

\* Between frames nothing is pending; in a frame, the parts sent so far are.
PendingIs(buf) ==
  IF Sending
  THEN \E ev, of, n : /\ frame = [ev |-> ev, of |-> of, parts |-> n]
                      /\ ev # NoEvent /\ of \in Nat /\ n \in 1 .. of
                      /\ n <= ScanBufMax /\ buf = PartsOf(ev, of, n)
  ELSE buf = <<>>

ReadInv ==
  /\ got = answered
  /\ \E buf, err : sc = Scanning(buf, err) /\ (phase = "answering" => PendingIs(buf))

LEMMA PartsAreASequence ==
  ASSUME NEW ev, NEW of \in Nat, NEW n \in Nat
  PROVE  /\ PartsOf(ev, of, n) \in Seq({Chunk(ev, i, of) : i \in Nat})
         /\ Len(PartsOf(ev, of, n)) = n
         /\ Append(PartsOf(ev, of, n), Chunk(ev, n + 1, of)) = PartsOf(ev, of, n + 1)
<1> DEFINE S == {Chunk(ev, i, of) : i \in Nat}
           p == PartsOf(ev, of, n)
<1>1. \A m \in Nat : /\ PartsOf(ev, of, m) \in Seq(S) /\ Len(PartsOf(ev, of, m)) = m
                     /\ \A i \in 1 .. m : PartsOf(ev, of, m)[i] = Chunk(ev, i, of)
  BY DEF PartsOf
<1>2. Chunk(ev, n + 1, of) \in S
  OBVIOUS
<1> HIDE DEF S
<1>3. Append(p, Chunk(ev, n + 1, of)) = PartsOf(ev, of, n + 1)
  <2> DEFINE a == Append(p, Chunk(ev, n + 1, of))
             b == PartsOf(ev, of, n + 1)
  <2>1. /\ a \in Seq(S) /\ Len(a) = n + 1 /\ a[n + 1] = Chunk(ev, n + 1, of)
        /\ \A i \in 1 .. n : a[i] = Chunk(ev, i, of)
    BY <1>1, <1>2, AppendProperties
  <2>2. b \in Seq(S) /\ Len(b) = n + 1 /\ \A i \in 1 .. n + 1 : b[i] = Chunk(ev, i, of)
    BY <1>1
  <2> HIDE DEF a, b
  <2>3. \A i \in 1 .. n + 1 : a[i] = b[i]
    BY <2>1, <2>2
  <2>4. a = b
    BY <2>1, <2>2, <2>3, SeqEqual
  <2> QED
    BY <2>4 DEF a, b
<1> QED
  BY <1>1, <1>3 DEF S

\* They are JSON when they are all of it.
LEMMA PartsParse ==
  ASSUME NEW ev, NEW of \in Nat, NEW n \in Nat, n > 0
  PROVE  /\ PartsOf(ev, of, n) # <<>> /\ PartsOf(ev, of, n)[1].ev = ev
         /\ Parses(PartsOf(ev, of, n)) <=> n = of
<1> DEFINE p == PartsOf(ev, of, n)
<1>1. DOMAIN p = 1 .. n /\ Len(p) = n /\ \A i \in 1 .. n : p[i] = Chunk(ev, i, of)
  BY PartsAreASequence DEF PartsOf
<1>2. p[1].ev = ev
  BY <1>1 DEF Chunk
<1>3. Parses(p) <=> \A i \in 1 .. n : p[i] = Chunk(ev, i, n)
  BY <1>1, <1>2 DEF Parses
<1>4. Chunk(ev, 1, of).of = of /\ Chunk(ev, 1, n).of = n
  BY DEF Chunk
<1> HIDE DEF p
<1>5. Parses(p) <=> n = of
  BY <1>1, <1>3, <1>4
<1>6. p # <<>>
  BY <1>1
<1> QED
  BY <1>2, <1>5, <1>6 DEF p

\* What the loop of Next hands on is what AccumulateStream gets; after an
\* error the attempt is over.
LEMMA ReadGives ==
  ASSUME NEW s, NEW ev, NEW err, Read(Returns(s, ev, err))
  PROVE  /\ sc' = s
         /\ got' = IF ev = NoEvent THEN got ELSE Append(got, ev)
         /\ phase' = "answering" => err = "none"
  BY DEF Read, Returns

LEMMA ReadsGoOn ==
  ASSUME NEW s, Read(GoesOn(s))
  PROVE  sc' = s /\ got' = got
  BY ReadGives DEF GoesOn

LEMMA ReadsFail ==
  ASSUME NEW s, NEW e, e # "none", Read(Fails(s, e))
  PROVE  sc' = [s EXCEPT !.err = e] /\ got' = got /\ phase' # "answering"
  BY ReadGives DEF Fails

LEMMA FlushesWhole ==
  ASSUME NEW ev, NEW of \in Nat \ {0}, NEW e, NEW err, ev # NoEvent,
         Read(flush(Scanning(PartsOf(ev, of, of), e), err))
  PROVE  /\ sc' = Scanning(<<>>, e) /\ got' = Append(got, ev)
         /\ phase' = "answering" => err = "none"
<1> DEFINE p == PartsOf(ev, of, of)
<1>1. Parses(p) /\ p[1].ev = ev
  <2>1. of \in Nat /\ of > 0
    OBVIOUS
  <2> HIDE DEF p
  <2> QED
    BY <2>1, PartsParse DEF p
<1> HIDE DEF p
<1>2. flush(Scanning(p, e), err) = Returns(Scanning(<<>>, e), ev, err)
  BY <1>1 DEF flush, Scanning
<1>3. Read(Returns(Scanning(<<>>, e), ev, err))
  BY <1>2 DEF p
<1> QED
  BY <1>3, ReadGives

LEMMA FlushesTorn ==
  ASSUME NEW ev, NEW of \in Nat, NEW n \in Nat \ {0}, n # of, NEW e, NEW err,
         Read(flush(Scanning(PartsOf(ev, of, n), e), err))
  PROVE  sc' = Scanning(<<>>, e) /\ got' = got /\ phase' # "answering"
<1> DEFINE p == PartsOf(ev, of, n)
<1>1. ~Parses(p)
  <2>1. n \in Nat /\ n > 0
    OBVIOUS
  <2> HIDE DEF p
  <2> QED
    BY <2>1, PartsParse DEF p
<1> HIDE DEF p
<1>2. flush(Scanning(p, e), err) = Returns(Scanning(<<>>, e), NoEvent, "parse")
  BY <1>1 DEF flush, Scanning
<1>3. Read(Returns(Scanning(<<>>, e), NoEvent, "parse"))
  BY <1>2 DEF p
<1> QED
  BY <1>3, ReadGives

\* A data: line that fits is kept.
LEMMA DataIsKept ==
  ASSUME NEW ev, NEW of \in Nat, NEW n \in Nat, NEW e,
         Read(ReadLine(Scanning(PartsOf(ev, of, n), e), ChunkLine("data", Chunk(ev, n + 1, of))))
  PROVE  /\ got' = got
         /\ \E err : sc' = Scanning(IF n + 1 > ScanBufMax THEN PartsOf(ev, of, n)
                                    ELSE PartsOf(ev, of, n + 1), err)
         /\ n + 1 > ScanBufMax => phase' # "answering"
<1> DEFINE p == PartsOf(ev, of, n)
           q == PartsOf(ev, of, n + 1)
           s == Scanning(p, e)
<1> HIDE DEF p, q
<1>1. Len(p) = n /\ Append(p, Chunk(ev, n + 1, of)) = q
  BY PartsAreASequence DEF p, q
<1>2. ReadLine(s, ChunkLine("data", Chunk(ev, n + 1, of))) = DataLine(s, Chunk(ev, n + 1, of))
  BY DEF ReadLine, ChunkLine
<1>3. CASE n + 1 > ScanBufMax
  <2>1. DataLine(s, Chunk(ev, n + 1, of)) = Fails(s, "too long")
    BY <1>1, <1>3 DEF DataLine, Scanning
  <2>2. Read(Fails(s, "too long"))
    BY <1>2, <2>1 DEF p
  <2>3. got' = got /\ phase' # "answering" /\ sc' = [s EXCEPT !.err = "too long"]
    BY <2>2, ReadsFail
  <2>4. sc' = Scanning(p, "too long")
    BY <2>3 DEF Scanning
  <2> QED
    BY <1>3, <2>3, <2>4 DEF p
<1>4. CASE ~(n + 1 > ScanBufMax)
  <2>1. DataLine(s, Chunk(ev, n + 1, of)) = GoesOn(Scanning(q, e))
    <3>1. DataLine(s, Chunk(ev, n + 1, of))
            = GoesOn([s EXCEPT !.dataBuf = Append(@, Chunk(ev, n + 1, of))])
      BY <1>1, <1>4 DEF DataLine, Scanning
    <3>2. [s EXCEPT !.dataBuf = Append(@, Chunk(ev, n + 1, of))]
            = Scanning(Append(p, Chunk(ev, n + 1, of)), e)
      <4>1. \A x : [s EXCEPT !.dataBuf = x] = Scanning(x, e)
        BY DEF Scanning
      <4>2. s.dataBuf = p
        BY DEF Scanning
      <4> QED
        BY <4>1, <4>2, Zenon
    <3> QED
      BY <1>1, <3>1, <3>2
  <2>2. Read(GoesOn(Scanning(q, e)))
    BY <1>2, <2>1 DEF p
  <2>3. got' = got /\ sc' = Scanning(q, e)
    BY <2>2, ReadsGoOn
  <2> QED
    BY <1>4, <2>3 DEF q
<1> QED
  BY <1>3, <1>4

\* A raw line between frames is read at once.
LEMMA RawIsRead ==
  ASSUME NEW ev, NEW of \in Nat \ {0}, NEW e, ev # NoEvent,
         Read(ReadLine(Scanning(<<>>, e), ChunkLine("json", Chunk(ev, 1, of))))
  PROVE  /\ sc' = Scanning(<<>>, e)
         /\ got' = IF of = 1 THEN Append(got, ev) ELSE got
         /\ of # 1 => phase' # "answering"
<1>1. PartsOf(ev, of, 1) = <<Chunk(ev, 1, of)>>
  BY DEF PartsOf
<1>2. ReadLine(Scanning(<<>>, e), ChunkLine("json", Chunk(ev, 1, of)))
        = flush(Scanning(PartsOf(ev, of, 1), e), "none")
  BY <1>1 DEF ReadLine, ChunkLine, Scanning
<1>3. Read(flush(Scanning(PartsOf(ev, of, 1), e), "none"))
  BY <1>2
<1>4. CASE of = 1
  BY <1>3, <1>4, FlushesWhole
<1>5. CASE of # 1
  BY <1>3, <1>5, FlushesTorn
<1> QED
  BY <1>4, <1>5
-----------------------------------------------------------------------------
(* Nothing is lost or repeated by the reader.                              *)

LEMMA EventsAreEvents == \A type, piece : type # "none" => Event(type, piece) # NoEvent
<1> SUFFICES ASSUME NEW type, NEW piece, type # "none" PROVE Event(type, piece) # NoEvent
  OBVIOUS
<1>1. Event(type, piece).type = type /\ NoEvent.type = "none"
  BY DEF Event, NoEvent
<1> QED
  BY <1>1

LEMMA FreshIsRead == FreshAttempt => ReadInv'
<1> SUFFICES ASSUME FreshAttempt PROVE ReadInv'
  OBVIOUS
<1>1. sc' = Scanning(<<>>, "none") /\ got' = answered' /\ frame' = NoFrame
  BY DEF FreshAttempt, NewScanner, Scanning
<1> QED
  BY <1>1 DEF ReadInv, PendingIs, Sending

LEMMA InitReads == Init => ReadInv
  BY DEF Init, ReadInv, Scanning, NewScanner

\* What is pending between frames and in one.
LEMMA Between ==
  ASSUME ReadInv, phase = "answering", ~Sending
  PROVE  got = answered /\ \E err : sc = Scanning(<<>>, err)
  BY DEF ReadInv, PendingIs

LEMMA InAFrame ==
  ASSUME ReadInv, phase = "answering", Sending
  PROVE  /\ got = answered
         /\ \E ev, of, n, err :
              /\ frame = [ev |-> ev, of |-> of, parts |-> n]
              /\ ev # NoEvent /\ of \in Nat /\ n \in 1 .. of /\ n <= ScanBufMax
              /\ sc = Scanning(PartsOf(ev, of, n), err)
  BY DEF ReadInv, PendingIs

LEMMA BeganFrame ==
  ASSUME NEW ev, NEW of \in Nat, NEW n \in 1 .. of, n <= ScanBufMax, ev # NoEvent, NEW err,
         frame' = [ev |-> ev, of |-> of, parts |-> n],
         sc' = Scanning(PartsOf(ev, of, n), err), got' = answered'
  PROVE  ReadInv'
<1>1. Sending'
  <2>1. frame'.of = of /\ NoFrame.of = 0 /\ of # 0
    BY DEF NoFrame
  <2> QED
    BY <2>1 DEF Sending
<1> QED
  BY <1>1 DEF ReadInv, PendingIs

LEMMA BetweenFrames ==
  ASSUME NEW err, sc' = Scanning(<<>>, err), ~Sending', got' = answered'
  PROVE  ReadInv'
  BY DEF ReadInv, PendingIs

\* Whatever is pending after an attempt is of no account.
LEMMA AttemptOver ==
  ASSUME NEW buf, NEW err, sc' = Scanning(buf, err), phase' # "answering", got' = answered'
  PROVE  ReadInv'
  BY DEF ReadInv

LEMMA RawReads ==
  ASSUME ReadInv, NEW type, type # "none", SendRaw(type)
  PROVE  ReadInv'
<1> DEFINE ev == Ev(type)
<1>1. ev # NoEvent
  BY EventsAreEvents DEF Ev
<1> HIDE DEF ev
<1>2. /\ phase = "answering" /\ ~Sending /\ answered' = Append(answered, ev)
      /\ frame' = frame
      /\ Read(ReadLine(sc, ChunkLine("json", Chunk(ev, 1, 1))))
  BY DEF SendRaw, MaySendNow, ev
<1>3. got = answered
  BY <1>2, Between
<1>4. PICK e : sc = Scanning(<<>>, e)
  BY <1>2, Between
<1>5. Read(ReadLine(Scanning(<<>>, e), ChunkLine("json", Chunk(ev, 1, 1))))
  BY <1>2, <1>4
<1>6. sc' = Scanning(<<>>, e) /\ got' = Append(got, ev)
  BY <1>1, <1>5, RawIsRead
<1>7. ~Sending'
  BY <1>2 DEF Sending
<1>8. got' = answered'
  BY <1>2, <1>3, <1>6
<1> QED
  BY <1>6, <1>7, <1>8, BetweenFrames

LEMMA BeginReads ==
  ASSUME ReadInv, NEW type, type # "none", NEW of \in Nat \ {0}, BeginFrame(type, of)
  PROVE  ReadInv'
<1> DEFINE ev == Ev(type)
<1>1. ev # NoEvent
  BY EventsAreEvents DEF Ev
<1> HIDE DEF ev
<1>2. /\ phase = "answering" /\ ~Sending /\ answered' = answered
      /\ frame' = [ev |-> ev, of |-> of, parts |-> 1]
      /\ Read(ReadLine(sc, ChunkLine("data", Chunk(ev, 1, of))))
  BY DEF BeginFrame, MaySendNow, ev
<1>3. got = answered
  BY <1>2, Between
<1>4. PICK e : sc = Scanning(<<>>, e)
  BY <1>2, Between
<1>5. PartsOf(ev, of, 0) = <<>>
  BY PartsAreASequence DEF PartsOf
<1>6. Read(ReadLine(Scanning(PartsOf(ev, of, 0), e), ChunkLine("data", Chunk(ev, 0 + 1, of))))
  BY <1>2, <1>4, <1>5
<1>7. 0 \in Nat /\ of \in Nat /\ 0 + 1 = 1 /\ 1 \in 1 .. of /\ ~(1 > ScanBufMax)
  BY ScanBufMaxAssumption
<1>8. got' = got /\ \E err : sc' = Scanning(PartsOf(ev, of, 1), err)
  BY <1>6, <1>7, DataIsKept
<1>9. PICK err : sc' = Scanning(PartsOf(ev, of, 1), err)
  BY <1>8
<1>10. got' = answered' /\ 1 <= ScanBufMax
  BY <1>2, <1>3, <1>8, ScanBufMaxAssumption
<1> QED
  BY <1>1, <1>2, <1>7, <1>9, <1>10, BeganFrame

LEMMA PartReads ==
  ASSUME ReadInv, SendPart
  PROVE  ReadInv'
<1>1. phase = "answering" /\ Sending
  BY DEF SendPart
<1>2. got = answered
  BY <1>1, InAFrame
<1>3. PICK ev, of, n, e :
        /\ frame = [ev |-> ev, of |-> of, parts |-> n]
        /\ ev # NoEvent /\ of \in Nat /\ n \in 1 .. of /\ n <= ScanBufMax
        /\ sc = Scanning(PartsOf(ev, of, n), e)
  BY <1>1, InAFrame
<1>4. frame.ev = ev /\ frame.of = of /\ frame.parts = n
  BY <1>3
<1>5. /\ n < of /\ frame' = [ev |-> ev, of |-> of, parts |-> n + 1]
      /\ answered' = answered
      /\ Read(ReadLine(Scanning(PartsOf(ev, of, n), e), ChunkLine("data", Chunk(ev, n + 1, of))))
  BY <1>3, <1>4 DEF SendPart
<1>6. n \in Nat /\ n + 1 \in 1 .. of /\ n + 1 \in Nat
  BY <1>3, <1>5
<1>7. /\ got' = got
      /\ \E err : sc' = Scanning(IF n + 1 > ScanBufMax THEN PartsOf(ev, of, n)
                                    ELSE PartsOf(ev, of, n + 1), err)
      /\ n + 1 > ScanBufMax => phase' # "answering"
  BY <1>3, <1>5, <1>6, DataIsKept
<1>8. got' = answered'
  BY <1>2, <1>5, <1>7
<1>9. CASE n + 1 > ScanBufMax
  <2>1. PICK err : sc' = Scanning(PartsOf(ev, of, n), err)
    BY <1>7, <1>9
  <2> QED
    BY <1>7, <1>8, <1>9, <2>1, AttemptOver
<1>10. CASE ~(n + 1 > ScanBufMax)
  <2>1. PICK err : sc' = Scanning(PartsOf(ev, of, n + 1), err)
    BY <1>7, <1>10
  <2>2. n + 1 <= ScanBufMax
    BY <1>6, <1>10, ScanBufMaxAssumption
  <2> QED
    BY <1>3, <1>5, <1>6, <1>8, <2>1, <2>2, BeganFrame
<1> QED
  BY <1>9, <1>10

LEMMA EndReads ==
  ASSUME ReadInv, EndFrame
  PROVE  ReadInv'
<1>1. phase = "answering" /\ Sending
  BY DEF EndFrame
<1>2. got = answered
  BY <1>1, InAFrame
<1>3. PICK ev, of, n, e :
        /\ frame = [ev |-> ev, of |-> of, parts |-> n]
        /\ ev # NoEvent /\ of \in Nat /\ n \in 1 .. of /\ n <= ScanBufMax
        /\ sc = Scanning(PartsOf(ev, of, n), e)
  BY <1>1, InAFrame
<1>4. frame.ev = ev /\ frame.of = of /\ frame.parts = n
  BY <1>3
<1>5. /\ n = of /\ frame' = NoFrame /\ answered' = Append(answered, ev)
      /\ Read(ReadLine(Scanning(PartsOf(ev, of, of), e), Line("blank")))
  BY <1>3, <1>4 DEF EndFrame
<1>6. PartsOf(ev, of, of) # <<>> /\ of \in Nat \ {0}
  BY <1>3, <1>5, PartsParse
<1>7. ReadLine(Scanning(PartsOf(ev, of, of), e), Line("blank"))
        = flush(Scanning(PartsOf(ev, of, of), e), "none")
  BY <1>6 DEF ReadLine, Line, Scanning
<1>8. Read(flush(Scanning(PartsOf(ev, of, of), e), "none"))
  BY <1>5, <1>7
<1>9. sc' = Scanning(<<>>, e) /\ got' = Append(got, ev)
  BY <1>3, <1>6, <1>8, FlushesWhole
<1>10. got' = answered' /\ ~Sending'
  BY <1>2, <1>5, <1>9 DEF Sending
<1> QED
  BY <1>9, <1>10, BetweenFrames

LEMMA NoiseReads ==
  ASSUME ReadInv, NEW kind \in {"blank", "comment", "field"}, Noise(kind)
  PROVE  ReadInv'
<1>1. /\ phase = "answering" /\ (kind = "blank" => ~Sending)
      /\ frame' = frame /\ answered' = answered
      /\ Read(ReadLine(sc, Line(kind)))
  BY DEF Noise
<1>2. ReadLine(sc, Line(kind)) = GoesOn(sc)
  <2>1. CASE kind = "blank"
    <3>1. sc.dataBuf = <<>>
      BY <1>1, <2>1, Between DEF Scanning
    <3> QED
      BY <2>1, <3>1 DEF ReadLine, Line
  <2>2. CASE kind # "blank"
    BY <2>2 DEF ReadLine, Line
  <2> QED
    BY <2>1, <2>2
<1>3. sc' = sc /\ got' = got
  BY <1>1, <1>2, ReadsGoOn
<1> QED
  BY <1>1, <1>3 DEF ReadInv, PendingIs, Sending

LEMMA EndsRead ==
  ASSUME ReadInv, BodyEnds
  PROVE  ReadInv'
<1>1. /\ phase = "answering" /\ frame' = NoFrame /\ Read(AtEOF(sc))
      /\ answered' = IF Sending /\ frame.parts = frame.of THEN Append(answered, frame.ev)
                                                          ELSE answered
  BY DEF BodyEnds
<1>2. ~Sending'
  BY <1>1 DEF Sending
<1>3. CASE ~Sending
  <2>1. got = answered
    BY <1>1, <1>3, Between
  <2>2. PICK e : sc = Scanning(<<>>, e)
    BY <1>1, <1>3, Between
  <2>3. AtEOF(sc) = Returns(Scanning(<<>>, "EOF"), NoEvent, "EOF")
    BY <2>2 DEF AtEOF, Scanning
  <2>4. sc' = Scanning(<<>>, "EOF") /\ got' = got
    BY <1>1, <2>3, ReadGives
  <2> QED
    BY <1>1, <1>2, <1>3, <2>1, <2>4, BetweenFrames
<1>4. CASE Sending
  <2>1. got = answered
    BY <1>1, <1>4, InAFrame
  <2>2. PICK ev, of, n, e :
          /\ frame = [ev |-> ev, of |-> of, parts |-> n]
          /\ ev # NoEvent /\ of \in Nat /\ n \in 1 .. of /\ n <= ScanBufMax
          /\ sc = Scanning(PartsOf(ev, of, n), e)
    BY <1>1, <1>4, InAFrame
  <2>3. frame.ev = ev /\ frame.of = of /\ frame.parts = n /\ n \in Nat /\ n > 0
    BY <2>2
  <2>4. PartsOf(ev, of, n) # <<>>
    BY <2>2, <2>3, PartsParse
  <2>5. AtEOF(sc) = flush(Scanning(PartsOf(ev, of, n), "EOF"), "EOF")
    BY <2>2, <2>4 DEF AtEOF, Scanning
  <2>6. Read(flush(Scanning(PartsOf(ev, of, n), "EOF"), "EOF"))
    BY <1>1, <2>5
  <2>7. CASE n = of
    <3>1. sc' = Scanning(<<>>, "EOF") /\ got' = Append(got, ev)
      BY <2>2, <2>3, <2>6, <2>7, FlushesWhole
    <3> QED
      BY <1>1, <1>2, <1>4, <2>1, <2>3, <2>7, <3>1, BetweenFrames
  <2>8. CASE n # of
    <3>1. sc' = Scanning(<<>>, "EOF") /\ got' = got
      BY <2>2, <2>3, <2>6, <2>8, FlushesTorn
    <3> QED
      BY <1>1, <1>2, <2>1, <2>3, <2>8, <3>1, BetweenFrames
  <2> QED
    BY <2>7, <2>8
<1> QED
  BY <1>3, <1>4

LEMMA TornReads ==
  ASSUME ReadInv, NEW type, type # "none", NEW err \in {"EOF", "read"}, BodyTorn(type, err)
  PROVE  ReadInv'
<1> DEFINE ev == Ev(type)
<1>1. ev # NoEvent
  BY EventsAreEvents DEF Ev
<1> HIDE DEF ev
<1>2. /\ phase = "answering" /\ ~Sending /\ answered' = answered /\ frame' = frame
      /\ IF err = "EOF" THEN Read(ReadLine(sc, ChunkLine("json", Chunk(ev, 1, 2))))
                        ELSE Read(ReadFails(sc))
  BY DEF BodyTorn, MaySendNow, ev
<1>3. got = answered
  BY <1>2, Between
<1>4. PICK e : sc = Scanning(<<>>, e)
  BY <1>2, Between
<1>5. ~Sending'
  BY <1>2 DEF Sending
<1>6. CASE err = "EOF"
  <2>1. Read(ReadLine(Scanning(<<>>, e), ChunkLine("json", Chunk(ev, 1, 2))))
    BY <1>2, <1>4, <1>6
  <2>2. sc' = Scanning(<<>>, e) /\ got' = got
    BY <1>1, <2>1, RawIsRead
  <2> QED
    BY <1>2, <1>3, <1>5, <2>2, BetweenFrames
<1>7. CASE err = "read"
  <2>1. Read(Fails(sc, "read"))
    BY <1>2, <1>7 DEF ReadFails
  <2>2. sc' = [sc EXCEPT !.err = "read"] /\ got' = got
    BY <2>1, ReadsFail
  <2>3. sc' = Scanning(<<>>, "read")
    BY <1>4, <2>2 DEF Scanning
  <2> QED
    BY <1>2, <1>3, <1>5, <2>2, <2>3, BetweenFrames
<1> QED
  BY <1>6, <1>7

LEMMA NextReads == ReadInv /\ [Next]_vars => ReadInv'
<1> SUFFICES ASSUME ReadInv, [Next]_vars PROVE ReadInv'
  OBVIOUS
<1>1. CASE UNCHANGED vars
  BY <1>1 DEF vars, client, attempt, ReadInv, PendingIs, Sending
<1>2. ASSUME NEW i, NEW u, Speak(i, u) PROVE ReadInv'
  BY <1>2, FreshIsRead DEF Speak
<1>3. ASSUME NEW req, Ask(req) PROVE ReadInv'
  BY <1>3, FreshIsRead DEF Ask
<1>4. \A type \in ContentTypes \cup {"finish", "error"} : type # "none"
  BY DEF ContentTypes, Deltas
<1>5. \A of \in 1 .. (ScanBufMax + 1) : of \in Nat \ {0}
  BY ScanBufMaxAssumption
<1> QED
  BY <1>1, <1>2, <1>3, <1>4, <1>5, RawReads, BeginReads, TornReads, PartReads, EndReads,
     EndsRead, NoiseReads DEF Next

\* For any events, framings, noise, failures and size of the buffer, and
\* wherever a body ends: what AccumulateStream is given is what upstream has
\* sent whole (sse.go:52-142).
THEOREM EventsAllArrive == Spec => []EventsArrive
<1>1. ReadInv => EventsArrive
  BY DEF ReadInv, EventsArrive
<1> QED
  BY InitReads, NextReads, <1>1, PTL DEF Spec
-----------------------------------------------------------------------------
(* What the messages are made of, on both sides of the conversion.         *)

ClientBlocks == [type : {"text", "image"}, pieces : Seq(Nat)]
ResultBlocks == [type : {"tool_result"}, call : Nat, parts : Seq(ClientBlocks)]
UserBlocks   == ClientBlocks \cup ResultBlocks
AnswerBlocks == [type : {"text", "thinking", "tool_use"}, pieces : Seq(Nat)]

AnthropicMessages ==
  [role : {"user"}, content : Seq(UserBlocks)]
    \cup [role : {"assistant"}, content : Seq(AnswerBlocks)]

OpenAIMessages ==
  [role : {"system", "developer", "user"}, content : Seq(ClientBlocks)]
    \cup [role : {"assistant"}, content : Seq(ClientBlocks), calls : Seq(Nat)]
    \cup [role : {"tool"}, call : Nat, content : Seq(ClientBlocks)]

Messages(pr) == IF pr = "anthropic" THEN AnthropicMessages ELSE OpenAIMessages

SentBlocks ==
  [type : {"text", "image", "reasoning", "tool-call"}, pieces : Seq(Nat)]
    \cup [type : {"tool-result"}, call : Nat, pieces : Seq(Nat)]

SentMessages == [role : {"user", "assistant", "tool"}, content : Seq(SentBlocks)]

LEMMA ElementsOf ==
  ASSUME NEW S, NEW s \in Seq(S)
  PROVE  DOMAIN s = 1 .. Len(s) /\ Len(s) \in Nat /\ \A i \in DOMAIN s : s[i] \in S
<1>1. DOMAIN s = 1 .. Len(s) /\ Len(s) \in Nat
  OBVIOUS
<1> QED
  BY <1>1, ElementOfSeq

\* A sequence made element by element.
LEMMA MadeOf ==
  ASSUME NEW S, NEW p, NEW n \in Nat, DOMAIN p = 1 .. n, p = [i \in 1 .. n |-> p[i]],
         \A i \in 1 .. n : p[i] \in S
  PROVE  p \in Seq(S) /\ Len(p) = n
  OBVIOUS

-----------------------------------------------------------------------------
(* Texts.                                                                  *)

TextIn == [b \in ClientBlocks |-> IF b.type = "text" THEN b.pieces ELSE <<>>]

LEMMA TextInMaps == Maps(TextIn, ClientBlocks, Nat)
<1>1. \A b \in ClientBlocks : b.pieces \in Seq(Nat)
  BY DEF ClientBlocks
<1>2. <<>> \in Seq(Nat)
  BY EmptySeq
<1> QED
  BY <1>1, <1>2 DEF Maps, TextIn

LEMMA TextIs ==
  ASSUME NEW parts \in Seq(ClientBlocks)
  PROVE  TextOf(parts) = FlatMap(TextIn, parts)
<1>1. \A i \in DOMAIN parts : parts[i] \in ClientBlocks
  BY ElementsOf
<1>2. Mapped(TextIn, parts)
        = [i \in DOMAIN parts |-> IF parts[i].type = "text" THEN parts[i].pieces ELSE <<>>]
  BY <1>1 DEF Mapped, TextIn
<1> QED
  BY <1>2 DEF TextOf, FlatMap

\* The text of two lists of parts is that of the first and that of the second.
LEMMA TextOfParts ==
  /\ TextOf(<<>>) = <<>>
  /\ \A p \in Seq(ClientBlocks) : TextOf(p) \in Seq(Nat)
  /\ \A p, q \in Seq(ClientBlocks) : TextOf(p \o q) = TextOf(p) \o TextOf(q)
  /\ \A s \in Seq(Nat) : TextOf(<<Block("text", s)>>) = s
<1>1. TextOf(<<>>) = <<>>
  <2>1. <<>> \in Seq(ClientBlocks)
    BY EmptySeq
  <2> QED
    BY <2>1, TextIs, FlatMapNone
<1>2. ASSUME NEW p \in Seq(ClientBlocks) PROVE TextOf(p) \in Seq(Nat)
  BY TextIs, TextInMaps, FlatMapType
<1>3. ASSUME NEW p \in Seq(ClientBlocks), NEW q \in Seq(ClientBlocks)
      PROVE  TextOf(p \o q) = TextOf(p) \o TextOf(q)
  <2>1. FlatMap(TextIn, p \o q) = FlatMap(TextIn, p) \o FlatMap(TextIn, q)
    BY TextInMaps, FlatMapConcat
  <2>2. p \o q \in Seq(ClientBlocks)
    BY ConcatProperties
  <2> QED
    BY <2>1, <2>2, TextIs
<1>4. ASSUME NEW s \in Seq(Nat) PROVE TextOf(<<Block("text", s)>>) = s
  <2>1. PICK b : b = Block("text", s)
    OBVIOUS
  <2>2. b \in ClientBlocks /\ TextIn[b] = s
    BY <2>1 DEF Block, ClientBlocks, TextIn
  <2>3. FlatMap(TextIn, <<b>>) = TextIn[b]
    BY <2>2, TextInMaps, FlatMapOne
  <2>4. <<b>> \in Seq(ClientBlocks)
    BY <2>2
  <2> QED
    BY <2>1, <2>2, <2>3, <2>4, TextIs
<1> QED
  BY <1>1, <1>2, <1>3, <1>4
-----------------------------------------------------------------------------
(* Messages, one by one.                                                   *)

UserIn == [b \in UserBlocks |-> IF b.type \in Pictures THEN <<>> ELSE <<UserBlock(b)>>]

LEMMA UserBlockIs ==
  /\ \A b \in ClientBlocks : UserBlock(b) = b /\ (b.type \in Pictures <=> b.type = "image")
                             /\ b \in SentBlocks
  /\ \A b \in ResultBlocks : /\ UserBlock(b) = ToolResult(b.call, TextOf(b.parts))
                             /\ b.type \notin Pictures /\ UserBlock(b) \in SentBlocks
<1>1. ASSUME NEW b \in ClientBlocks
      PROVE  UserBlock(b) = b /\ (b.type \in Pictures <=> b.type = "image") /\ b \in SentBlocks
  <2>1. b.type \in {"text", "image"} /\ b.type # "tool_result"
    BY DEF ClientBlocks
  <2>2. b \in SentBlocks
    BY DEF ClientBlocks, SentBlocks
  <2> QED
    BY <2>1, <2>2 DEF UserBlock, Pictures
<1>2. ASSUME NEW b \in ResultBlocks
      PROVE  /\ UserBlock(b) = ToolResult(b.call, TextOf(b.parts))
             /\ b.type \notin Pictures /\ UserBlock(b) \in SentBlocks
  <2>1. b.type = "tool_result" /\ b.call \in Nat /\ b.parts \in Seq(ClientBlocks)
    BY DEF ResultBlocks
  <2>2. UserBlock(b) = ToolResult(b.call, TextOf(b.parts))
    BY <2>1 DEF UserBlock, normalizeToolResultValue
  <2>3. \A s \in Seq(Nat) : ToolResult(b.call, s) \in SentBlocks
    BY <2>1 DEF ToolResult, SentBlocks
  <2>4. TextOf(b.parts) \in Seq(Nat)
    BY <2>1, TextOfParts
  <2> QED
    BY <2>1, <2>2, <2>3, <2>4 DEF Pictures
<1> QED
  BY <1>1, <1>2

LEMMA UserInMaps == Maps(UserIn, UserBlocks, SentBlocks)
<1>1. ASSUME NEW b \in UserBlocks, b.type \notin Pictures PROVE UserBlock(b) \in SentBlocks
  BY <1>1, UserBlockIs DEF UserBlocks
<1>2. \A s \in SentBlocks : <<s>> \in Seq(SentBlocks)
  OBVIOUS
<1>3. <<>> \in Seq(SentBlocks)
  BY EmptySeq
<1> QED
  BY <1>1, <1>2, <1>3 DEF Maps, UserIn

LEMMA UserContentIs ==
  ASSUME NEW bs \in Seq(UserBlocks)
  PROVE  convertAnthropicUserContent(bs) = FlatMap(UserIn, bs)
<1>1. \A i \in DOMAIN bs : bs[i] \in UserBlocks
  BY ElementsOf
<1>2. Mapped(UserIn, bs)
        = [i \in DOMAIN bs |-> IF bs[i].type \in Pictures THEN <<>> ELSE <<UserBlock(bs[i])>>]
  BY <1>1 DEF Mapped, UserIn
<1> QED
  BY <1>2 DEF convertAnthropicUserContent, FlatMap

LEMMA AssistantBlockIs ==
  ASSUME NEW b \in AnswerBlocks
  PROVE  /\ AssistantBlock(b) \in SentBlocks
         /\ AssistantBlock(b) = [type |-> IF b.type = "thinking" THEN "reasoning"
                                          ELSE IF b.type = "tool_use" THEN "tool-call"
                                          ELSE "text",
                                 pieces |-> b.pieces]
<1>1. /\ b.type \in {"text", "thinking", "tool_use"} /\ b.pieces \in Seq(Nat)
      /\ b = [type |-> b.type, pieces |-> b.pieces]
  BY DEF AnswerBlocks
<1>2. CASE b.type = "text"
  BY <1>1, <1>2 DEF AssistantBlock, SentBlocks
<1>3. CASE b.type = "thinking"
  BY <1>1, <1>3 DEF AssistantBlock, Block, SentBlocks
<1>4. CASE b.type = "tool_use"
  BY <1>1, <1>4 DEF AssistantBlock, Block, SentBlocks
<1> QED
  BY <1>1, <1>2, <1>3, <1>4

LEMMA AssistantContentType ==
  ASSUME NEW bs \in Seq(AnswerBlocks)
  PROVE  /\ convertAnthropicAssistantContent(bs) \in Seq(SentBlocks)
         /\ Len(convertAnthropicAssistantContent(bs)) = Len(bs)
<1>1. /\ DOMAIN bs = 1 .. Len(bs) /\ Len(bs) \in Nat
      /\ \A i \in DOMAIN bs : bs[i] \in AnswerBlocks
  BY ElementsOf
<1>2. \A i \in DOMAIN bs : AssistantBlock(bs[i]) \in SentBlocks
  BY <1>1, AssistantBlockIs
<1> QED
  BY <1>1, <1>2 DEF convertAnthropicAssistantContent

\* What convertAnthropicMessages makes of a message.
AnthropicMessage(m) ==
  IF m.role = "assistant"
  THEN Message("assistant", convertAnthropicAssistantContent(m.content))
  ELSE Message(IF allToolResults(m.content) THEN "tool" ELSE "user",
               convertAnthropicUserContent(m.content))

LEMMA AnthropicMessageType ==
  ASSUME NEW m \in AnthropicMessages
  PROVE  AnthropicMessage(m) \in SentMessages
<1>1. \A c \in Seq(SentBlocks), r \in {"user", "assistant", "tool"} :
        Message(r, c) \in SentMessages
  BY DEF Message, SentMessages
<1>2. CASE m.role = "assistant"
  <2>1. m.content \in Seq(AnswerBlocks)
    BY <1>2 DEF AnthropicMessages
  <2>2. convertAnthropicAssistantContent(m.content) \in Seq(SentBlocks)
    BY <2>1, AssistantContentType
  <2> QED
    BY <1>1, <1>2, <2>2 DEF AnthropicMessage
<1>3. CASE m.role # "assistant"
  <2>1. m.content \in Seq(UserBlocks)
    BY <1>3 DEF AnthropicMessages
  <2>2. convertAnthropicUserContent(m.content) \in Seq(SentBlocks)
    BY <2>1, UserContentIs, UserInMaps, FlatMapType
  <2>3. CASE allToolResults(m.content)
    BY <1>1, <1>3, <2>2, <2>3 DEF AnthropicMessage
  <2>4. CASE ~allToolResults(m.content)
    BY <1>1, <1>3, <2>2, <2>4 DEF AnthropicMessage
  <2> QED
    BY <2>3, <2>4
<1> QED
  BY <1>2, <1>3

Calls(cs) == [i \in DOMAIN cs |-> Block("tool-call", <<cs[i]>>)]

LEMMA CallsType ==
  ASSUME NEW cs \in Seq(Nat)
  PROVE  Calls(cs) \in Seq(SentBlocks) /\ Len(Calls(cs)) = Len(cs)
<1>1. /\ DOMAIN cs = 1 .. Len(cs) /\ Len(cs) \in Nat
      /\ \A i \in DOMAIN cs : cs[i] \in Nat
  BY ElementsOf
<1>2. \A n \in Nat : Block("tool-call", <<n>>) \in SentBlocks
  BY DEF Block, SentBlocks
<1> QED
  BY <1>1, <1>2 DEF Calls

LEMMA OpenAIMessageIs ==
  ASSUME NEW m \in OpenAIMessages, ~Hoisted(m)
  PROVE  /\ OpenAIMessage(m) \in SentMessages
         /\ m.role = "user" => OpenAIMessage(m) = Message("user", m.content)
         /\ m.role = "assistant" =>
              OpenAIMessage(m) =
                Message("assistant",
                        (IF TextOf(m.content) # <<>>
                         THEN <<Block("text", TextOf(m.content))>> ELSE <<>>) \o Calls(m.calls))
         /\ m.role = "tool" =>
              OpenAIMessage(m) = Message("tool", <<ToolResult(m.call, TextOf(m.content))>>)
         /\ m.role \in {"user", "assistant", "tool"}
<1>1. \A c \in Seq(SentBlocks), r \in {"user", "assistant", "tool"} :
        Message(r, c) \in SentMessages
  BY DEF Message, SentMessages
<1>2. m.role \in {"user", "assistant", "tool"} /\ m.content \in Seq(ClientBlocks)
  BY DEF OpenAIMessages, Hoisted
<1>3. TextOf(m.content) \in Seq(Nat)
  BY <1>2, TextOfParts
<1>4. CASE m.role = "user"
  <2>1. \A b \in ClientBlocks : b \in SentBlocks
    BY DEF ClientBlocks, SentBlocks
  <2>2. m.content \in Seq(SentBlocks)
    BY <1>2, <2>1, ElementsOf
  <2> QED
    BY <1>1, <1>4, <2>2 DEF OpenAIMessage
<1>5. CASE m.role = "assistant"
  <2>1. PICK t : t = TextOf(m.content)
    OBVIOUS
  <2>2. m.calls \in Seq(Nat)
    BY <1>5 DEF OpenAIMessages
  <2>3. PICK u : u = IF t # <<>> THEN <<Block("text", t)>> ELSE <<>>
    OBVIOUS
  <2>4. u \in Seq(SentBlocks)
    <3>1. Block("text", t) \in SentBlocks
      BY <1>3, <2>1 DEF Block, SentBlocks
    <3> QED
      BY <2>3, <3>1
  <2>5. Calls(m.calls) \in Seq(SentBlocks)
    BY <2>2, CallsType
  <2>6. u \o Calls(m.calls) \in Seq(SentBlocks)
    BY <2>4, <2>5, ConcatProperties
  <2>7. OpenAIMessage(m) = Message("assistant", u \o Calls(m.calls))
    BY <1>5, <2>1, <2>3 DEF OpenAIMessage, Calls
  <2> QED
    BY <1>1, <1>5, <2>1, <2>3, <2>6, <2>7
<1>6. CASE m.role = "tool"
  <2>1. m.call \in Nat
    BY <1>6 DEF OpenAIMessages
  <2>2. ToolResult(m.call, TextOf(m.content)) \in SentBlocks
    BY <1>3, <2>1 DEF ToolResult, SentBlocks
  <2>3. <<ToolResult(m.call, TextOf(m.content))>> \in Seq(SentBlocks)
    BY <2>2
  <2> QED
    BY <1>1, <1>6, <2>3 DEF OpenAIMessage
<1> QED
  BY <1>2, <1>4, <1>5, <1>6
-----------------------------------------------------------------------------
(* Whole histories.                                                        *)

Converted(pr, h) ==
  IF pr = "anthropic" THEN convertAnthropicMessages(h) ELSE convertOpenAIMessages(h)

ConvertIn(pr) ==
  IF pr = "anthropic"
  THEN [m \in AnthropicMessages |-> <<AnthropicMessage(m)>>]
  ELSE [m \in OpenAIMessages |-> IF Hoisted(m) THEN <<>> ELSE <<OpenAIMessage(m)>>]

LEMMA ConvertInMaps ==
  ASSUME NEW pr
  PROVE  Maps(ConvertIn(pr), Messages(pr), SentMessages)
<1>1. <<>> \in Seq(SentMessages) /\ \A s \in SentMessages : <<s>> \in Seq(SentMessages)
  BY EmptySeq
<1>2. CASE pr = "anthropic"
  BY <1>1, <1>2, AnthropicMessageType DEF Maps, ConvertIn, Messages
<1>3. CASE pr # "anthropic"
  BY <1>1, <1>3, OpenAIMessageIs DEF Maps, ConvertIn, Messages
<1> QED
  BY <1>2, <1>3

LEMMA ConvertedIs ==
  ASSUME NEW pr, NEW h \in Seq(Messages(pr))
  PROVE  Converted(pr, h) = FlatMap(ConvertIn(pr), h)
<1>1. DOMAIN h = 1 .. Len(h) /\ \A i \in DOMAIN h : h[i] \in Messages(pr)
  BY ElementsOf
<1>2. CASE pr = "anthropic"
  <2>1. PICK x : x = convertAnthropicMessages(h)
    OBVIOUS
  <2>2. x = [i \in DOMAIN h |-> AnthropicMessage(h[i])]
    BY <2>1 DEF convertAnthropicMessages, AnthropicMessage
  <2>3. \A i \in DOMAIN h : AnthropicMessage(h[i]) \in SentMessages
    BY <1>1, <1>2, AnthropicMessageType DEF Messages
  <2>4. /\ x \in Seq(SentMessages) /\ Len(x) = Len(h)
        /\ \A i \in 1 .. Len(x) : x[i] = AnthropicMessage(h[i])
    BY <1>1, <2>2, <2>3
  <2>5. PICK p : p = Mapped(ConvertIn(pr), h)
    OBVIOUS
  <2>6. IsMap(p, ConvertIn(pr), h, Seq(SentMessages))
    BY <2>5, ConvertInMaps, MappedSeqs
  <2>7. p \in Seq(Seq(SentMessages)) /\ Len(p) = Len(x)
    BY <2>4, <2>6 DEF IsMap
  <2>8. \A i \in 1 .. Len(x) : p[i] = <<x[i]>>
    BY <1>1, <1>2, <2>4, <2>6 DEF IsMap, ConvertIn, Messages
  <2>9. FlattenSeq(p) = x
    BY <2>4, <2>7, <2>8, FlattenSingles
  <2> QED
    BY <1>2, <2>1, <2>5, <2>9 DEF Converted, FlatMap
<1>3. CASE pr # "anthropic"
  <2>1. Mapped(ConvertIn(pr), h)
          = [i \in DOMAIN h |-> IF Hoisted(h[i]) THEN <<>> ELSE <<OpenAIMessage(h[i])>>]
    BY <1>1, <1>3 DEF Mapped, ConvertIn, Messages
  <2> QED
    BY <1>3, <2>1 DEF Converted, convertOpenAIMessages, FlatMap
<1> QED
  BY <1>2, <1>3

\* Every message is converted by itself: what is added to a history is added
\* to its conversion.
LEMMA ConvertedParts ==
  ASSUME NEW pr
  PROVE  /\ Converted(pr, <<>>) = <<>>
         /\ \A h \in Seq(Messages(pr)) : Converted(pr, h) \in Seq(SentMessages)
         /\ \A h, k \in Seq(Messages(pr)) :
              Converted(pr, h \o k) = Converted(pr, h) \o Converted(pr, k)
         /\ \A m \in Messages(pr) : Converted(pr, <<m>>) = ConvertIn(pr)[m]
<1>1. Converted(pr, <<>>) = <<>>
  <2>1. <<>> \in Seq(Messages(pr))
    BY EmptySeq
  <2> QED
    BY <2>1, ConvertedIs, FlatMapNone
<1>2. ASSUME NEW h \in Seq(Messages(pr)) PROVE Converted(pr, h) \in Seq(SentMessages)
  BY ConvertedIs, ConvertInMaps, FlatMapType
<1>3. ASSUME NEW h \in Seq(Messages(pr)), NEW k \in Seq(Messages(pr))
      PROVE  Converted(pr, h \o k) = Converted(pr, h) \o Converted(pr, k)
  <2>1. FlatMap(ConvertIn(pr), h \o k) = FlatMap(ConvertIn(pr), h) \o FlatMap(ConvertIn(pr), k)
    BY ConvertInMaps, FlatMapConcat
  <2>2. h \o k \in Seq(Messages(pr))
    BY ConcatProperties
  <2> QED
    BY <2>1, <2>2, ConvertedIs
<1>4. ASSUME NEW m \in Messages(pr) PROVE Converted(pr, <<m>>) = ConvertIn(pr)[m]
  <2>1. FlatMap(ConvertIn(pr), <<m>>) = ConvertIn(pr)[m]
    BY ConvertInMaps, FlatMapOne
  <2>2. <<m>> \in Seq(Messages(pr))
    OBVIOUS
  <2> QED
    BY <2>1, <2>2, ConvertedIs
<1> QED
  BY <1>1, <1>2, <1>3, <1>4
-----------------------------------------------------------------------------
(* A sequence and the same with another last element.                      *)

LastReplaced(s, t) ==
  Len(s) # 0 /\ Len(t) = Len(s) /\ \A i \in 1 .. Len(s) - 1 : t[i] = s[i]

Joins(z, x, y) == z = x \o y

LEMMA FlatMapLastGrows ==
  ASSUME NEW A, NEW S, NEW f, Maps(f, A, S), NEW s \in Seq(A), NEW t \in Seq(A),
         LastReplaced(s, t), NEW y \in Seq(S), Joins(f[t[Len(s)]], f[s[Len(s)]], y)
  PROVE  Joins(FlatMap(f, t), FlatMap(f, s), y)
<1>1. PICK p, q : p = Mapped(f, s) /\ q = Mapped(f, t)
  OBVIOUS
<1>2. IsMap(p, f, s, Seq(S)) /\ IsMap(q, f, t, Seq(S))
  BY <1>1, MappedSeqs, Zenon
<1>3. /\ p \in Seq(Seq(S)) /\ Len(p) = Len(s) /\ \A i \in 1 .. Len(s) : p[i] = f[s[i]]
      /\ q \in Seq(Seq(S)) /\ Len(q) = Len(s) /\ \A i \in 1 .. Len(s) : q[i] = f[t[i]]
  BY <1>2 DEF IsMap, LastReplaced
<1>4. Len(s) \in Nat /\ Len(s) # 0 /\ Len(s) \in 1 .. Len(s)
  BY DEF LastReplaced
<1>5. ASSUME NEW i \in 1 .. (Len(p) - 1) PROVE q[i] = p[i]
  <2>1. i \in 1 .. Len(s) /\ i \in 1 .. Len(s) - 1
    BY <1>3, <1>4
  <2>2. t[i] = s[i]
    BY <2>1 DEF LastReplaced
  <2> QED
    BY <1>3, <2>1, <2>2, Zenon
<1>6. q[Len(p)] = p[Len(p)] \o y
  BY <1>3, <1>4, Zenon DEF Joins
<1>7. FlattenSeq(q) = FlattenSeq(p) \o y
  <2>1. Len(p) = Len(q) /\ Len(p) # 0
    BY <1>3, <1>4
  <2> QED
    BY <1>3, <1>5, <1>6, <2>1, FlattenGrows
<1> QED
  BY <1>1, <1>7 DEF FlatMap, Joins
-----------------------------------------------------------------------------
(* What AccumulateStream makes of an event.                                *)

Events == [type : ContentTypes \cup {"finish", "error"}, piece : Nat]

\* A piece is added, in a block of its own or in the last one.
Gains(bs, cs, type, piece) ==
  \/ cs = Append(bs, ContentBlock(type, piece))
  \/ /\ type # "tool_use" /\ cs \in Seq(AnswerBlocks) /\ LastReplaced(bs, cs)
     /\ bs[Len(bs)].type = type /\ cs[Len(bs)].type = type
     /\ cs[Len(bs)].pieces = Append(bs[Len(bs)].pieces, piece)

LEMMA ContentBlockType ==
  ASSUME NEW type \in {"text", "thinking", "tool_use"}, NEW piece \in Nat
  PROVE  ContentBlock(type, piece) \in AnswerBlocks
  BY DEF ContentBlock, AnswerBlocks

LEMMA ExtendedGains ==
  ASSUME NEW bs \in Seq(AnswerBlocks), Len(bs) # 0, NEW piece \in Nat,
         NEW type, type # "tool_use", bs[Len(bs)].type = type
  PROVE  Gains(bs, Extended(bs, piece), type, piece)
<1>1. PICK cs : cs = Extended(bs, piece)
  OBVIOUS
<1>2. PICK n, b : n = Len(bs) /\ b = bs[n]
  OBVIOUS
<1>3. /\ n \in Nat /\ DOMAIN bs = 1 .. n /\ n \in 1 .. n /\ b \in AnswerBlocks
      /\ \A i \in 1 .. n : bs[i] \in AnswerBlocks
  BY <1>2, ElementsOf
<1>4. PICK c : c = [type |-> b.type, pieces |-> Append(b.pieces, piece)]
  OBVIOUS
<1>5. b.pieces \in Seq(Nat) /\ Append(b.pieces, piece) \in Seq(Nat)
  BY <1>3, AppendProperties DEF AnswerBlocks
<1>6. c \in AnswerBlocks
  BY <1>3, <1>4, <1>5 DEF AnswerBlocks
<1>7. cs = [bs EXCEPT ![n] = c]
  BY <1>1, <1>2, <1>4 DEF Extended
<1>8. /\ DOMAIN cs = 1 .. n /\ cs[n] = c /\ \A i \in 1 .. n - 1 : cs[i] = bs[i]
      /\ \A i \in 1 .. n : cs[i] \in AnswerBlocks
  BY <1>3, <1>6, <1>7
<1>9. cs \in Seq(AnswerBlocks) /\ Len(cs) = n
  <2>1. cs = [i \in 1 .. n |-> cs[i]]
    BY <1>3, <1>7
  <2> QED
    BY <1>3, <1>8, <2>1
<1>10. LastReplaced(bs, cs)
  BY <1>2, <1>8, <1>9 DEF LastReplaced
<1>11. cs[n].type = type /\ cs[n].pieces = Append(bs[n].pieces, piece)
  BY <1>2, <1>4, <1>8
<1> QED
  BY <1>1, <1>2, <1>9, <1>10, <1>11 DEF Gains

Singles(bs) == \A i \in 1 .. Len(bs) : bs[i].type = "tool_use" => Len(bs[i].pieces) = 1

LEMMA GainsOK ==
  ASSUME NEW bs \in Seq(AnswerBlocks), Singles(bs), NEW type \in {"text", "thinking", "tool_use"},
         NEW piece \in Nat, NEW cs, Gains(bs, cs, type, piece)
  PROVE  /\ cs \in Seq(AnswerBlocks) /\ Singles(cs)
         /\ Len(cs) # 0 /\ cs[Len(cs)].type = type
<1>1. CASE cs = Append(bs, ContentBlock(type, piece))
  <2>1. PICK b : b = ContentBlock(type, piece)
    OBVIOUS
  <2>2. b \in AnswerBlocks /\ b.type = type /\ b.pieces = <<piece>> /\ Len(b.pieces) = 1
    BY <2>1, ContentBlockType DEF ContentBlock
  <2>3. cs = Append(bs, b)
    BY <1>1, <2>1
  <2>4. /\ cs \in Seq(AnswerBlocks) /\ Len(cs) = Len(bs) + 1 /\ cs[Len(bs) + 1] = b
        /\ \A i \in 1 .. Len(bs) : cs[i] = bs[i]
    BY <2>2, <2>3, AppendProperties
  <2>5. ASSUME NEW i \in 1 .. Len(cs), cs[i].type = "tool_use" PROVE Len(cs[i].pieces) = 1
    <3>1. i \in 1 .. Len(bs) \/ i = Len(bs) + 1
      BY <2>4
    <3>2. CASE i \in 1 .. Len(bs)
      BY <2>4, <2>5, <3>2 DEF Singles
    <3>3. CASE i = Len(bs) + 1
      BY <2>2, <2>4, <3>3
    <3> QED
      BY <3>1, <3>2, <3>3
  <2> QED
    BY <2>2, <2>4, <2>5 DEF Singles
<1>2. CASE /\ type # "tool_use" /\ cs \in Seq(AnswerBlocks) /\ LastReplaced(bs, cs)
           /\ cs[Len(bs)].type = type
  <2>1. Len(bs) \in Nat /\ Len(cs) = Len(bs) /\ Len(bs) # 0
    BY <1>2 DEF LastReplaced
  <2>2. ASSUME NEW i \in 1 .. Len(cs), cs[i].type = "tool_use" PROVE Len(cs[i].pieces) = 1
    <3>1. i # Len(bs)
      BY <1>2, <2>2
    <3>2. i \in 1 .. Len(bs) - 1 /\ i \in 1 .. Len(bs)
      BY <2>1, <3>1
    <3>3. cs[i] = bs[i]
      BY <1>2, <3>2 DEF LastReplaced
    <3> QED
      BY <2>2, <3>2, <3>3 DEF Singles
  <2> QED
    BY <1>2, <2>1, <2>2 DEF Singles
<1> QED
  BY <1>1, <1>2 DEF Gains

Accumulated ==
  [blocks : Seq(AnswerBlocks), mergeable : {"none", "text", "thinking"}, usage : Nat,
   finished : BOOLEAN]

\* Where deltas may go on in the last block, it is of their type; a call has
\* a block of its own.
AccOK(a) ==
  /\ a \in Accumulated
  /\ a.mergeable # "none" =>
       Len(a.blocks) # 0 /\ a.blocks[Len(a.blocks)].type = a.mergeable
  /\ Singles(a.blocks)

\* What an event adds.
Heard(a, b, ev) ==
  IF ev.type \in Deltas \cup {"tool-call"}
  THEN Gains(a.blocks, b.blocks, BlockType(ev.type), ev.piece) ELSE b.blocks = a.blocks

LEMMA AccumulateDelta ==
  ASSUME NEW a, AccOK(a), NEW ev \in Events, ev.type \in Deltas
  PROVE  /\ AccOK(Accumulate(a, ev)) /\ Heard(a, Accumulate(a, ev), ev)
<1> DEFINE type == BlockType(ev.type)
           p == ev.piece
           long == Extended(a.blocks, p)
           more == Append(a.blocks, ContentBlock(type, p))
<1>1. type \in {"text", "thinking"} /\ p \in Nat
  BY DEF BlockType, Deltas, Events
<1>2. Accumulate(a, ev) = absorb(a, type, p)
  BY DEF Accumulate, Deltas
<1>3. ev.type \in Deltas \cup {"tool-call"}
  OBVIOUS
<1> HIDE DEF type, p
<1>4. a \in Accumulated /\ a.blocks \in Seq(AnswerBlocks) /\ Singles(a.blocks)
  BY DEF AccOK, Accumulated
<1>5. type # "none" /\ type # "tool_use" /\ type \in {"text", "thinking", "tool_use"}
  BY <1>1
<1>6. CASE a.mergeable = type
  <2>1. absorb(a, type, p) = [a EXCEPT !.blocks = long]
    BY <1>6 DEF absorb
  <2>2. Gains(a.blocks, long, type, p)
    <3>1. Len(a.blocks) # 0 /\ a.blocks[Len(a.blocks)].type = type
      BY <1>5, <1>6 DEF AccOK
    <3> QED
      BY <1>1, <1>4, <1>5, <3>1, ExtendedGains
  <2> HIDE DEF long
  <2>3. /\ long \in Seq(AnswerBlocks) /\ Singles(long)
        /\ Len(long) # 0 /\ long[Len(long)].type = type
    BY <1>1, <1>4, <1>5, <2>2, GainsOK
  <2>4. /\ [a EXCEPT !.blocks = long] \in Accumulated
        /\ [a EXCEPT !.blocks = long].blocks = long
        /\ [a EXCEPT !.blocks = long].mergeable = type
        /\ [a EXCEPT !.blocks = long].finished = a.finished
    BY <1>4, <1>6, <2>3 DEF Accumulated
  <2>5. AccOK([a EXCEPT !.blocks = long])
    BY <2>3, <2>4 DEF AccOK
  <2> QED
    BY <1>2, <1>3, <2>1, <2>2, <2>4, <2>5 DEF Heard, type, p
<1>7. CASE a.mergeable # type
  <2>1. absorb(a, type, p) = [a EXCEPT !.blocks = more, !.mergeable = type]
    BY <1>7 DEF absorb
  <2>2. Gains(a.blocks, more, type, p)
    BY DEF Gains
  <2> HIDE DEF more
  <2>3. /\ more \in Seq(AnswerBlocks) /\ Singles(more)
        /\ Len(more) # 0 /\ more[Len(more)].type = type
    BY <1>1, <1>4, <1>5, <2>2, GainsOK
  <2>4. /\ [a EXCEPT !.blocks = more, !.mergeable = type] \in Accumulated
        /\ [a EXCEPT !.blocks = more, !.mergeable = type].blocks = more
        /\ [a EXCEPT !.blocks = more, !.mergeable = type].mergeable = type
        /\ [a EXCEPT !.blocks = more, !.mergeable = type].finished = a.finished
    BY <1>1, <1>4, <2>3 DEF Accumulated
  <2>5. AccOK([a EXCEPT !.blocks = more, !.mergeable = type])
    BY <2>3, <2>4 DEF AccOK
  <2> QED
    BY <1>2, <1>3, <2>1, <2>2, <2>4, <2>5 DEF Heard, type, p
<1> QED
  BY <1>6, <1>7

LEMMA AccumulateCall ==
  ASSUME NEW a, AccOK(a), NEW ev \in Events, ev.type = "tool-call"
  PROVE  /\ AccOK(Accumulate(a, ev)) /\ Heard(a, Accumulate(a, ev), ev)
<1> DEFINE more == Append(a.blocks, ContentBlock("tool_use", ev.piece))
<1>1. Accumulate(a, ev) = [a EXCEPT !.blocks = more, !.mergeable = "none"]
  BY DEF Accumulate, Deltas
<1>2. ev.piece \in Nat /\ BlockType(ev.type) = "tool_use"
      /\ ev.type \in Deltas \cup {"tool-call"}
  BY DEF Events, BlockType
<1>3. a \in Accumulated /\ a.blocks \in Seq(AnswerBlocks) /\ Singles(a.blocks)
  BY DEF AccOK, Accumulated
<1>4. Gains(a.blocks, more, "tool_use", ev.piece)
  BY DEF Gains
<1> HIDE DEF more
<1>5. more \in Seq(AnswerBlocks) /\ Singles(more)
  BY <1>2, <1>3, <1>4, GainsOK
<1>6. /\ [a EXCEPT !.blocks = more, !.mergeable = "none"] \in Accumulated
      /\ [a EXCEPT !.blocks = more, !.mergeable = "none"].blocks = more
      /\ [a EXCEPT !.blocks = more, !.mergeable = "none"].mergeable = "none"
      /\ [a EXCEPT !.blocks = more, !.mergeable = "none"].finished = a.finished
  BY <1>3, <1>5 DEF Accumulated
<1>7. AccOK([a EXCEPT !.blocks = more, !.mergeable = "none"])
  BY <1>5, <1>6 DEF AccOK
<1> QED
  BY <1>1, <1>2, <1>4, <1>6, <1>7 DEF Heard

LEMMA AccumulateRest ==
  ASSUME NEW a, AccOK(a), NEW ev \in Events, ev.type \notin Deltas \cup {"tool-call"}
  PROVE  /\ AccOK(Accumulate(a, ev)) /\ Heard(a, Accumulate(a, ev), ev)
<1>1. ev.type \in {"reasoning-end", "finish", "error"} /\ ev.piece \in Nat
  BY DEF Events, ContentTypes
<1>2. a \in Accumulated /\ a.blocks \in Seq(AnswerBlocks)
  BY DEF AccOK, Accumulated
<1>3. CASE ev.type = "reasoning-end"
  <2>1. Accumulate(a, ev) = [a EXCEPT !.mergeable = "none"]
    BY <1>3 DEF Accumulate, Deltas
  <2>2. /\ [a EXCEPT !.mergeable = "none"] \in Accumulated
        /\ [a EXCEPT !.mergeable = "none"].blocks = a.blocks
        /\ [a EXCEPT !.mergeable = "none"].mergeable = "none"
        /\ [a EXCEPT !.mergeable = "none"].finished = a.finished
    BY <1>2 DEF Accumulated
  <2>3. AccOK([a EXCEPT !.mergeable = "none"])
    BY <2>2 DEF AccOK
  <2> QED
    BY <1>3, <2>1, <2>2, <2>3 DEF Heard
<1>4. CASE ev.type = "finish"
  <2>1. PICK p : p = ev.piece /\ p \in Nat
    BY <1>1
  <2>2. Accumulate(a, ev) = [a EXCEPT !.usage = p, !.finished = TRUE]
    BY <1>4, <2>1 DEF Accumulate, Deltas
  <2>3. /\ [a EXCEPT !.usage = p, !.finished = TRUE] \in Accumulated
        /\ [a EXCEPT !.usage = p, !.finished = TRUE].blocks = a.blocks
        /\ [a EXCEPT !.usage = p, !.finished = TRUE].mergeable = a.mergeable
        /\ [a EXCEPT !.usage = p, !.finished = TRUE].finished = TRUE
    BY <1>2, <2>1 DEF Accumulated
  <2>4. AccOK([a EXCEPT !.usage = p, !.finished = TRUE])
    BY <2>3 DEF AccOK
  <2> QED
    BY <1>4, <2>2, <2>3, <2>4 DEF Heard
<1>5. CASE ev.type = "error"
  <2>1. Accumulate(a, ev) = a
    BY <1>5 DEF Accumulate, Deltas
  <2> QED
    BY <1>5, <2>1 DEF Heard
<1> QED
  BY <1>1, <1>3, <1>4, <1>5

LEMMA Accumulates ==
  ASSUME NEW a, AccOK(a), NEW ev \in Events
  PROVE  AccOK(Accumulate(a, ev)) /\ Heard(a, Accumulate(a, ev), ev)
<1>1. CASE ev.type \in Deltas
  BY <1>1, AccumulateDelta
<1>2. CASE ev.type = "tool-call"
  BY <1>2, AccumulateCall
<1>3. CASE ev.type \notin Deltas \cup {"tool-call"}
  BY <1>3, AccumulateRest
<1> QED
  BY <1>1, <1>2, <1>3
-----------------------------------------------------------------------------
(* What the client says.                                                   *)

Turns ==
  [who : {"user"}, results : Seq(ResultBlocks), blocks : Seq(ClientBlocks)]
    \cup [who : {"upstream"}, events : Seq(Events)]

SaidIn(type) == [ev \in Events |-> IF ev.type = type THEN <<ev.piece>> ELSE <<>>]

LEMMA SaidInMaps == \A type : Maps(SaidIn(type), Events, Nat)
<1>1. \A ev \in Events : <<ev.piece>> \in Seq(Nat)
  BY DEF Events
<1>2. <<>> \in Seq(Nat)
  BY EmptySeq
<1> QED
  BY <1>1, <1>2 DEF Maps, SaidIn

LEMMA PiecesSaidAre ==
  ASSUME NEW evs \in Seq(Events), NEW type
  PROVE  PiecesSaid(evs, type) = FlatMap(SaidIn(type), evs) /\ PiecesSaid(evs, type) \in Seq(Nat)
<1>1. \A i \in DOMAIN evs : evs[i] \in Events
  BY ElementsOf
<1>2. Mapped(SaidIn(type), evs)
        = [i \in DOMAIN evs |-> IF evs[i].type = type THEN <<evs[i].piece>> ELSE <<>>]
  BY <1>1 DEF Mapped, SaidIn
<1>3. PiecesSaid(evs, type) = FlatMap(SaidIn(type), evs)
  BY <1>2 DEF PiecesSaid, FlatMap
<1>4. FlatMap(SaidIn(type), evs) \in Seq(Nat)
  BY SaidInMaps, FlatMapType
<1> QED
  BY <1>3, <1>4

LEMMA LastIsIn ==
  ASSUME NEW S, NEW s \in Seq(S), s # <<>>
  PROVE  Last(s) \in S /\ Len(s) \in 1 .. Len(s)
<1>1. Len(s) \in 1 .. Len(s)
  BY EmptySeq
<1> QED
  BY <1>1, ElementOfSeq DEF Last

LEMMA OpenCallsType ==
  ASSUME said \in Seq(Turns)
  PROVE  OpenCalls \in Seq(Nat)
<1>1. CASE said = <<>> \/ Last(said).who # "upstream"
  BY <1>1, EmptySeq DEF OpenCalls
<1>2. CASE said # <<>> /\ Last(said).who = "upstream"
  <2>1. Last(said) \in Turns
    BY <1>2, LastIsIn
  <2>2. Last(said).events \in Seq(Events)
    BY <1>2, <2>1 DEF Turns
  <2> QED
    BY <1>2, <2>2, PiecesSaidAre DEF OpenCalls
<1> QED
  BY <1>1, <1>2

LEMMA TextType == \A n \in Nat : Text(n) \in ClientBlocks /\ Picture(n) \in ClientBlocks
  BY DEF Text, Picture, Block, ClientBlocks

LEMMA ResultsType ==
  ASSUME said \in Seq(Turns), pieces \in Nat
  PROVE  /\ Results \in Seq(ResultBlocks) /\ Len(Results) = Len(OpenCalls)
         /\ \A i \in 1 .. Len(Results) : /\ Results[i].call = OpenCalls[i]
                                         /\ Results[i].parts = ResultParts(i)
<1>1. OpenCalls \in Seq(Nat)
  BY OpenCallsType
<1>2. /\ DOMAIN OpenCalls = 1 .. Len(OpenCalls) /\ Len(OpenCalls) \in Nat
      /\ \A i \in DOMAIN OpenCalls : OpenCalls[i] \in Nat
  BY <1>1, ElementsOf
<1>3. \A i \in Nat : ResultParts(i) \in Seq(ClientBlocks)
  <2> SUFFICES ASSUME NEW i \in Nat PROVE ResultParts(i) \in Seq(ClientBlocks)
    OBVIOUS
  <2>1. PICK a, b : a = Text(pieces + i) /\ b = Picture(pieces + i)
    OBVIOUS
  <2>2. a \in ClientBlocks /\ b \in ClientBlocks
    BY <2>1, TextType
  <2> QED
    BY <2>1, <2>2 DEF ResultParts
<1> DEFINE r(i) == [type |-> "tool_result", call |-> OpenCalls[i], parts |-> ResultParts(i)]
<1>4. \A i \in DOMAIN OpenCalls : r(i) \in ResultBlocks /\ r(i).call = OpenCalls[i]
                                  /\ r(i).parts = ResultParts(i)
  BY <1>2, <1>3 DEF ResultBlocks
<1>5. Results = [i \in 1 .. Len(OpenCalls) |-> r(i)]
  BY <1>2 DEF Results
<1> HIDE DEF r
<1>6. /\ DOMAIN Results = 1 .. Len(OpenCalls)
      /\ \A i \in 1 .. Len(OpenCalls) : Results[i] = r(i) /\ r(i) \in ResultBlocks
  BY <1>2, <1>4, <1>5
<1>7. Results \in Seq(ResultBlocks) /\ Len(Results) = Len(OpenCalls)
  BY <1>2, <1>5, <1>6
<1> QED
  BY <1>2, <1>4, <1>6, <1>7

\* The messages the client adds.
Instructs(i) ==
  IF i # <<>> THEN <<[role |-> IF said = <<>> THEN "system" ELSE "developer", content |-> i]>>
              ELSE <<>>

Returned ==
  [i \in DOMAIN Results |-> [role |-> "tool", call |-> Results[i].call,
                             content |-> Results[i].parts]]

Utters(u) == IF u # <<>> THEN <<Message("user", u)>> ELSE <<>>

Spoken(i, u) ==
  IF protocol = "anthropic" THEN <<Message("user", Results \o u)>>
  ELSE Instructs(i) \o Returned \o Utters(u)

LEMMA SpokenParts ==
  ASSUME said \in Seq(Turns), pieces \in Nat,
         NEW i \in Seq(ClientBlocks), NEW u \in Seq(ClientBlocks)
  PROVE  /\ Instructs(i) \in Seq(OpenAIMessages)
         /\ Returned \in Seq(OpenAIMessages) /\ Len(Returned) = Len(Results)
         /\ Utters(u) \in Seq(OpenAIMessages)
         /\ Message("user", Results \o u) \in AnthropicMessages
<1>1. Instructs(i) \in Seq(OpenAIMessages)
  <2>1. \A r \in {"system", "developer"} : [role |-> r, content |-> i] \in OpenAIMessages
    BY DEF OpenAIMessages
  <2>2. CASE i # <<>>
    <3>1. PICK m \in OpenAIMessages :
            m = [role |-> IF said = <<>> THEN "system" ELSE "developer", content |-> i]
      BY <2>1
    <3> QED
      BY <2>2, <3>1 DEF Instructs
  <2> QED
    BY <2>2, EmptySeq DEF Instructs
<1>2. Returned \in Seq(OpenAIMessages) /\ Len(Returned) = Len(Results)
  <2>1. Results \in Seq(ResultBlocks)
    BY ResultsType
  <2>2. /\ DOMAIN Results = 1 .. Len(Results) /\ Len(Results) \in Nat
        /\ \A k \in DOMAIN Results : Results[k] \in ResultBlocks
    BY <2>1, ElementsOf
  <2>3. \A b \in ResultBlocks :
          [role |-> "tool", call |-> b.call, content |-> b.parts] \in OpenAIMessages
    BY DEF ResultBlocks, OpenAIMessages
  <2> QED
    BY <2>2, <2>3 DEF Returned
<1>3. Utters(u) \in Seq(OpenAIMessages)
  <2>1. Message("user", u) \in OpenAIMessages
    BY DEF Message, OpenAIMessages
  <2> QED
    BY <2>1, EmptySeq DEF Utters
<1>4. Message("user", Results \o u) \in AnthropicMessages
  <2>1. Results \in Seq(UserBlocks) /\ u \in Seq(UserBlocks)
    <3>1. Results \in Seq(ResultBlocks)
      BY ResultsType
    <3>2. ResultBlocks \subseteq UserBlocks /\ ClientBlocks \subseteq UserBlocks
      BY DEF UserBlocks
    <3> QED
      BY <3>1, <3>2, ElementsOf
  <2>2. Results \o u \in Seq(UserBlocks)
    BY <2>1, ConcatProperties
  <2> QED
    BY <2>2 DEF Message, AnthropicMessages
<1> QED
  BY <1>1, <1>2, <1>3, <1>4

LEMMA SpokenType ==
  ASSUME said \in Seq(Turns), pieces \in Nat,
         NEW i \in Seq(ClientBlocks), NEW u \in Seq(ClientBlocks)
  PROVE  Spoken(i, u) \in Seq(Messages(protocol))
<1>1. CASE protocol = "anthropic"
  <2>1. PICK m : m = Message("user", Results \o u)
    OBVIOUS
  <2>2. m \in AnthropicMessages
    BY <2>1, SpokenParts
  <2>3. Spoken(i, u) = <<m>> /\ Messages(protocol) = AnthropicMessages
    BY <1>1, <2>1 DEF Spoken, Messages
  <2> QED
    BY <2>2, <2>3
<1>2. CASE protocol # "anthropic"
  <2>1. PICK a, b, c : a = Instructs(i) /\ b = Returned /\ c = Utters(u)
    OBVIOUS
  <2>2. a \in Seq(OpenAIMessages) /\ b \in Seq(OpenAIMessages) /\ c \in Seq(OpenAIMessages)
    BY <2>1, SpokenParts
  <2>3. (a \o b) \o c \in Seq(OpenAIMessages)
    BY ONLY <2>2, ConcatProperties
  <2>4. Spoken(i, u) = (a \o b) \o c /\ Messages(protocol) = OpenAIMessages
    BY <1>2, <2>1 DEF Spoken, Messages
  <2> QED
    BY <2>3, <2>4
<1> QED
  BY <1>1, <1>2

\* The message of an answer.
PiecesIn(type) == [b \in AnswerBlocks |-> PiecesIf(b, type)]

LEMMA PiecesInMaps == \A type : Maps(PiecesIn(type), AnswerBlocks, Nat)
<1>1. \A b \in AnswerBlocks : b.pieces \in Seq(Nat)
  BY DEF AnswerBlocks
<1>2. <<>> \in Seq(Nat)
  BY EmptySeq
<1> QED
  BY <1>1, <1>2 DEF Maps, PiecesIn, PiecesIf

LEMMA PiecesAre ==
  ASSUME NEW bs \in Seq(AnswerBlocks), NEW type
  PROVE  PiecesOf(bs, type) = FlatMap(PiecesIn(type), bs) /\ PiecesOf(bs, type) \in Seq(Nat)
<1>1. \A i \in DOMAIN bs : bs[i] \in AnswerBlocks
  BY ElementsOf
<1>2. Mapped(PiecesIn(type), bs) = [i \in DOMAIN bs |-> PiecesIf(bs[i], type)]
  BY <1>1 DEF Mapped, PiecesIn
<1>3. PiecesOf(bs, type) = FlatMap(PiecesIn(type), bs)
  BY <1>2 DEF PiecesOf, FlatMap
<1>4. FlatMap(PiecesIn(type), bs) \in Seq(Nat)
  BY PiecesInMaps, FlatMapType
<1> QED
  BY <1>3, <1>4

AnswerMessage(pr, bs) ==
  IF pr = "anthropic" THEN Message("assistant", bs)
  ELSE [role |-> "assistant", content |-> <<Block("text", PiecesOf(bs, "text"))>>,
        calls |-> PiecesOf(bs, "tool_use")]

LEMMA AnswerType ==
  ASSUME NEW pr, NEW bs \in Seq(AnswerBlocks)
  PROVE  AnswerMessage(pr, bs) \in Messages(pr)
<1>1. CASE pr = "anthropic"
  BY <1>1 DEF AnswerMessage, Messages, AnthropicMessages, Message
<1>2. CASE pr # "anthropic"
  <2>1. PICK t, c : t = PiecesOf(bs, "text") /\ c = PiecesOf(bs, "tool_use")
    OBVIOUS
  <2>2. t \in Seq(Nat) /\ c \in Seq(Nat)
    BY <2>1, PiecesAre
  <2>3. PICK b : b = Block("text", t)
    OBVIOUS
  <2>4. b \in ClientBlocks
    BY <2>2, <2>3 DEF Block, ClientBlocks
  <2>5. <<b>> \in Seq(ClientBlocks)
    BY <2>4
  <2>6. [role |-> "assistant", content |-> <<b>>, calls |-> c] \in OpenAIMessages
    BY <2>2, <2>5 DEF OpenAIMessages
  <2> QED
    BY <1>2, <2>1, <2>3, <2>6 DEF AnswerMessage, Messages
<1> QED
  BY <1>1, <1>2
-----------------------------------------------------------------------------
(* The steps, in these words.                                              *)

SentMs(s)  == s.params.messages
SentSys(s) == s.params.system

SystemNow == IF protocol = "anthropic" THEN TextOf(system) ELSE HoistedSystem(history)

LEMMA SpeakIs ==
  ASSUME NEW i \in Seq(ClientBlocks), NEW u \in Seq(ClientBlocks), Speak(i, u),
         said \in Seq(Turns), pieces \in Nat, history \in Seq(Messages(protocol))
  PROVE  /\ history' = history \o Spoken(i, u)
         /\ said' = Append(said, [who |-> "user", results |-> Results, blocks |-> u])
         /\ instructed' = instructed \o TextOf(i)
         /\ system' = IF protocol = "anthropic" THEN system \o i ELSE system
         /\ phase' = "asking" /\ protocol' = protocol /\ sent' = sent
         /\ pieces' = pieces + Len(OpenCalls) + 1
         /\ FreshAttempt
<1>1. CASE protocol = "anthropic"
  <2>1. PICK m : m = Message("user", Results \o u)
    OBVIOUS
  <2>2. Append(history, m) = history \o <<m>>
    <3>1. m \in Messages(protocol)
      BY <1>1, <2>1, SpokenParts DEF Messages
    <3> QED
      BY <3>1, AppendIsConcat
  <2> QED
    BY <1>1, <2>1, <2>2 DEF Speak, Spoken
<1>2. CASE protocol # "anthropic"
  BY <1>2 DEF Speak, Spoken, OpenAIUtterance, Instructs, Returned, Utters
<1> QED
  BY <1>1, <1>2

LEMMA AskIs ==
  ASSUME NEW model, NEW maxTokens, Ask(Request(model, maxTokens))
  PROVE  /\ SentMs(sent') = Converted(protocol, history)
         /\ SentSys(sent') = SystemNow
         /\ phase' = "answering" /\ protocol' = protocol /\ history' = history
         /\ system' = system /\ said' = said /\ instructed' = instructed
         /\ pieces' = pieces /\ FreshAttempt
<1>1. PICK req : req = Request(model, maxTokens)
  OBVIOUS
<1>2. req.messages = history /\ req.system = system
  BY <1>1 DEF Request
<1>3. PICK canon : canon = Canonical(protocol, req)
  OBVIOUS
<1>4. canon.messages = Converted(protocol, history) /\ canon.system = SystemNow
  BY <1>2, <1>3 DEF Canonical, Converted, SystemNow, normalizeAnthropicSystem
<1>5. /\ sent' = BuildCCBody(canon)
      /\ phase' = "answering" /\ protocol' = protocol /\ history' = history
      /\ system' = system /\ said' = said /\ instructed' = instructed
      /\ pieces' = pieces /\ FreshAttempt
  BY <1>1, <1>3 DEF Ask, client
<1>6. SentMs(BuildCCBody(canon)) = canon.messages /\ SentSys(BuildCCBody(canon)) = canon.system
  BY DEF SentMs, SentSys, BuildCCBody
<1> QED
  BY <1>4, <1>5, <1>6

\* Everything upstream does is read.
Upstream ==
  \/ \E type \in ContentTypes \cup {"finish", "error"} :
       \/ SendRaw(type)
       \/ \E of \in 1 .. (ScanBufMax + 1) : BeginFrame(type, of)
       \/ \E err \in {"EOF", "read"} : BodyTorn(type, err)
  \/ SendPart \/ EndFrame \/ BodyEnds
  \/ \E kind \in {"blank", "comment", "field"} : Noise(kind)

\* What a turn of the reader's loop leaves.
ReadEnds(bs) ==
  \/ /\ phase' = "composing"
     /\ history' = Append(history, AnswerMessage(protocol, bs))
     /\ said' = Append(said, [who |-> "upstream", events |-> answered'])
  \/ phase' # "composing" /\ history' = history /\ said' = said

LEMMA ReadIs ==
  ASSUME NEW r, Read(r)
  PROVE  /\ \/ got' = got /\ acc' = acc
            \/ got' = Append(got, r.ev) /\ acc' = Accumulate(acc, r.ev)
         /\ protocol' = protocol /\ system' = system /\ instructed' = instructed /\ sent' = sent
         /\ ReadEnds(acc'.blocks)
<1>1. /\ got' = IF r.ev = NoEvent THEN got ELSE Append(got, r.ev)
      /\ acc' = IF r.ev = NoEvent THEN acc ELSE Accumulate(acc, r.ev)
      /\ protocol' = protocol /\ system' = system /\ instructed' = instructed /\ sent' = sent
  BY DEF Read
<1>2. Answer = AnswerMessage(protocol, acc'.blocks)
  BY DEF Answer, AnswerMessage, buildAnthropicResponse, buildOpenAICompletion
<1>3. PICK heard : heard = IF r.ev = NoEvent THEN acc ELSE Accumulate(acc, r.ev)
  OBVIOUS
<1>4. CASE heard.finished
  <2>1. /\ phase' = "composing" /\ history' = Append(history, Answer)
        /\ said' = Append(said, [who |-> "upstream", events |-> answered'])
    BY <1>3, <1>4 DEF Read
  <2> QED
    BY <1>1, <1>2, <2>1 DEF ReadEnds
<1>5. CASE ~heard.finished
  <2>1. /\ phase' \in {"asking", "answering"} /\ history' = history /\ said' = said
    BY <1>3, <1>5 DEF Read
  <2> QED
    BY <1>1, <2>1 DEF ReadEnds
<1> QED
  BY <1>4, <1>5

LEMMA EvIsAnEvent ==
  ASSUME pieces \in Nat, NEW type \in ContentTypes \cup {"finish", "error"}
  PROVE  Ev(type) \in Events
  BY DEF Ev, Event, Events

UpstreamTyped ==
  /\ \E r : Read(r)
  /\ answered' \in Seq(Events) /\ pieces' \in Nat /\ (Sending' => frame'.ev \in Events)

LEMMA UpstreamSends ==
  ASSUME Upstream, pieces \in Nat, answered \in Seq(Events), Sending => frame.ev \in Events
  PROVE  UpstreamTyped
<1>1. \A type : Spent(type) => pieces' \in Nat
  BY DEF Spent
<1>2. \A ev \in Events : Append(answered, ev) \in Seq(Events)
  BY AppendProperties
<1>3. ASSUME NEW type \in ContentTypes \cup {"finish", "error"}, SendRaw(type) PROVE UpstreamTyped
  <2>1. PICK ev \in Events : ev = Ev(type)
    BY EvIsAnEvent
  <2>2. /\ answered' = Append(answered, ev) /\ Spent(type) /\ frame' = frame
        /\ Read(ReadLine(sc, ChunkLine("json", Chunk(Ev(type), 1, 1))))
    BY <1>3, <2>1 DEF SendRaw
  <2> QED
    BY <1>1, <1>2, <2>2 DEF UpstreamTyped, Sending
<1>4. ASSUME NEW type \in ContentTypes \cup {"finish", "error"},
             NEW of \in 1 .. (ScanBufMax + 1), BeginFrame(type, of)
      PROVE  UpstreamTyped
  <2>1. PICK ev \in Events : ev = Ev(type)
    BY EvIsAnEvent
  <2>2. /\ answered' = answered /\ Spent(type) /\ frame' = [ev |-> ev, of |-> of, parts |-> 1]
        /\ Read(ReadLine(sc, ChunkLine("data", Chunk(Ev(type), 1, of))))
    BY <1>4, <2>1 DEF BeginFrame
  <2> QED
    BY <1>1, <2>2 DEF UpstreamTyped
<1>5. ASSUME NEW type \in ContentTypes \cup {"finish", "error"}, NEW err \in {"EOF", "read"},
             BodyTorn(type, err)
      PROVE  UpstreamTyped
  <2>1. frame' = frame /\ answered' = answered /\ pieces' = pieces
    BY <1>5 DEF BodyTorn
  <2>2. \E r : Read(r)
    BY <1>5 DEF BodyTorn
  <2> QED
    BY <2>1, <2>2 DEF UpstreamTyped, Sending
<1>6. ASSUME SendPart PROVE UpstreamTyped
  <2>1. /\ Sending /\ answered' = answered /\ pieces' = pieces
        /\ frame' = [frame EXCEPT !.parts = @ + 1]
        /\ Read(ReadLine(sc, ChunkLine("data", Chunk(frame.ev, frame.parts + 1, frame.of))))
    BY <1>6 DEF SendPart
  <2>2. frame'.ev = frame.ev
    BY <2>1
  <2> QED
    BY <2>1, <2>2 DEF UpstreamTyped
<1>7. ASSUME EndFrame PROVE UpstreamTyped
  <2>1. /\ Sending /\ answered' = Append(answered, frame.ev) /\ pieces' = pieces
        /\ frame' = NoFrame /\ Read(ReadLine(sc, Line("blank")))
    BY <1>7 DEF EndFrame
  <2> QED
    BY <1>2, <2>1 DEF UpstreamTyped, Sending
<1>8. ASSUME BodyEnds PROVE UpstreamTyped
  <2>1. /\ answered' = IF Sending /\ frame.parts = frame.of THEN Append(answered, frame.ev)
                                                            ELSE answered
        /\ pieces' = pieces /\ frame' = NoFrame /\ Read(AtEOF(sc))
    BY <1>8 DEF BodyEnds
  <2> QED
    BY <1>2, <2>1 DEF UpstreamTyped, Sending
<1>9. ASSUME NEW kind, Noise(kind) PROVE UpstreamTyped
  <2>1. /\ answered' = answered /\ pieces' = pieces /\ frame' = frame
        /\ Read(ReadLine(sc, Line(kind)))
    BY <1>9 DEF Noise
  <2> QED
    BY <2>1 DEF UpstreamTyped, Sending
<1> QED
  BY <1>3, <1>4, <1>5, <1>6, <1>7, <1>8, <1>9 DEF Upstream

\* The steps there are.
LEMMA StepsAre ==
  ASSUME [Next]_vars, pieces \in Nat, said \in Seq(Turns)
  PROVE  \/ UNCHANGED vars
         \/ \E i, u \in Seq(ClientBlocks) : Speak(i, u)
         \/ \E model, maxTokens : Ask(Request(model, maxTokens))
         \/ Upstream
<1>1. ASSUME NEW i \in {<<>>, <<Text(pieces + 1)>>}, NEW u \in Utterances, Speak(i, u)
      PROVE  \E j, v \in Seq(ClientBlocks) : Speak(j, v)
  <2>1. PICK n \in Nat : n = pieces + Len(OpenCalls) + 1
    BY OpenCallsType, LenProperties
  <2>2. PICK a, b, c : a = Text(pieces + 1) /\ b = Text(n) /\ c = Picture(n)
    OBVIOUS
  <2>3. a \in ClientBlocks /\ b \in ClientBlocks /\ c \in ClientBlocks
    BY <2>1, <2>2, TextType
  <2>4. /\ <<>> \in Seq(ClientBlocks) /\ <<a>> \in Seq(ClientBlocks)
        /\ <<b>> \in Seq(ClientBlocks) /\ <<c, b>> \in Seq(ClientBlocks)
    BY <2>3, EmptySeq
  <2>5. i \in {<<>>, <<a>>} /\ u \in {<<>>, <<b>>, <<c, b>>}
    BY <2>1, <2>2 DEF Utterances
  <2>6. i \in Seq(ClientBlocks) /\ u \in Seq(ClientBlocks)
    BY <2>4, <2>5, Zenon
  <2> QED
    BY <1>1, <2>6
<1>2. CASE Next
  BY <1>1, <1>2 DEF Next, Upstream
<1> QED
  BY <1>2
-----------------------------------------------------------------------------
(* What is kept is what it should be.                                      *)

Typed ==
  /\ protocol \in {"anthropic", "openai"}
  /\ pieces \in Nat
  /\ history \in Seq(Messages(protocol))
  /\ said \in Seq(Turns)
  /\ system \in Seq(ClientBlocks) /\ instructed \in Seq(Nat)
  /\ answered \in Seq(Events) /\ (Sending => frame.ev \in Events)
  /\ AccOK(acc)

LEMMA StartOK == AccOK(AccumulateStart)
<1>1. PICK e : e = <<>> /\ e \in Seq(AnswerBlocks) /\ Len(e) = 0
  BY EmptySeq
<1>2. AccumulateStart = [blocks |-> e, mergeable |-> "none", usage |-> 0, finished |-> FALSE]
  BY <1>1 DEF AccumulateStart, NoUsage
<1>3. AccumulateStart \in Accumulated
  BY <1>1, <1>2 DEF Accumulated
<1>4. AccumulateStart.blocks = e /\ AccumulateStart.mergeable = "none"
  BY <1>2
<1> QED
  BY <1>1, <1>3, <1>4 DEF AccOK, Singles

LEMMA InitTyped == Init => Typed
<1> SUFFICES ASSUME Init PROVE Typed
  OBVIOUS
<1>1. AccOK(AccumulateStart)
  BY StartOK
<1>2. protocol \in {"anthropic", "openai"}
  BY ConversationBounds DEF Init
<1>3. history = <<>> /\ said = <<>> /\ system = <<>> /\ instructed = <<>> /\ answered = <<>>
      /\ pieces = 0 /\ acc = AccumulateStart /\ ~Sending
  BY DEF Init, Sending
<1> QED
  BY <1>1, <1>2, <1>3, EmptySeq DEF Typed

LEMMA FreshTyped == FreshAttempt => answered' \in Seq(Events) /\ ~Sending' /\ AccOK(acc')
<1>1. AccOK(AccumulateStart)
  BY StartOK
<1>2. <<>> \in Seq(Events)
  BY EmptySeq
<1> QED
  BY <1>1, <1>2 DEF FreshAttempt, Sending

LEMMA SpeakTyped ==
  ASSUME Typed, NEW i \in Seq(ClientBlocks), NEW u \in Seq(ClientBlocks), Speak(i, u)
  PROVE  Typed'
<1>1. /\ pieces \in Nat /\ history \in Seq(Messages(protocol)) /\ said \in Seq(Turns)
      /\ system \in Seq(ClientBlocks) /\ instructed \in Seq(Nat)
      /\ protocol \in {"anthropic", "openai"}
  BY DEF Typed
<1>2. /\ history' = history \o Spoken(i, u)
      /\ said' = Append(said, [who |-> "user", results |-> Results, blocks |-> u])
      /\ instructed' = instructed \o TextOf(i)
      /\ system' = IF protocol = "anthropic" THEN system \o i ELSE system
      /\ protocol' = protocol
      /\ pieces' = pieces + Len(OpenCalls) + 1
      /\ FreshAttempt
  BY <1>1, SpeakIs
<1>3. history' \in Seq(Messages(protocol'))
  <2>1. Spoken(i, u) \in Seq(Messages(protocol))
    BY <1>1, SpokenType
  <2> QED
    BY <1>1, <1>2, <2>1, ConcatProperties
<1>4. said' \in Seq(Turns)
  <2>1. Results \in Seq(ResultBlocks)
    BY <1>1, ResultsType
  <2>2. [who |-> "user", results |-> Results, blocks |-> u] \in Turns
    BY <2>1 DEF Turns
  <2> QED
    BY <1>1, <1>2, <2>2, AppendProperties
<1>5. instructed' \in Seq(Nat)
  <2>1. TextOf(i) \in Seq(Nat)
    BY TextOfParts
  <2> QED
    BY <1>1, <1>2, <2>1, ConcatProperties
<1>6. system' \in Seq(ClientBlocks)
  BY <1>1, <1>2, ConcatProperties
<1>7. pieces' \in Nat
  <2>1. Len(OpenCalls) \in Nat
    BY <1>1, OpenCallsType, LenProperties
  <2> QED
    BY <1>1, <1>2, <2>1
<1>8. answered' \in Seq(Events) /\ ~Sending' /\ AccOK(acc')
  BY <1>2, FreshTyped
<1> QED
  BY <1>1, <1>2, <1>3, <1>4, <1>5, <1>6, <1>7, <1>8 DEF Typed

LEMMA AskTyped ==
  ASSUME Typed, NEW model, NEW maxTokens, Ask(Request(model, maxTokens))
  PROVE  Typed'
<1>1. /\ protocol' = protocol /\ history' = history
      /\ system' = system /\ said' = said /\ instructed' = instructed
      /\ pieces' = pieces /\ FreshAttempt
  BY AskIs
<1>2. answered' \in Seq(Events) /\ ~Sending' /\ AccOK(acc')
  BY <1>1, FreshTyped
<1> QED
  BY <1>1, <1>2 DEF Typed

\* What is heard are events, one at a time.
LEMMA HearsEvents ==
  ASSUME Typed, ReadInv, ReadInv', Upstream
  PROVE  /\ \/ got' = got /\ acc' = acc
            \/ \E ev \in Events : got' = Append(got, ev) /\ acc' = Accumulate(acc, ev)
         /\ got \in Seq(Events) /\ got' \in Seq(Events) /\ got' = answered'
         /\ protocol' = protocol /\ system' = system /\ instructed' = instructed /\ sent' = sent
         /\ ReadEnds(acc'.blocks) /\ UpstreamTyped
<1>1. got = answered /\ got' = answered'
  BY DEF ReadInv
<1>2. UpstreamTyped
  BY UpstreamSends DEF Typed
<1>3. got \in Seq(Events) /\ got' \in Seq(Events)
  BY <1>1, <1>2 DEF UpstreamTyped, Typed
<1>4. PICK r : Read(r)
  BY <1>2 DEF UpstreamTyped
<1>5. /\ \/ got' = got /\ acc' = acc
         \/ got' = Append(got, r.ev) /\ acc' = Accumulate(acc, r.ev)
      /\ protocol' = protocol /\ system' = system /\ instructed' = instructed /\ sent' = sent
      /\ ReadEnds(acc'.blocks)
  BY <1>4, ReadIs
<1>6. ASSUME got' = Append(got, r.ev) PROVE r.ev \in Events
  <2>1. Len(got') = Len(got) + 1 /\ got'[Len(got) + 1] = r.ev /\ Len(got) \in Nat
    BY <1>3, <1>6
  <2>2. Len(got) + 1 \in 1 .. Len(got')
    BY <2>1
  <2> QED
    BY <1>3, <2>1, <2>2, ElementOfSeq
<1> QED
  BY <1>1, <1>2, <1>3, <1>5, <1>6

LEMMA UpstreamKeepsTyped ==
  ASSUME Typed, ReadInv, ReadInv', Upstream
  PROVE  Typed'
<1>1. AccOK(acc')
  BY HearsEvents, Accumulates DEF Typed
<1>2. /\ answered' \in Seq(Events) /\ pieces' \in Nat /\ (Sending' => frame'.ev \in Events)
      /\ protocol' = protocol /\ system' = system /\ instructed' = instructed
      /\ ReadEnds(acc'.blocks)
  BY HearsEvents DEF UpstreamTyped
<1>3. history \in Seq(Messages(protocol)) /\ said \in Seq(Turns)
  BY DEF Typed
<1>4. history' \in Seq(Messages(protocol)) /\ said' \in Seq(Turns)
  <2>1. PICK bs : bs = acc'.blocks
    OBVIOUS
  <2>2. bs \in Seq(AnswerBlocks)
    BY <1>1, <2>1 DEF AccOK, Accumulated
  <2>3. AnswerMessage(protocol, bs) \in Messages(protocol)
    BY <2>2, AnswerType
  <2>4. [who |-> "upstream", events |-> answered'] \in Turns
    BY <1>2 DEF Turns
  <2>5. CASE /\ history' = Append(history, AnswerMessage(protocol, bs))
             /\ said' = Append(said, [who |-> "upstream", events |-> answered'])
    BY <1>3, <2>3, <2>4, <2>5, AppendProperties
  <2>6. CASE history' = history /\ said' = said
    BY <1>3, <2>6
  <2> QED
    BY <1>2, <2>1, <2>5, <2>6 DEF ReadEnds
<1> QED
  BY <1>1, <1>2, <1>4 DEF Typed

LEMMA NextTyped ==
  ASSUME Typed, ReadInv, ReadInv', [Next]_vars
  PROVE  Typed'
<1>1. CASE UNCHANGED vars
  BY <1>1 DEF vars, client, attempt, Typed, Sending
<1>2. pieces \in Nat /\ said \in Seq(Turns)
  BY DEF Typed
<1> QED
  BY <1>1, <1>2, StepsAre, SpeakTyped, AskTyped, UpstreamKeepsTyped

-----------------------------------------------------------------------------
(* The client's messages only grow.                                        *)

\* What is sent is what the messages so far were converted to.
SentInv ==
  /\ SentMs(sent) \in Seq(SentMessages)
  /\ \E rest \in Seq(SentMessages) : Converted(protocol, history) = SentMs(sent) \o rest
  /\ phase = "answering" =>
       SentMs(sent) = Converted(protocol, history) /\ SentSys(sent) = SystemNow

LEMMA GrowsIsPrefix ==
  ASSUME NEW S, NEW s \in Seq(S), NEW r \in Seq(S)
  PROVE  IsPrefix(s, s \o r)
<1>1. PICK t : t = s \o r
  OBVIOUS
<1>2. t \in Seq(S) /\ Len(t) = Len(s) + Len(r) /\ Len(s) \in Nat /\ Len(r) \in Nat
      /\ \A k \in 1 .. Len(s) : t[k] = s[k]
  BY <1>1, ConcatProperties
<1>3. SubSeq(t, 1, Len(s)) = s
  <2>1. PICK p : p = SubSeq(t, 1, Len(s))
    OBVIOUS
  <2>2. p \in Seq(S) /\ Len(p) = Len(s) /\ \A k \in 1 .. Len(s) : p[k] = t[k]
    BY <1>2, <2>1, SubSeqProperties
  <2>3. \A k \in 1 .. Len(p) : p[k] = s[k]
    BY <1>2, <2>2
  <2> QED
    BY <2>1, <2>2, <2>3, SeqEqual
<1> QED
  BY <1>1, <1>2, <1>3 DEF IsPrefix

LEMMA NothingSent == SentMs(NoBody) = <<>> /\ SentSys(NoBody) = <<>>
  BY DEF SentMs, SentSys, NoBody, NoSystem

LEMMA InitSent == Init => SentInv
<1> SUFFICES ASSUME Init PROVE SentInv
  OBVIOUS
<1>1. SentMs(sent) = <<>> /\ history = <<>> /\ phase # "answering"
  BY NothingSent DEF Init
<1>2. Converted(protocol, <<>>) = <<>>
  BY ConvertedParts
<1>3. <<>> \in Seq(SentMessages) /\ <<>> \o <<>> = <<>>
  BY EmptySeq
<1> QED
  BY <1>1, <1>2, <1>3 DEF SentInv

\* What a history is converted to begins with what it was.
LEMMA HistoryGrows ==
  ASSUME SentInv, Typed, NEW h \in Seq(Messages(protocol)), history' = history \o h,
         protocol' = protocol, sent' = sent, phase' # "answering"
  PROVE  SentInv'
<1>1. PICK a, rest : /\ a = SentMs(sent) /\ a \in Seq(SentMessages)
                     /\ rest \in Seq(SentMessages) /\ Converted(protocol, history) = a \o rest
  BY DEF SentInv
<1>2. PICK b : b = Converted(protocol, h) /\ b \in Seq(SentMessages)
  BY ConvertedParts
<1>3. Converted(protocol, history \o h) = (a \o rest) \o b
  BY <1>1, <1>2, ConvertedParts DEF Typed
<1>4. (a \o rest) \o b = a \o (rest \o b) /\ rest \o b \in Seq(SentMessages)
  BY ONLY <1>1, <1>2, ConcatAssociative, ConcatProperties
<1>5. SentMs(sent') = a /\ Converted(protocol', history') = a \o (rest \o b)
  BY <1>1, <1>3, <1>4
<1> QED
  BY <1>1, <1>4, <1>5 DEF SentInv

LEMMA SpeakSent ==
  ASSUME SentInv, Typed, NEW i \in Seq(ClientBlocks), NEW u \in Seq(ClientBlocks), Speak(i, u)
  PROVE  SentInv' /\ sent' = sent
<1>1. said \in Seq(Turns) /\ pieces \in Nat /\ history \in Seq(Messages(protocol))
  BY DEF Typed
<1>2. /\ history' = history \o Spoken(i, u) /\ protocol' = protocol /\ sent' = sent
      /\ phase' # "answering"
  BY <1>1, SpeakIs
<1>3. Spoken(i, u) \in Seq(Messages(protocol))
  BY <1>1, SpokenType
<1> QED
  BY <1>2, <1>3, HistoryGrows

LEMMA AskSent ==
  ASSUME SentInv, Typed, NEW model, NEW maxTokens, Ask(Request(model, maxTokens))
  PROVE  SentInv' /\ IsPrefix(SentMs(sent), SentMs(sent'))
<1>1. /\ SentMs(sent') = Converted(protocol, history) /\ SentSys(sent') = SystemNow
      /\ protocol' = protocol /\ history' = history /\ system' = system
  BY AskIs
<1>2. history \in Seq(Messages(protocol))
  BY DEF Typed
<1>3. PICK c : c = Converted(protocol, history) /\ c \in Seq(SentMessages)
  BY <1>2, ConvertedParts
<1>4. <<>> \in Seq(SentMessages) /\ c \o <<>> = c
  BY <1>3, EmptySeq, ConcatSimplifications
<1>5. SystemNow' = SystemNow
  BY <1>1 DEF SystemNow
<1>6. SentInv'
  BY <1>1, <1>3, <1>4, <1>5 DEF SentInv
<1>7. PICK a, rest : /\ a = SentMs(sent) /\ a \in Seq(SentMessages)
                     /\ rest \in Seq(SentMessages) /\ Converted(protocol, history) = a \o rest
  BY DEF SentInv
<1>8. IsPrefix(a, a \o rest)
  BY <1>7, GrowsIsPrefix
<1> QED
  BY <1>1, <1>6, <1>7, <1>8

LEMMA UpstreamSent ==
  ASSUME SentInv, Typed, Typed', ReadInv, ReadInv', Upstream
  PROVE  SentInv' /\ sent' = sent
<1>1. protocol' = protocol /\ system' = system /\ sent' = sent /\ ReadEnds(acc'.blocks)
  BY HearsEvents
<1>2. phase = "answering"
  BY DEF Upstream, SendRaw, BeginFrame, BodyTorn, MaySendNow, SendPart, EndFrame, BodyEnds, Noise
<1>3. CASE history' = history
  <2>1. SystemNow' = SystemNow
    BY <1>1, <1>3 DEF SystemNow
  <2> QED
    BY <1>1, <1>2, <1>3, <2>1 DEF SentInv
<1>4. CASE phase' = "composing" /\ history' = Append(history, AnswerMessage(protocol, acc'.blocks))
  <2>1. PICK m : m = AnswerMessage(protocol, acc'.blocks)
    OBVIOUS
  <2>2. acc'.blocks \in Seq(AnswerBlocks)
    BY DEF Typed, AccOK, Accumulated
  <2>3. m \in Messages(protocol)
    BY <2>1, <2>2, AnswerType
  <2>4. <<m>> \in Seq(Messages(protocol)) /\ history' = history \o <<m>>
    <3>1. history \in Seq(Messages(protocol))
      BY DEF Typed
    <3> QED
      BY <1>4, <2>1, <2>3, <3>1, AppendIsConcat
  <2> QED
    BY <1>1, <1>4, <2>4, HistoryGrows
<1> QED
  BY <1>1, <1>3, <1>4 DEF ReadEnds

LEMMA NextSent ==
  ASSUME SentInv, Typed, Typed', ReadInv, ReadInv', [Next]_vars
  PROVE  SentInv' /\ IsPrefix(SentMs(sent), SentMs(sent'))
<1>1. ASSUME sent' = sent PROVE IsPrefix(SentMs(sent), SentMs(sent'))
  <2>1. PICK a : a = SentMs(sent) /\ a \in Seq(SentMessages)
    BY DEF SentInv
  <2>2. <<>> \in Seq(SentMessages) /\ a \o <<>> = a
    BY <2>1, EmptySeq, ConcatSimplifications
  <2>3. IsPrefix(a, a \o <<>>)
    BY <2>1, <2>2, GrowsIsPrefix
  <2> QED
    BY <1>1, <2>1, <2>2, <2>3
<1>2. CASE UNCHANGED vars
  <2>1. protocol' = protocol /\ phase' = phase /\ history' = history /\ sent' = sent
        /\ system' = system
    BY <1>2 DEF vars, client
  <2> QED
    BY <1>1, <2>1 DEF SentInv, SystemNow
<1>3. pieces \in Nat /\ said \in Seq(Turns)
  BY DEF Typed
<1> QED
  BY <1>1, <1>2, <1>3, StepsAre, SpeakSent, AskSent, UpstreamSent

\* For any events, framings, failures and number of turns, in either protocol:
\* what was sent once is sent again in the same words, so that upstream's
\* prompt cache can be used (build.go:40-42).
THEOREM MessagesGrow == Spec => MessagesOnlyGrow
<1> DEFINE Inv == ReadInv /\ Typed /\ SentInv
<1>1. Init => Inv
  BY InitReads, InitTyped, InitSent
<1>2. Inv /\ [Next]_vars => Inv' /\ IsPrefix(sent.params.messages, sent'.params.messages)
  <2> SUFFICES ASSUME ReadInv, Typed, SentInv, [Next]_vars
               PROVE  /\ ReadInv' /\ Typed' /\ SentInv'
                      /\ IsPrefix(sent.params.messages, sent'.params.messages)
    OBVIOUS
  <2>1. ReadInv'
    BY NextReads
  <2>2. Typed'
    BY <2>1, NextTyped
  <2>3. SentInv' /\ IsPrefix(SentMs(sent), SentMs(sent'))
    BY <2>1, <2>2, NextSent
  <2> QED
    BY <2>1, <2>2, <2>3 DEF SentMs
<1> QED
  BY <1>1, <1>2, PTL DEF Spec, MessagesOnlyGrow
-----------------------------------------------------------------------------
(* The answer holds what was heard.                                        *)

\* f of a block and g of an event tell the same.
Suits(f, g, S) ==
  /\ Maps(f, AnswerBlocks, S) /\ Maps(g, Events, S)
  /\ \A ev \in Events : ev.type \notin Deltas \cup {"tool-call"} => g[ev] = <<>>
  /\ \A ev \in Events : ev.type \in Deltas \cup {"tool-call"} =>
       /\ f[ContentBlock(BlockType(ev.type), ev.piece)] = g[ev]
       /\ \A b, c \in AnswerBlocks :
            b.type = BlockType(ev.type) /\ c.type = b.type /\ c.pieces = Append(b.pieces, ev.piece)
              => f[c] = f[b] \o g[ev]

LEMMA BlockTypeIs ==
  \A ev \in Events : ev.type \in Deltas \cup {"tool-call"} =>
    BlockType(ev.type) \in {"text", "thinking", "tool_use"} /\ ev.piece \in Nat
  BY DEF BlockType, Deltas, Events

LEMMA HeardTells ==
  ASSUME NEW f, NEW g, NEW S, Suits(f, g, S), NEW a, AccOK(a), NEW b, AccOK(b),
         NEW ev \in Events, Heard(a, b, ev)
  PROVE  Joins(FlatMap(f, b.blocks), FlatMap(f, a.blocks), g[ev])
<1>1. PICK s, t : s = a.blocks /\ t = b.blocks
  OBVIOUS
<1>2. s \in Seq(AnswerBlocks) /\ t \in Seq(AnswerBlocks)
  BY <1>1 DEF AccOK, Accumulated
<1>3. Maps(f, AnswerBlocks, S) /\ Maps(g, Events, S)
  BY DEF Suits
<1>4. PICK y : y = g[ev] /\ y \in Seq(S)
  BY <1>3 DEF Maps
<1>5. CASE ev.type \notin Deltas \cup {"tool-call"}
  <2>1. s = t
    BY <1>1, <1>5 DEF Heard
  <2>2. y = <<>>
    BY <1>4, <1>5 DEF Suits
  <2>3. FlatMap(f, s) \in Seq(S)
    BY <1>2, <1>3, FlatMapType
  <2>4. FlatMap(f, s) \o <<>> = FlatMap(f, s)
    BY <2>3, ConcatSimplifications
  <2> QED
    BY <1>1, <1>4, <2>1, <2>2, <2>4 DEF Joins
<1>6. CASE ev.type \in Deltas \cup {"tool-call"}
  <2>1. PICK type, piece : type = BlockType(ev.type) /\ piece = ev.piece
    OBVIOUS
  <2>2. type \in {"text", "thinking", "tool_use"} /\ piece \in Nat
    BY <1>6, <2>1, BlockTypeIs
  <2>3. Gains(s, t, type, piece)
    BY <1>1, <1>6, <2>1 DEF Heard
  <2>4. PICK n : n = ContentBlock(type, piece)
    OBVIOUS
  <2>5. n \in AnswerBlocks /\ f[n] = y
    BY <1>4, <1>6, <2>1, <2>2, <2>4, ContentBlockType DEF Suits
  <2>6. CASE t = Append(s, n)
    <3>1. FlatMap(f, Append(s, n)) = FlatMap(f, s) \o f[n]
      BY <1>2, <1>3, <2>5, FlatMapAppend
    <3> QED
      BY <1>1, <1>4, <2>5, <2>6, <3>1 DEF Joins
  <2>7. CASE /\ LastReplaced(s, t) /\ s[Len(s)].type = type /\ t[Len(s)].type = type
             /\ t[Len(s)].pieces = Append(s[Len(s)].pieces, piece)
    <3>1. PICK c, d : c = s[Len(s)] /\ d = t[Len(s)]
      OBVIOUS
    <3>2. Len(s) \in 1 .. Len(s) /\ Len(s) \in 1 .. Len(t)
      BY <1>2, <2>7 DEF LastReplaced
    <3>3. c \in AnswerBlocks /\ d \in AnswerBlocks
      BY <1>2, <3>1, <3>2, ElementOfSeq
    <3>4. c.type = BlockType(ev.type) /\ d.type = c.type /\ d.pieces = Append(c.pieces, ev.piece)
      BY <2>1, <2>7, <3>1
    <3>5. f[d] = f[c] \o y
      BY <1>4, <1>6, <3>3, <3>4 DEF Suits
    <3>6. Joins(f[t[Len(s)]], f[s[Len(s)]], y)
      BY <3>1, <3>5 DEF Joins
    <3>7. Joins(FlatMap(f, t), FlatMap(f, s), y)
      BY <1>2, <1>3, <1>4, <2>7, <3>6, FlatMapLastGrows
    <3> QED
      BY <1>1, <1>4, <3>7
  <2> QED
    BY <2>3, <2>4, <2>6, <2>7 DEF Gains
<1> QED
  BY <1>5, <1>6

\* What a pair of them tells of the blocks and of the events heard so far.
Tells(f, g, a, evs) == FlatMap(f, a.blocks) = FlatMap(g, evs)

LEMMA KeepsTelling ==
  ASSUME NEW f, NEW g, NEW S, Suits(f, g, S), NEW a, AccOK(a), NEW evs \in Seq(Events),
         Tells(f, g, a, evs), NEW ev \in Events
  PROVE  Tells(f, g, Accumulate(a, ev), Append(evs, ev))
<1>1. PICK b : b = Accumulate(a, ev)
  OBVIOUS
<1>2. AccOK(b) /\ Heard(a, b, ev)
  BY <1>1, Accumulates
<1>3. Joins(FlatMap(f, b.blocks), FlatMap(f, a.blocks), g[ev])
  BY <1>2, HeardTells
<1>4. FlatMap(g, Append(evs, ev)) = FlatMap(g, evs) \o g[ev]
  BY FlatMapAppend DEF Suits
<1> QED
  BY <1>1, <1>3, <1>4 DEF Tells, Joins

LEMMA StartTells == \A f, g : Tells(f, g, AccumulateStart, <<>>)
  BY FlatMapNone DEF Tells, AccumulateStart
-----------------------------------------------------------------------------
(* What of it is passed on: the pieces of a type, and everything.          *)

\* The pieces of a type of block and those of its type of event.
LEMMA PiecesSuit ==
  ASSUME NEW type \in Deltas \cup {"tool-call"}
  PROVE  Suits(PiecesIn(BlockType(type)), SaidIn(type), Nat)
<1> DEFINE f == PiecesIn(BlockType(type))
           g == SaidIn(type)
<1>1. Maps(f, AnswerBlocks, Nat) /\ Maps(g, Events, Nat)
  BY PiecesInMaps, SaidInMaps
<1>2. \A ev \in Events : g[ev] = IF ev.type = type THEN <<ev.piece>> ELSE <<>>
  BY DEF SaidIn
<1>3. \A b \in AnswerBlocks : f[b] = IF b.type = BlockType(type) THEN b.pieces ELSE <<>>
  BY DEF PiecesIn, PiecesIf
<1>4. \A t \in Deltas \cup {"tool-call"} : BlockType(t) = BlockType(type) <=> t = type
  BY DEF BlockType, Deltas
<1> HIDE DEF f, g
<1>5. ASSUME NEW ev \in Events, ev.type \notin Deltas \cup {"tool-call"} PROVE g[ev] = <<>>
  BY <1>2, <1>5
<1>6. ASSUME NEW ev \in Events, ev.type \in Deltas \cup {"tool-call"}
      PROVE  f[ContentBlock(BlockType(ev.type), ev.piece)] = g[ev]
  <2>1. PICK n : n = ContentBlock(BlockType(ev.type), ev.piece)
    OBVIOUS
  <2>2. n \in AnswerBlocks
    BY <1>6, <2>1, BlockTypeIs, ContentBlockType
  <2>3. n.type = BlockType(ev.type) /\ n.pieces = <<ev.piece>>
    BY <2>1 DEF ContentBlock
  <2> QED
    BY <1>2, <1>3, <1>4, <1>6, <2>1, <2>2, <2>3
<1>7. ASSUME NEW ev \in Events, ev.type \in Deltas \cup {"tool-call"},
             NEW b \in AnswerBlocks, NEW c \in AnswerBlocks,
             b.type = BlockType(ev.type), c.type = b.type, c.pieces = Append(b.pieces, ev.piece)
      PROVE  f[c] = f[b] \o g[ev]
  <2>1. PICK p, x : p = b.pieces /\ x = ev.piece
    OBVIOUS
  <2>2. p \in Seq(Nat) /\ x \in Nat /\ c.pieces = Append(p, x)
    BY <1>7, <2>1, BlockTypeIs DEF AnswerBlocks
  <2>3. Append(p, x) = p \o <<x>>
    BY <2>2, AppendIsConcat
  <2>4. CASE ev.type = type
    BY <1>2, <1>3, <1>7, <2>1, <2>2, <2>3, <2>4
  <2>5. CASE ev.type # type
    <3>1. f[c] = <<>> /\ f[b] = <<>> /\ g[ev] = <<>>
      BY <1>2, <1>3, <1>4, <1>7, <2>5
    <3>2. <<>> \in Seq(Nat)
      BY EmptySeq
    <3>3. <<>> \o <<>> = <<>>
      BY <3>2, ConcatSimplifications
    <3> QED
      BY <3>1, <3>3
  <2> QED
    BY <2>4, <2>5
<1> QED
  BY <1>1, <1>5, <1>6, <1>7 DEF Suits, f, g
-----------------------------------------------------------------------------
(* What is shown.                                                          *)

Speakers == {"user", "upstream"}
Kinds    == {"text", "image", "reasoning", "tool-call"}
Things   == (Kinds \X Nat) \cup ({"tool-result"} \X Nat \X Seq(Nat))
Items    == [who : Speakers, what : Things]

LEMMA ItemsAre ==
  \A who \in Speakers :
    /\ \A t \in Kinds, n \in Nat : Item(who, <<t, n>>) \in Items
    /\ \A c \in Nat, s \in Seq(Nat) : Item(who, <<"tool-result", c, s>>) \in Items
<1>1. \A t \in Kinds, n \in Nat : <<t, n>> \in Things
  BY DEF Things
<1>2. \A c \in Nat, s \in Seq(Nat) : <<"tool-result", c, s>> \in Things
  BY DEF Things
<1>3. \A who \in Speakers, w \in Things : Item(who, w) \in Items
  BY DEF Item, Items
<1> QED
  BY <1>1, <1>2, <1>3

LEMMA EachIs ==
  ASSUME NEW who \in Speakers, NEW t \in Kinds, NEW s \in Seq(Nat)
  PROVE  /\ Each(who, t, s) \in Seq(Items) /\ Len(Each(who, t, s)) = Len(s)
         /\ \A i \in 1 .. Len(s) : Each(who, t, s)[i] = Item(who, <<t, s[i]>>)
<1>1. DOMAIN s = 1 .. Len(s) /\ Len(s) \in Nat /\ \A i \in DOMAIN s : s[i] \in Nat
  BY ElementsOf
<1>2. \A i \in 1 .. Len(s) : Item(who, <<t, s[i]>>) \in Items
  BY <1>1, ItemsAre
<1> DEFINE it(i) == Item(who, <<t, s[i]>>)
<1>3. Each(who, t, s) = [i \in 1 .. Len(s) |-> it(i)]
  BY <1>1 DEF Each
<1>4. \A i \in 1 .. Len(s) : it(i) \in Items
  BY <1>2
<1>5. \A i \in 1 .. Len(s) : it(i) = Item(who, <<t, s[i]>>)
  OBVIOUS
<1> HIDE DEF it
<1> QED
  BY <1>1, <1>3, <1>4, <1>5

LEMMA EachOfNone == \A who, t : Each(who, t, <<>>) = <<>>
  BY DEF Each

LEMMA EachOfOne ==
  ASSUME NEW who \in Speakers, NEW t \in Kinds, NEW n \in Nat
  PROVE  Each(who, t, <<n>>) = <<Item(who, <<t, n>>)>>
<1>1. <<n>> \in Seq(Nat) /\ Len(<<n>>) = 1 /\ <<n>>[1] = n
  OBVIOUS
<1>2. PICK e, x : e = Each(who, t, <<n>>) /\ x = Item(who, <<t, n>>)
  OBVIOUS
<1>3. e \in Seq(Items) /\ Len(e) = 1 /\ e[1] = x
  BY <1>1, <1>2, EachIs
<1>4. e = <<x>>
  BY <1>3
<1> QED
  BY <1>2, <1>4

LEMMA EachOfMore ==
  ASSUME NEW who \in Speakers, NEW t \in Kinds, NEW s \in Seq(Nat), NEW n \in Nat
  PROVE  Joins(Each(who, t, Append(s, n)), Each(who, t, s), <<Item(who, <<t, n>>)>>)
<1>1. PICK r : r = Append(s, n)
  OBVIOUS
<1>2. /\ r \in Seq(Nat) /\ Len(r) = Len(s) + 1 /\ r[Len(s) + 1] = n /\ Len(s) \in Nat
      /\ \A i \in 1 .. Len(s) : r[i] = s[i]
  BY <1>1, AppendProperties
<1>3. PICK x, e, d : x = Item(who, <<t, n>>) /\ e = Each(who, t, r) /\ d = Each(who, t, s)
  OBVIOUS
<1>4. e \in Seq(Items) /\ Len(e) = Len(r) /\ \A i \in 1 .. Len(r) : e[i] = Item(who, <<t, r[i]>>)
  BY <1>2, <1>3, EachIs
<1>5. d \in Seq(Items) /\ Len(d) = Len(s) /\ \A i \in 1 .. Len(s) : d[i] = Item(who, <<t, s[i]>>)
  BY <1>3, EachIs
<1>6. x \in Items
  BY <1>3, ItemsAre
<1>7. PICK f : f = Append(d, x)
  OBVIOUS
<1>8. /\ f \in Seq(Items) /\ Len(f) = Len(s) + 1 /\ f[Len(s) + 1] = x
      /\ \A i \in 1 .. Len(s) : f[i] = d[i]
  BY ONLY <1>5, <1>6, <1>7, AppendProperties
<1>9. ASSUME NEW i \in 1 .. Len(e) PROVE e[i] = f[i]
  <2>1. i \in 1 .. Len(s) \/ i = Len(s) + 1
    BY <1>2, <1>4
  <2>2. CASE i \in 1 .. Len(s)
    <3>1. i \in 1 .. Len(r) /\ r[i] = s[i]
      BY <1>2, <2>2
    <3>2. e[i] = Item(who, <<t, s[i]>>)
      BY <1>4, <3>1
    <3> QED
      BY <1>5, <1>8, <2>2, <3>2
  <2>3. CASE i = Len(s) + 1
    <3>1. i \in 1 .. Len(r) /\ r[i] = n
      BY <1>2, <2>3
    <3> QED
      BY <1>3, <1>4, <1>8, <2>3, <3>1
  <2> QED
    BY <2>1, <2>2, <2>3
<1>10. e = f
  BY <1>2, <1>4, <1>8, <1>9, SeqEqual
<1>11. f = d \o <<x>>
  BY ONLY <1>5, <1>6, <1>7, AppendIsConcat
<1> QED
  BY <1>1, <1>3, <1>10, <1>11 DEF Joins

\* Of a block, a message, and the messages of a call.
ItemsIn(who) == [b \in SentBlocks |-> BlockItems(who, b)]

LEMMA ItemsInMaps ==
  ASSUME NEW who \in Speakers
  PROVE  Maps(ItemsIn(who), SentBlocks, Items)
<1>1. ASSUME NEW b \in SentBlocks PROVE BlockItems(who, b) \in Seq(Items)
  <2>1. CASE b.type = "tool-result"
    <3>1. b.call \in Nat /\ b.pieces \in Seq(Nat)
      BY <2>1 DEF SentBlocks
    <3>2. PICK x : x = Item(who, <<b.type, b.call, b.pieces>>)
      OBVIOUS
    <3>3. x \in Items
      BY <2>1, <3>1, <3>2, ItemsAre
    <3>4. BlockItems(who, b) = <<x>>
      BY <2>1, <3>2 DEF BlockItems
    <3> QED
      BY <3>3, <3>4
  <2>2. CASE b.type # "tool-result"
    <3>1. b.type \in Kinds /\ b.pieces \in Seq(Nat)
      BY <2>2 DEF SentBlocks, Kinds
    <3> QED
      BY <2>2, <3>1, EachIs DEF BlockItems
  <2> QED
    BY <2>1, <2>2
<1> QED
  BY <1>1 DEF Maps, ItemsIn

Voice(role) == IF role = "assistant" THEN "upstream" ELSE "user"

LEMMA MessageItemsAre ==
  ASSUME NEW m \in SentMessages
  PROVE  /\ MessageItems(m) = FlatMap(ItemsIn(Voice(m.role)), m.content)
         /\ MessageItems(m) \in Seq(Items)
<1>1. PICK c, who : c = m.content /\ who = Voice(m.role)
  OBVIOUS
<1>2. c \in Seq(SentBlocks) /\ who \in Speakers
  BY <1>1 DEF SentMessages, Voice, Speakers
<1>3. \A j \in DOMAIN c : c[j] \in SentBlocks
  BY <1>2, ElementsOf
<1>4. Mapped(ItemsIn(who), c) = [j \in DOMAIN c |-> BlockItems(who, c[j])]
  BY <1>3 DEF Mapped, ItemsIn
<1>5. MessageItems(m) = FlatMap(ItemsIn(who), c)
  BY <1>1, <1>4 DEF MessageItems, FlatMap, Voice
<1>6. FlatMap(ItemsIn(who), c) \in Seq(Items)
  BY <1>2, ItemsInMaps, FlatMapType
<1> QED
  BY <1>1, <1>5, <1>6

ShownIn == [m \in SentMessages |-> MessageItems(m)]

LEMMA ShownInMaps == Maps(ShownIn, SentMessages, Items)
  BY MessageItemsAre DEF Maps, ShownIn

LEMMA ShownParts ==
  /\ Shown(<<>>) = <<>>
  /\ \A s \in Seq(SentMessages) : Shown(s) = FlatMap(ShownIn, s) /\ Shown(s) \in Seq(Items)
  /\ \A s, t \in Seq(SentMessages) : Shown(s \o t) = Shown(s) \o Shown(t)
  /\ \A m \in SentMessages : Shown(<<m>>) = MessageItems(m)
<1>1. ASSUME NEW s \in Seq(SentMessages)
      PROVE  Shown(s) = FlatMap(ShownIn, s) /\ Shown(s) \in Seq(Items)
  <2>1. \A i \in DOMAIN s : s[i] \in SentMessages
    BY ElementsOf
  <2>2. Mapped(ShownIn, s) = [i \in DOMAIN s |-> MessageItems(s[i])]
    BY <2>1 DEF Mapped, ShownIn
  <2>3. Shown(s) = FlatMap(ShownIn, s)
    BY <2>2 DEF Shown, FlatMap
  <2>4. FlatMap(ShownIn, s) \in Seq(Items)
    BY ShownInMaps, FlatMapType
  <2> QED
    BY <2>3, <2>4
<1>2. Shown(<<>>) = <<>>
  <2>1. <<>> \in Seq(SentMessages)
    BY EmptySeq
  <2> QED
    BY <1>1, <2>1, FlatMapNone
<1>3. ASSUME NEW s \in Seq(SentMessages), NEW t \in Seq(SentMessages)
      PROVE  Shown(s \o t) = Shown(s) \o Shown(t)
  <2>1. FlatMap(ShownIn, s \o t) = FlatMap(ShownIn, s) \o FlatMap(ShownIn, t)
    BY ShownInMaps, FlatMapConcat
  <2>2. s \o t \in Seq(SentMessages)
    BY ConcatProperties
  <2> QED
    BY <1>1, <2>1, <2>2
<1>4. ASSUME NEW m \in SentMessages PROVE Shown(<<m>>) = MessageItems(m)
  <2>1. FlatMap(ShownIn, <<m>>) = ShownIn[m]
    BY ShownInMaps, FlatMapOne
  <2>2. <<m>> \in Seq(SentMessages) /\ ShownIn[m] = MessageItems(m)
    BY DEF ShownIn
  <2> QED
    BY <1>1, <2>1, <2>2
<1> QED
  BY <1>1, <1>2, <1>3, <1>4
-----------------------------------------------------------------------------
(* What is shown of an answer.                                             *)

AnswerItemsIn == [b \in AnswerBlocks |-> BlockItems("upstream", AssistantBlock(b))]

EventItems(ev) ==
  IF ev.type \in Deltas \cup {"tool-call"}
  THEN <<Item("upstream", <<BlockName(ev.type), ev.piece>>)>> ELSE <<>>

EventItemsIn == [ev \in Events |-> EventItems(ev)]

SentName(type) ==
  IF type = "thinking" THEN "reasoning" ELSE IF type = "tool_use" THEN "tool-call" ELSE "text"

LEMMA AnswerItemsAre ==
  ASSUME NEW b \in AnswerBlocks
  PROVE  /\ AnswerItemsIn[b] = Each("upstream", SentName(b.type), b.pieces)
         /\ SentName(b.type) \in Kinds /\ b.pieces \in Seq(Nat)
<1>1. PICK c : c = AssistantBlock(b)
  OBVIOUS
<1>2. c.type = SentName(b.type) /\ c.pieces = b.pieces
  BY <1>1, AssistantBlockIs DEF SentName
<1>3. SentName(b.type) \in Kinds /\ SentName(b.type) # "tool-result"
  BY DEF SentName, Kinds
<1>4. BlockItems("upstream", c) = Each("upstream", SentName(b.type), b.pieces)
  BY <1>2, <1>3 DEF BlockItems
<1>5. b.pieces \in Seq(Nat)
  BY DEF AnswerBlocks
<1> QED
  BY <1>1, <1>3, <1>4, <1>5 DEF AnswerItemsIn

LEMMA AnswerItemsSuit == Suits(AnswerItemsIn, EventItemsIn, Items)
<1> DEFINE f == AnswerItemsIn
           g == EventItemsIn
<1>1. "upstream" \in Speakers /\ <<>> \in Seq(Items)
  BY EmptySeq DEF Speakers
<1>2. Maps(f, AnswerBlocks, Items)
  <2>1. \A b \in AnswerBlocks : f[b] \in Seq(Items)
    BY <1>1, AnswerItemsAre, EachIs
  <2> QED
    BY <2>1 DEF Maps, AnswerItemsIn
<1>3. \A ev \in Events : ev.type \in Deltas \cup {"tool-call"} =>
        /\ BlockName(ev.type) \in Kinds /\ ev.piece \in Nat
        /\ SentName(BlockType(ev.type)) = BlockName(ev.type)
  BY DEF BlockName, Kinds, Deltas, Events, SentName, BlockType
<1>4. \A ev \in Events : ev.type \in Deltas \cup {"tool-call"} =>
        Item("upstream", <<BlockName(ev.type), ev.piece>>) \in Items
  BY <1>1, <1>3, ItemsAre
<1>5. \A ev \in Events : g[ev] = EventItems(ev)
  BY DEF EventItemsIn
<1>6. Maps(g, Events, Items)
  <2>1. ASSUME NEW ev \in Events PROVE EventItems(ev) \in Seq(Items)
    <3>1. CASE ev.type \in Deltas \cup {"tool-call"}
      <4>1. PICK x : x = Item("upstream", <<BlockName(ev.type), ev.piece>>)
        OBVIOUS
      <4>2. x \in Items /\ EventItems(ev) = <<x>>
        BY <1>4, <3>1, <4>1 DEF EventItems
      <4> QED
        BY <4>2
    <3>2. CASE ev.type \notin Deltas \cup {"tool-call"}
      BY <1>1, <3>2 DEF EventItems
    <3> QED
      BY <3>1, <3>2
  <2> QED
    BY <2>1 DEF Maps, EventItemsIn
<1> HIDE DEF f, g
<1>7. ASSUME NEW ev \in Events, ev.type \notin Deltas \cup {"tool-call"} PROVE g[ev] = <<>>
  BY <1>5, <1>7 DEF EventItems
<1>8. ASSUME NEW ev \in Events, ev.type \in Deltas \cup {"tool-call"}
      PROVE  f[ContentBlock(BlockType(ev.type), ev.piece)] = g[ev]
  <2>1. PICK n : n = ContentBlock(BlockType(ev.type), ev.piece)
    OBVIOUS
  <2>2. n \in AnswerBlocks
    BY <1>8, <2>1, BlockTypeIs, ContentBlockType
  <2>3. n.type = BlockType(ev.type) /\ n.pieces = <<ev.piece>>
    BY <2>1 DEF ContentBlock
  <2>4. f[n] = Each("upstream", BlockName(ev.type), <<ev.piece>>)
    BY <1>3, <1>8, <2>2, <2>3, AnswerItemsAre DEF f
  <2>5. Each("upstream", BlockName(ev.type), <<ev.piece>>)
          = <<Item("upstream", <<BlockName(ev.type), ev.piece>>)>>
    BY <1>1, <1>3, <1>8, EachOfOne
  <2>6. g[ev] = <<Item("upstream", <<BlockName(ev.type), ev.piece>>)>>
    BY <1>5, <1>8 DEF EventItems
  <2> QED
    BY <2>1, <2>4, <2>5, <2>6
<1>9. ASSUME NEW ev \in Events, ev.type \in Deltas \cup {"tool-call"},
             NEW b \in AnswerBlocks, NEW c \in AnswerBlocks,
             b.type = BlockType(ev.type), c.type = b.type, c.pieces = Append(b.pieces, ev.piece)
      PROVE  f[c] = f[b] \o g[ev]
  <2>1. PICK t, p, x : t = BlockName(ev.type) /\ p = b.pieces /\ x = ev.piece
    OBVIOUS
  <2>2. t \in Kinds /\ p \in Seq(Nat) /\ x \in Nat
    BY <1>3, <1>9, <2>1 DEF AnswerBlocks
  <2>3. f[b] = Each("upstream", t, p) /\ f[c] = Each("upstream", t, Append(p, x))
    BY <1>3, <1>9, <2>1, AnswerItemsAre DEF f
  <2>4. g[ev] = <<Item("upstream", <<t, x>>)>>
    BY <1>5, <1>9, <2>1 DEF EventItems
  <2>5. Joins(Each("upstream", t, Append(p, x)), Each("upstream", t, p),
              <<Item("upstream", <<t, x>>)>>)
    BY <1>1, <2>2, EachOfMore
  <2> QED
    BY <2>3, <2>4, <2>5 DEF Joins
<1> QED
  BY <1>2, <1>6, <1>7, <1>8, <1>9 DEF Suits, f, g

\* An Anthropic answer: block by block what AccumulateStream has.
LEMMA AnthropicAnswerShown ==
  ASSUME NEW bs \in Seq(AnswerBlocks)
  PROVE  Shown(Converted("anthropic", <<AnswerMessage("anthropic", bs)>>))
           = FlatMap(AnswerItemsIn, bs)
<1>1. PICK m, c : m = AnswerMessage("anthropic", bs) /\ c = convertAnthropicAssistantContent(bs)
  OBVIOUS
<1>2. m \in AnthropicMessages /\ m \in Messages("anthropic")
  BY <1>1, AnswerType DEF Messages
<1>3. m.role = "assistant" /\ m.content = bs
  BY <1>1 DEF AnswerMessage, Message
<1>4. PICK sm : sm = Message("assistant", c)
  OBVIOUS
<1>5. AnthropicMessage(m) = sm /\ sm \in SentMessages
  BY <1>1, <1>2, <1>3, <1>4, AnthropicMessageType DEF AnthropicMessage
<1>6. Converted("anthropic", <<m>>) = <<sm>>
  <2>1. ConvertIn("anthropic")[m] = <<AnthropicMessage(m)>>
    BY <1>2 DEF ConvertIn
  <2> QED
    BY <1>2, <1>5, <2>1, ConvertedParts
<1>7. Shown(<<sm>>) = MessageItems(sm)
  BY <1>5, ShownParts
<1>8. sm.role = "assistant" /\ sm.content = c
  BY <1>4 DEF Message
<1>9. MessageItems(sm) = FlatMap(ItemsIn("upstream"), c)
  BY <1>5, <1>8, MessageItemsAre DEF Voice
<1>10. Mapped(ItemsIn("upstream"), c) = Mapped(AnswerItemsIn, bs)
  <2>1. DOMAIN bs = DOMAIN c /\ \A i \in DOMAIN bs : c[i] = AssistantBlock(bs[i])
    BY <1>1 DEF convertAnthropicAssistantContent
  <2>2. \A i \in DOMAIN bs : bs[i] \in AnswerBlocks
    BY ElementsOf
  <2>3. \A i \in DOMAIN bs : AssistantBlock(bs[i]) \in SentBlocks
    BY <2>2, AssistantBlockIs
  <2>4. \A i \in DOMAIN bs : ItemsIn("upstream")[c[i]] = AnswerItemsIn[bs[i]]
    BY <2>1, <2>2, <2>3 DEF ItemsIn, AnswerItemsIn
  <2> QED
    BY <2>1, <2>4 DEF Mapped
<1> QED
  BY <1>1, <1>6, <1>7, <1>9, <1>10 DEF FlatMap

\* An OpenAI answer: the text, then the calls.
LEMMA OpenAIAnswerSent ==
  ASSUME NEW bs \in Seq(AnswerBlocks), NEW t, t = PiecesOf(bs, "text"),
         NEW cs, cs = PiecesOf(bs, "tool_use")
  PROVE  /\ t \in Seq(Nat) /\ cs \in Seq(Nat)
         /\ Message("assistant", (IF t # <<>> THEN <<Block("text", t)>> ELSE <<>>) \o Calls(cs))
              \in SentMessages
         /\ Converted("openai", <<AnswerMessage("openai", bs)>>)
              = <<Message("assistant",
                          (IF t # <<>> THEN <<Block("text", t)>> ELSE <<>>) \o Calls(cs))>>
<1>1. t \in Seq(Nat) /\ cs \in Seq(Nat)
  BY PiecesAre
<1>2. PICK m : m = AnswerMessage("openai", bs)
  OBVIOUS
<1>3. m \in OpenAIMessages /\ m \in Messages("openai")
  BY <1>2, AnswerType DEF Messages
<1>4. m.role = "assistant" /\ m.content = <<Block("text", t)>> /\ m.calls = cs
  BY <1>2 DEF AnswerMessage
<1>5. ~Hoisted(m)
  BY <1>4 DEF Hoisted
<1>6. TextOf(m.content) = t
  BY <1>1, <1>4, TextOfParts
<1>7. PICK sm : sm = OpenAIMessage(m)
  OBVIOUS
<1>8. sm \in SentMessages
  BY <1>3, <1>5, <1>7, OpenAIMessageIs
<1>9. sm = Message("assistant", (IF t # <<>> THEN <<Block("text", t)>> ELSE <<>>) \o Calls(cs))
  BY <1>3, <1>4, <1>5, <1>6, <1>7, OpenAIMessageIs
<1>10. Converted("openai", <<m>>) = <<sm>>
  <2>1. ConvertIn("openai")[m] = <<OpenAIMessage(m)>>
    BY <1>3, <1>5 DEF ConvertIn
  <2> QED
    BY <1>3, <1>7, <2>1, ConvertedParts
<1> QED
  BY <1>1, <1>2, <1>8, <1>9, <1>10

LEMMA CallsShown ==
  ASSUME NEW cs \in Seq(Nat)
  PROVE  FlatMap(ItemsIn("upstream"), Calls(cs)) = Each("upstream", "tool-call", cs)
<1>1. PICK s, e : s = Calls(cs) /\ e = Each("upstream", "tool-call", cs)
  OBVIOUS
<1>2. s \in Seq(SentBlocks) /\ Len(s) = Len(cs)
  BY <1>1, CallsType
<1>3. "upstream" \in Speakers /\ "tool-call" \in Kinds
  BY DEF Speakers, Kinds
<1>4. /\ e \in Seq(Items) /\ Len(e) = Len(cs)
      /\ \A i \in 1 .. Len(cs) : e[i] = Item("upstream", <<"tool-call", cs[i]>>)
  BY <1>1, <1>3, EachIs
<1>5. PICK p : p = Mapped(ItemsIn("upstream"), s)
  OBVIOUS
<1>6. IsMap(p, ItemsIn("upstream"), s, Seq(Items))
  BY <1>2, <1>3, <1>5, ItemsInMaps, MappedSeqs
<1>7. p \in Seq(Seq(Items)) /\ Len(p) = Len(e)
  BY <1>2, <1>4, <1>6 DEF IsMap
<1>8. ASSUME NEW i \in 1 .. Len(e) PROVE p[i] = <<e[i]>>
  <2>1. i \in 1 .. Len(cs) /\ i \in 1 .. Len(s) /\ i \in DOMAIN cs
    BY <1>2, <1>4
  <2>2. cs[i] \in Nat
    BY <2>1, ElementOfSeq
  <2>3. s[i] = Block("tool-call", <<cs[i]>>)
    BY <1>1, <2>1 DEF Calls
  <2>4. s[i] \in SentBlocks
    BY <1>2, <2>1, ElementOfSeq
  <2>5. p[i] = BlockItems("upstream", s[i])
    BY <1>6, <2>1, <2>4 DEF IsMap, ItemsIn
  <2>6. BlockItems("upstream", s[i]) = Each("upstream", "tool-call", <<cs[i]>>)
    BY <2>3 DEF BlockItems, Block
  <2>7. Each("upstream", "tool-call", <<cs[i]>>) = <<Item("upstream", <<"tool-call", cs[i]>>)>>
    BY <1>3, <2>2, EachOfOne
  <2>8. e[i] = Item("upstream", <<"tool-call", cs[i]>>)
    BY <1>4, <2>1
  <2> QED
    BY <2>5, <2>6, <2>7, <2>8
<1>9. FlattenSeq(p) = e
  BY <1>4, <1>7, <1>8, FlattenSingles
<1> QED
  BY <1>1, <1>5, <1>9 DEF FlatMap

LEMMA TextShown ==
  ASSUME NEW t \in Seq(Nat)
  PROVE  /\ (IF t # <<>> THEN <<Block("text", t)>> ELSE <<>>) \in Seq(SentBlocks)
         /\ FlatMap(ItemsIn("upstream"), IF t # <<>> THEN <<Block("text", t)>> ELSE <<>>)
              = Each("upstream", "text", t)
<1>1. PICK b : b = Block("text", t)
  OBVIOUS
<1>2. b \in SentBlocks /\ b.type = "text" /\ b.pieces = t
  BY <1>1 DEF Block, SentBlocks
<1>3. "upstream" \in Speakers
  BY DEF Speakers
<1>4. FlatMap(ItemsIn("upstream"), <<b>>) = ItemsIn("upstream")[b]
  BY <1>2, <1>3, ItemsInMaps, FlatMapOne
<1>5. ItemsIn("upstream")[b] = Each("upstream", "text", t)
  BY <1>2 DEF ItemsIn, BlockItems
<1>6. FlatMap(ItemsIn("upstream"), <<>>) = <<>> /\ Each("upstream", "text", <<>>) = <<>>
  BY FlatMapNone, EachOfNone
<1>7. <<b>> \in Seq(SentBlocks) /\ <<>> \in Seq(SentBlocks)
  BY <1>2, EmptySeq
<1>8. CASE t # <<>>
  BY <1>1, <1>4, <1>5, <1>7, <1>8
<1>9. CASE t = <<>>
  BY <1>6, <1>7, <1>9
<1> QED
  BY <1>8, <1>9

LEMMA OpenAIAnswerShown ==
  ASSUME NEW bs \in Seq(AnswerBlocks)
  PROVE  Shown(Converted("openai", <<AnswerMessage("openai", bs)>>))
           = Each("upstream", "text", PiecesOf(bs, "text"))
               \o Each("upstream", "tool-call", PiecesOf(bs, "tool_use"))
<1>1. PICK t, cs : t = PiecesOf(bs, "text") /\ cs = PiecesOf(bs, "tool_use")
  OBVIOUS
<1>2. PICK u, v : u = (IF t # <<>> THEN <<Block("text", t)>> ELSE <<>>) /\ v = Calls(cs)
  OBVIOUS
<1>3. PICK sm : sm = Message("assistant", u \o v)
  OBVIOUS
<1>4. /\ t \in Seq(Nat) /\ cs \in Seq(Nat) /\ sm \in SentMessages
      /\ Converted("openai", <<AnswerMessage("openai", bs)>>) = <<sm>>
  BY <1>1, <1>2, <1>3, OpenAIAnswerSent
<1>5. sm.role = "assistant" /\ sm.content = u \o v
  BY <1>3 DEF Message
<1>6. Shown(<<sm>>) = FlatMap(ItemsIn("upstream"), u \o v)
  BY <1>4, <1>5, ShownParts, MessageItemsAre DEF Voice
<1>7. u \in Seq(SentBlocks) /\ FlatMap(ItemsIn("upstream"), u) = Each("upstream", "text", t)
  BY <1>2, <1>4, TextShown
<1>8. v \in Seq(SentBlocks) /\ FlatMap(ItemsIn("upstream"), v) = Each("upstream", "tool-call", cs)
  BY <1>2, <1>4, CallsType, CallsShown
<1>9. FlatMap(ItemsIn("upstream"), u \o v)
        = FlatMap(ItemsIn("upstream"), u) \o FlatMap(ItemsIn("upstream"), v)
  <2>1. Maps(ItemsIn("upstream"), SentBlocks, Items)
    BY ItemsInMaps DEF Speakers
  <2>2. u \in Seq(SentBlocks) /\ v \in Seq(SentBlocks)
    BY <1>7, <1>8
  <2> QED
    BY ONLY <2>1, <2>2, FlatMapConcat
<1> QED
  BY <1>1, <1>4, <1>6, <1>7, <1>8, <1>9

\* The blocks of an answer tell what was heard: its text, its calls, and
\* everything in its order.
Answered(a, evs) ==
  /\ Tells(PiecesIn("text"), SaidIn("text-delta"), a, evs)
  /\ Tells(PiecesIn("tool_use"), SaidIn("tool-call"), a, evs)
  /\ Tells(AnswerItemsIn, EventItemsIn, a, evs)

LEMMA StartAnswers == Answered(AccumulateStart, <<>>)
  BY StartTells DEF Answered

LEMMA KeepsAnswering ==
  ASSUME NEW a, AccOK(a), NEW evs \in Seq(Events), Answered(a, evs), NEW ev \in Events
  PROVE  Answered(Accumulate(a, ev), Append(evs, ev))
<1>1. /\ Suits(PiecesIn("text"), SaidIn("text-delta"), Nat)
      /\ Suits(PiecesIn("tool_use"), SaidIn("tool-call"), Nat)
  <2>1. BlockType("text-delta") = "text" /\ BlockType("tool-call") = "tool_use"
    BY DEF BlockType
  <2> QED
    BY <2>1, PiecesSuit DEF Deltas
<1>2. Tells(PiecesIn("text"), SaidIn("text-delta"), Accumulate(a, ev), Append(evs, ev))
  BY <1>1, KeepsTelling DEF Answered
<1>3. Tells(PiecesIn("tool_use"), SaidIn("tool-call"), Accumulate(a, ev), Append(evs, ev))
  BY <1>1, KeepsTelling DEF Answered
<1>4. Tells(AnswerItemsIn, EventItemsIn, Accumulate(a, ev), Append(evs, ev))
  BY AnswerItemsSuit, KeepsTelling DEF Answered
<1> QED
  BY <1>2, <1>3, <1>4 DEF Answered

\* What is shown of an answer is what was said.
LEMMA AnswerShown ==
  ASSUME protocol \in {"anthropic", "openai"}, NEW a, AccOK(a), NEW evs \in Seq(Events),
         Answered(a, evs)
  PROVE  Shown(Converted(protocol, <<AnswerMessage(protocol, a.blocks)>>))
           = TurnItems([who |-> "upstream", events |-> evs])
<1>1. PICK bs : bs = a.blocks /\ bs \in Seq(AnswerBlocks)
  BY DEF AccOK, Accumulated
<1>2. PICK turn : turn = [who |-> "upstream", events |-> evs]
  OBVIOUS
<1>3. turn.who # "user" /\ turn.events = evs
  BY <1>2
<1>4. CASE protocol = "anthropic"
  <2>1. Mapped(EventItemsIn, evs) = [i \in DOMAIN evs |-> EventItems(evs[i])]
    <3>1. \A i \in DOMAIN evs : evs[i] \in Events
      BY ElementsOf
    <3> QED
      BY <3>1 DEF Mapped, EventItemsIn
  <2>2. TurnItems(turn) = FlattenSeq([i \in DOMAIN evs |-> EventItems(evs[i])])
    BY <1>3, <1>4 DEF TurnItems, EventItems
  <2>3. TurnItems(turn) = FlatMap(EventItemsIn, evs)
    BY <2>1, <2>2 DEF FlatMap
  <2>4. FlatMap(AnswerItemsIn, bs) = FlatMap(EventItemsIn, evs)
    BY <1>1 DEF Answered, Tells
  <2> QED
    BY <1>1, <1>2, <1>4, <2>3, <2>4, AnthropicAnswerShown
<1>5. CASE protocol = "openai"
  <2>1. TurnItems(turn) = Each("upstream", "text", PiecesSaid(evs, "text-delta"))
                            \o Each("upstream", "tool-call", PiecesSaid(evs, "tool-call"))
    BY <1>3, <1>5 DEF TurnItems
  <2>2. /\ PiecesOf(bs, "text") = PiecesSaid(evs, "text-delta")
        /\ PiecesOf(bs, "tool_use") = PiecesSaid(evs, "tool-call")
    BY <1>1, PiecesAre, PiecesSaidAre DEF Answered, Tells
  <2> QED
    BY <1>1, <1>2, <1>5, <2>1, <2>2, OpenAIAnswerShown
<1> QED
  BY <1>4, <1>5
-----------------------------------------------------------------------------
(* What is sent of what the user says.                                     *)

UserMessages == {m \in SentMessages : m.role # "assistant"}

ContentIn == [m \in SentMessages |-> m.content]

LEMMA ContentInMaps == Maps(ContentIn, SentMessages, SentBlocks)
  BY DEF Maps, ContentIn, SentMessages

Given(rs) == [k \in DOMAIN rs |-> ToolResult(rs[k].call, TextOf(rs[k].parts))]

Kept(u) == IF protocol = "anthropic" THEN FlatMap(UserIn, u) ELSE u

LEMMA GivenType ==
  ASSUME NEW rs \in Seq(ResultBlocks)
  PROVE  /\ Given(rs) \in Seq(SentBlocks) /\ Len(Given(rs)) = Len(rs)
         /\ \A k \in 1 .. Len(rs) :
              /\ Given(rs)[k] = ToolResult(rs[k].call, TextOf(rs[k].parts))
              /\ Given(rs)[k] = UserBlock(rs[k])
              /\ Given(rs)[k].type = "tool-result" /\ Given(rs)[k].call = rs[k].call
              /\ Given(rs)[k].pieces = TextOf(rs[k].parts)
<1>1. DOMAIN rs = 1 .. Len(rs) /\ Len(rs) \in Nat /\ \A k \in DOMAIN rs : rs[k] \in ResultBlocks
  BY ElementsOf
<1> DEFINE t(k) == ToolResult(rs[k].call, TextOf(rs[k].parts))
<1>2. \A k \in 1 .. Len(rs) : t(k) = UserBlock(rs[k]) /\ t(k) \in SentBlocks
  BY <1>1, UserBlockIs
<1>3. \A k \in 1 .. Len(rs) : /\ t(k).type = "tool-result" /\ t(k).call = rs[k].call
                              /\ t(k).pieces = TextOf(rs[k].parts)
  BY DEF ToolResult
<1>4. Given(rs) = [k \in 1 .. Len(rs) |-> t(k)]
  BY <1>1 DEF Given
<1>5. \A k \in 1 .. Len(rs) : t(k) = ToolResult(rs[k].call, TextOf(rs[k].parts))
  OBVIOUS
<1> HIDE DEF t
<1> QED
  BY <1>1, <1>2, <1>3, <1>4, <1>5

\* Results go upstream one by one.
LEMMA GivenIsMade ==
  ASSUME NEW rs \in Seq(ResultBlocks)
  PROVE  FlatMap(UserIn, rs) = Given(rs)
<1>1. PICK e, p : e = Given(rs) /\ p = Mapped(UserIn, rs)
  OBVIOUS
<1>2. /\ e \in Seq(SentBlocks) /\ Len(e) = Len(rs)
      /\ \A k \in 1 .. Len(rs) : e[k] = UserBlock(rs[k])
  BY <1>1, GivenType
<1>3. /\ rs \in Seq(UserBlocks)
      /\ \A k \in 1 .. Len(rs) : rs[k] \in ResultBlocks /\ rs[k] \in UserBlocks
  <2>1. \A k \in 1 .. Len(rs) : rs[k] \in ResultBlocks
    BY ElementOfSeq
  <2> QED
    BY <2>1, ElementsOf DEF UserBlocks
<1>4. IsMap(p, UserIn, rs, Seq(SentBlocks))
  BY <1>1, <1>3, UserInMaps, MappedSeqs
<1>5. \A k \in 1 .. Len(rs) : UserIn[rs[k]] = <<UserBlock(rs[k])>>
  BY <1>3, UserBlockIs DEF UserIn
<1>6. p \in Seq(Seq(SentBlocks)) /\ Len(p) = Len(e) /\ \A k \in 1 .. Len(e) : p[k] = <<e[k]>>
  BY <1>2, <1>4, <1>5 DEF IsMap
<1>7. FlattenSeq(p) = e
  BY <1>2, <1>6, FlattenSingles
<1> QED
  BY <1>1, <1>7 DEF FlatMap

\* What the client adds is sent as messages of the user or of a tool, whose
\* blocks are the results and what is kept of the utterance.
SentAs(w, u) ==
  w \in Seq(UserMessages) /\ FlatMap(ContentIn, w) = Given(Results) \o Kept(u)

LEMMA AnthropicSends ==
  ASSUME protocol = "anthropic", said \in Seq(Turns), pieces \in Nat,
         NEW i \in Seq(ClientBlocks), NEW u \in Seq(ClientBlocks)
  PROVE  SentAs(Converted(protocol, Spoken(i, u)), u)
<1>1. PICK rs, m : rs = Results /\ m = Message("user", rs \o u)
  OBVIOUS
<1>2. Spoken(i, u) = <<m>> /\ m.role = "user" /\ m.content = rs \o u
  BY <1>1 DEF Spoken, Message
<1>3. m \in AnthropicMessages /\ m \in Messages(protocol)
  BY <1>1, SpokenParts DEF Messages
<1>4. rs \in Seq(ResultBlocks) /\ rs \in Seq(UserBlocks) /\ u \in Seq(UserBlocks)
  <2>1. rs \in Seq(ResultBlocks)
    BY <1>1, ResultsType
  <2>2. ResultBlocks \subseteq UserBlocks /\ ClientBlocks \subseteq UserBlocks
    BY DEF UserBlocks
  <2> QED
    BY <2>1, <2>2, ElementsOf
<1>5. PICK sm : sm = AnthropicMessage(m)
  OBVIOUS
<1>6. /\ sm.role \in {"tool", "user"} /\ sm.content = convertAnthropicUserContent(rs \o u)
  BY <1>2, <1>5 DEF AnthropicMessage, Message
<1>7. sm \in SentMessages /\ sm \in UserMessages
  BY <1>3, <1>5, <1>6, AnthropicMessageType DEF UserMessages
<1>8. Converted(protocol, <<m>>) = <<sm>>
  <2>1. ConvertIn(protocol)[m] = <<sm>>
    BY <1>3, <1>5 DEF ConvertIn
  <2> QED
    BY <1>3, <2>1, ConvertedParts
<1>9. FlatMap(ContentIn, <<sm>>) = sm.content
  BY <1>7, ContentInMaps, FlatMapOne DEF ContentIn
<1>10. rs \o u \in Seq(UserBlocks)
  BY <1>4, ConcatProperties
<1>11. sm.content = FlatMap(UserIn, rs \o u)
  BY <1>6, <1>10, UserContentIs
<1>12. FlatMap(UserIn, rs \o u) = FlatMap(UserIn, rs) \o FlatMap(UserIn, u)
  BY ONLY <1>4, UserInMaps, FlatMapConcat
<1>13. FlatMap(UserIn, rs) = Given(rs)
  BY <1>4, GivenIsMade
<1>14. PICK w : w = Converted(protocol, Spoken(i, u))
  OBVIOUS
<1>15. w = <<sm>>
  BY <1>2, <1>8, <1>14
<1>16. w \in Seq(UserMessages)
  BY <1>7, <1>15
<1>17. FlatMap(ContentIn, w) = Given(rs) \o FlatMap(UserIn, u)
  BY <1>9, <1>11, <1>12, <1>13, <1>15, Zenon
<1> QED
  BY <1>1, <1>14, <1>16, <1>17, Zenon DEF SentAs, Kept

\* One message of a tool for every result.
ToolMessages(rs) ==
  [k \in DOMAIN rs |-> Message("tool", <<ToolResult(rs[k].call, TextOf(rs[k].parts))>>)]

LEMMA ToolMessagesAre ==
  ASSUME NEW rs \in Seq(ResultBlocks)
  PROVE  /\ ToolMessages(rs) \in Seq(UserMessages) /\ Len(ToolMessages(rs)) = Len(rs)
         /\ \A k \in 1 .. Len(rs) : ToolMessages(rs)[k] = Message("tool", <<Given(rs)[k]>>)
         /\ FlatMap(ContentIn, ToolMessages(rs)) = Given(rs)
<1>1. PICK w, e : w = ToolMessages(rs) /\ e = Given(rs)
  OBVIOUS
<1>2. /\ e \in Seq(SentBlocks) /\ Len(e) = Len(rs) /\ Len(rs) \in Nat
      /\ \A k \in 1 .. Len(rs) : e[k] = ToolResult(rs[k].call, TextOf(rs[k].parts))
  BY <1>1, GivenType, LenProperties
<1>3. \A k \in 1 .. Len(rs) : e[k] \in SentBlocks
  BY <1>2, ElementOfSeq
<1>4. \A b \in SentBlocks : /\ Message("tool", <<b>>) \in UserMessages
                            /\ Message("tool", <<b>>).content = <<b>>
  BY DEF Message, UserMessages, SentMessages
<1>5. DOMAIN rs = 1 .. Len(rs)
  OBVIOUS
<1> DEFINE t(k) == Message("tool", <<e[k]>>)
<1>6. w = [k \in 1 .. Len(rs) |-> t(k)]
  BY <1>1, <1>2, <1>5 DEF ToolMessages
<1>7. \A k \in 1 .. Len(rs) : /\ t(k) \in UserMessages /\ t(k).content = <<e[k]>>
                              /\ t(k) = Message("tool", <<e[k]>>)
  BY <1>3, <1>4
<1> HIDE DEF t
<1>8. /\ w \in Seq(UserMessages) /\ Len(w) = Len(rs)
      /\ \A k \in 1 .. Len(rs) : w[k] = t(k)
  <2>1. PICK n : n = Len(rs) /\ n \in Nat
    BY <1>2
  <2>2. \A k \in 1 .. n : t(k) \in UserMessages
    BY <1>7, <2>1
  <2>3. w = [k \in 1 .. n |-> t(k)]
    BY <1>6, <2>1
  <2>4. w \in Seq(UserMessages) /\ Len(w) = n /\ \A k \in 1 .. n : w[k] = t(k)
    BY ONLY <2>1, <2>2, <2>3
  <2> QED
    BY <2>1, <2>4
<1>9. UserMessages \subseteq SentMessages
  BY DEF UserMessages
<1>10. w \in Seq(SentMessages)
  BY <1>8, <1>9, ElementsOf
<1>11. PICK p : p = Mapped(ContentIn, w)
  OBVIOUS
<1>12. IsMap(p, ContentIn, w, Seq(SentBlocks))
  BY <1>10, <1>11, ContentInMaps, MappedSeqs
<1>13. \A k \in 1 .. Len(rs) : ContentIn[w[k]] = <<e[k]>>
  BY <1>7, <1>8, <1>9 DEF ContentIn
<1>14. p \in Seq(Seq(SentBlocks)) /\ Len(p) = Len(e) /\ \A k \in 1 .. Len(e) : p[k] = <<e[k]>>
  BY <1>2, <1>8, <1>12, <1>13 DEF IsMap
<1>15. FlattenSeq(p) = e
  BY <1>2, <1>14, FlattenSingles
<1> QED
  BY <1>1, <1>7, <1>8, <1>11, <1>15 DEF FlatMap

\* Instructions are not sent among the messages.
LEMMA InstructionsHoisted ==
  ASSUME protocol = "openai", said \in Seq(Turns), pieces \in Nat, NEW i \in Seq(ClientBlocks)
  PROVE  Converted("openai", Instructs(i)) = <<>>
<1>1. CASE i = <<>>
  BY <1>1, ConvertedParts DEF Instructs
<1>2. CASE i # <<>>
  <2>1. PICK m : m = [role |-> IF said = <<>> THEN "system" ELSE "developer", content |-> i]
    OBVIOUS
  <2>2. Instructs(i) = <<m>> /\ m.role \in {"system", "developer"}
    BY <1>2, <2>1 DEF Instructs
  <2>3. m \in OpenAIMessages
    <3>1. \A r \in {"system", "developer"} : [role |-> r, content |-> i] \in OpenAIMessages
      BY DEF OpenAIMessages
    <3> QED
      BY <2>1, <3>1
  <2>4. m \in Messages("openai") /\ ConvertIn("openai")[m] = <<>>
    BY <2>2, <2>3 DEF Messages, ConvertIn, Hoisted
  <2> QED
    BY <2>2, <2>4, ConvertedParts
<1> QED
  BY <1>1, <1>2

LEMMA ReturnedSent ==
  ASSUME said \in Seq(Turns), pieces \in Nat
  PROVE  Converted("openai", Returned) = ToolMessages(Results)
<1>1. PICK rs, r, w : rs = Results /\ r = Returned /\ w = ToolMessages(rs)
  OBVIOUS
<1>2. rs \in Seq(ResultBlocks)
  BY <1>1, ResultsType
<1>3. /\ w \in Seq(UserMessages) /\ Len(w) = Len(rs)
      /\ \A k \in 1 .. Len(rs) : w[k] = Message("tool", <<Given(rs)[k]>>)
  BY <1>1, <1>2, ToolMessagesAre
<1>4. r \in Seq(OpenAIMessages) /\ Len(r) = Len(rs)
  <2>1. <<>> \in Seq(ClientBlocks)
    BY EmptySeq
  <2> QED
    BY <1>1, <2>1, SpokenParts
<1>5. ASSUME NEW k \in 1 .. Len(rs)
      PROVE  ConvertIn("openai")[r[k]] = <<w[k]>>
  <2>1. k \in DOMAIN rs /\ r[k] \in OpenAIMessages
    BY <1>2, <1>4, ElementOfSeq
  <2>2. /\ r[k].role = "tool" /\ r[k].call = rs[k].call /\ r[k].content = rs[k].parts
    BY <1>1, <2>1 DEF Returned
  <2>3. ~Hoisted(r[k])
    BY <2>2 DEF Hoisted
  <2>4. OpenAIMessage(r[k]) = Message("tool", <<ToolResult(rs[k].call, TextOf(rs[k].parts))>>)
    BY <2>1, <2>2, <2>3, OpenAIMessageIs
  <2>5. Given(rs)[k] = ToolResult(rs[k].call, TextOf(rs[k].parts))
    BY <1>2, GivenType
  <2>6. OpenAIMessage(r[k]) = w[k]
    BY <1>3, <2>4, <2>5
  <2> QED
    BY <2>1, <2>3, <2>6 DEF ConvertIn
<1>6. PICK p : p = Mapped(ConvertIn("openai"), r)
  OBVIOUS
<1>7. r \in Seq(Messages("openai"))
  BY <1>4 DEF Messages
<1>8. IsMap(p, ConvertIn("openai"), r, Seq(SentMessages))
  BY <1>6, <1>7, ConvertInMaps, MappedSeqs
<1>9. w \in Seq(SentMessages)
  <2>1. UserMessages \subseteq SentMessages
    BY DEF UserMessages
  <2> QED
    BY <1>3, <2>1, ElementsOf
<1>10. p \in Seq(Seq(SentMessages)) /\ Len(p) = Len(w) /\ \A k \in 1 .. Len(w) : p[k] = <<w[k]>>
  BY <1>3, <1>4, <1>5, <1>8 DEF IsMap
<1>11. FlattenSeq(p) = w
  BY <1>9, <1>10, FlattenSingles
<1>12. Converted("openai", r) = FlatMap(ConvertIn("openai"), r)
  BY <1>7, ConvertedIs
<1> QED
  BY <1>1, <1>6, <1>11, <1>12 DEF FlatMap

LEMMA UtteranceSent ==
  ASSUME NEW u \in Seq(ClientBlocks)
  PROVE  /\ Converted("openai", Utters(u)) = Utters(u)
         /\ Utters(u) \in Seq(UserMessages) /\ FlatMap(ContentIn, Utters(u)) = u
<1>1. CASE u = <<>>
  BY <1>1, ConvertedParts, FlatMapNone, EmptySeq DEF Utters
<1>2. CASE u # <<>>
  <2>1. PICK m : m = Message("user", u)
    OBVIOUS
  <2>2. Utters(u) = <<m>> /\ m.role = "user" /\ m.content = u
    BY <1>2, <2>1 DEF Utters, Message
  <2>3. m \in OpenAIMessages /\ m \in Messages("openai") /\ ~Hoisted(m)
    BY <2>1 DEF Message, OpenAIMessages, Messages, Hoisted
  <2>4. OpenAIMessage(m) = m /\ m \in SentMessages
    BY <2>1, <2>2, <2>3, OpenAIMessageIs
  <2>5. Converted("openai", <<m>>) = <<m>>
    <3>1. ConvertIn("openai")[m] = <<m>>
      BY <2>3, <2>4 DEF ConvertIn
    <3> QED
      BY <2>3, <3>1, ConvertedParts
  <2>6. FlatMap(ContentIn, <<m>>) = u
    BY <2>2, <2>4, ContentInMaps, FlatMapOne DEF ContentIn
  <2>7. m \in UserMessages
    BY <2>2, <2>4 DEF UserMessages
  <2> QED
    BY <2>2, <2>5, <2>6, <2>7
<1> QED
  BY <1>1, <1>2

LEMMA OpenAISends ==
  ASSUME protocol = "openai", said \in Seq(Turns), pieces \in Nat,
         NEW i \in Seq(ClientBlocks), NEW u \in Seq(ClientBlocks)
  PROVE  SentAs(Converted(protocol, Spoken(i, u)), u)
<1>1. PICK a, b, c : a = Instructs(i) /\ b = Returned /\ c = Utters(u)
  OBVIOUS
<1>2. /\ a \in Seq(Messages("openai")) /\ b \in Seq(Messages("openai"))
      /\ c \in Seq(Messages("openai"))
  BY <1>1, SpokenParts DEF Messages
<1>3. a \o b \in Seq(Messages("openai"))
  BY ONLY <1>2, ConcatProperties
<1>4. /\ Converted("openai", (a \o b) \o c) = Converted("openai", a \o b) \o Converted("openai", c)
      /\ Converted("openai", a \o b) = Converted("openai", a) \o Converted("openai", b)
  BY ONLY <1>2, <1>3, ConvertedParts
<1>5. PICK rs, t : rs = Results /\ t = ToolMessages(rs)
  OBVIOUS
<1>6. rs \in Seq(ResultBlocks)
  BY <1>5, ResultsType
<1>7. Converted("openai", a) = <<>> /\ Converted("openai", b) = t
  BY <1>1, <1>5, InstructionsHoisted, ReturnedSent
<1>8. /\ Converted("openai", c) = c
      /\ c \in Seq(UserMessages) /\ FlatMap(ContentIn, c) = u
  BY <1>1, UtteranceSent
<1>9. t \in Seq(UserMessages) /\ FlatMap(ContentIn, t) = Given(rs)
  BY <1>5, <1>6, ToolMessagesAre
<1>10. <<>> \o t = t
  BY ONLY <1>9, ConcatSimplifications
<1>11. Converted(protocol, Spoken(i, u)) = t \o c
  <2>1. Spoken(i, u) = (a \o b) \o c
    BY <1>1 DEF Spoken
  <2> QED
    BY <1>4, <1>7, <1>8, <1>10, <2>1
<1>12. t \o c \in Seq(UserMessages)
  BY ONLY <1>8, <1>9, ConcatProperties
<1>13. FlatMap(ContentIn, t \o c) = FlatMap(ContentIn, t) \o FlatMap(ContentIn, c)
  <2>1. t \in Seq(SentMessages) /\ c \in Seq(SentMessages)
    <3>1. UserMessages \subseteq SentMessages
      BY DEF UserMessages
    <3> QED
      BY <1>8, <1>9, <3>1, ElementsOf
  <2> QED
    BY ONLY <2>1, ContentInMaps, FlatMapConcat
<1> QED
  BY <1>5, <1>8, <1>9, <1>11, <1>12, <1>13 DEF SentAs, Kept

LEMMA SpokenSent ==
  ASSUME protocol \in {"anthropic", "openai"}, said \in Seq(Turns), pieces \in Nat,
         NEW i \in Seq(ClientBlocks), NEW u \in Seq(ClientBlocks)
  PROVE  SentAs(Converted(protocol, Spoken(i, u)), u)
  BY AnthropicSends, OpenAISends

\* What a function makes of messages by their blocks.
LEMMA ContentTells ==
  ASSUME NEW f, NEW S, Maps(f, SentBlocks, S), NEW h,
         \A m \in UserMessages : h[m] = FlatMap(f, m.content), NEW w \in Seq(UserMessages)
  PROVE  FlatMap(h, w) = FlatMap(f, FlatMap(ContentIn, w))
<1> DEFINE g == [m \in SentMessages |-> FlatMap(f, ContentIn[m])]
<1>1. \A k \in DOMAIN w : w[k] \in UserMessages
  BY ElementsOf
<1>2. UserMessages \subseteq SentMessages
  BY DEF UserMessages
<1>3. \A m \in UserMessages : g[m] = h[m]
  BY <1>2 DEF ContentIn
<1>4. w \in Seq(SentMessages)
  BY <1>1, <1>2, ElementsOf
<1>5. FlatMap(f, FlatMap(ContentIn, w)) = FlatMap(g, w)
  BY <1>4, ContentInMaps, FlatMapTwice
<1> HIDE DEF g
<1>6. \A k \in DOMAIN w : h[w[k]] = g[w[k]]
  BY <1>1, <1>3
<1>7. FlatMap(h, w) = FlatMap(g, w)
  BY <1>6, FlatMapSame
<1> QED
  BY <1>5, <1>7

ResultItems(rs) ==
  [k \in DOMAIN rs |-> Item("user", <<"tool-result", rs[k].call, TextOf(rs[k].parts)>>)]

UtteranceItems(u) ==
  FlattenSeq([k \in DOMAIN u |->
    IF protocol = "anthropic" /\ u[k].type = "image" THEN <<>> ELSE BlockItems("user", u[k])])

LEMMA GivenShown ==
  ASSUME NEW rs \in Seq(ResultBlocks)
  PROVE  FlatMap(ItemsIn("user"), Given(rs)) = ResultItems(rs)
<1>1. PICK e, g : e = ResultItems(rs) /\ g = Given(rs)
  OBVIOUS
<1>2. /\ g \in Seq(SentBlocks) /\ Len(g) = Len(rs) /\ Len(rs) \in Nat /\ DOMAIN rs = 1 .. Len(rs)
      /\ \A k \in 1 .. Len(rs) : /\ g[k].type = "tool-result" /\ g[k].call = rs[k].call
                                 /\ g[k].pieces = TextOf(rs[k].parts)
  BY <1>1, GivenType, LenProperties
<1>3. \A k \in 1 .. Len(rs) : rs[k].call \in Nat /\ TextOf(rs[k].parts) \in Seq(Nat)
  <2>1. \A k \in 1 .. Len(rs) : rs[k] \in ResultBlocks
    BY ElementOfSeq
  <2> QED
    BY <2>1, TextOfParts DEF ResultBlocks
<1> DEFINE it(k) == Item("user", <<"tool-result", rs[k].call, TextOf(rs[k].parts)>>)
<1>4. \A k \in 1 .. Len(rs) : it(k) \in Items
  BY <1>3, ItemsAre DEF Speakers
<1>5. \A k \in 1 .. Len(rs) : ItemsIn("user")[g[k]] = <<it(k)>>
  <2> SUFFICES ASSUME NEW k \in 1 .. Len(rs) PROVE ItemsIn("user")[g[k]] = <<it(k)>>
    OBVIOUS
  <2>1. g[k] \in SentBlocks
    BY <1>2, ElementOfSeq
  <2> QED
    BY <1>2, <2>1 DEF ItemsIn, BlockItems
<1>6. e = [k \in 1 .. Len(rs) |-> it(k)]
  BY <1>1, <1>2 DEF ResultItems
<1> HIDE DEF it
<1>7. e \in Seq(Items) /\ Len(e) = Len(rs) /\ \A k \in 1 .. Len(rs) : e[k] = it(k)
  <2>1. PICK n : n = Len(rs) /\ n \in Nat
    BY <1>2
  <2>2. e = [k \in 1 .. n |-> it(k)] /\ \A k \in 1 .. n : it(k) \in Items
    BY <1>4, <1>6, <2>1
  <2>3. e \in Seq(Items) /\ Len(e) = n /\ \A k \in 1 .. n : e[k] = it(k)
    BY ONLY <2>1, <2>2
  <2> QED
    BY <2>1, <2>3
<1>8. PICK p : p = Mapped(ItemsIn("user"), g)
  OBVIOUS
<1>9. IsMap(p, ItemsIn("user"), g, Seq(Items))
  <2>1. Maps(ItemsIn("user"), SentBlocks, Items)
    BY ItemsInMaps DEF Speakers
  <2> QED
    BY <1>2, <1>8, <2>1, MappedSeqs
<1>10. p \in Seq(Seq(Items)) /\ Len(p) = Len(e) /\ \A k \in 1 .. Len(e) : p[k] = <<e[k]>>
  BY <1>2, <1>5, <1>7, <1>9 DEF IsMap
<1>11. FlattenSeq(p) = e
  BY <1>7, <1>10, FlattenSingles
<1> QED
  BY <1>1, <1>8, <1>11 DEF FlatMap

LEMMA KeptShown ==
  ASSUME NEW u \in Seq(ClientBlocks)
  PROVE  Kept(u) \in Seq(SentBlocks) /\ FlatMap(ItemsIn("user"), Kept(u)) = UtteranceItems(u)
<1>1. \A k \in DOMAIN u : u[k] \in ClientBlocks
  BY ElementsOf
<1>2. \A b \in ClientBlocks : b \in SentBlocks /\ b \in UserBlocks
  BY UserBlockIs DEF UserBlocks
<1>3. u \in Seq(SentBlocks) /\ u \in Seq(UserBlocks)
  BY <1>1, <1>2, ElementsOf
<1>4. Maps(ItemsIn("user"), SentBlocks, Items)
  BY ItemsInMaps DEF Speakers
<1>5. CASE protocol = "anthropic"
  <2> DEFINE g == [b \in UserBlocks |-> FlatMap(ItemsIn("user"), UserIn[b])]
  <2>1. FlatMap(UserIn, u) \in Seq(SentBlocks)
    BY <1>3, UserInMaps, FlatMapType
  <2>2. FlatMap(ItemsIn("user"), FlatMap(UserIn, u)) = FlatMap(g, u)
    BY <1>3, <1>4, UserInMaps, FlatMapTwice
  <2>3. ASSUME NEW b \in ClientBlocks
        PROVE  g[b] = IF b.type = "image" THEN <<>> ELSE BlockItems("user", b)
    <3>1. b \in UserBlocks /\ b \in SentBlocks
      BY <1>2
    <3>2. CASE b.type = "image"
      <4>1. UserIn[b] = <<>>
        BY <3>1, <3>2, UserBlockIs DEF UserIn
      <4> QED
        BY <3>1, <3>2, <4>1, FlatMapNone
    <3>3. CASE b.type # "image"
      <4>1. UserIn[b] = <<b>>
        BY <3>1, <3>3, UserBlockIs DEF UserIn
      <4>2. FlatMap(ItemsIn("user"), <<b>>) = ItemsIn("user")[b]
        BY <1>4, <3>1, FlatMapOne
      <4>3. ItemsIn("user")[b] = BlockItems("user", b)
        BY <3>1 DEF ItemsIn
      <4> QED
        BY <3>1, <3>3, <4>1, <4>2, <4>3
    <3> QED
      BY <3>2, <3>3
  <2> HIDE DEF g
  <2>4. Mapped(g, u) = [k \in DOMAIN u |->
          IF protocol = "anthropic" /\ u[k].type = "image" THEN <<>> ELSE BlockItems("user", u[k])]
    BY <1>1, <1>5, <2>3 DEF Mapped
  <2>5. FlatMap(g, u) = UtteranceItems(u)
    BY <2>4 DEF FlatMap, UtteranceItems
  <2> QED
    BY <1>5, <2>1, <2>2, <2>5 DEF Kept
<1>6. CASE protocol # "anthropic"
  <2>1. \A b \in ClientBlocks : ItemsIn("user")[b] = BlockItems("user", b)
    BY <1>2 DEF ItemsIn
  <2>2. Mapped(ItemsIn("user"), u) = [k \in DOMAIN u |->
          IF protocol = "anthropic" /\ u[k].type = "image" THEN <<>> ELSE BlockItems("user", u[k])]
    BY <1>1, <1>6, <2>1 DEF Mapped
  <2> QED
    BY <1>3, <1>6, <2>2 DEF FlatMap, UtteranceItems, Kept
<1> QED
  BY <1>5, <1>6

\* What is shown of what the user says.
LEMMA SpokenShown ==
  ASSUME protocol \in {"anthropic", "openai"}, said \in Seq(Turns), pieces \in Nat,
         NEW i \in Seq(ClientBlocks), NEW u \in Seq(ClientBlocks)
  PROVE  Shown(Converted(protocol, Spoken(i, u)))
           = TurnItems([who |-> "user", results |-> Results, blocks |-> u])
<1>1. PICK w, rs : w = Converted(protocol, Spoken(i, u)) /\ rs = Results
  OBVIOUS
<1>2. rs \in Seq(ResultBlocks)
  BY <1>1, ResultsType
<1>3. w \in Seq(UserMessages) /\ FlatMap(ContentIn, w) = Given(rs) \o Kept(u)
  BY <1>1, SpokenSent DEF SentAs
<1>4. Shown(w) = FlatMap(ShownIn, w)
  <2>1. UserMessages \subseteq SentMessages
    BY DEF UserMessages
  <2>2. w \in Seq(SentMessages)
    BY <1>3, <2>1, ElementsOf
  <2> QED
    BY <2>2, ShownParts
<1>5. \A m \in UserMessages : ShownIn[m] = FlatMap(ItemsIn("user"), m.content)
  BY MessageItemsAre DEF UserMessages, ShownIn, Voice
<1>6. Maps(ItemsIn("user"), SentBlocks, Items)
  BY ItemsInMaps DEF Speakers
<1>7. FlatMap(ShownIn, w) = FlatMap(ItemsIn("user"), FlatMap(ContentIn, w))
  BY <1>3, <1>5, <1>6, ContentTells
<1>8. Given(rs) \in Seq(SentBlocks) /\ Kept(u) \in Seq(SentBlocks)
  BY <1>2, GivenType, KeptShown
<1>9. FlatMap(ItemsIn("user"), Given(rs) \o Kept(u))
        = FlatMap(ItemsIn("user"), Given(rs)) \o FlatMap(ItemsIn("user"), Kept(u))
  BY ONLY <1>6, <1>8, FlatMapConcat
<1>10. /\ FlatMap(ItemsIn("user"), Given(rs)) = ResultItems(rs)
       /\ FlatMap(ItemsIn("user"), Kept(u)) = UtteranceItems(u)
  BY <1>2, GivenShown, KeptShown
<1>11. PICK turn : turn = [who |-> "user", results |-> rs, blocks |-> u]
  OBVIOUS
<1>12. turn.who = "user" /\ turn.results = rs /\ turn.blocks = u
  BY <1>11
<1>13. TurnItems(turn) = ResultItems(rs) \o UtteranceItems(u)
  BY <1>12 DEF TurnItems, ResultItems, UtteranceItems
<1> QED
  BY <1>1, <1>3, <1>4, <1>7, <1>9, <1>10, <1>11, <1>13
-----------------------------------------------------------------------------
(* Instructions.                                                           *)

HoistIn == [m \in OpenAIMessages |-> IF Hoisted(m) THEN TextOf(m.content) ELSE <<>>]

LEMMA HoistInMaps == Maps(HoistIn, OpenAIMessages, Nat)
<1>1. \A m \in OpenAIMessages : TextOf(m.content) \in Seq(Nat)
  BY TextOfParts DEF OpenAIMessages
<1>2. <<>> \in Seq(Nat)
  BY EmptySeq
<1> QED
  BY <1>1, <1>2 DEF Maps, HoistIn

LEMMA HoistedParts ==
  /\ HoistedSystem(<<>>) = <<>>
  /\ \A h \in Seq(OpenAIMessages) : /\ HoistedSystem(h) = FlatMap(HoistIn, h)
                                    /\ HoistedSystem(h) \in Seq(Nat)
  /\ \A h, k \in Seq(OpenAIMessages) :
       HoistedSystem(h \o k) = HoistedSystem(h) \o HoistedSystem(k)
  /\ \A m \in OpenAIMessages : HoistedSystem(<<m>>) = HoistIn[m]
<1>1. ASSUME NEW h \in Seq(OpenAIMessages)
      PROVE  HoistedSystem(h) = FlatMap(HoistIn, h) /\ HoistedSystem(h) \in Seq(Nat)
  <2>1. \A i \in DOMAIN h : h[i] \in OpenAIMessages
    BY ElementsOf
  <2>2. Mapped(HoistIn, h)
          = [i \in DOMAIN h |-> IF Hoisted(h[i]) THEN TextOf(h[i].content) ELSE <<>>]
    BY <2>1 DEF Mapped, HoistIn
  <2>3. HoistedSystem(h) = FlatMap(HoistIn, h)
    BY <2>2 DEF HoistedSystem, FlatMap
  <2>4. FlatMap(HoistIn, h) \in Seq(Nat)
    BY HoistInMaps, FlatMapType
  <2> QED
    BY <2>3, <2>4
<1>2. HoistedSystem(<<>>) = <<>>
  <2>1. <<>> \in Seq(OpenAIMessages)
    BY EmptySeq
  <2> QED
    BY <1>1, <2>1, FlatMapNone
<1>3. ASSUME NEW h \in Seq(OpenAIMessages), NEW k \in Seq(OpenAIMessages)
      PROVE  HoistedSystem(h \o k) = HoistedSystem(h) \o HoistedSystem(k)
  <2>1. FlatMap(HoistIn, h \o k) = FlatMap(HoistIn, h) \o FlatMap(HoistIn, k)
    BY HoistInMaps, FlatMapConcat
  <2>2. h \o k \in Seq(OpenAIMessages)
    BY ConcatProperties
  <2> QED
    BY <1>1, <2>1, <2>2
<1>4. ASSUME NEW m \in OpenAIMessages PROVE HoistedSystem(<<m>>) = HoistIn[m]
  <2>1. FlatMap(HoistIn, <<m>>) = HoistIn[m]
    BY HoistInMaps, FlatMapOne
  <2>2. <<m>> \in Seq(OpenAIMessages)
    OBVIOUS
  <2> QED
    BY <1>1, <2>1, <2>2
<1> QED
  BY <1>1, <1>2, <1>3, <1>4

LEMMA SpokenHoisted ==
  ASSUME protocol = "openai", said \in Seq(Turns), pieces \in Nat,
         NEW i \in Seq(ClientBlocks), NEW u \in Seq(ClientBlocks)
  PROVE  Spoken(i, u) \in Seq(OpenAIMessages) /\ HoistedSystem(Spoken(i, u)) = TextOf(i)
<1>1. PICK a, b, c : a = Instructs(i) /\ b = Returned /\ c = Utters(u)
  OBVIOUS
<1>2. a \in Seq(OpenAIMessages) /\ b \in Seq(OpenAIMessages) /\ c \in Seq(OpenAIMessages)
  BY <1>1, SpokenParts
<1>3. Spoken(i, u) = (a \o b) \o c
  BY <1>1 DEF Spoken
<1>4. a \o b \in Seq(OpenAIMessages) /\ (a \o b) \o c \in Seq(OpenAIMessages)
  BY ONLY <1>2, ConcatProperties
<1>5. HoistedSystem((a \o b) \o c) = (HoistedSystem(a) \o HoistedSystem(b)) \o HoistedSystem(c)
  <2>1. HoistedSystem((a \o b) \o c) = HoistedSystem(a \o b) \o HoistedSystem(c)
    BY ONLY <1>2, <1>4, HoistedParts
  <2>2. HoistedSystem(a \o b) = HoistedSystem(a) \o HoistedSystem(b)
    BY ONLY <1>2, HoistedParts
  <2> QED
    BY <2>1, <2>2
<1>6. HoistedSystem(a) = TextOf(i)
  <2>1. CASE i = <<>>
    <3>1. a = <<>>
      BY <1>1, <2>1 DEF Instructs
    <3> QED
      BY <2>1, <3>1, HoistedParts, TextOfParts
  <2>2. CASE i # <<>>
    <3>1. PICK m : m = [role |-> IF said = <<>> THEN "system" ELSE "developer", content |-> i]
      OBVIOUS
    <3>2. a = <<m>> /\ m.role \in {"system", "developer"} /\ m.content = i
      BY <1>1, <2>2, <3>1 DEF Instructs
    <3>3. m \in OpenAIMessages
      <4>1. \A r \in {"system", "developer"} : [role |-> r, content |-> i] \in OpenAIMessages
        BY DEF OpenAIMessages
      <4> QED
        BY <3>1, <4>1
    <3>4. HoistIn[m] = TextOf(i)
      BY <3>2, <3>3 DEF HoistIn, Hoisted
    <3> QED
      BY <3>2, <3>3, <3>4, HoistedParts
  <2> QED
    BY <2>1, <2>2
<1>7. HoistedSystem(b) = <<>>
  <2>1. \A k \in 1 .. Len(b) : b[k].role = "tool" /\ b[k] \in OpenAIMessages
    <3>1. \A k \in DOMAIN b : b[k].role = "tool"
      BY <1>1 DEF Returned
    <3> QED
      BY <1>2, <3>1, ElementsOf
  <2>2. \A k \in 1 .. Len(b) : HoistIn[b[k]] = <<>>
    BY <2>1 DEF HoistIn, Hoisted
  <2>3. FlatMap(HoistIn, b) = <<>>
    BY <1>2, <2>2, HoistInMaps, FlatMapNothing
  <2> QED
    BY <1>2, <2>3, HoistedParts
<1>8. HoistedSystem(c) = <<>>
  <2>1. CASE u = <<>>
    BY <1>1, <2>1, HoistedParts DEF Utters
  <2>2. CASE u # <<>>
    <3>1. PICK m : m = Message("user", u)
      OBVIOUS
    <3>2. c = <<m>> /\ m.role = "user" /\ m \in OpenAIMessages
      BY <1>1, <2>2, <3>1 DEF Utters, Message, OpenAIMessages
    <3>3. HoistIn[m] = <<>>
      BY <3>2 DEF HoistIn, Hoisted
    <3> QED
      BY <3>2, <3>3, HoistedParts
  <2> QED
    BY <2>1, <2>2
<1>9. TextOf(i) \in Seq(Nat)
  BY TextOfParts
<1>10. (TextOf(i) \o <<>>) \o <<>> = TextOf(i)
  BY ONLY <1>9, ConcatSimplifications
<1> QED
  BY <1>3, <1>4, <1>5, <1>6, <1>7, <1>8, <1>10

LEMMA AnswerHoistsNothing ==
  ASSUME NEW bs \in Seq(AnswerBlocks)
  PROVE  HoistedSystem(<<AnswerMessage("openai", bs)>>) = <<>>
<1>1. PICK m : m = AnswerMessage("openai", bs)
  OBVIOUS
<1>2. m \in OpenAIMessages
  BY <1>1, AnswerType DEF Messages
<1>3. m.role = "assistant"
  BY <1>1 DEF AnswerMessage
<1>4. HoistIn[m] = <<>>
  BY <1>2, <1>3 DEF HoistIn, Hoisted
<1> QED
  BY <1>1, <1>2, <1>4, HoistedParts
-----------------------------------------------------------------------------
(* Upstream is shown what was said.                                        *)

TurnIn == [t \in Turns |-> TurnItems(t)]

LEMMA TurnItemsType ==
  ASSUME NEW t \in Turns
  PROVE  TurnItems(t) \in Seq(Items)
<1>1. Maps(ItemsIn("user"), SentBlocks, Items)
  BY ItemsInMaps DEF Speakers
<1>2. CASE t.who = "user"
  <2>1. PICK rs, u : rs = t.results /\ u = t.blocks
    OBVIOUS
  <2>2. rs \in Seq(ResultBlocks) /\ u \in Seq(ClientBlocks)
    BY <1>2, <2>1 DEF Turns
  <2>3. TurnItems(t) = ResultItems(rs) \o UtteranceItems(u)
    BY <1>2, <2>1 DEF TurnItems, ResultItems, UtteranceItems
  <2>4. ResultItems(rs) \in Seq(Items)
    <3>1. Given(rs) \in Seq(SentBlocks)
      BY <2>2, GivenType
    <3>2. FlatMap(ItemsIn("user"), Given(rs)) \in Seq(Items)
      BY <1>1, <3>1, FlatMapType
    <3> QED
      BY <2>2, <3>2, GivenShown
  <2>5. UtteranceItems(u) \in Seq(Items)
    <3>1. Kept(u) \in Seq(SentBlocks) /\ FlatMap(ItemsIn("user"), Kept(u)) = UtteranceItems(u)
      BY <2>2, KeptShown
    <3>2. FlatMap(ItemsIn("user"), Kept(u)) \in Seq(Items)
      BY <1>1, <3>1, FlatMapType
    <3> QED
      BY <3>1, <3>2
  <2>6. ResultItems(rs) \o UtteranceItems(u) \in Seq(Items)
    BY ONLY <2>4, <2>5, ConcatProperties
  <2> QED
    BY <2>3, <2>6
<1>3. CASE t.who # "user"
  <2>1. PICK evs : evs = t.events
    OBVIOUS
  <2>2. evs \in Seq(Events)
    BY <1>3, <2>1 DEF Turns
  <2>3. CASE protocol = "openai"
    <3>1. PICK x, y : /\ x = Each("upstream", "text", PiecesSaid(evs, "text-delta"))
                      /\ y = Each("upstream", "tool-call", PiecesSaid(evs, "tool-call"))
      OBVIOUS
    <3>2. x \in Seq(Items) /\ y \in Seq(Items)
      BY <2>2, <3>1, PiecesSaidAre, EachIs DEF Speakers, Kinds
    <3>3. x \o y \in Seq(Items)
      BY ONLY <3>2, ConcatProperties
    <3> QED
      BY <1>3, <2>1, <2>3, <3>1, <3>3 DEF TurnItems
  <2>4. CASE protocol # "openai"
    <3>1. Mapped(EventItemsIn, evs) = [k \in DOMAIN evs |-> EventItems(evs[k])]
      <4>1. \A k \in DOMAIN evs : evs[k] \in Events
        BY <2>2, ElementsOf
      <4> QED
        BY <4>1 DEF Mapped, EventItemsIn
    <3>2. TurnItems(t) = FlattenSeq([k \in DOMAIN evs |-> EventItems(evs[k])])
      BY <1>3, <2>1, <2>4 DEF TurnItems, EventItems
    <3>3. TurnItems(t) = FlatMap(EventItemsIn, evs)
      BY <3>1, <3>2 DEF FlatMap
    <3>4. FlatMap(EventItemsIn, evs) \in Seq(Items)
      BY <2>2, AnswerItemsSuit, FlatMapType DEF Suits
    <3> QED
      BY <3>3, <3>4
  <2> QED
    BY <2>3, <2>4
<1> QED
  BY <1>2, <1>3

LEMMA TurnInMaps == Maps(TurnIn, Turns, Items)
  BY TurnItemsType DEF Maps, TurnIn

LEMMA SaidShown ==
  ASSUME said \in Seq(Turns)
  PROVE  FlattenSeq([i \in DOMAIN said |-> TurnItems(said[i])]) = FlatMap(TurnIn, said)
<1>1. \A i \in DOMAIN said : said[i] \in Turns
  BY ElementsOf
<1>2. Mapped(TurnIn, said) = [i \in DOMAIN said |-> TurnItems(said[i])]
  BY <1>1 DEF Mapped, TurnIn
<1> QED
  BY <1>2 DEF FlatMap

\* Turn by turn, what the history is converted to shows what was said.
ShowsWhatWasSaid == Shown(Converted(protocol, history)) = FlatMap(TurnIn, said)

ShownInv == Answered(acc, got) /\ ShowsWhatWasSaid /\ SystemNow = instructed

LEMMA InitShown == Init => ShownInv
<1> SUFFICES ASSUME Init PROVE ShownInv
  OBVIOUS
<1>1. /\ history = <<>> /\ said = <<>> /\ system = <<>> /\ instructed = <<>>
      /\ acc = AccumulateStart /\ got = <<>>
  BY DEF Init
<1>2. ShowsWhatWasSaid
  BY <1>1, ConvertedParts, ShownParts, FlatMapNone DEF ShowsWhatWasSaid
<1>3. SystemNow = instructed
  BY <1>1, TextOfParts, HoistedParts DEF SystemNow
<1> QED
  BY <1>1, <1>2, <1>3, StartAnswers DEF ShownInv

LEMMA TurnAdded ==
  ASSUME Typed, ShowsWhatWasSaid, NEW h \in Seq(Messages(protocol)), NEW turn \in Turns,
         Shown(Converted(protocol, h)) = TurnItems(turn),
         history' = history \o h, said' = Append(said, turn), protocol' = protocol
  PROVE  ShowsWhatWasSaid'
<1>1. history \in Seq(Messages(protocol)) /\ said \in Seq(Turns)
  BY DEF Typed
<1>2. PICK x, y : x = Converted(protocol, history) /\ y = Converted(protocol, h)
  OBVIOUS
<1>3. /\ x \in Seq(SentMessages) /\ y \in Seq(SentMessages)
      /\ Converted(protocol, history \o h) = x \o y
  BY <1>1, <1>2, ConvertedParts
<1>4. Shown(x \o y) = Shown(x) \o Shown(y)
  BY ONLY <1>3, ShownParts
<1>5. FlatMap(TurnIn, Append(said, turn)) = FlatMap(TurnIn, said) \o TurnIn[turn]
  BY <1>1, TurnInMaps, FlatMapAppend
<1>6. TurnIn[turn] = TurnItems(turn)
  BY DEF TurnIn
<1>7. Shown(Converted(protocol, history \o h)) = FlatMap(TurnIn, Append(said, turn))
  BY <1>2, <1>3, <1>4, <1>5, <1>6 DEF ShowsWhatWasSaid
<1>8. TurnIn' = TurnIn
  BY DEF TurnIn, TurnItems
<1> QED
  BY <1>7, <1>8 DEF ShowsWhatWasSaid

LEMMA SpeakShown ==
  ASSUME Typed, ShownInv, NEW i \in Seq(ClientBlocks), NEW u \in Seq(ClientBlocks), Speak(i, u)
  PROVE  ShownInv'
<1>1. /\ pieces \in Nat /\ history \in Seq(Messages(protocol)) /\ said \in Seq(Turns)
      /\ system \in Seq(ClientBlocks) /\ instructed \in Seq(Nat)
      /\ protocol \in {"anthropic", "openai"}
  BY DEF Typed
<1>2. /\ history' = history \o Spoken(i, u)
      /\ said' = Append(said, [who |-> "user", results |-> Results, blocks |-> u])
      /\ instructed' = instructed \o TextOf(i)
      /\ system' = IF protocol = "anthropic" THEN system \o i ELSE system
      /\ protocol' = protocol
      /\ FreshAttempt
  BY <1>1, SpeakIs
<1>3. Answered(acc', got')
  BY <1>2, StartAnswers DEF FreshAttempt
<1>4. ShowsWhatWasSaid'
  <2>1. PICK turn : turn = [who |-> "user", results |-> Results, blocks |-> u]
    OBVIOUS
  <2>2. turn \in Turns
    BY <1>1, <2>1, ResultsType DEF Turns
  <2>3. Spoken(i, u) \in Seq(Messages(protocol))
    BY <1>1, SpokenType
  <2>4. Shown(Converted(protocol, Spoken(i, u))) = TurnItems(turn)
    BY <1>1, <2>1, SpokenShown
  <2>5. ShowsWhatWasSaid
    BY DEF ShownInv
  <2> QED
    BY <1>2, <2>1, <2>2, <2>3, <2>4, <2>5, TurnAdded
<1>5. (SystemNow = instructed)'
  <2>1. CASE protocol = "anthropic"
    <3>1. instructed = TextOf(system)
      BY <2>1 DEF ShownInv, SystemNow
    <3>2. TextOf(system \o i) = TextOf(system) \o TextOf(i)
      BY <1>1, TextOfParts
    <3> QED
      BY <1>2, <2>1, <3>1, <3>2 DEF SystemNow
  <2>2. CASE protocol = "openai"
    <3>1. instructed = HoistedSystem(history)
      BY <2>2 DEF ShownInv, SystemNow
    <3>2. PICK s : s = Spoken(i, u)
      OBVIOUS
    <3>3. s \in Seq(OpenAIMessages) /\ HoistedSystem(s) = TextOf(i)
      BY <1>1, <2>2, <3>2, SpokenHoisted
    <3>4. history \in Seq(OpenAIMessages)
      BY <1>1, <2>2 DEF Messages
    <3>5. HoistedSystem(history \o s) = HoistedSystem(history) \o HoistedSystem(s)
      BY ONLY <3>3, <3>4, HoistedParts
    <3> QED
      BY <1>2, <2>2, <3>1, <3>2, <3>3, <3>5 DEF SystemNow
  <2> QED
    BY <1>1, <2>1, <2>2
<1> QED
  BY <1>3, <1>4, <1>5 DEF ShownInv

LEMMA AskShown ==
  ASSUME Typed, ShownInv, NEW model, NEW maxTokens, Ask(Request(model, maxTokens))
  PROVE  ShownInv'
<1>1. /\ protocol' = protocol /\ history' = history
      /\ system' = system /\ said' = said /\ instructed' = instructed /\ FreshAttempt
  BY AskIs
<1>2. Answered(acc', got')
  BY <1>1, StartAnswers DEF FreshAttempt
<1>3. TurnIn' = TurnIn /\ SystemNow' = SystemNow
  BY <1>1 DEF TurnIn, TurnItems, SystemNow
<1> QED
  BY <1>1, <1>2, <1>3 DEF ShownInv, ShowsWhatWasSaid

LEMMA UpstreamShown ==
  ASSUME Typed, Typed', ShownInv, ReadInv, ReadInv', Upstream
  PROVE  ShownInv'
<1>1. /\ \/ got' = got /\ acc' = acc
         \/ \E ev \in Events : got' = Append(got, ev) /\ acc' = Accumulate(acc, ev)
      /\ got \in Seq(Events) /\ got' \in Seq(Events) /\ got' = answered'
      /\ protocol' = protocol /\ system' = system /\ instructed' = instructed
      /\ ReadEnds(acc'.blocks)
  BY HearsEvents
<1>2. Answered(acc', got')
  <2>1. Answered(acc, got) /\ AccOK(acc)
    BY DEF ShownInv, Typed
  <2> QED
    BY <1>1, <2>1, KeepsAnswering
<1>3. TurnIn' = TurnIn
  BY <1>1 DEF TurnIn, TurnItems
<1>4. CASE history' = history /\ said' = said
  BY <1>1, <1>2, <1>3, <1>4 DEF ShownInv, ShowsWhatWasSaid, SystemNow
<1>5. CASE /\ history' = Append(history, AnswerMessage(protocol, acc'.blocks))
           /\ said' = Append(said, [who |-> "upstream", events |-> answered'])
  <2>1. PICK a, evs, m, turn :
          /\ a = acc' /\ evs = got' /\ m = AnswerMessage(protocol, a.blocks)
          /\ turn = [who |-> "upstream", events |-> evs]
    OBVIOUS
  <2>2. AccOK(a) /\ Answered(a, evs) /\ evs \in Seq(Events) /\ a.blocks \in Seq(AnswerBlocks)
    BY <1>1, <1>2, <2>1 DEF Typed, AccOK, Accumulated
  <2>3. protocol \in {"anthropic", "openai"} /\ history \in Seq(Messages(protocol))
    BY DEF Typed
  <2>4. m \in Messages(protocol) /\ <<m>> \in Seq(Messages(protocol))
    BY <2>1, <2>2, AnswerType
  <2>5. turn \in Turns
    BY <2>1, <2>2 DEF Turns
  <2>6. Shown(Converted(protocol, <<m>>)) = TurnItems(turn)
    BY <2>1, <2>2, <2>3, AnswerShown
  <2>7. history' = history \o <<m>> /\ said' = Append(said, turn)
    BY <1>1, <1>5, <2>1, <2>3, <2>4, AppendIsConcat
  <2>8. ShowsWhatWasSaid'
    <3>1. ShowsWhatWasSaid
      BY DEF ShownInv
    <3> QED
      BY <1>1, <2>4, <2>5, <2>6, <2>7, <3>1, TurnAdded
  <2>9. SystemNow' = SystemNow
    <3>1. CASE protocol = "anthropic"
      BY <1>1, <3>1 DEF SystemNow
    <3>2. CASE protocol = "openai"
      <4>1. <<m>> \in Seq(OpenAIMessages) /\ history \in Seq(OpenAIMessages)
        BY <2>3, <2>4, <3>2 DEF Messages
      <4>2. HoistedSystem(<<m>>) = <<>>
        BY <2>1, <2>2, <3>2, AnswerHoistsNothing
      <4>3. HoistedSystem(history \o <<m>>) = HoistedSystem(history) \o HoistedSystem(<<m>>)
        BY ONLY <4>1, HoistedParts
      <4>4. HoistedSystem(history) \in Seq(Nat)
        BY <4>1, HoistedParts
      <4>5. HoistedSystem(history) \o <<>> = HoistedSystem(history)
        BY ONLY <4>4, ConcatSimplifications
      <4> QED
        BY <1>1, <2>7, <3>2, <4>2, <4>3, <4>5 DEF SystemNow
    <3> QED
      BY <2>3, <3>1, <3>2
  <2> QED
    BY <1>1, <1>2, <2>8, <2>9 DEF ShownInv
<1> QED
  BY <1>1, <1>4, <1>5 DEF ReadEnds

LEMMA NextShown ==
  ASSUME Typed, Typed', ShownInv, ReadInv, ReadInv', [Next]_vars
  PROVE  ShownInv'
<1>1. CASE UNCHANGED vars
  <2>1. /\ protocol' = protocol /\ history' = history /\ system' = system /\ said' = said
        /\ instructed' = instructed /\ acc' = acc /\ got' = got
    BY <1>1 DEF vars, client, attempt
  <2>2. TurnIn' = TurnIn /\ SystemNow' = SystemNow
    BY <2>1 DEF TurnIn, TurnItems, SystemNow
  <2> QED
    BY <2>1, <2>2 DEF ShownInv, ShowsWhatWasSaid
<1>2. pieces \in Nat /\ said \in Seq(Turns)
  BY DEF Typed
<1> QED
  BY <1>1, <1>2, StepsAre, SpeakShown, AskShown, UpstreamShown

LEMMA ShownIsShown ==
  ASSUME Typed, SentInv, ShownInv
  PROVE  UpstreamIsShownWhatWasSaid
<1> SUFFICES ASSUME phase = "answering"
             PROVE  /\ Shown(sent.params.messages)
                         = FlattenSeq([i \in DOMAIN said |-> TurnItems(said[i])])
                    /\ sent.params.system = instructed
  BY DEF UpstreamIsShownWhatWasSaid
<1>1. SentMs(sent) = Converted(protocol, history) /\ SentSys(sent) = SystemNow
  BY DEF SentInv
<1>2. FlattenSeq([i \in DOMAIN said |-> TurnItems(said[i])]) = FlatMap(TurnIn, said)
  BY SaidShown DEF Typed
<1>3. Shown(SentMs(sent)) = FlatMap(TurnIn, said) /\ SentSys(sent) = instructed
  BY <1>1 DEF ShownInv, ShowsWhatWasSaid
<1>4. SentMs(sent) = sent.params.messages /\ SentSys(sent) = sent.params.system
  BY DEF SentMs, SentSys
<1> QED
  BY <1>2, <1>3, <1>4
-----------------------------------------------------------------------------
(* Calls and results, in the messages sent.                                *)

ResultIn == [b \in SentBlocks |-> IF b.type = "tool-result" THEN <<b.call>> ELSE <<>>]

ResultsInOf == [m \in SentMessages |-> ResultsIn(m)]

LEMMA ResultInMaps == Maps(ResultIn, SentBlocks, Nat)
<1>1. \A b \in SentBlocks : b.type = "tool-result" => b.call \in Nat
  BY DEF SentBlocks
<1>2. <<>> \in Seq(Nat) /\ \A n \in Nat : <<n>> \in Seq(Nat)
  BY EmptySeq
<1> QED
  BY <1>1, <1>2 DEF Maps, ResultIn

LEMMA ResultsInIs ==
  ASSUME NEW m \in SentMessages
  PROVE  ResultsIn(m) = FlatMap(ResultIn, m.content) /\ ResultsIn(m) \in Seq(Nat)
<1>1. PICK c : c = m.content /\ c \in Seq(SentBlocks)
  BY DEF SentMessages
<1>2. \A j \in DOMAIN c : c[j] \in SentBlocks
  BY <1>1, ElementsOf
<1>3. Mapped(ResultIn, c)
        = [j \in DOMAIN c |-> IF c[j].type = "tool-result" THEN <<c[j].call>> ELSE <<>>]
  BY <1>2 DEF Mapped, ResultIn
<1>4. ResultsIn(m) = FlatMap(ResultIn, c)
  BY <1>1, <1>3 DEF ResultsIn, FlatMap
<1>5. FlatMap(ResultIn, c) \in Seq(Nat)
  BY <1>1, ResultInMaps, FlatMapType
<1> QED
  BY <1>1, <1>4, <1>5

LEMMA ResultsInOfMaps == Maps(ResultsInOf, SentMessages, Nat)
  BY ResultsInIs DEF Maps, ResultsInOf

\* The results the client gives are those of the open calls, in their order.
LEMMA GivenResults ==
  ASSUME said \in Seq(Turns), pieces \in Nat
  PROVE  FlatMap(ResultIn, Given(Results)) = OpenCalls
<1>1. PICK rs, g, e : rs = Results /\ g = Given(rs) /\ e = OpenCalls
  OBVIOUS
<1>2. /\ rs \in Seq(ResultBlocks) /\ Len(rs) = Len(e)
      /\ \A k \in 1 .. Len(rs) : rs[k].call = e[k]
  BY <1>1, ResultsType
<1>3. e \in Seq(Nat)
  BY <1>1, OpenCallsType
<1>4. /\ g \in Seq(SentBlocks) /\ Len(g) = Len(e)
      /\ \A k \in 1 .. Len(e) : g[k].type = "tool-result" /\ g[k].call = e[k]
  BY <1>1, <1>2, GivenType
<1>5. \A k \in 1 .. Len(e) : ResultIn[g[k]] = <<e[k]>>
  <2>1. \A k \in 1 .. Len(g) : g[k] \in SentBlocks
    BY <1>4, ElementOfSeq
  <2> QED
    BY <1>4, <2>1 DEF ResultIn
<1>6. PICK p : p = Mapped(ResultIn, g)
  OBVIOUS
<1>7. IsMap(p, ResultIn, g, Seq(Nat))
  BY <1>4, <1>6, ResultInMaps, MappedSeqs
<1>8. p \in Seq(Seq(Nat)) /\ Len(p) = Len(e) /\ \A k \in 1 .. Len(e) : p[k] = <<e[k]>>
  BY <1>4, <1>5, <1>7 DEF IsMap
<1>9. FlattenSeq(p) = e
  BY <1>3, <1>8, FlattenSingles
<1> QED
  BY <1>1, <1>6, <1>9 DEF FlatMap

LEMMA KeptHasNoResults ==
  ASSUME NEW u \in Seq(ClientBlocks)
  PROVE  FlatMap(ResultIn, Kept(u)) = <<>>
<1> DEFINE keep == [b \in ClientBlocks |-> IF b.type = "image" THEN <<>> ELSE <<b>>]
<1>1. Maps(keep, ClientBlocks, ClientBlocks)
  <2>1. <<>> \in Seq(ClientBlocks) /\ \A b \in ClientBlocks : <<b>> \in Seq(ClientBlocks)
    BY EmptySeq
  <2> QED
    BY <2>1 DEF Maps
<1>2. \A b \in ClientBlocks : UserIn[b] = keep[b]
  BY UserBlockIs DEF UserIn, UserBlocks
<1> HIDE DEF keep
<1>3. \A k \in DOMAIN u : u[k] \in ClientBlocks
  BY ElementsOf
<1>4. FlatMap(UserIn, u) = FlatMap(keep, u)
  BY <1>2, <1>3, FlatMapSame
<1>5. FlatMap(keep, u) \in Seq(ClientBlocks)
  BY <1>1, FlatMapType
<1>6. Kept(u) \in Seq(ClientBlocks)
  BY <1>4, <1>5 DEF Kept
<1>7. \A k \in 1 .. Len(Kept(u)) : Kept(u)[k] \in ClientBlocks
  BY <1>6, ElementOfSeq
<1>8. \A b \in ClientBlocks : ResultIn[b] = <<>>
  <2>1. \A b \in ClientBlocks : b \in SentBlocks /\ b.type # "tool-result"
    BY UserBlockIs DEF ClientBlocks
  <2> QED
    BY <2>1 DEF ResultIn
<1>9. Kept(u) \in Seq(SentBlocks)
  BY KeptShown
<1> QED
  BY <1>7, <1>8, <1>9, ResultInMaps, FlatMapNothing

LEMMA SpokenResults ==
  ASSUME protocol \in {"anthropic", "openai"}, said \in Seq(Turns), pieces \in Nat,
         NEW i \in Seq(ClientBlocks), NEW u \in Seq(ClientBlocks)
  PROVE  /\ Converted(protocol, Spoken(i, u)) \in Seq(UserMessages)
         /\ FlatMap(ResultsInOf, Converted(protocol, Spoken(i, u))) = OpenCalls
<1>1. PICK w : w = Converted(protocol, Spoken(i, u))
  OBVIOUS
<1>2. w \in Seq(UserMessages) /\ FlatMap(ContentIn, w) = Given(Results) \o Kept(u)
  BY <1>1, SpokenSent DEF SentAs
<1>3. \A m \in UserMessages : ResultsInOf[m] = FlatMap(ResultIn, m.content)
  BY ResultsInIs DEF ResultsInOf, UserMessages
<1>4. FlatMap(ResultsInOf, w) = FlatMap(ResultIn, FlatMap(ContentIn, w))
  BY <1>2, <1>3, ResultInMaps, ContentTells
<1>5. PICK g, k : g = Given(Results) /\ k = Kept(u)
  OBVIOUS
<1>6. g \in Seq(SentBlocks) /\ k \in Seq(SentBlocks)
  BY <1>5, ResultsType, GivenType, KeptShown
<1>7. FlatMap(ResultIn, g \o k) = FlatMap(ResultIn, g) \o FlatMap(ResultIn, k)
  BY ONLY <1>6, ResultInMaps, FlatMapConcat
<1>8. FlatMap(ResultIn, g) = OpenCalls /\ FlatMap(ResultIn, k) = <<>>
  BY <1>5, GivenResults, KeptHasNoResults
<1>9. OpenCalls \in Seq(Nat)
  BY OpenCallsType
<1>10. OpenCalls \o <<>> = OpenCalls
  BY ONLY <1>9, ConcatSimplifications
<1> QED
  BY <1>1, <1>2, <1>4, <1>5, <1>7, <1>8, <1>10

\* For any events, framings, failures and number of turns, in either protocol:
\* upstream is shown everything the user and it itself have said, in order,
\* and the instructions (stream.go:83-162, anthropic.go:272-319, 536-580,
\* openai.go:517-583, 656-707).
THEOREM UpstreamIsShown == Spec => []UpstreamIsShownWhatWasSaid
<1> DEFINE Inv == ReadInv /\ Typed /\ SentInv /\ ShownInv
<1>1. Init => Inv
  BY InitReads, InitTyped, InitSent, InitShown
<1>2. Inv /\ [Next]_vars => Inv'
  <2> SUFFICES ASSUME ReadInv, Typed, SentInv, ShownInv, [Next]_vars
               PROVE  ReadInv' /\ Typed' /\ SentInv' /\ ShownInv'
    OBVIOUS
  <2>1. ReadInv'
    BY NextReads
  <2>2. Typed'
    BY <2>1, NextTyped
  <2>3. SentInv'
    BY <2>1, <2>2, NextSent
  <2>4. ShownInv'
    BY <2>1, <2>2, NextShown
  <2> QED
    BY <2>1, <2>2, <2>3, <2>4
<1>3. Inv => UpstreamIsShownWhatWasSaid
  BY ShownIsShown
<1> QED
  BY <1>1, <1>2, <1>3, PTL DEF Spec

\* Between an assistant message and the next, and after the last: the results
\* are those of its calls.
Calling(ms) == {i \in DOMAIN ms : ms[i].role = "assistant"}

Gap(ms, i, j) == FlattenSeq([k \in 1 .. (j - i) |-> ResultsIn(ms[i + k])])

Quiet(ms, i, j) == \A k \in (i + 1) .. j : k \notin Calling(ms)

Closed(ms) ==
  \A i \in Calling(ms) : \A j \in i .. Len(ms) :
    Quiet(ms, i, j) /\ j + 1 \in Calling(ms) => Gap(ms, i, j) = CallsOf(ms[i])

Settled(ms) ==
  /\ Closed(ms)
  /\ \A i \in Calling(ms) :
       i <= Len(ms) /\ Quiet(ms, i, Len(ms)) => Gap(ms, i, Len(ms)) = CallsOf(ms[i])

Prompted(ms) ==
  \A i \in DOMAIN ms : ResultsIn(ms[i]) # <<>> => \E k \in Calling(ms) : k < i

LEMMA SettledIsFollowed ==
  ASSUME Settled(sent.params.messages), Prompted(sent.params.messages)
  PROVE  ResultsFollowCalls
<1>1. PICK ms : ms = sent.params.messages
  OBVIOUS
<1>2. Settled(ms) /\ Prompted(ms)
  BY <1>1
<1>3. ASSUME NEW i \in Calling(ms), NEW j \in i .. Len(ms),
             \A k \in (i + 1) .. j : k \notin Calling(ms),
             j = Len(ms) \/ j + 1 \in Calling(ms)
      PROVE  FlattenSeq([k \in 1 .. (j - i) |-> ResultsIn(ms[i + k])]) = CallsOf(ms[i])
  <2>1. Quiet(ms, i, j)
    BY <1>3 DEF Quiet
  <2>2. Gap(ms, i, j) = CallsOf(ms[i])
    <3>1. CASE j + 1 \in Calling(ms)
      BY <1>2, <2>1, <3>1 DEF Settled, Closed
    <3>2. CASE j = Len(ms)
      <4>1. i <= Len(ms)
        BY DEF Calling
      <4> QED
        BY <1>2, <2>1, <3>2, <4>1 DEF Settled
    <3> QED
      BY <1>3, <3>1, <3>2
  <2> QED
    BY <2>2 DEF Gap
<1> QED
  BY <1>1, <1>2, <1>3 DEF ResultsFollowCalls, Prompted, Calling

LEMMA JoinedAre ==
  ASSUME NEW S, NEW x \in Seq(S), NEW y \in Seq(S), NEW z, z = x \o y
  PROVE  /\ z \in Seq(S) /\ Len(z) = Len(x) + Len(y) /\ Len(x) \in Nat /\ Len(y) \in Nat
         /\ DOMAIN x = 1 .. Len(x) /\ DOMAIN y = 1 .. Len(y) /\ DOMAIN z = 1 .. Len(z)
         /\ \A i \in 1 .. Len(x) : z[i] = x[i]
         /\ \A k \in 1 .. Len(y) : z[Len(x) + k] = y[k]
<1>1. /\ x \o y \in Seq(S) /\ Len(x \o y) = Len(x) + Len(y)
      /\ \A i \in 1 .. Len(x) + Len(y) :
           (x \o y)[i] = IF i <= Len(x) THEN x[i] ELSE y[i - Len(x)]
  BY ONLY x \in Seq(S), y \in Seq(S), ConcatProperties
<1>2. /\ Len(x) \in Nat /\ Len(y) \in Nat /\ DOMAIN x = 1 .. Len(x) /\ DOMAIN y = 1 .. Len(y)
  BY LenProperties
<1>3. DOMAIN z = 1 .. Len(z)
  BY <1>1, LenProperties
<1>4. \A k \in 1 .. Len(y) : /\ Len(x) + k \in 1 .. Len(x) + Len(y)
                             /\ ~(Len(x) + k <= Len(x)) /\ (Len(x) + k) - Len(x) = k
  BY <1>2
<1>5. \A i \in 1 .. Len(x) : i \in 1 .. Len(x) + Len(y) /\ i <= Len(x)
  BY <1>2
<1> QED
  BY <1>1, <1>2, <1>3, <1>4, <1>5

\* What comes after does not change what was.
Stays(x, z) ==
  /\ \A i \in 1 .. Len(x) : i \in Calling(z) <=> i \in Calling(x)
  /\ Calling(x) \subseteq 1 .. Len(x) /\ Calling(z) \subseteq 1 .. Len(z)
  /\ \A i \in 1 .. Len(x) : \A j \in i .. Len(x) :
       /\ Gap(z, i, j) = Gap(x, i, j)
       /\ Quiet(z, i, j) <=> Quiet(x, i, j)
       /\ CallsOf(z[i]) = CallsOf(x[i])

LEMMA GapsStay ==
  ASSUME NEW x \in Seq(SentMessages), NEW y \in Seq(SentMessages), NEW z, z = x \o y
  PROVE  Stays(x, z)
<1>1. /\ z \in Seq(SentMessages) /\ Len(z) = Len(x) + Len(y) /\ Len(x) \in Nat /\ Len(y) \in Nat
      /\ DOMAIN x = 1 .. Len(x) /\ DOMAIN z = 1 .. Len(z)
      /\ \A i \in 1 .. Len(x) : z[i] = x[i]
  BY JoinedAre
<1>2. \A i \in 1 .. Len(x) : i \in Calling(z) <=> i \in Calling(x)
  BY <1>1 DEF Calling
<1>3. Calling(x) \subseteq 1 .. Len(x) /\ Calling(z) \subseteq 1 .. Len(z)
  BY <1>1 DEF Calling
<1>4. ASSUME NEW i \in 1 .. Len(x), NEW j \in i .. Len(x)
      PROVE  /\ Gap(z, i, j) = Gap(x, i, j)
             /\ Quiet(z, i, j) <=> Quiet(x, i, j)
             /\ CallsOf(z[i]) = CallsOf(x[i])
  <2>1. \A k \in 1 .. (j - i) : i + k \in 1 .. Len(x)
    BY <1>1
  <2>2. \A k \in 1 .. (j - i) : z[i + k] = x[i + k]
    BY <1>1, <2>1
  <2>3. [k \in 1 .. (j - i) |-> ResultsIn(z[i + k])] = [k \in 1 .. (j - i) |-> ResultsIn(x[i + k])]
    BY <2>2
  <2>4. Gap(z, i, j) = Gap(x, i, j)
    BY <2>3 DEF Gap
  <2>5. \A k \in (i + 1) .. j : k \in 1 .. Len(x)
    BY <1>1
  <2>6. Quiet(z, i, j) <=> Quiet(x, i, j)
    BY <1>2, <2>5 DEF Quiet
  <2> QED
    BY <1>1, <2>4, <2>6
<1> QED
  BY <1>2, <1>3, <1>4 DEF Stays

\* The results of the last answer's calls.
LEMMA ResultsSettle ==
  ASSUME NEW x \in Seq(SentMessages), x # <<>>, x[Len(x)].role = "assistant",
         Closed(x), Prompted(x), NEW w \in Seq(UserMessages),
         FlatMap(ResultsInOf, w) = CallsOf(x[Len(x)])
  PROVE  Settled(x \o w) /\ Prompted(x \o w)
<1>1. /\ w \in Seq(SentMessages)
      /\ \A k \in 1 .. Len(w) : w[k] \in SentMessages /\ w[k].role # "assistant"
  <2>1. w \in Seq(SentMessages)
    BY DEF UserMessages
  <2>2. \A k \in 1 .. Len(w) : w[k] \in UserMessages
    BY ElementOfSeq
  <2> QED
    BY <2>1, <2>2 DEF UserMessages
<1>2. PICK z, n, m : z = x \o w /\ n = Len(x) /\ m = Len(w)
  OBVIOUS
<1>3. /\ z \in Seq(SentMessages) /\ Len(z) = n + m /\ n \in Nat /\ m \in Nat
      /\ DOMAIN x = 1 .. n /\ DOMAIN z = 1 .. (n + m)
      /\ \A i \in 1 .. n : z[i] = x[i]
      /\ \A k \in 1 .. m : z[n + k] = w[k]
  BY <1>1, <1>2, JoinedAre
<1>4. /\ \A i \in 1 .. n : i \in Calling(z) <=> i \in Calling(x)
      /\ Calling(x) \subseteq 1 .. n /\ Calling(z) \subseteq 1 .. (n + m)
      /\ \A i \in 1 .. n : \A j \in i .. n :
           /\ Gap(z, i, j) = Gap(x, i, j)
           /\ Quiet(z, i, j) <=> Quiet(x, i, j)
           /\ CallsOf(z[i]) = CallsOf(x[i])
  <2>1. z = x \o w /\ x \in Seq(SentMessages) /\ w \in Seq(SentMessages)
    BY <1>1, <1>2
  <2>2. n = Len(x) /\ Len(z) = n + m
    BY <1>2, <1>3
  <2>3. Stays(x, z)
    BY ONLY <2>1, GapsStay
  <2> QED
    BY <2>2, <2>3 DEF Stays
<1>5. n > 0 /\ n \in 1 .. n
  <2>1. n # 0
    BY <1>2, EmptySeq
  <2> QED
    BY <1>3, <2>1
<1>6. n \in Calling(x) /\ n \in Calling(z)
  BY <1>2, <1>3, <1>4, <1>5 DEF Calling
<1>7. \A i \in Calling(z) : i \in 1 .. n
  <2>1. ASSUME NEW i \in Calling(z), i > n PROVE FALSE
    <3>1. i - n \in 1 .. m /\ n + (i - n) = i
      <4>1. i \in 1 .. (n + m) /\ n \in Nat /\ m \in Nat
        BY <1>3, <1>4
      <4> QED
        BY ONLY <2>1, <4>1
    <3>2. z[i] = w[i - n]
      BY <1>3, <3>1
    <3> QED
      BY <1>1, <1>2, <3>1, <3>2 DEF Calling
  <2> QED
    BY <1>3, <1>4, <2>1
<1>8. Closed(z)
  <2> SUFFICES ASSUME NEW i \in Calling(z), NEW j \in i .. Len(z),
                      Quiet(z, i, j), j + 1 \in Calling(z)
               PROVE  Gap(z, i, j) = CallsOf(z[i])
    BY DEF Closed
  <2>1. i \in 1 .. n /\ j + 1 \in 1 .. n /\ j \in i .. n /\ j \in i .. Len(x)
    BY <1>2, <1>3, <1>7
  <2>2. i \in Calling(x) /\ j + 1 \in Calling(x)
    BY <1>4, <2>1
  <2>3. Quiet(x, i, j)
    BY <1>4, <2>1
  <2>4. Gap(x, i, j) = CallsOf(x[i])
    BY <2>1, <2>2, <2>3 DEF Closed
  <2> QED
    BY <1>4, <2>1, <2>4
<1>9. ASSUME NEW i \in Calling(z), Quiet(z, i, Len(z))
      PROVE  Gap(z, i, Len(z)) = CallsOf(z[i])
  <2>1. i = n
    <3>1. ASSUME i < n PROVE FALSE
      <4>1. n \in (i + 1) .. Len(z)
        BY <1>3, <1>7, <3>1
      <4> QED
        BY <1>6, <1>9, <4>1 DEF Quiet
    <3> QED
      BY <1>3, <1>7, <3>1
  <2>2. [k \in 1 .. (Len(z) - n) |-> ResultsIn(z[n + k])] = Mapped(ResultsInOf, w)
    <3>1. Len(z) - n = m
      BY <1>3
    <3>2. DOMAIN w = 1 .. m
      BY <1>1, <1>2, LenProperties
    <3>3. \A k \in 1 .. m : ResultsIn(z[n + k]) = ResultsInOf[w[k]]
      BY <1>1, <1>2, <1>3 DEF ResultsInOf
    <3> QED
      BY <3>1, <3>2, <3>3 DEF Mapped
  <2>3. Gap(z, n, Len(z)) = FlatMap(ResultsInOf, w)
    BY <2>2 DEF Gap, FlatMap
  <2>4. CallsOf(z[n]) = CallsOf(x[n])
    BY <1>3, <1>5
  <2> QED
    BY <1>2, <2>1, <2>3, <2>4
<1>10. Prompted(z)
  <2> SUFFICES ASSUME NEW i \in DOMAIN z, ResultsIn(z[i]) # <<>>
               PROVE  \E k \in Calling(z) : k < i
    BY DEF Prompted
  <2>1. CASE i > n
    BY <1>6, <2>1
  <2>2. CASE i \in 1 .. n
    <3>1. \E k \in Calling(x) : k < i
      BY <1>3, <2>2 DEF Prompted
    <3> QED
      BY <1>4, <3>1
  <2> QED
    BY <1>3, <2>1, <2>2
<1> QED
  BY <1>2, <1>8, <1>9, <1>10 DEF Settled

\* Before the first answer there are neither calls nor results.
LEMMA NoCallsYet ==
  ASSUME NEW w \in Seq(UserMessages), FlatMap(ResultsInOf, w) = <<>>
  PROVE  Settled(w) /\ Prompted(w)
<1>1. /\ w \in Seq(SentMessages)
      /\ \A k \in 1 .. Len(w) : w[k] \in SentMessages /\ w[k].role # "assistant"
  <2>1. w \in Seq(SentMessages)
    BY DEF UserMessages
  <2>2. \A k \in 1 .. Len(w) : w[k] \in UserMessages
    BY ElementOfSeq
  <2> QED
    BY <2>1, <2>2 DEF UserMessages
<1>2. DOMAIN w = 1 .. Len(w)
  BY <1>1, LenProperties
<1>3. Calling(w) = {}
  BY <1>1, <1>2 DEF Calling
<1>4. PICK p : p = Mapped(ResultsInOf, w)
  OBVIOUS
<1>5. IsMap(p, ResultsInOf, w, Seq(Nat))
  BY <1>1, <1>4, ResultsInOfMaps, MappedSeqs
<1>6. p \in Seq(Seq(Nat)) /\ Len(p) = Len(w) /\ \A k \in 1 .. Len(w) : p[k] = ResultsInOf[w[k]]
  BY <1>5 DEF IsMap
<1>7. FlattenSeq(p) = <<>>
  BY <1>4 DEF FlatMap
<1>8. \A k \in 1 .. Len(p) : p[k] = <<>>
  BY <1>6, <1>7, FlattenEmpty
<1>9. \A k \in 1 .. Len(w) : ResultsIn(w[k]) = <<>>
  BY <1>1, <1>6, <1>8 DEF ResultsInOf
<1> QED
  BY <1>2, <1>3, <1>9 DEF Settled, Closed, Prompted

\* An answer ends the gap before it.
LEMMA AnswerCloses ==
  ASSUME NEW x \in Seq(SentMessages), Settled(x), Prompted(x),
         NEW m \in SentMessages, m.role = "assistant", ResultsIn(m) = <<>>,
         NEW z, z = x \o <<m>>
  PROVE  /\ Closed(z) /\ Prompted(z)
         /\ z # <<>> /\ z[Len(z)] = m
<1>1. PICK y : y = <<m>>
  OBVIOUS
<1>2. y \in Seq(SentMessages) /\ Len(y) = 1 /\ y[1] = m /\ z = x \o y
  BY <1>1
<1>3. PICK n : n = Len(x)
  OBVIOUS
<1>4. /\ z \in Seq(SentMessages) /\ Len(z) = n + 1 /\ n \in Nat
      /\ DOMAIN x = 1 .. n /\ DOMAIN z = 1 .. (n + 1)
      /\ \A i \in 1 .. n : z[i] = x[i]
      /\ z[n + 1] = m
  <2>1. /\ z \in Seq(SentMessages) /\ Len(z) = Len(x) + Len(y) /\ Len(x) \in Nat /\ Len(y) \in Nat
        /\ DOMAIN x = 1 .. Len(x) /\ DOMAIN z = 1 .. Len(z)
        /\ \A i \in 1 .. Len(x) : z[i] = x[i]
        /\ \A k \in 1 .. Len(y) : z[Len(x) + k] = y[k]
    BY <1>2, JoinedAre
  <2>2. 1 \in 1 .. Len(y)
    BY <1>2
  <2> QED
    BY <1>2, <1>3, <2>1, <2>2
<1>5. Stays(x, z)
  BY <1>2, GapsStay
<1>6. Closed(z)
  <2> SUFFICES ASSUME NEW i \in Calling(z), NEW j \in i .. Len(z),
                      Quiet(z, i, j), j + 1 \in Calling(z)
               PROVE  Gap(z, i, j) = CallsOf(z[i])
    BY DEF Closed
  <2>1. i \in 1 .. n + 1 /\ j + 1 \in 1 .. n + 1
    BY <1>4, <1>5 DEF Stays
  <2>2. i \in 1 .. n /\ j \in i .. n
    BY <1>4, <2>1
  <2>3. Gap(z, i, j) = Gap(x, i, j) /\ Quiet(x, i, j) /\ CallsOf(z[i]) = CallsOf(x[i])
        /\ i \in Calling(x)
    BY <1>3, <1>5, <2>2 DEF Stays
  <2>4. CASE j = n
    BY <1>3, <2>2, <2>3, <2>4 DEF Settled
  <2>5. CASE j + 1 \in 1 .. n
    <3>1. j + 1 \in Calling(x)
      BY <1>3, <1>5, <2>5 DEF Stays
    <3> QED
      BY <1>3, <2>2, <2>3, <3>1 DEF Settled, Closed
  <2> QED
    BY <1>4, <2>2, <2>4, <2>5
<1>7. Prompted(z)
  <2> SUFFICES ASSUME NEW i \in DOMAIN z, ResultsIn(z[i]) # <<>>
               PROVE  \E k \in Calling(z) : k < i
    BY DEF Prompted
  <2>1. i \in 1 .. n
    BY <1>4
  <2>2. \E k \in Calling(x) : k < i
    BY <1>4, <2>1 DEF Prompted
  <2> QED
    BY <1>3, <1>5, <2>2 DEF Stays
<1>8. z # <<>> /\ z[Len(z)] = m
  <2>1. Len(z) # 0
    BY <1>4
  <2> QED
    BY <1>4, <2>1
<1> QED
  BY <1>6, <1>7, <1>8
-----------------------------------------------------------------------------
(* The calls of an answer.                                                 *)

\* The blocks of an answer: a call in a block of its own, no results.
CallBlocks ==
  {b \in SentBlocks : b.type # "tool-result" /\ (b.type = "tool-call" => Len(b.pieces) = 1)}

CallIn == [b \in CallBlocks |-> IF b.type = "tool-call" THEN <<b.pieces[1]>> ELSE <<>>]

LEMMA CallInMaps == Maps(CallIn, CallBlocks, Nat)
<1>1. ASSUME NEW b \in CallBlocks, b.type = "tool-call" PROVE <<b.pieces[1]>> \in Seq(Nat)
  <2>1. PICK p : p = b.pieces /\ p \in Seq(Nat) /\ Len(p) = 1
    BY <1>1 DEF CallBlocks, SentBlocks
  <2>2. p[1] \in Nat
    BY <2>1, ElementOfSeq
  <2> QED
    BY <2>1, <2>2
<1>2. <<>> \in Seq(Nat)
  BY EmptySeq
<1> QED
  BY <1>1, <1>2 DEF Maps, CallIn

LEMMA CallsOfAre ==
  ASSUME NEW m \in SentMessages, m.role = "assistant", m.content \in Seq(CallBlocks)
  PROVE  CallsOf(m) = FlatMap(CallIn, m.content) /\ ResultsIn(m) = <<>>
<1>1. PICK c : c = m.content /\ c \in Seq(CallBlocks)
  OBVIOUS
<1>2. /\ DOMAIN c = 1 .. Len(c)
      /\ \A j \in DOMAIN c : c[j] \in CallBlocks
  BY <1>1, ElementsOf
<1>3. Mapped(CallIn, c)
        = [j \in DOMAIN c |-> IF c[j].type = "tool-call" THEN <<c[j].pieces[1]>> ELSE <<>>]
  BY <1>2 DEF Mapped, CallIn
<1>4. CallsOf(m) = FlatMap(CallIn, c)
  BY <1>1, <1>3 DEF CallsOf, FlatMap
<1>5. c \in Seq(SentBlocks)
  BY <1>1 DEF CallBlocks
<1>6. \A j \in 1 .. Len(c) : ResultIn[c[j]] = <<>>
  BY <1>2 DEF ResultIn, CallBlocks
<1>7. FlatMap(ResultIn, c) = <<>>
  BY <1>5, <1>6, ResultInMaps, FlatMapNothing
<1> QED
  BY <1>1, <1>4, <1>7, ResultsInIs

LEMMA CallBlockIs ==
  ASSUME NEW n \in Nat
  PROVE  /\ Block("tool-call", <<n>>) \in CallBlocks
         /\ CallIn[Block("tool-call", <<n>>)] = <<n>>
<1>1. PICK p : p = <<n>>
  OBVIOUS
<1>2. p \in Seq(Nat) /\ Len(p) = 1 /\ p[1] = n
  BY <1>1
<1>3. PICK b : b = Block("tool-call", p)
  OBVIOUS
<1>4. b.type = "tool-call" /\ b.pieces = p /\ b \in SentBlocks
  BY <1>2, <1>3 DEF Block, SentBlocks
<1>5. b \in CallBlocks
  BY <1>2, <1>4 DEF CallBlocks
<1>6. CallIn[b] = <<n>>
  BY <1>2, <1>4, <1>5 DEF CallIn
<1> QED
  BY <1>1, <1>3, <1>5, <1>6

LEMMA OpenAICalls ==
  ASSUME NEW bs \in Seq(AnswerBlocks)
  PROVE  \E m \in SentMessages :
           /\ m.role = "assistant" /\ ResultsIn(m) = <<>>
           /\ Converted("openai", <<AnswerMessage("openai", bs)>>) = <<m>>
           /\ CallsOf(m) = PiecesOf(bs, "tool_use")
<1>1. PICK t, cs, u, v, m : /\ t = PiecesOf(bs, "text") /\ cs = PiecesOf(bs, "tool_use")
                            /\ u = (IF t # <<>> THEN <<Block("text", t)>> ELSE <<>>)
                            /\ v = Calls(cs) /\ m = Message("assistant", u \o v)
  OBVIOUS
<1>2. /\ t \in Seq(Nat) /\ cs \in Seq(Nat) /\ m \in SentMessages
      /\ Converted("openai", <<AnswerMessage("openai", bs)>>) = <<m>>
  BY <1>1, OpenAIAnswerSent
<1>3. m.role = "assistant" /\ m.content = u \o v
  BY <1>1 DEF Message
<1>4. u \in Seq(CallBlocks) /\ FlatMap(CallIn, u) = <<>>
  <2>1. CASE t = <<>>
    BY <1>1, <2>1, FlatMapNone, EmptySeq
  <2>2. CASE t # <<>>
    <3>1. PICK b : b = Block("text", t)
      OBVIOUS
    <3>2. b \in CallBlocks /\ b.type = "text"
      BY <1>2, <3>1 DEF Block, CallBlocks, SentBlocks
    <3>3. CallIn[b] = <<>>
      BY <3>2 DEF CallIn
    <3>4. u = <<b>>
      BY <1>1, <2>2, <3>1
    <3>5. FlatMap(CallIn, <<b>>) = CallIn[b]
      BY <3>2, CallInMaps, FlatMapOne
    <3> QED
      BY <3>2, <3>3, <3>4, <3>5
  <2> QED
    BY <2>1, <2>2
<1>5. v \in Seq(CallBlocks) /\ FlatMap(CallIn, v) = cs
  <2>1. PICK n : n = Len(cs)
    OBVIOUS
  <2>2. n \in Nat /\ DOMAIN cs = 1 .. n /\ \A k \in 1 .. n : cs[k] \in Nat
    BY <1>2, <2>1, ElementsOf
  <2>3. /\ v = [k \in 1 .. n |-> Block("tool-call", <<cs[k]>>)]
        /\ \A k \in 1 .. n : /\ Block("tool-call", <<cs[k]>>) \in CallBlocks
                             /\ CallIn[Block("tool-call", <<cs[k]>>)] = <<cs[k]>>
    BY <1>1, <2>2, CallBlockIs DEF Calls
  <2>4. /\ v \in Seq(CallBlocks) /\ Len(v) = n
        /\ \A k \in 1 .. n : CallIn[v[k]] = <<cs[k]>>
    <3>1. \A k \in 1 .. n : v[k] = Block("tool-call", <<cs[k]>>)
      BY ONLY <2>3
    <3>2. \A k \in 1 .. n : v[k] \in CallBlocks
      BY <2>3, <3>1
    <3>3. DOMAIN v = 1 .. n /\ v = [k \in 1 .. n |-> v[k]]
      BY ONLY <2>3
    <3>4. v \in Seq(CallBlocks) /\ Len(v) = n
      BY <2>2, <3>2, <3>3, MadeOf
    <3> QED
      BY <2>3, <3>1, <3>4
  <2>5. PICK p : p = Mapped(CallIn, v)
    OBVIOUS
  <2>6. IsMap(p, CallIn, v, Seq(Nat))
    BY <2>4, <2>5, CallInMaps, MappedSeqs
  <2>7. p \in Seq(Seq(Nat)) /\ Len(p) = Len(cs) /\ \A k \in 1 .. Len(cs) : p[k] = <<cs[k]>>
    BY <2>1, <2>4, <2>6 DEF IsMap
  <2>8. FlattenSeq(p) = cs
    BY <1>2, <2>7, FlattenSingles
  <2> QED
    BY <2>4, <2>5, <2>8 DEF FlatMap
<1>6. u \o v \in Seq(CallBlocks)
  BY ONLY <1>4, <1>5, ConcatProperties
<1>7. FlatMap(CallIn, u \o v) = FlatMap(CallIn, u) \o FlatMap(CallIn, v)
  <2>1. u \in Seq(CallBlocks) /\ v \in Seq(CallBlocks)
    BY <1>4, <1>5
  <2> QED
    BY ONLY <2>1, CallInMaps, FlatMapConcat
<1>8. <<>> \o cs = cs
  BY ONLY <1>2, ConcatSimplifications
<1>9. CallsOf(m) = cs /\ ResultsIn(m) = <<>>
  BY <1>2, <1>3, <1>4, <1>5, <1>6, <1>7, <1>8, CallsOfAre
<1> QED
  BY <1>1, <1>2, <1>3, <1>9

LEMMA AnthropicCalls ==
  ASSUME NEW bs \in Seq(AnswerBlocks), Singles(bs)
  PROVE  \E m \in SentMessages :
           /\ m.role = "assistant" /\ ResultsIn(m) = <<>>
           /\ Converted("anthropic", <<AnswerMessage("anthropic", bs)>>) = <<m>>
           /\ CallsOf(m) = PiecesOf(bs, "tool_use")
<1>1. PICK a, c, m : /\ a = AnswerMessage("anthropic", bs)
                     /\ c = convertAnthropicAssistantContent(bs)
                     /\ m = Message("assistant", c)
  OBVIOUS
<1>2. a \in AnthropicMessages /\ a \in Messages("anthropic")
  BY <1>1, AnswerType DEF Messages
<1>3. a.role = "assistant" /\ a.content = bs
  BY <1>1 DEF AnswerMessage, Message
<1>4. AnthropicMessage(a) = m /\ m \in SentMessages
  BY <1>1, <1>2, <1>3, AnthropicMessageType DEF AnthropicMessage
<1>5. Converted("anthropic", <<a>>) = <<m>>
  <2>1. ConvertIn("anthropic")[a] = <<AnthropicMessage(a)>>
    BY <1>2 DEF ConvertIn
  <2> QED
    BY <1>2, <1>4, <2>1, ConvertedParts
<1>6. m.role = "assistant" /\ m.content = c
  BY <1>1 DEF Message
<1>7. PICK n : n = Len(bs) /\ n \in Nat /\ DOMAIN bs = 1 .. n
  BY ElementsOf
<1>8. ASSUME NEW i \in 1 .. n
      PROVE  /\ AssistantBlock(bs[i]) \in CallBlocks
             /\ CallIn[AssistantBlock(bs[i])] = PiecesIn("tool_use")[bs[i]]
  <2>1. PICK b, d, p : b = bs[i] /\ d = AssistantBlock(b) /\ p = b.pieces
    OBVIOUS
  <2>2. b \in AnswerBlocks /\ p \in Seq(Nat) /\ b.type \in {"text", "thinking", "tool_use"}
    <3>1. b \in AnswerBlocks
      BY <1>7, <2>1, ElementOfSeq
    <3> QED
      BY <2>1, <3>1 DEF AnswerBlocks
  <2>3. /\ d \in SentBlocks /\ d.pieces = p
        /\ d.type = IF b.type = "thinking" THEN "reasoning"
                    ELSE IF b.type = "tool_use" THEN "tool-call" ELSE "text"
    BY <2>1, <2>2, AssistantBlockIs
  <2>4. PiecesIn("tool_use")[b] = IF b.type = "tool_use" THEN p ELSE <<>>
    BY <2>1, <2>2 DEF PiecesIn, PiecesIf
  <2>5. b.type = "tool_use" => Len(p) = 1
    BY <1>7, <2>1 DEF Singles
  <2>6. Len(p) = 1 => p = <<p[1]>>
    BY <2>2
  <2>7. d \in CallBlocks
    BY <2>2, <2>3, <2>5 DEF CallBlocks
  <2>8. CallIn[d] = IF d.type = "tool-call" THEN <<d.pieces[1]>> ELSE <<>>
    BY <2>7 DEF CallIn
  <2> QED
    BY <2>1, <2>2, <2>3, <2>4, <2>5, <2>6, <2>7, <2>8
<1>9. c = [i \in 1 .. n |-> AssistantBlock(bs[i])]
  BY <1>1, <1>7 DEF convertAnthropicAssistantContent
<1>10. c \in Seq(CallBlocks) /\ DOMAIN c = 1 .. n
  BY ONLY <1>7, <1>8, <1>9
<1>11. Mapped(CallIn, c) = Mapped(PiecesIn("tool_use"), bs)
  BY <1>7, <1>8, <1>9, <1>10 DEF Mapped
<1>12. FlatMap(CallIn, c) = PiecesOf(bs, "tool_use")
  BY <1>11, PiecesAre DEF FlatMap
<1>13. CallsOf(m) = PiecesOf(bs, "tool_use") /\ ResultsIn(m) = <<>>
  BY <1>4, <1>6, <1>10, <1>12, CallsOfAre
<1> QED
  BY <1>1, <1>4, <1>5, <1>6, <1>13
-----------------------------------------------------------------------------
(* Calls and results pair up.                                              *)

Now == Converted(protocol, history)

\* While the client composes, the calls of the last message are open.
Open(x, calls) ==
  IF x = <<>> THEN calls = <<>>
  ELSE x[Len(x)].role = "assistant" /\ CallsOf(x[Len(x)]) = calls

PairInv ==
  /\ Closed(Now) /\ Prompted(Now)
  /\ phase = "composing" => Open(Now, OpenCalls)
  /\ phase # "composing" => Settled(Now)
  /\ Settled(SentMs(sent)) /\ Prompted(SentMs(sent))

LEMMA NothingPairs == Settled(<<>>) /\ Closed(<<>>) /\ Prompted(<<>>)
<1>1. Calling(<<>>) = {}
  BY DEF Calling
<1> QED
  BY <1>1 DEF Settled, Closed, Prompted

LEMMA InitPairs == Init => PairInv
<1> SUFFICES ASSUME Init PROVE PairInv
  OBVIOUS
<1>1. history = <<>> /\ said = <<>> /\ sent = NoBody /\ phase = "composing"
  BY DEF Init
<1>2. Now = <<>>
  BY <1>1, ConvertedParts DEF Now
<1>3. OpenCalls = <<>>
  BY <1>1 DEF OpenCalls
<1>4. SentMs(sent) = <<>>
  BY <1>1, NothingSent
<1> QED
  BY <1>1, <1>2, <1>3, <1>4, NothingPairs DEF PairInv, Open

LEMMA NowGrows ==
  ASSUME Typed, NEW h \in Seq(Messages(protocol)), history' = history \o h, protocol' = protocol
  PROVE  /\ Now \in Seq(SentMessages) /\ Converted(protocol, h) \in Seq(SentMessages)
         /\ Now' = Now \o Converted(protocol, h)
<1>1. history \in Seq(Messages(protocol))
  BY DEF Typed
<1>2. Now' = Converted(protocol, history \o h)
  BY DEF Now
<1> QED
  BY <1>1, <1>2, ConvertedParts DEF Now

LEMMA SpeakPairs ==
  ASSUME Typed, PairInv, NEW i \in Seq(ClientBlocks), NEW u \in Seq(ClientBlocks), Speak(i, u)
  PROVE  PairInv'
<1>1. /\ pieces \in Nat /\ history \in Seq(Messages(protocol)) /\ said \in Seq(Turns)
      /\ protocol \in {"anthropic", "openai"}
  BY DEF Typed
<1>2. /\ history' = history \o Spoken(i, u) /\ protocol' = protocol
      /\ phase' = "asking" /\ sent' = sent
  BY <1>1, SpeakIs
<1>3. phase = "composing"
  BY DEF Speak
<1>4. PICK x, w, s : x = Now /\ s = Spoken(i, u) /\ w = Converted(protocol, s)
  OBVIOUS
<1>5. s \in Seq(Messages(protocol))
  BY <1>1, <1>4, SpokenType
<1>6. x \in Seq(SentMessages) /\ w \in Seq(SentMessages) /\ Now' = x \o w
  BY <1>2, <1>4, <1>5, NowGrows
<1>7. w \in Seq(UserMessages) /\ FlatMap(ResultsInOf, w) = OpenCalls
  BY <1>1, <1>4, SpokenResults
<1>8. Closed(x) /\ Prompted(x) /\ Open(x, OpenCalls)
  BY <1>3, <1>4 DEF PairInv
<1>9. Settled(x \o w) /\ Prompted(x \o w)
  <2>1. CASE x = <<>>
    <3>1. FlatMap(ResultsInOf, w) = <<>>
      BY <1>7, <1>8, <2>1 DEF Open
    <3>2. <<>> \o w = w
      BY ONLY <1>6, ConcatSimplifications
    <3> QED
      BY <1>7, <2>1, <3>1, <3>2, NoCallsYet
  <2>2. CASE x # <<>>
    BY <1>6, <1>7, <1>8, <2>2, ResultsSettle DEF Open
  <2> QED
    BY <2>1, <2>2
<1>10. Settled(SentMs(sent)) /\ Prompted(SentMs(sent))
  BY DEF PairInv
<1> QED
  BY <1>2, <1>6, <1>9, <1>10 DEF PairInv, Settled

LEMMA AskPairs ==
  ASSUME Typed, PairInv, NEW model, NEW maxTokens, Ask(Request(model, maxTokens))
  PROVE  PairInv'
<1>1. /\ SentMs(sent') = Now /\ phase' = "answering"
      /\ protocol' = protocol /\ history' = history
  BY AskIs DEF Now
<1>2. phase # "composing"
  BY DEF Ask
<1>3. Now' = Now
  BY <1>1 DEF Now
<1> QED
  BY <1>1, <1>2, <1>3 DEF PairInv

LEMMA UpstreamAnswers == Upstream => phase = "answering"
  BY DEF Upstream, SendRaw, BeginFrame, SendPart, EndFrame, Noise, BodyEnds, BodyTorn, MaySendNow

\* An answer is one assistant message, with its calls and no results.
LEMMA AnswerCalls ==
  ASSUME NEW pr \in {"anthropic", "openai"}, NEW a, AccOK(a), NEW evs \in Seq(Events),
         Answered(a, evs)
  PROVE  \E m \in SentMessages :
           /\ m.role = "assistant" /\ ResultsIn(m) = <<>>
           /\ Converted(pr, <<AnswerMessage(pr, a.blocks)>>) = <<m>>
           /\ CallsOf(m) = PiecesSaid(evs, "tool-call")
<1>1. PICK bs : bs = a.blocks
  OBVIOUS
<1>2. bs \in Seq(AnswerBlocks) /\ Singles(bs)
  BY <1>1 DEF AccOK, Accumulated
<1>3. PiecesOf(bs, "tool_use") = PiecesSaid(evs, "tool-call")
  BY <1>1, <1>2, PiecesAre, PiecesSaidAre DEF Answered, Tells
<1> QED
  BY <1>1, <1>2, <1>3, AnthropicCalls, OpenAICalls

LEMMA UpstreamPairs ==
  ASSUME Typed, Typed', ShownInv', ReadInv, ReadInv', PairInv, Upstream
  PROVE  PairInv'
<1>1. /\ got' \in Seq(Events) /\ got' = answered'
      /\ protocol' = protocol /\ sent' = sent
      /\ ReadEnds(acc'.blocks)
  BY HearsEvents
<1>2. phase = "answering"
  BY UpstreamAnswers
<1>3. /\ Settled(Now) /\ Closed(Now) /\ Prompted(Now)
      /\ Settled(SentMs(sent)) /\ Prompted(SentMs(sent))
  BY <1>2 DEF PairInv
<1>4. CASE phase' # "composing" /\ history' = history
  <2>1. Now' = Now
    BY <1>1, <1>4 DEF Now
  <2> QED
    BY <1>1, <1>3, <1>4, <2>1 DEF PairInv
<1>5. CASE /\ phase' = "composing"
           /\ history' = Append(history, AnswerMessage(protocol, acc'.blocks))
           /\ said' = Append(said, [who |-> "upstream", events |-> answered'])
  <2>1. PICK a, evs, m, turn, x, z :
          /\ a = acc' /\ evs = got' /\ m = AnswerMessage(protocol, a.blocks)
          /\ turn = [who |-> "upstream", events |-> evs] /\ x = Now /\ z = Now'
    OBVIOUS
  <2>2. AccOK(a) /\ Answered(a, evs) /\ evs \in Seq(Events) /\ a.blocks \in Seq(AnswerBlocks)
    BY <1>1, <2>1 DEF Typed, ShownInv, AccOK, Accumulated
  <2>3. protocol \in {"anthropic", "openai"} /\ history \in Seq(Messages(protocol))
    BY DEF Typed
  <2>4. m \in Messages(protocol) /\ <<m>> \in Seq(Messages(protocol))
    BY <2>1, <2>2, AnswerType
  <2>5. history' = history \o <<m>> /\ said' = Append(said, turn)
    BY <1>1, <1>5, <2>1, <2>3, <2>4, AppendIsConcat
  <2>6. PICK c \in SentMessages :
          /\ c.role = "assistant" /\ ResultsIn(c) = <<>>
          /\ Converted(protocol, <<m>>) = <<c>>
          /\ CallsOf(c) = PiecesSaid(evs, "tool-call")
    BY <2>1, <2>2, <2>3, AnswerCalls
  <2>7. x \in Seq(SentMessages) /\ z = x \o <<c>>
    BY <1>1, <2>1, <2>4, <2>5, <2>6, NowGrows
  <2>8. Closed(z) /\ Prompted(z) /\ z # <<>> /\ z[Len(z)] = c
    BY <1>3, <2>1, <2>6, <2>7, AnswerCloses
  <2>9. OpenCalls' = PiecesSaid(evs, "tool-call")
    <3>1. said' # <<>> /\ Last(said') = turn
      <4>1. said \in Seq(Turns) /\ turn \in Turns
        BY <2>1, <2>2 DEF Typed, Turns
      <4>2. PICK t : t = Append(said, turn)
        OBVIOUS
      <4>3. Len(t) = Len(said) + 1 /\ t[Len(said) + 1] = turn /\ Len(said) \in Nat
        BY ONLY <4>1, <4>2, AppendProperties, LenProperties
      <4>4. t # <<>>
        BY <4>3
      <4> QED
        BY <2>5, <4>2, <4>3, <4>4 DEF Last
    <3>2. turn.who = "upstream" /\ turn.events = evs
      BY <2>1
    <3> QED
      BY <3>1, <3>2 DEF OpenCalls
  <2>10. Open(z, OpenCalls')
    BY <2>6, <2>8, <2>9 DEF Open
  <2> QED
    BY <1>1, <1>3, <1>5, <2>1, <2>8, <2>10 DEF PairInv
<1> QED
  BY <1>1, <1>4, <1>5 DEF ReadEnds

LEMMA NextPairs ==
  ASSUME Typed, Typed', ShownInv', ReadInv, ReadInv', PairInv, [Next]_vars
  PROVE  PairInv'
<1>1. CASE UNCHANGED vars
  <2>1. /\ protocol' = protocol /\ history' = history /\ said' = said /\ phase' = phase
        /\ sent' = sent
    BY <1>1 DEF vars, client
  <2>2. Now' = Now /\ OpenCalls' = OpenCalls
    BY <2>1 DEF Now, OpenCalls
  <2> QED
    BY <2>1, <2>2 DEF PairInv
<1>2. pieces \in Nat /\ said \in Seq(Turns)
  BY DEF Typed
<1> QED
  BY <1>1, <1>2, StepsAre, SpeakPairs, AskPairs, UpstreamPairs

\* For any events, framings, failures and number of turns, in either protocol:
\* between one assistant message and the next are the results of its calls,
\* all of them, in order, and no others (anthropic.go:536-580,
\* openai.go:656-707, stream.go:83-162).
THEOREM CallsAndResultsPair == Spec => []ResultsFollowCalls
<1> DEFINE Inv == ReadInv /\ Typed /\ ShownInv /\ PairInv
<1>1. Init => Inv
  BY InitReads, InitTyped, InitShown, InitPairs
<1>2. Inv /\ [Next]_vars => Inv'
  <2> SUFFICES ASSUME ReadInv, Typed, ShownInv, PairInv, [Next]_vars
               PROVE  ReadInv' /\ Typed' /\ ShownInv' /\ PairInv'
    OBVIOUS
  <2>1. ReadInv'
    BY NextReads
  <2>2. Typed'
    BY <2>1, NextTyped
  <2>3. ShownInv'
    BY <2>1, <2>2, NextShown
  <2>4. PairInv'
    BY <2>1, <2>2, <2>3, NextPairs
  <2> QED
    BY <2>1, <2>2, <2>3, <2>4
<1>3. Inv => ResultsFollowCalls
  BY SettledIsFollowed DEF PairInv, SentMs
<1> QED
  BY <1>1, <1>2, <1>3, PTL DEF Spec
=============================================================================
