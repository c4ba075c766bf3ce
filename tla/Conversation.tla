---------------------------- MODULE Conversation ----------------------------
(***************************************************************************)
(* A conversation of several turns, all the way round: the client's        *)
(* messages are converted and sent upstream (Convert), the lines of the    *)
(* answer are read (Scanner) and accumulated into a unary answer           *)
(* (Translate), the client adds what it was answered and what comes next   *)
(* to its messages and asks again.                                         *)
(*                                                                         *)
(* cmdgo keeps nothing between two requests: that upstream is shown the    *)
(* same conversation every time, only longer, is up to the conversions in  *)
(* both directions fitting together.  said and instructed are what was     *)
(* really said, by the user and, event by event, by upstream.              *)
(***************************************************************************)
EXTENDS Convert, Scanner, Translate

CONSTANTS
  Protocols,    (* {"anthropic", "openai"} or one of them                  *)
  MaxPieces,    (* bound: upstream says nothing beyond this piece          *)
  MaxTurns,     (* bound: requests with something new in them              *)
  MaxNoise,     (* bound: lines of an attempt that carry nothing           *)
  MaxFailures   (* bound: attempts of a turn that fail                     *)

ASSUME ConversationBounds ==
  /\ Protocols \subseteq {"anthropic", "openai"}
  /\ {MaxPieces, MaxTurns, MaxNoise, MaxFailures} \subseteq Nat

VARIABLES
  protocol,
  phase,       (* "composing", "asking", "answering"                       *)
  history,     (* the client's messages, in its protocol                   *)
  system,      (* the instructions of an Anthropic client                  *)
  sent,        (* the body of the last call to /alpha/generate             *)
  frame,       (* upstream: the event being sent, and the parts of it sent *)
  sc, acc,     (* the attempt's Scanner and AccumulateStream               *)
  answered,    (* the events of the attempt upstream has sent whole        *)
  got,         (* those AccumulateStream was given                         *)
  said,        (* what was said: the turns of user and upstream            *)
  instructed,  (* the user's instructions                                  *)
  pieces,      (* pieces used so far                                       *)
  turns, failures, noise

client   == <<history, system, said, instructed, turns>>
attempt  == <<frame, sc, acc, answered, got, noise>>
vars     == <<protocol, phase, client, sent, attempt, pieces, failures>>

NoFrame == [ev |-> NoEvent, of |-> 0, parts |-> 0]
NoBody  == [params |-> [messages |-> <<>>, system |-> NoSystem]]

FreshAttempt ==
  /\ frame' = NoFrame /\ sc' = NewScanner /\ acc' = AccumulateStart
  /\ answered' = <<>> /\ got' = <<>> /\ noise' = 0

Init ==
  /\ protocol \in Protocols
  /\ phase = "composing"
  /\ history = <<>> /\ system = <<>> /\ said = <<>> /\ instructed = <<>>
  /\ sent = NoBody
  /\ frame = NoFrame /\ sc = NewScanner /\ acc = AccumulateStart
  /\ answered = <<>> /\ got = <<>>
  /\ pieces = 0 /\ turns = 0 /\ noise = 0 /\ failures = 0
-----------------------------------------------------------------------------
(* The client: an SDK that keeps the messages.                             *)

Text(piece)    == Block("text", <<piece>>)
Picture(piece) == Block("image", <<piece>>)

PiecesSaid(events, type) ==
  FlattenSeq([i \in DOMAIN events |->
                IF events[i].type = type THEN <<events[i].piece>> ELSE <<>>])

\* The calls of the last answer, which come with their results now.
OpenCalls ==
  IF said = <<>> \/ Last(said).who # "upstream" THEN <<>>
  ELSE PiecesSaid(Last(said).events, "tool-call")

\* A result is a text and a picture, of which the text is passed on.
ResultParts(i) == <<Text(pieces + i), Picture(pieces + i)>>

Results ==
  [i \in DOMAIN OpenCalls |-> [type  |-> "tool_result", call |-> OpenCalls[i],
                               parts |-> ResultParts(i)]]

Utterances ==
  LET n == pieces + Len(OpenCalls) + 1 IN
  {<<Text(n)>>, <<Picture(n), Text(n)>>} \cup (IF OpenCalls # <<>> THEN {<<>>} ELSE {})

OpenAIUtterance(instruction, utterance) ==
  (IF instruction # <<>>
   THEN <<[role |-> IF said = <<>> THEN "system" ELSE "developer", content |-> instruction]>>
   ELSE <<>>)
  \o [i \in DOMAIN Results |-> [role |-> "tool", call |-> Results[i].call,
                                content |-> Results[i].parts]]
  \o (IF utterance # <<>> THEN <<Message("user", utterance)>> ELSE <<>>)

Speak(instruction, utterance) ==
  /\ phase = "composing" /\ turns < MaxTurns
  /\ IF protocol = "anthropic"
     THEN /\ history' = Append(history, Message("user", Results \o utterance))
          /\ system' = system \o instruction
     ELSE /\ history' = history \o OpenAIUtterance(instruction, utterance)
          /\ UNCHANGED system
  /\ said' = Append(said, [who |-> "user", results |-> Results, blocks |-> utterance])
  /\ instructed' = instructed \o TextOf(instruction)
  /\ pieces' = pieces + Len(OpenCalls) + 1
  /\ turns' = turns + 1
  /\ phase' = "asking"
  /\ failures' = 0
  /\ FreshAttempt
  /\ UNCHANGED <<protocol, sent>>

Request(model, maxTokens) ==
  [model |-> model, maxTokens |-> maxTokens, system |-> system, messages |-> history,
   tools |-> {"function"}]

\* ServeHTTP converts and opens; a request that is refused changes nothing,
\* and the client mends it.
Ask(req) ==
  /\ phase = "asking"
  /\ Admitted(protocol, req)
  /\ sent' = BuildCCBody(Canonical(protocol, req))
  /\ FreshAttempt
  /\ phase' = "answering"
  /\ UNCHANGED <<protocol, client, pieces, failures>>

\* The message of the answer, as the SDK appends it.
Answer ==
  IF protocol = "anthropic"
  THEN Message("assistant", buildAnthropicResponse(acc'))
  ELSE LET completion == buildOpenAICompletion(acc')
       IN  [role |-> "assistant", content |-> <<Block("text", completion.content)>>,
            calls |-> completion.tools]

\* The attempt's events go to AccumulateStream; finish completes the answer,
\* an error or a body that ends without finish fails the attempt.
Read(r) ==
  LET given   == IF r.ev = NoEvent THEN got ELSE Append(got, r.ev)
      heard   == IF r.ev = NoEvent THEN acc ELSE Accumulate(acc, r.ev)
      fails   == ~heard.finished /\ (r.err # "none" \/ r.ev.type = "error")
  IN  /\ sc' = r.sc /\ got' = given /\ acc' = heard
      /\ phase' = IF heard.finished THEN "composing"
                  ELSE IF fails THEN "asking" ELSE "answering"
      /\ failures' = IF fails THEN failures + 1 ELSE failures
      /\ IF heard.finished
         THEN /\ history' = Append(history, Answer)
              /\ said' = Append(said, [who |-> "upstream", events |-> answered'])
         ELSE UNCHANGED <<history, said>>
      /\ UNCHANGED <<protocol, system, instructed, turns, sent>>
-----------------------------------------------------------------------------
(* Upstream (docs/cc-api.md:347-371): whole frames of either framing.      *)

Sending == frame # NoFrame

MaySendContent(type) ==
  /\ pieces < MaxPieces
  /\ type = "reasoning-end" => answered # <<>> /\ Last(answered).type = "reasoning-delta"

Ev(type) == Event(type, pieces + 1)

Spent(type) == IF type \in Deltas \cup {"tool-call"} THEN pieces' = pieces + 1
                                                     ELSE UNCHANGED pieces

MaySendNow(type) ==
  /\ phase = "answering" /\ ~Sending
  /\ type \in {"finish", "error"} \/ MaySendContent(type)
  /\ type = "error" => failures < MaxFailures

\* One JSON object on a line of its own.
SendRaw(type) ==
  /\ MaySendNow(type) /\ Spent(type)
  /\ answered' = Append(answered, Ev(type))
  /\ Read(ReadLine(sc, ChunkLine("json", Chunk(Ev(type), 1, 1))))
  /\ UNCHANGED <<frame, noise>>

\* data: lines, of parts; one that is too long for the buffer fails.
BeginFrame(type, of) ==
  /\ MaySendNow(type) /\ Spent(type)
  /\ of > ScanBufMax => failures < MaxFailures
  /\ frame' = [ev |-> Ev(type), of |-> of, parts |-> 1]
  /\ UNCHANGED <<answered, noise>>
  /\ Read(ReadLine(sc, ChunkLine("data", Chunk(Ev(type), 1, of))))

SendPart ==
  /\ phase = "answering" /\ Sending /\ frame.parts < frame.of
  /\ frame' = [frame EXCEPT !.parts = @ + 1]
  /\ UNCHANGED <<answered, pieces, noise>>
  /\ Read(ReadLine(sc, ChunkLine("data", Chunk(frame.ev, frame.parts + 1, frame.of))))

EndFrame ==
  /\ phase = "answering" /\ Sending /\ frame.parts = frame.of
  /\ frame' = NoFrame
  /\ answered' = Append(answered, frame.ev)
  /\ Read(ReadLine(sc, Line("blank")))
  /\ UNCHANGED <<pieces, noise>>

\* A keepalive or an id: anywhere, an empty line between frames.
Noise(kind) ==
  /\ phase = "answering" /\ noise < MaxNoise
  /\ kind = "blank" => ~Sending
  /\ noise' = noise + 1
  /\ UNCHANGED <<frame, answered, pieces>>
  /\ Read(ReadLine(sc, Line(kind)))

\* The body ends after any line; a frame that lacks only its blank line is
\* whole all the same.
BodyEnds ==
  /\ phase = "answering" /\ failures < MaxFailures
  /\ frame' = NoFrame
  /\ answered' = IF Sending /\ frame.parts = frame.of THEN Append(answered, frame.ev)
                                                      ELSE answered
  /\ Read(AtEOF(sc))
  /\ UNCHANGED <<pieces, noise>>

\* The body ends or breaks in the middle of a line.
BodyTorn(type, err) ==
  /\ MaySendNow(type) /\ failures < MaxFailures
  /\ UNCHANGED <<frame, answered, pieces, noise>>
  /\ LET line == ChunkLine("json", Chunk(Ev(type), 1, 2)) IN
     IF err = "EOF" THEN Read(ReadLine(sc, line)) ELSE Read(ReadFails(sc))

ContentTypes == Deltas \cup {"reasoning-end", "tool-call"}

Next ==
  \/ \E instruction \in {<<>>, <<Text(pieces + 1)>>}, utterance \in Utterances :
       Speak(instruction, utterance)
  \/ \E model \in {"", "premium"}, maxTokens \in 0 .. 1 :
       Ask(Request(model, maxTokens))
  \/ \E type \in ContentTypes \cup {"finish", "error"} :
       \/ SendRaw(type)
       \/ \E of \in 1 .. (ScanBufMax + 1) : BeginFrame(type, of)
       \/ \E err \in {"EOF", "read"} : BodyTorn(type, err)
  \/ SendPart \/ EndFrame \/ BodyEnds
  \/ \E kind \in {"blank", "comment", "field"} : Noise(kind)

Spec == Init /\ [][Next]_vars
-----------------------------------------------------------------------------
\* However the events of an answer were framed and wherever the body ended,
\* AccumulateStream is given exactly the events upstream has sent whole, in
\* their order, each once (sse.go:52-142).
EventsArrive == got = answered

Item(who, what) == [who |-> who, what |-> what]

Each(who, type, seq) == [i \in DOMAIN seq |-> Item(who, <<type, seq[i]>>)]

BlockItems(who, b) ==
  IF b.type = "tool-result" THEN <<Item(who, <<b.type, b.call, b.pieces>>)>>
                            ELSE Each(who, b.type, b.pieces)

MessageItems(m) ==
  FlattenSeq([j \in DOMAIN m.content |->
    BlockItems(IF m.role = "assistant" THEN "upstream" ELSE "user", m.content[j])])

\* What messages sent show, block by block.
Shown(ms) == FlattenSeq([i \in DOMAIN ms |-> MessageItems(ms[i])])

BlockName(type) ==
  CASE type = "text-delta" -> "text" [] type = "reasoning-delta" -> "reasoning"
    [] type = "tool-call"  -> "tool-call"

\* What should be shown of a turn.  The Anthropic protocol keeps everything
\* but pictures.  The OpenAI protocol keeps pictures; of an answer it keeps
\* the text and, after it, the calls.
TurnItems(turn) ==
  IF turn.who = "user"
  THEN [i \in DOMAIN turn.results |->
          Item("user", <<"tool-result", turn.results[i].call, TextOf(turn.results[i].parts)>>)]
       \o FlattenSeq([i \in DOMAIN turn.blocks |->
            IF protocol = "anthropic" /\ turn.blocks[i].type = "image" THEN <<>>
            ELSE BlockItems("user", turn.blocks[i])])
  ELSE IF protocol = "openai"
       THEN Each("upstream", "text", PiecesSaid(turn.events, "text-delta"))
            \o Each("upstream", "tool-call", PiecesSaid(turn.events, "tool-call"))
       ELSE FlattenSeq([i \in DOMAIN turn.events |->
              LET ev == turn.events[i] IN
              IF ev.type \in Deltas \cup {"tool-call"}
              THEN <<Item("upstream", <<BlockName(ev.type), ev.piece>>)>> ELSE <<>>])

\* Upstream is shown what it said itself, event by event, and what the user
\* said, in the order it was said; so are the instructions.  Nothing is lost,
\* repeated, moved or put in the other's mouth by the way there and back
\* (stream.go:83-162, anthropic.go:272-319, 536-580, openai.go:517-583,
\* 656-707).
UpstreamIsShownWhatWasSaid ==
  phase = "answering" =>
    /\ Shown(sent.params.messages) = FlattenSeq([i \in DOMAIN said |-> TurnItems(said[i])])
    /\ sent.params.system = instructed

\* What was sent once is sent again in the same words: the messages of a
\* request begin with those of the request before, which is what the prompt
\* cache of upstream needs (build.go:40-42, docs/plan.md section 8).
MessagesOnlyGrow ==
  [][IsPrefix(sent.params.messages, sent'.params.messages)]_vars

CallsOf(m) ==
  IF m.role # "assistant" THEN <<>>
  ELSE FlattenSeq([j \in DOMAIN m.content |->
         IF m.content[j].type = "tool-call" THEN <<m.content[j].pieces[1]>> ELSE <<>>])

ResultsIn(m) ==
  FlattenSeq([j \in DOMAIN m.content |->
    IF m.content[j].type = "tool-result" THEN <<m.content[j].call>> ELSE <<>>])

\* Models refuse a conversation in which calls and results do not pair up:
\* the messages between one assistant message and the next bring the results
\* of its calls, all of them, in order, and no others.
ResultsFollowCalls ==
  LET ms == sent.params.messages
      Assistants == {i \in DOMAIN ms : ms[i].role = "assistant"}
      Until(i, j) == /\ \A k \in (i + 1) .. j : k \notin Assistants
                     /\ j = Len(ms) \/ j + 1 \in Assistants
  IN  /\ \A i \in Assistants : \A j \in i .. Len(ms) :
           Until(i, j) =>
             FlattenSeq([k \in 1 .. (j - i) |-> ResultsIn(ms[i + k])]) = CallsOf(ms[i])
      /\ \A i \in DOMAIN ms : ResultsIn(ms[i]) # <<>> => \E k \in Assistants : k < i
=============================================================================
