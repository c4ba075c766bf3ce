----------------------------- MODULE Translate ------------------------------
(***************************************************************************)
(* internal/proxy: what the three readers of an upstream stream make of    *)
(* one event: the Anthropic translator (anthropic.go), the OpenAI          *)
(* translator (openai.go) and AccumulateStream (stream.go), on which the   *)
(* unary answers of both protocols are built.                              *)
(*                                                                         *)
(* An event is its type and a piece: a number that stands for what the     *)
(* frame carries (a text, a tool call, the usage of a finish), so that a   *)
(* piece lost, repeated or put in the wrong place can be told.             *)
(***************************************************************************)
EXTENDS Naturals, Sequences, SequencesExt

Deltas     == {"text-delta", "reasoning-delta"}
EventTypes == Deltas \cup {"start", "reasoning-end", "tool-call", "finish",
                           "error", "other"}

Event(type, piece) == [type |-> type, piece |-> piece]

BlockType(type) ==
  CASE type = "text-delta"      -> "text"
    [] type = "reasoning-delta" -> "thinking"
    [] type = "tool-call"       -> "tool_use"

NoUsage == 0     \* a streamSummary that was never filled in
-----------------------------------------------------------------------------
(* anthropic.go.  A writer is the translator's state and the frames it has *)
(* written for the current event.                                          *)

AnthropicStart == [started |-> FALSE, current |-> "none", index |-> 0]

Emit(wr, frame) == [wr EXCEPT !.out = Append(@, frame)]

\* Mutant: the next block gets the index of the last.
closeCurrent_SameIndex(wr) ==
  IF wr.st.current = "none" THEN wr
  ELSE [Emit(wr, [name |-> "content_block_stop", index |-> wr.st.index])
          EXCEPT !.st.current = "none"]

closeCurrent(wr) ==
  IF wr.st.current = "none" THEN wr
  ELSE [Emit(wr, [name |-> "content_block_stop", index |-> wr.st.index])
          EXCEPT !.st.index = @ + 1, !.st.current = "none"]

openBlock(wr, type) ==
  LET closed == closeCurrent(wr)
  IN  [Emit(closed, [name |-> "content_block_start", index |-> closed.st.index,
                     type |-> type])
         EXCEPT !.st.current = type]

emitMessageStart(wr) ==
  IF wr.st.started THEN wr
  ELSE [Emit(wr, [name |-> "message_start"]) EXCEPT !.st.started = TRUE]

BlockDelta(wr, piece) ==
  Emit(wr, [name |-> "content_block_delta", index |-> wr.st.index,
            type |-> wr.st.current, piece |-> piece])

\* Deltas of the type of the open block go on in it.
contentDelta(wr, type, piece) ==
  BlockDelta(IF wr.st.current = type THEN wr ELSE openBlock(wr, type), piece)

AnthropicEvent(st, ev) ==
  LET wr == [st |-> st, out |-> <<>>] IN
  CASE ev.type = "start" -> emitMessageStart(wr)
    [] ev.type \in Deltas ->
         contentDelta(emitMessageStart(wr), BlockType(ev.type), ev.piece)
    [] ev.type = "reasoning-end" ->
         IF st.current = "thinking" THEN closeCurrent(wr) ELSE wr
    [] ev.type = "tool-call" ->
         closeCurrent(BlockDelta(openBlock(emitMessageStart(wr), "tool_use"), ev.piece))
    [] ev.type = "finish" ->
         Emit(Emit(closeCurrent(wr), [name |-> "message_delta", usage |-> ev.piece]),
              [name |-> "message_stop"])
    [] ev.type = "error" -> Emit(wr, [name |-> "error"])
    [] ev.type = "other" -> wr

\* Mutant: an answer cut off in a block is completed as if it had finished.
AnthropicEOF_Completes(st) ==
  LET wr == closeCurrent([st |-> st, out |-> <<>>]) IN
  IF wr.out = <<>> THEN wr
  ELSE Emit(Emit(wr, [name |-> "message_delta", usage |-> NoUsage]),
            [name |-> "message_stop"])

\* At the end of the body an open block is closed.
AnthropicEOF(st) == closeCurrent([st |-> st, out |-> <<>>])
-----------------------------------------------------------------------------
(* openai.go.                                                              *)

OpenAIStart == [sentRole |-> FALSE, toolIndex |-> 0]

sendRole(wr) ==
  IF wr.st.sentRole THEN wr
  ELSE [Emit(wr, [name |-> "role"]) EXCEPT !.st.sentRole = TRUE]

toolChunk(wr, piece) ==
  [Emit(wr, [name |-> "tool_call", index |-> wr.st.toolIndex, piece |-> piece])
     EXCEPT !.st.toolIndex = @ + 1]

OpenAIEvent(st, ev) ==
  LET wr == [st |-> st, out |-> <<>>] IN
  CASE ev.type = "start"           -> sendRole(wr)
    [] ev.type = "text-delta"      -> Emit(sendRole(wr), [name |-> "content", piece |-> ev.piece])
    [] ev.type = "reasoning-delta" -> Emit(sendRole(wr), [name |-> "reasoning", piece |-> ev.piece])
    [] ev.type = "tool-call"       -> toolChunk(sendRole(wr), ev.piece)
    [] ev.type = "finish"          -> Emit(wr, [name |-> "finish", usage |-> ev.piece])
    [] ev.type \in {"reasoning-end", "error", "other"} -> wr

OpenAIEOF(st) == Emit([st |-> st, out |-> <<>>], [name |-> "[DONE]"])
-----------------------------------------------------------------------------
(* stream.go: AccumulateStream.                                            *)

AccumulateStart ==
  [blocks |-> <<>>, mergeable |-> "none", usage |-> NoUsage, finished |-> FALSE]

ContentBlock(type, piece) == [type |-> type, pieces |-> <<piece>>]

\* One more piece in the last block.
Extended(blocks, piece) ==
  [blocks EXCEPT ![Len(blocks)] =
     [type |-> @.type, pieces |-> Append(@.pieces, piece)]]

\* Mutant: any delta goes to the open block.
absorb_AnyOpen(acc, type, piece) ==
  IF acc.mergeable # "none"
  THEN [acc EXCEPT !.blocks = Extended(@, piece)]
  ELSE [acc EXCEPT !.blocks = Append(@, ContentBlock(type, piece)), !.mergeable = type]

absorb(acc, type, piece) ==
  IF acc.mergeable = type
  THEN [acc EXCEPT !.blocks = Extended(@, piece)]
  ELSE [acc EXCEPT !.blocks = Append(@, ContentBlock(type, piece)), !.mergeable = type]

\* finish and error end it; whatever upstream sends after that is not read.
Accumulate(acc, ev) ==
  CASE ev.type \in Deltas        -> absorb(acc, BlockType(ev.type), ev.piece)
    [] ev.type = "reasoning-end" -> [acc EXCEPT !.mergeable = "none"]
    [] ev.type = "tool-call"     ->
         [acc EXCEPT !.blocks = Append(@, ContentBlock("tool_use", ev.piece)),
                     !.mergeable = "none"]
    [] ev.type = "finish" -> [acc EXCEPT !.usage = ev.piece, !.finished = TRUE]
    [] ev.type \in {"start", "error", "other"} -> acc

\* The content of the unary answers.
buildAnthropicResponse(acc) == acc.blocks

PiecesIf(block, type) == IF block.type = type THEN block.pieces ELSE <<>>

PiecesOf(blocks, type) ==
  FlattenSeq([i \in DOMAIN blocks |-> PiecesIf(blocks[i], type)])

buildOpenAICompletion(acc) ==
  [content   |-> PiecesOf(acc.blocks, "text"),
   reasoning |-> PiecesOf(acc.blocks, "thinking"),
   tools     |-> PiecesOf(acc.blocks, "tool_use")]
=============================================================================
