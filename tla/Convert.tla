------------------------------ MODULE Convert -------------------------------
(***************************************************************************)
(* internal/proxy: how a request of either protocol becomes the body of a  *)
(* call to /alpha/generate: ServeHTTP up to the Canonical request,         *)
(* convert*Messages, normalize*, BuildCCBody.                              *)
(*                                                                         *)
(* A text is the sequence of the pieces it was put together from, so that  *)
(* concatenation is \o; a string stands for the one text block it means.   *)
(* A piece of a tool call stands for its id, name and input.               *)
(***************************************************************************)
EXTENDS Naturals, Sequences, SequencesExt

Block(type, pieces)        == [type |-> type, pieces |-> pieces]
ToolResult(call, pieces)   == [type |-> "tool-result", call |-> call, pieces |-> pieces]
Message(role, content)     == [role |-> role, content |-> content]

\* The text of a content field; pictures and other parts are dropped.
TextOf(parts) ==
  FlattenSeq([i \in DOMAIN parts |->
                IF parts[i].type = "text" THEN parts[i].pieces ELSE <<>>])

NoSystem == <<>>
-----------------------------------------------------------------------------
(* anthropic.go                                                            *)

normalizeAnthropicSystem(parts) == TextOf(parts)

normalizeToolResultValue(parts) == TextOf(parts)

\* Blocks of unknown types pass through as they are.
UserBlock(b) ==
  CASE b.type = "tool_result" -> ToolResult(b.call, normalizeToolResultValue(b.parts))
    [] OTHER                  -> b

Pictures == {"image", "document"}

\* Mutant: where there is a text, the results are left out.
convertAnthropicUserContent_TextWins(blocks) ==
  LET texts == SelectSeq(blocks, LAMBDA b : b.type = "text")
  IN  IF texts # <<>> THEN texts ELSE [i \in DOMAIN blocks |-> UserBlock(blocks[i])]

convertAnthropicUserContent(blocks) ==
  FlattenSeq([i \in DOMAIN blocks |->
                IF blocks[i].type \in Pictures THEN <<>> ELSE <<UserBlock(blocks[i])>>])

allToolResults(blocks) ==
  blocks # <<>> /\ \A i \in DOMAIN blocks : blocks[i].type = "tool_result"

AssistantBlock(b) ==
  CASE b.type = "thinking" -> Block("reasoning", b.pieces)
    [] b.type = "tool_use" -> Block("tool-call", b.pieces)
    [] OTHER               -> b

convertAnthropicAssistantContent(blocks) ==
  [i \in DOMAIN blocks |-> AssistantBlock(blocks[i])]

AnthropicRoles == {"user", "assistant"}

\* Mutant: thinking is passed on from the last answer only.
convertAnthropicMessages_OldThinkingDropped(in) ==
  [i \in DOMAIN in |->
     LET m == in[i]
         content == IF m.role # "assistant" THEN convertAnthropicUserContent(m.content)
                    ELSE convertAnthropicAssistantContent(
                           IF i = Len(in) - 1 THEN m.content
                           ELSE SelectSeq(m.content, LAMBDA b : b.type # "thinking"))
     IN  Message(IF m.role = "user" /\ allToolResults(m.content) THEN "tool" ELSE m.role,
                 content)]

convertAnthropicMessages(in) ==
  [i \in DOMAIN in |->
     LET m == in[i] IN
     IF m.role = "assistant"
     THEN Message("assistant", convertAnthropicAssistantContent(m.content))
     ELSE Message(IF allToolResults(m.content) THEN "tool" ELSE "user",
                  convertAnthropicUserContent(m.content))]
-----------------------------------------------------------------------------
(* openai.go                                                               *)

OpenAIRoles == {"system", "developer", "user", "assistant", "tool"}

Hoisted(m) == m.role \in {"system", "developer"}

\* One text block, then the calls.  A user's content passes through as it is.
OpenAIMessage(m) ==
  CASE m.role = "user" -> Message("user", m.content)
    [] m.role = "assistant" ->
         LET text == TextOf(m.content) IN
         Message("assistant",
                 (IF text # <<>> THEN <<Block("text", text)>> ELSE <<>>)
                   \o [i \in DOMAIN m.calls |-> Block("tool-call", <<m.calls[i]>>)])
    [] m.role = "tool" -> Message("tool", <<ToolResult(m.call, TextOf(m.content))>>)

convertOpenAIMessages(in) ==
  FlattenSeq([i \in DOMAIN in |-> IF Hoisted(in[i]) THEN <<>> ELSE <<OpenAIMessage(in[i])>>])

\* Mutant: only the first instruction is kept.
HoistedSystem_First(in) ==
  LET parts == SelectSeq(in, Hoisted)
  IN  IF parts = <<>> THEN NoSystem ELSE TextOf(parts[1].content)

HoistedSystem(in) ==
  FlattenSeq([i \in DOMAIN in |-> IF Hoisted(in[i]) THEN TextOf(in[i].content) ELSE <<>>])
-----------------------------------------------------------------------------
(* A request is [model, maxTokens, system, messages, tools]; the OpenAI    *)
(* one has its instructions among the messages.                            *)

DefaultGoModel == "default"
GoModels       == {DefaultGoModel, "listed"}

Model(req) == IF req.model = "" THEN DefaultGoModel ELSE req.model

\* What is answered with 400, before any account is asked for.
Admitted(protocol, req) ==
  /\ Model(req) \in GoModels
  /\ IF protocol = "anthropic"
     THEN /\ req.maxTokens > 0
          /\ \A i \in DOMAIN req.messages : req.messages[i].role \in AnthropicRoles
     ELSE /\ \A i \in DOMAIN req.messages : req.messages[i].role \in OpenAIRoles
          /\ \A t \in req.tools : t \in {"", "function"}

Canonical(protocol, req) ==
  [model    |-> Model(req),
   messages |-> IF protocol = "anthropic" THEN convertAnthropicMessages(req.messages)
                                          ELSE convertOpenAIMessages(req.messages),
   system   |-> IF protocol = "anthropic" THEN normalizeAnthropicSystem(req.system)
                                          ELSE HoistedSystem(req.messages)]

\* The whole answer is always asked for as a stream, cached if it can be.
BuildCCBody(canon) ==
  [params |-> canon, stream |-> TRUE, cacheControl |-> "ephemeral"]
=============================================================================
