------------------------------- MODULE Stream -------------------------------
(***************************************************************************)
(* internal/proxy: one opened upstream stream on its way to a streaming    *)
(* client: ServeHTTP from the moment the attempt is handed over, the       *)
(* translator's loop, the SSE writer, the traffic row.                     *)
(*                                                                         *)
(* Frames are written one by one; the client may leave between any two,    *)
(* after which a write may still succeed into a buffer or fail for good.   *)
(* acc is what AccumulateStream makes of the events the loop has read: the *)
(* unary answer to the same upstream stream.                               *)
(***************************************************************************)
EXTENDS Translate

CONSTANTS
  Protocols,   (* {"anthropic", "openai"} or one of them                   *)
  MaxEvents    (* bound: events upstream sends                             *)

ASSUME ProtocolsAssumption == Protocols \subseteq {"anthropic", "openai"}
ASSUME MaxEventsAssumption == MaxEvents \in Nat \ {0}

VARIABLES
  protocol,  (* which handler serves the request                           *)
  up,        (* the events upstream has sent                               *)
  body,      (* "open", "eof", "broken" or "reset" (by the upstream peer)  *)
  next,      (* the event the loop reads next                              *)
  st,        (* the translator's state                                     *)
  pending,   (* frames of the current event not yet written                *)
  leaving,   (* what the loop returns once they are written                *)
  outcome,   (* what it returned: "running", "nil", "write", "event",      *)
             (* "canceled", "broken" or "reset"                            *)
  summary,   (* the usage picked up from finish                            *)
  ctxDone,   (* the client is gone                                         *)
  entry,     (* the traffic row                                            *)
  acc,       (* the unary reading of the same events                       *)
  client     (* what the client's SDK has assembled                        *)

vars == <<protocol, up, body, next, st, pending, leaving, outcome, summary,
          ctxDone, entry, acc, client>>

NoEntry == [status |-> 0]
-----------------------------------------------------------------------------
(* The clients: SDKs that follow the protocol's grammar.                   *)

NewClient ==
  IF protocol = "anthropic"
  THEN [at |-> "none", blocks |-> <<>>, usage |-> NoUsage]
  ELSE [at |-> "none", content |-> <<>>, reasoning |-> <<>>, tools |-> <<>>,
        usage |-> NoUsage]

AnthropicAccepts(c, f) ==
  LET n == Len(c.blocks) IN
  CASE f.name = "message_start"       -> c.at = "none"
    [] f.name = "content_block_start" -> c.at = "message" /\ f.index = n
    [] f.name = "content_block_delta" ->
         c.at = "block" /\ f.index = n - 1 /\ f.type = c.blocks[n].type
    [] f.name = "content_block_stop"  -> c.at = "block" /\ f.index = n - 1
    [] f.name = "message_delta"       -> c.at = "message"
    [] f.name = "message_stop"        -> c.at = "delta"
    [] f.name = "error"               -> c.at \notin {"stopped", "failed", "bad"}

AnthropicReceives(c, f) ==
  IF ~AnthropicAccepts(c, f) THEN [c EXCEPT !.at = "bad"]
  ELSE
  CASE f.name = "message_start"       -> [c EXCEPT !.at = "message"]
    [] f.name = "content_block_start" ->
         [c EXCEPT !.at = "block",
                   !.blocks = Append(@, [type |-> f.type, pieces |-> <<>>])]
    [] f.name = "content_block_delta" ->
         [c EXCEPT !.blocks = Extended(@, f.piece)]
    [] f.name = "content_block_stop"  -> [c EXCEPT !.at = "message"]
    [] f.name = "message_delta"       -> [c EXCEPT !.at = "delta", !.usage = f.usage]
    [] f.name = "message_stop"        -> [c EXCEPT !.at = "stopped"]
    [] f.name = "error"               -> [c EXCEPT !.at = "failed"]

OpenAIAccepts(c, f) ==
  CASE f.name = "role"      -> c.at = "none"
    [] f.name = "tool_call" -> c.at = "message" /\ f.index = Len(c.tools)
    [] f.name = "[DONE]"    -> c.at \in {"message", "finished"}
    [] OTHER                -> c.at = "message"

OpenAIReceives(c, f) ==
  IF ~OpenAIAccepts(c, f) THEN [c EXCEPT !.at = "bad"]
  ELSE
  CASE f.name = "role"          -> [c EXCEPT !.at = "message"]
    [] f.name = "content"       -> [c EXCEPT !.content = Append(@, f.piece)]
    [] f.name = "reasoning"     -> [c EXCEPT !.reasoning = Append(@, f.piece)]
    [] f.name = "tool_call"     -> [c EXCEPT !.tools = Append(@, f.piece)]
    [] f.name = "finish"        -> [c EXCEPT !.at = "finished", !.usage = f.usage]
    [] f.name = "[DONE]"        -> [c EXCEPT !.at = "done"]

Receives(c, f) ==
  IF protocol = "anthropic" THEN AnthropicReceives(c, f) ELSE OpenAIReceives(c, f)
-----------------------------------------------------------------------------
\* The first event has been read by the runner (prefixedStream), which hands
\* on whatever is no error.
Init ==
  /\ protocol \in Protocols
  /\ up \in {<<Event(type, 1)>> : type \in EventTypes \ {"error"}}
  /\ body = "open" /\ next = 1
  /\ st = IF protocol = "anthropic" THEN AnthropicStart ELSE OpenAIStart
  /\ pending = <<>> /\ leaving = "no" /\ outcome = "running"
  /\ summary = NoUsage
  /\ ctxDone = FALSE
  /\ entry = NoEntry
  /\ acc = AccumulateStart
  /\ client = NewClient

handler == <<next, st, pending, leaving, outcome, summary, entry, acc, client>>
-----------------------------------------------------------------------------
(* Upstream (docs/cc-api.md, "Response").                                  *)

\* finish or error comes last; reasoning-end comes first or ends a run of
\* reasoning-deltas.
MaySend(type) ==
  /\ Last(up).type \notin {"finish", "error"}
  /\ type = "reasoning-end" => Last(up).type = "reasoning-delta"

UpstreamSends(type) ==
  /\ body = "open" /\ Len(up) < MaxEvents
  /\ MaySend(type)
  /\ up' = Append(up, Event(type, Len(up) + 1))
  /\ UNCHANGED <<protocol, body, ctxDone, handler>>

UpstreamEnds(how) ==
  /\ body = "open"
  /\ body' = how
  /\ UNCHANGED <<protocol, up, ctxDone, handler>>

ClientLeaves ==
  /\ ~ctxDone /\ entry = NoEntry
  /\ ctxDone' = TRUE
  /\ UNCHANGED <<protocol, up, body, handler>>
-----------------------------------------------------------------------------
(* The loop of streamCCToAnthropic or streamCCToOpenAI.                    *)

Reading == outcome = "running" /\ leaving = "no" /\ pending = <<>>

HandleEvent ==
  /\ Reading /\ next <= Len(up)
  /\ LET ev == up[next]
         wr == IF protocol = "anthropic" THEN AnthropicEvent(st, ev)
                                         ELSE OpenAIEvent(st, ev)
     IN  /\ st' = wr.st
         /\ pending' = wr.out
         /\ leaving' = IF ev.type = "error" THEN "event" ELSE "no"
         /\ acc' = Accumulate(acc, ev)
  /\ next' = next + 1
  /\ UNCHANGED <<protocol, up, body, outcome, summary, ctxDone, entry, client>>

HandleEOF ==
  /\ Reading /\ next > Len(up) /\ body = "eof"
  /\ LET wr == IF protocol = "anthropic" THEN AnthropicEOF(st) ELSE OpenAIEOF(st)
     IN  st' = wr.st /\ pending' = wr.out
  /\ leaving' = "nil"
  /\ UNCHANGED <<protocol, up, body, next, outcome, summary, ctxDone, entry, acc, client>>

\* Mutant: the body is not bound to the request's context.
BodyFails_NoContext(how) == how # "canceled" /\ next > Len(up) /\ body = how

\* The next read fails: the body broke, or the client's departure cancelled
\* it, in which case events already sent may be lost.
BodyFails(how) ==
  IF how = "canceled" THEN ctxDone /\ next > 1 ELSE next > Len(up) /\ body = how

ReadFails(how) ==
  /\ Reading
  /\ BodyFails(how)
  /\ outcome' = how
  /\ UNCHANGED <<protocol, up, body, next, st, pending, leaving, summary, ctxDone,
                 entry, acc, client>>

\* The usage is kept before the frame that carries it is written.
Summarised ==
  IF Head(pending).name \in {"message_delta", "finish"} THEN Head(pending).usage
                                                        ELSE summary

WriteFrame ==
  /\ outcome = "running" /\ pending # <<>>
  /\ pending' = Tail(pending)
  /\ summary' = Summarised
  /\ client' = IF ctxDone THEN client ELSE Receives(client, Head(pending))
  /\ UNCHANGED <<protocol, up, body, next, st, leaving, outcome, ctxDone, entry, acc>>

\* The loop returns the error of a write, but for the last words of the
\* Anthropic translator, whose error it drops.
WriteFails ==
  /\ outcome = "running" /\ pending # <<>> /\ ctxDone
  /\ pending' = <<>>
  /\ summary' = Summarised
  /\ outcome' = IF protocol = "anthropic" /\ leaving # "no" THEN leaving ELSE "write"
  /\ UNCHANGED <<protocol, up, body, next, st, leaving, ctxDone, entry, acc, client>>

LoopReturns ==
  /\ outcome = "running" /\ leaving # "no" /\ pending = <<>>
  /\ outcome' = leaving
  /\ UNCHANGED <<protocol, up, body, next, st, pending, leaving, summary, ctxDone,
                 entry, acc, client>>

\* Mutant: every failure is taken for the client's.
clientGone_AnyError == outcome # "nil"

\* A reset of the upstream connection reads like one of the client's.
clientGone == ctxDone \/ outcome \in {"canceled", "write", "reset"}

RecordTraffic ==
  /\ outcome # "running" /\ entry = NoEntry
  /\ entry' = [status |-> IF outcome = "nil" \/ clientGone THEN 200 ELSE 502,
               usage  |-> summary]
  /\ UNCHANGED <<protocol, up, body, next, st, pending, leaving, outcome, summary,
                 ctxDone, acc, client>>

Handler ==
  \/ HandleEvent \/ HandleEOF \/ WriteFrame \/ WriteFails \/ LoopReturns
  \/ \E how \in {"canceled", "broken", "reset"} : ReadFails(how)
  \/ RecordTraffic

Next ==
  \/ \E type \in EventTypes : UpstreamSends(type)
  \/ \E how \in {"eof", "broken", "reset"} : UpstreamEnds(how)
  \/ ClientLeaves
  \/ Handler

Spec == Init /\ [][Next]_vars

\* The goroutine is scheduled; upstream owes nothing.
FairSpec == Spec /\ WF_vars(Handler)
-----------------------------------------------------------------------------
\* The events that open the answer: the loop has read one of them.
Opening == Deltas \cup {"start", "tool-call"}
Opened  == \E i \in 1 .. next - 1 : up[i].type \in Opening

\* Wherever upstream stops, the client's SDK accepts every frame: one opening
\* frame before all others, blocks opened and closed in turn under
\* consecutive indexes, deltas of the open block's type, tool calls under
\* consecutive indexes, nothing after the last frame (anthropic.go:337-364,
\* openai.go:401-512).  The one exception is an answer that ends before it
\* was opened: a finish before any start, delta or tool call writes
\* message_delta without message_start, or the finish chunk without a role,
\* and [DONE] ends an OpenAI stream that had none of them
\* (anthropic.go:488-510, openai.go:485-506).
ClientAccepts == client.at = "bad" => ~Opened

Quiet == pending = <<>> /\ ~ctxDone

\* The client has what the unary answer would give it.
Assembled ==
  /\ client.usage = acc.usage
  /\ IF protocol = "anthropic"
     THEN client.blocks = buildAnthropicResponse(acc)
     ELSE [content |-> client.content, reasoning |-> client.reasoning,
           tools |-> client.tools] = buildOpenAICompletion(acc)

\* stream=true and stream=false answer alike: at every point between two
\* events the client has assembled exactly the blocks, texts, tool calls and
\* usage that AccumulateStream has (stream.go:83-162 against both
\* translators; retry_test.go:497-500).  A client that refused a frame reads
\* no further.
StreamedEqualsAccumulated == Quiet /\ client.at # "bad" => Assembled

\* The client was told that the model came to an end, by message_stop or by
\* the chunk with finish_reason and usage.  [DONE] by itself says no more than
\* that the body ended, and follows a truncated one as well.
ToldComplete ==
  \/ client.at \in {"stopped", "finished"}
  \/ client.at = "done" /\ client.usage # NoUsage

\* A client that is told the answer is complete has all of it, usage
\* included, and is never told so of a truncated, broken or failed one, as
\* the unary sibling is not (anthropic.go:488-529, openai.go:485-506;
\* retry_test.go:331-336).  [DONE] follows neither an error nor a body that
\* broke.  A client that stays to the end of an answer that was opened is
\* told whether it is complete.
CompletionIsHonest ==
  /\ ToldComplete => acc.finished /\ Assembled
  /\ client.at = "done" => body = "eof" /\ next > Len(up) /\ Last(up).type # "error"
  /\ outcome = "nil" /\ Quiet /\ Opened =>
       IF acc.finished THEN ToldComplete ELSE client.at \in {"message", "done"}

\* The traffic row and the client agree on the usage, also when the client
\* leaves or the body breaks after finish: usage a client was sent is in the
\* row, and the row has none upstream did not report; a stream that failed
\* on a client still there is recorded as such unless it was a reset
\* (anthropic.go:162-198, openai.go:280-314).
RowMatchesStream ==
  entry # NoEntry =>
    /\ client.usage # NoUsage => entry.usage = client.usage
    /\ entry.usage # NoUsage => up[entry.usage].type = "finish"
    /\ (outcome \in {"event", "broken"} /\ ~ctxDone) => entry.status = 502
    /\ outcome = "nil" => entry.status = 200

\* A client that leaves ends the handler, however silent upstream is
\* (retry.go:633-651, client.go:47-50: the read hangs on the context only).
CancelledStreamEnds == ctxDone ~> entry # NoEntry
-----------------------------------------------------------------------------
(* What comments of the code say and the code does not do.                 *)

\* stream.go:145-149 and docs/cc-api.md: finish is the terminal event, and some
\* upstreams keep the connection open after it.  The streaming loops wait
\* for the end of the body: the client has its message_stop, or waits for
\* its [DONE], while the handler hangs.
FinishEndsTheStream == acc.finished ~> entry # NoEntry
=============================================================================
