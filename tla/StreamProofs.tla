---------------------------- MODULE StreamProofs ----------------------------
(***************************************************************************)
(* For any number of events: what a streaming client is sent of an answer  *)
(* that was opened is what it must accept, and what the unary reading of   *)
(* the same events has.                                                    *)
(***************************************************************************)
EXTENDS Stream, FoldLemmas, SequenceTheorems

BlockTypes == {"text", "thinking", "tool_use"}
Block      == [type : BlockTypes, pieces : Seq(Nat)]

\* Clients that have not been sent a frame they refuse.
AnthropicClient ==
  [at : {"none", "message", "block", "delta", "stopped", "failed"},
   blocks : Seq(Block), usage : Nat]
OpenAIClient ==
  [at : {"none", "message", "finished", "done"},
   content : Seq(Nat), reasoning : Seq(Nat), tools : Seq(Nat), usage : Nat]
ClientOf(pr) == IF pr = "anthropic" THEN AnthropicClient ELSE OpenAIClient

AnthropicFrame ==
  UNION {[name : {"message_start", "message_stop", "error"}],
         [name : {"content_block_start"}, index : Nat, type : BlockTypes],
         [name : {"content_block_stop"}, index : Nat],
         [name : {"content_block_delta"}, index : Nat, type : BlockTypes, piece : Nat],
         [name : {"message_delta"}, usage : Nat]}
OpenAIFrame ==
  UNION {[name : {"role", "[DONE]"}],
         [name : {"content", "reasoning"}, piece : Nat],
         [name : {"tool_call"}, index : Nat, piece : Nat],
         [name : {"finish"}, usage : Nat]}
FrameOf(pr) == IF pr = "anthropic" THEN AnthropicFrame ELSE OpenAIFrame

AcceptsAs(pr, c, f) ==
  IF pr = "anthropic" THEN AnthropicAccepts(c, f) ELSE OpenAIAccepts(c, f)
ReceivesAs(pr, c, f) ==
  IF pr = "anthropic" THEN AnthropicReceives(c, f) ELSE OpenAIReceives(c, f)

Reports(f, U) == f.name \in {"message_delta", "finish"} => f.usage \in U

\* Client c accepts the frames p, which report usages of U only, and becomes d.
Becomes(pr, U, c, p, d) ==
  /\ p \in Seq(FrameOf(pr))
  /\ \E h \in [0 .. Len(p) -> ClientOf(pr)] :
       /\ h[0] = c /\ h[Len(p)] = d
       /\ \A i \in 1 .. Len(p) : /\ AcceptsAs(pr, h[i - 1], p[i])
                                 /\ h[i] = ReceivesAs(pr, h[i - 1], p[i])
                                 /\ Reports(p[i], U)
-----------------------------------------------------------------------------
(* Reading frames one after the other.                                     *)

LEMMA BecomesOfNone ==
  ASSUME NEW pr, NEW U, NEW c \in ClientOf(pr)
  PROVE  Becomes(pr, U, c, <<>>, c)
<1> DEFINE h == [i \in 0 .. 0 |-> c]
<1>1. h \in [0 .. 0 -> ClientOf(pr)] /\ h[0] = c /\ Len(<<>>) = 0
  OBVIOUS
<1>2. <<>> \in Seq(FrameOf(pr)) /\ 1 .. 0 = {}
  OBVIOUS
<1> HIDE DEF h
<1> QED
  BY <1>1, <1>2 DEF Becomes

LEMMA BecomesEnds ==
  ASSUME NEW pr, NEW U, NEW c, NEW d, NEW p, Becomes(pr, U, c, p, d)
  PROVE  /\ c \in ClientOf(pr) /\ d \in ClientOf(pr) /\ p \in Seq(FrameOf(pr))
         /\ p = <<>> => c = d
BY DEF Becomes

LEMMA BecomesAppend ==
  ASSUME NEW pr, NEW U, NEW c, NEW d, NEW p, NEW f \in FrameOf(pr), Becomes(pr, U, c, p, d),
         AcceptsAs(pr, d, f), ReceivesAs(pr, d, f) \in ClientOf(pr), Reports(f, U)
  PROVE  Becomes(pr, U, c, Append(p, f), ReceivesAs(pr, d, f))
<1> DEFINE e == ReceivesAs(pr, d, f)
           q == Append(p, f)
<1>1. p \in Seq(FrameOf(pr)) /\ Len(p) \in Nat
  BY DEF Becomes
<1>2. PICK h \in [0 .. Len(p) -> ClientOf(pr)] :
        /\ h[0] = c /\ h[Len(p)] = d
        /\ \A i \in 1 .. Len(p) : /\ AcceptsAs(pr, h[i - 1], p[i])
                                  /\ h[i] = ReceivesAs(pr, h[i - 1], p[i])
                                  /\ Reports(p[i], U)
  BY DEF Becomes
<1> DEFINE g == [i \in 0 .. Len(p) + 1 |-> IF i <= Len(p) THEN h[i] ELSE e]
<1>3. /\ q \in Seq(FrameOf(pr)) /\ Len(q) = Len(p) + 1 /\ q[Len(p) + 1] = f
      /\ \A i \in 1 .. Len(p) : q[i] = p[i]
  BY <1>1, AppendProperties
<1> HIDE DEF e, q
<1>4. g \in [0 .. Len(p) + 1 -> ClientOf(pr)] /\ g[0] = c /\ g[Len(p) + 1] = e
  BY <1>1, <1>2 DEF e
<1>5. \A i \in 0 .. Len(p) : g[i] = h[i]
  BY <1>1
<1> HIDE DEF g
<1>6. ASSUME NEW i \in 1 .. Len(p) + 1
      PROVE  /\ AcceptsAs(pr, g[i - 1], q[i])
             /\ g[i] = ReceivesAs(pr, g[i - 1], q[i])
             /\ Reports(q[i], U)
  <2>1. CASE i = Len(p) + 1
    <3>1. i - 1 = Len(p) /\ Len(p) \in 0 .. Len(p)
      BY <1>1, <2>1
    <3>2. g[i - 1] = d /\ q[i] = f /\ g[i] = e
      BY <1>2, <1>3, <1>4, <1>5, <2>1, <3>1
    <3> QED
      BY <3>2 DEF e
  <2>2. CASE i # Len(p) + 1
    <3>1. i \in 1 .. Len(p) /\ i \in 0 .. Len(p) /\ i - 1 \in 0 .. Len(p)
      BY <1>1, <2>2
    <3>2. g[i - 1] = h[i - 1] /\ q[i] = p[i] /\ g[i] = h[i]
      BY <1>3, <1>5, <3>1
    <3> QED
      BY <1>2, <3>1, <3>2
  <2> QED
    BY <2>1, <2>2
<1>7. Becomes(pr, U, c, q, e)
  BY <1>3, <1>4, <1>6 DEF Becomes
<1> QED
  BY <1>7 DEF q, e

LEMMA BecomesHead ==
  ASSUME NEW pr, NEW U, NEW c, NEW d, NEW p, p # <<>>, Becomes(pr, U, c, p, d)
  PROVE  /\ AcceptsAs(pr, c, Head(p)) /\ Reports(Head(p), U) /\ Head(p) \in FrameOf(pr)
         /\ ReceivesAs(pr, c, Head(p)) \in ClientOf(pr)
         /\ Becomes(pr, U, ReceivesAs(pr, c, Head(p)), Tail(p), d)
<1> DEFINE t == Tail(p)
<1>1. p \in Seq(FrameOf(pr)) /\ Len(p) \in Nat /\ Len(p) > 0
  BY DEF Becomes
<1>2. PICK h \in [0 .. Len(p) -> ClientOf(pr)] :
        /\ h[0] = c /\ h[Len(p)] = d
        /\ \A i \in 1 .. Len(p) : /\ AcceptsAs(pr, h[i - 1], p[i])
                                  /\ h[i] = ReceivesAs(pr, h[i - 1], p[i])
                                  /\ Reports(p[i], U)
  BY DEF Becomes
<1> DEFINE g == [i \in 0 .. Len(p) - 1 |-> h[i + 1]]
<1>3. /\ t \in Seq(FrameOf(pr)) /\ Len(t) = Len(p) - 1 /\ Head(p) = p[1] /\ Head(p) \in FrameOf(pr)
      /\ \A i \in 1 .. Len(p) - 1 : t[i] = p[i + 1]
  BY <1>1, HeadTailProperties
<1> HIDE DEF t
<1>4. 1 \in 1 .. Len(p) /\ 1 \in 0 .. Len(p) /\ 1 - 1 = 0
  BY <1>1
<1>5. /\ AcceptsAs(pr, c, Head(p)) /\ Reports(Head(p), U)
      /\ h[1] = ReceivesAs(pr, c, Head(p)) /\ h[1] \in ClientOf(pr)
  BY <1>2, <1>3, <1>4
<1>6. \A i \in 0 .. Len(p) - 1 : g[i] = h[i + 1] /\ g[i] \in ClientOf(pr)
  BY <1>1, <1>2
<1>7. g \in [0 .. Len(p) - 1 -> ClientOf(pr)] /\ g[0] = h[1] /\ g[Len(p) - 1] = d
  BY <1>1, <1>2
<1> HIDE DEF g
<1>8. ASSUME NEW i \in 1 .. Len(p) - 1
      PROVE  /\ AcceptsAs(pr, g[i - 1], t[i])
             /\ g[i] = ReceivesAs(pr, g[i - 1], t[i])
             /\ Reports(t[i], U)
  <2>1. i + 1 \in 1 .. Len(p) /\ i \in 0 .. Len(p) - 1 /\ i - 1 \in 0 .. Len(p) - 1
        /\ (i + 1) - 1 = i /\ (i - 1) + 1 = i
    BY <1>1
  <2>2. g[i - 1] = h[i] /\ t[i] = p[i + 1] /\ g[i] = h[i + 1]
    BY <1>3, <1>6, <2>1
  <2> QED
    BY <1>2, <2>1, <2>2
<1>9. Becomes(pr, U, h[1], t, d)
  BY <1>3, <1>7, <1>8 DEF Becomes
<1> QED
  BY <1>3, <1>5, <1>9 DEF t

\* A client that has been told the end accepts nothing more.
LEMMA BecomesWhenTold ==
  ASSUME NEW pr, NEW U, NEW c, NEW d, NEW p, Becomes(pr, U, c, p, d),
         c.at \in {"stopped", "done"}
  PROVE  c = d
<1>1. SUFFICES ASSUME p # <<>> PROVE FALSE
  BY BecomesEnds
<1>2. AcceptsAs(pr, c, Head(p)) /\ c \in ClientOf(pr) /\ Head(p) \in FrameOf(pr)
  BY <1>1, BecomesEnds, BecomesHead
<1> DEFINE f == Head(p)
<1>3. CASE pr = "anthropic"
  <2>1. /\ c.at = "stopped" /\ AnthropicAccepts(c, f)
        /\ f.name \in {"message_start", "message_stop", "error", "content_block_start",
                       "content_block_stop", "content_block_delta", "message_delta"}
    BY <1>2, <1>3 DEF AcceptsAs, ClientOf, AnthropicClient, FrameOf, AnthropicFrame
  <2> HIDE DEF f
  <2> QED
    BY <2>1 DEF AnthropicAccepts
<1>4. CASE pr # "anthropic"
  <2>1. /\ c.at = "done" /\ OpenAIAccepts(c, f)
        /\ f.name \in {"role", "[DONE]", "content", "reasoning", "tool_call", "finish"}
    BY <1>2, <1>4 DEF AcceptsAs, ClientOf, OpenAIClient, FrameOf, OpenAIFrame
  <2> HIDE DEF f
  <2> QED
    BY <2>1 DEF OpenAIAccepts
<1> QED
  BY <1>3, <1>4

\* One that has been told a reason to stop accepts [DONE] and nothing else.
LEMMA BecomesDone ==
  ASSUME NEW pr, NEW U, NEW c, NEW d, NEW p, Becomes(pr, U, c, p, d),
         c.at = "finished", pr # "anthropic"
  PROVE  d = c \/ d = [c EXCEPT !.at = "done"]
<1>1. SUFFICES ASSUME p # <<>> PROVE d = [c EXCEPT !.at = "done"]
  BY BecomesEnds
<1> DEFINE f == Head(p)
<1>2. /\ OpenAIAccepts(c, f) /\ c \in OpenAIClient /\ f \in OpenAIFrame
      /\ Becomes(pr, U, OpenAIReceives(c, f), Tail(p), d)
  BY <1>1, BecomesEnds, BecomesHead DEF AcceptsAs, ReceivesAs, ClientOf, FrameOf
<1> HIDE DEF f
<1>3. f.name \in {"role", "[DONE]", "content", "reasoning", "tool_call", "finish"}
  BY <1>2 DEF OpenAIFrame
<1>4. f.name = "[DONE]"
  BY <1>2, <1>3 DEF OpenAIAccepts
<1>5. OpenAIReceives(c, f) = [c EXCEPT !.at = "done"]
  BY <1>2, <1>4 DEF OpenAIReceives
<1>6. [c EXCEPT !.at = "done"].at = "done"
  BY <1>2 DEF OpenAIClient
<1> QED
  BY <1>2, <1>5, <1>6, BecomesWhenTold

LEMMA BecomesWiden ==
  ASSUME NEW pr, NEW U, NEW V, U \subseteq V, NEW c, NEW d, NEW p,
         Becomes(pr, U, c, p, d)
  PROVE  Becomes(pr, V, c, p, d)
BY DEF Becomes, Reports
-----------------------------------------------------------------------------
(* Blocks.                                                                 *)

LastType(bs) == bs[Len(bs)].type

LEMMA ExtendedBlocks ==
  ASSUME NEW bs \in Seq(Block), Len(bs) > 0, NEW piece \in Nat
  PROVE  /\ Extended(bs, piece) \in Seq(Block)
         /\ Len(Extended(bs, piece)) = Len(bs)
         /\ LastType(Extended(bs, piece)) = LastType(bs)
<1> DEFINE n == Len(bs)
           e == [type |-> bs[n].type, pieces |-> Append(bs[n].pieces, piece)]
<1>1. n \in 1 .. Len(bs) /\ bs[n] \in Block
  BY ElementOfSeq
<1>2. e \in Block
  BY <1>1 DEF Block
<1>3. Extended(bs, piece) = [bs EXCEPT ![n] = e]
  BY DEF Extended
<1>4. e.type = bs[n].type
  OBVIOUS
<1> HIDE DEF n, e
<1>5. /\ [bs EXCEPT ![n] = e] \in Seq(Block) /\ Len([bs EXCEPT ![n] = e]) = Len(bs)
      /\ [bs EXCEPT ![n] = e][n] = e
  BY <1>1, <1>2, ExceptSeq
<1> QED
  BY <1>3, <1>4, <1>5 DEF n, LastType

\* A block that is opened and then given a piece is the block of that piece.
LEMMA ReplaceLast ==
  ASSUME NEW S, NEW s \in Seq(S), NEW x \in S, NEW e \in S
  PROVE  [Append(s, x) EXCEPT ![Len(s) + 1] = e] = Append(s, e)
<1>1. PICK t : t = Append(s, x)
  OBVIOUS
<1>2. /\ t \in Seq(S) /\ Len(t) = Len(s) + 1 /\ Len(s) + 1 \in 1 .. Len(t)
      /\ \A i \in 1 .. Len(s) : t[i] = s[i]
  BY <1>1, AppendProperties
<1>3. PICK u : u = [t EXCEPT ![Len(s) + 1] = e]
  OBVIOUS
<1>4. /\ u \in Seq(S) /\ Len(u) = Len(t)
      /\ \A j \in 1 .. Len(t) : u[j] = IF j = Len(s) + 1 THEN e ELSE t[j]
  BY <1>2, <1>3, ExceptSeq
<1>5. PICK v : v = Append(s, e)
  OBVIOUS
<1>6. /\ v \in Seq(S) /\ Len(v) = Len(s) + 1 /\ v[Len(s) + 1] = e
      /\ \A i \in 1 .. Len(s) : v[i] = s[i]
  BY <1>5, AppendProperties
<1>7. ASSUME NEW j \in 1 .. Len(u) PROVE u[j] = v[j]
  <2>1. j = Len(s) + 1 \/ j \in 1 .. Len(s)
    BY <1>2, <1>4
  <2> QED
    BY <1>2, <1>4, <1>6, <2>1
<1>8. u = v
  BY <1>2, <1>4, <1>6, <1>7, SeqEqual
<1> QED
  BY <1>1, <1>3, <1>5, <1>8

LEMMA ExtendedNew ==
  ASSUME NEW bs \in Seq(Block), NEW type \in BlockTypes, NEW piece \in Nat
  PROVE  Extended(Append(bs, [type |-> type, pieces |-> <<>>]), piece)
           = Append(bs, ContentBlock(type, piece))
<1> DEFINE new == [type |-> type, pieces |-> <<>>]
           as == Append(bs, new)
           b == ContentBlock(type, piece)
           n == Len(bs) + 1
<1>1. new \in Block /\ b \in Block
  BY DEF Block, ContentBlock
<1>2. b = [type |-> new.type, pieces |-> Append(new.pieces, piece)]
  BY DEF ContentBlock
<1> HIDE DEF new, b
<1>3. as \in Seq(Block) /\ Len(as) = n /\ as[n] = new
  BY <1>1, AppendProperties
<1>4. Extended(as, piece) = [as EXCEPT ![n] = b]
  BY <1>2, <1>3 DEF Extended
<1>5. [as EXCEPT ![n] = b] = Append(bs, b)
  BY <1>1, ReplaceLast
<1> QED
  BY <1>4, <1>5 DEF new, b
-----------------------------------------------------------------------------
(* The Anthropic translator and its client: what each frame does.          *)

StateOf(b, cur, i) == [started |-> b, current |-> cur, index |-> i]
Writer(s, o)       == [st |-> s, out |-> o]

Yes(b) == b = TRUE
No(b)  == b = FALSE

\* The client is where the translator believes it to be.
InStep(b, cur, i, d) ==
  /\ Yes(b) \/ No(b)
  /\ cur \in BlockTypes \cup {"none"} /\ i \in Nat
  /\ d \in AnthropicClient
  /\ d.at = IF cur # "none" THEN "block" ELSE IF Yes(b) THEN "message" ELSE "none"
  /\ Len(d.blocks) = IF cur # "none" THEN i + 1 ELSE i
  /\ cur # "none" => Yes(b) /\ LastType(d.blocks) = cur

\* The arms of AnthropicReceives.
LEMMA MessageStartArrives ==
  ASSUME NEW d \in AnthropicClient, d.at = "none"
  PROVE  LET f == [name |-> "message_start"] IN
         /\ AnthropicAccepts(d, f) /\ f \in AnthropicFrame /\ \A U : Reports(f, U)
         /\ AnthropicReceives(d, f) = [d EXCEPT !.at = "message"]
         /\ AnthropicReceives(d, f) \in AnthropicClient
<1> DEFINE f == [name |-> "message_start"]
<1>1. f.name = "message_start" /\ f \in AnthropicFrame
  BY DEF AnthropicFrame
<1> HIDE DEF f
<1>2. AnthropicAccepts(d, f)
  BY <1>1 DEF AnthropicAccepts
<1>3. AnthropicReceives(d, f) = [d EXCEPT !.at = "message"]
  BY <1>1, <1>2 DEF AnthropicReceives
<1>4. [d EXCEPT !.at = "message"] \in AnthropicClient
  BY DEF AnthropicClient
<1> QED
  BY <1>1, <1>2, <1>3, <1>4 DEF f, Reports

LEMMA BlockStartArrives ==
  ASSUME NEW d \in AnthropicClient, d.at = "message", NEW type \in BlockTypes
  PROVE  LET f == [name |-> "content_block_start", index |-> Len(d.blocks), type |-> type] IN
         /\ AnthropicAccepts(d, f) /\ f \in AnthropicFrame /\ \A U : Reports(f, U)
         /\ AnthropicReceives(d, f) =
              [d EXCEPT !.at = "block",
                        !.blocks = Append(@, [type |-> type, pieces |-> <<>>])]
         /\ AnthropicReceives(d, f) \in AnthropicClient
<1> DEFINE f == [name |-> "content_block_start", index |-> Len(d.blocks), type |-> type]
           bs == Append(d.blocks, [type |-> type, pieces |-> <<>>])
<1>0. d.blocks \in Seq(Block)
  BY DEF AnthropicClient
<1>1. /\ f.name = "content_block_start" /\ f.index = Len(d.blocks) /\ f.type = type
      /\ f \in AnthropicFrame
  BY <1>0 DEF AnthropicFrame
<1> HIDE DEF f
<1>2. AnthropicAccepts(d, f)
  BY <1>1 DEF AnthropicAccepts
<1>3. AnthropicReceives(d, f) = [d EXCEPT !.at = "block", !.blocks = bs]
  BY <1>1, <1>2 DEF AnthropicReceives
<1>4. bs \in Seq(Block)
  BY <1>0 DEF Block
<1>5. [d EXCEPT !.at = "block", !.blocks = bs] \in AnthropicClient
  BY <1>4 DEF AnthropicClient
<1> QED
  BY <1>1, <1>2, <1>3, <1>5 DEF f, Reports

LEMMA BlockDeltaArrives ==
  ASSUME NEW d \in AnthropicClient, d.at = "block", Len(d.blocks) > 0,
         NEW type \in BlockTypes, LastType(d.blocks) = type, NEW piece \in Nat
  PROVE  LET f == [name |-> "content_block_delta", index |-> Len(d.blocks) - 1,
                   type |-> type, piece |-> piece] IN
         /\ AnthropicAccepts(d, f) /\ f \in AnthropicFrame /\ \A U : Reports(f, U)
         /\ AnthropicReceives(d, f) = [d EXCEPT !.blocks = Extended(@, piece)]
         /\ AnthropicReceives(d, f) \in AnthropicClient
<1> DEFINE f == [name |-> "content_block_delta", index |-> Len(d.blocks) - 1,
                 type |-> type, piece |-> piece]
           bs == Extended(d.blocks, piece)
<1>0. d.blocks \in Seq(Block)
  BY DEF AnthropicClient
<1>1. /\ f.name = "content_block_delta" /\ f.index = Len(d.blocks) - 1 /\ f.type = type
      /\ f.piece = piece /\ f \in AnthropicFrame
  BY <1>0 DEF AnthropicFrame
<1> HIDE DEF f
<1>2. AnthropicAccepts(d, f)
  BY <1>1 DEF AnthropicAccepts, LastType
<1>3. AnthropicReceives(d, f) = [d EXCEPT !.blocks = bs]
  BY <1>1, <1>2 DEF AnthropicReceives
<1>4. bs \in Seq(Block)
  BY <1>0, ExtendedBlocks
<1> HIDE DEF bs
<1>5. [d EXCEPT !.blocks = bs] \in AnthropicClient
  BY <1>4 DEF AnthropicClient
<1> QED
  BY <1>1, <1>2, <1>3, <1>5 DEF f, Reports, bs

LEMMA BlockStopArrives ==
  ASSUME NEW d \in AnthropicClient, d.at = "block", Len(d.blocks) > 0
  PROVE  LET f == [name |-> "content_block_stop", index |-> Len(d.blocks) - 1] IN
         /\ AnthropicAccepts(d, f) /\ f \in AnthropicFrame /\ \A U : Reports(f, U)
         /\ AnthropicReceives(d, f) = [d EXCEPT !.at = "message"]
         /\ AnthropicReceives(d, f) \in AnthropicClient
<1> DEFINE f == [name |-> "content_block_stop", index |-> Len(d.blocks) - 1]
<1>0. d.blocks \in Seq(Block)
  BY DEF AnthropicClient
<1>1. f.name = "content_block_stop" /\ f.index = Len(d.blocks) - 1 /\ f \in AnthropicFrame
  BY <1>0 DEF AnthropicFrame
<1> HIDE DEF f
<1>2. AnthropicAccepts(d, f)
  BY <1>1 DEF AnthropicAccepts
<1>3. AnthropicReceives(d, f) = [d EXCEPT !.at = "message"]
  BY <1>1, <1>2 DEF AnthropicReceives
<1>4. [d EXCEPT !.at = "message"] \in AnthropicClient
  BY DEF AnthropicClient
<1> QED
  BY <1>1, <1>2, <1>3, <1>4 DEF f, Reports

LEMMA LastWordsArrive ==
  ASSUME NEW d \in AnthropicClient
  PROVE  /\ \A u \in Nat : LET f == [name |-> "message_delta", usage |-> u] IN
              d.at = "message" =>
                /\ AnthropicAccepts(d, f) /\ f \in AnthropicFrame
                /\ AnthropicReceives(d, f) = [d EXCEPT !.at = "delta", !.usage = u]
                /\ AnthropicReceives(d, f) \in AnthropicClient
         /\ LET f == [name |-> "message_stop"] IN
              d.at = "delta" =>
                /\ AnthropicAccepts(d, f) /\ f \in AnthropicFrame /\ \A U : Reports(f, U)
                /\ AnthropicReceives(d, f) = [d EXCEPT !.at = "stopped"]
                /\ AnthropicReceives(d, f) \in AnthropicClient
         /\ LET f == [name |-> "error"] IN
              d.at \in {"none", "message", "block"} =>
                /\ AnthropicAccepts(d, f) /\ f \in AnthropicFrame /\ \A U : Reports(f, U)
                /\ AnthropicReceives(d, f) = [d EXCEPT !.at = "failed"]
                /\ AnthropicReceives(d, f) \in AnthropicClient
<1>1. ASSUME NEW u \in Nat, d.at = "message"
      PROVE  LET f == [name |-> "message_delta", usage |-> u] IN
             /\ AnthropicAccepts(d, f) /\ f \in AnthropicFrame
             /\ AnthropicReceives(d, f) = [d EXCEPT !.at = "delta", !.usage = u]
             /\ AnthropicReceives(d, f) \in AnthropicClient
  <2> DEFINE f == [name |-> "message_delta", usage |-> u]
  <2>1. f.name = "message_delta" /\ f.usage = u /\ f \in AnthropicFrame
    BY DEF AnthropicFrame
  <2> HIDE DEF f
  <2>2. AnthropicAccepts(d, f)
    BY <1>1, <2>1 DEF AnthropicAccepts
  <2>3. AnthropicReceives(d, f) = [d EXCEPT !.at = "delta", !.usage = u]
    BY <2>1, <2>2 DEF AnthropicReceives
  <2>4. [d EXCEPT !.at = "delta", !.usage = u] \in AnthropicClient
    BY DEF AnthropicClient
  <2> QED
    BY <2>1, <2>2, <2>3, <2>4 DEF f
<1>2. ASSUME d.at = "delta"
      PROVE  LET f == [name |-> "message_stop"] IN
             /\ AnthropicAccepts(d, f) /\ f \in AnthropicFrame /\ \A U : Reports(f, U)
             /\ AnthropicReceives(d, f) = [d EXCEPT !.at = "stopped"]
             /\ AnthropicReceives(d, f) \in AnthropicClient
  <2> DEFINE f == [name |-> "message_stop"]
  <2>1. f.name = "message_stop" /\ f \in AnthropicFrame
    BY DEF AnthropicFrame
  <2> HIDE DEF f
  <2>2. AnthropicAccepts(d, f)
    BY <1>2, <2>1 DEF AnthropicAccepts
  <2>3. AnthropicReceives(d, f) = [d EXCEPT !.at = "stopped"]
    BY <2>1, <2>2 DEF AnthropicReceives
  <2>4. [d EXCEPT !.at = "stopped"] \in AnthropicClient
    BY DEF AnthropicClient
  <2> QED
    BY <2>1, <2>2, <2>3, <2>4 DEF f, Reports
<1>3. ASSUME d.at \in {"none", "message", "block"}
      PROVE  LET f == [name |-> "error"] IN
             /\ AnthropicAccepts(d, f) /\ f \in AnthropicFrame /\ \A U : Reports(f, U)
             /\ AnthropicReceives(d, f) = [d EXCEPT !.at = "failed"]
             /\ AnthropicReceives(d, f) \in AnthropicClient
  <2> DEFINE f == [name |-> "error"]
  <2>1. f.name = "error" /\ f \in AnthropicFrame
    BY DEF AnthropicFrame
  <2> HIDE DEF f
  <2>2. AnthropicAccepts(d, f)
    BY <1>3, <2>1 DEF AnthropicAccepts
  <2>3. AnthropicReceives(d, f) = [d EXCEPT !.at = "failed"]
    BY <2>1, <2>2 DEF AnthropicReceives
  <2>4. [d EXCEPT !.at = "failed"] \in AnthropicClient
    BY DEF AnthropicClient
  <2> QED
    BY <2>1, <2>2, <2>3, <2>4 DEF f, Reports
<1> QED
  BY <1>1, <1>2, <1>3

-----------------------------------------------------------------------------
(* The Anthropic translator's helpers.                                     *)

BlockStart(i, type)        == [name |-> "content_block_start", index |-> i, type |-> type]
BlockStop(i)               == [name |-> "content_block_stop", index |-> i]
DeltaFrame(i, type, piece) ==
  [name |-> "content_block_delta", index |-> i, type |-> type, piece |-> piece]

LEMMA CloseCurrentIs ==
  ASSUME NEW b, NEW cur, NEW i, NEW o
  PROVE  closeCurrent(Writer(StateOf(b, cur, i), o)) =
           IF cur = "none" THEN Writer(StateOf(b, cur, i), o)
           ELSE Writer(StateOf(b, "none", i + 1), Append(o, BlockStop(i)))
<1>1. CASE cur = "none"
  BY <1>1 DEF closeCurrent, Writer, StateOf
<1>2. CASE cur # "none"
  <2>1. closeCurrent(Writer(StateOf(b, cur, i), o))
          = Writer(StateOf(b, "none", i + 1), Append(o, BlockStop(i)))
    BY <1>2 DEF closeCurrent, Emit, Writer, StateOf, BlockStop
  <2> QED
    BY <1>2, <2>1
<1> QED
  BY <1>1, <1>2

LEMMA OpenBlockIs ==
  ASSUME NEW b, NEW i, NEW o, NEW wr, NEW type,
         closeCurrent(wr) = Writer(StateOf(b, "none", i), o)
  PROVE  openBlock(wr, type) = Writer(StateOf(b, type, i), Append(o, BlockStart(i, type)))
<1>1. closeCurrent(wr).st.index = i
  BY DEF Writer, StateOf
<1>2. openBlock(wr, type)
        = [Emit(closeCurrent(wr), BlockStart(i, type)) EXCEPT !.st.current = type]
  BY <1>1, Zenon DEF openBlock, BlockStart
<1> DEFINE s == StateOf(b, "none", i)
           q == Append(o, BlockStart(i, type))
<1>3. [s EXCEPT !.current = type] = StateOf(b, type, i)
  BY DEF StateOf
<1> HIDE DEF s
<1>4. Emit(Writer(s, o), BlockStart(i, type)) = Writer(s, q)
  BY DEF Emit, Writer
<1> HIDE DEF q
<1>5. [Writer(s, q) EXCEPT !.st.current = type] = Writer([s EXCEPT !.current = type], q)
  BY DEF Writer
<1> QED
  BY <1>2, <1>3, <1>4, <1>5 DEF s, q

LEMMA MessageStartIs ==
  ASSUME NEW b, NEW t, Yes(t), NEW cur, NEW i, NEW o
  PROVE  /\ Yes(b) => emitMessageStart(Writer(StateOf(b, cur, i), o)) = Writer(StateOf(b, cur, i), o)
         /\ No(b) => emitMessageStart(Writer(StateOf(b, cur, i), o))
                    = Writer(StateOf(t, cur, i), Append(o, [name |-> "message_start"]))
<1>1. ASSUME Yes(b)
      PROVE  emitMessageStart(Writer(StateOf(b, cur, i), o)) = Writer(StateOf(b, cur, i), o)
  BY <1>1 DEF emitMessageStart, Writer, StateOf, Yes
<1>2. ASSUME No(b)
      PROVE  emitMessageStart(Writer(StateOf(b, cur, i), o))
               = Writer(StateOf(t, cur, i), Append(o, [name |-> "message_start"]))
  BY <1>2 DEF emitMessageStart, Emit, Writer, StateOf, Yes, No
<1> QED
  BY <1>1, <1>2

LEMMA BlockDeltaIs ==
  ASSUME NEW b, NEW cur, NEW i, NEW o, NEW piece
  PROVE  BlockDelta(Writer(StateOf(b, cur, i), o), piece) =
           Writer(StateOf(b, cur, i), Append(o, DeltaFrame(i, cur, piece)))
BY DEF BlockDelta, Emit, Writer, StateOf, DeltaFrame

\* A client c that reads what the writer has written becomes d, and is where
\* the writer's state says.
Reaches(wr, U, c, b, cur, i, d) ==
  \E o : /\ wr = Writer(StateOf(b, cur, i), o)
         /\ Becomes("anthropic", U, c, o, d)
         /\ InStep(b, cur, i, d)

LEMMA FrameReaches ==
  ASSUME NEW o, NEW U, NEW c, NEW d, NEW f \in AnthropicFrame, Reports(f, U),
         Becomes("anthropic", U, c, o, d), AnthropicAccepts(d, f),
         AnthropicReceives(d, f) \in AnthropicClient
  PROVE  Becomes("anthropic", U, c, Append(o, f), AnthropicReceives(d, f))
BY BecomesAppend DEF AcceptsAs, ReceivesAs, ClientOf, FrameOf

LEMMA CloseCurrentReaches ==
  ASSUME NEW wr, NEW U, NEW c, NEW b, NEW cur, NEW i, NEW d,
         Reaches(wr, U, c, b, cur, i, d)
  PROVE  \E j, e : /\ Reaches(closeCurrent(wr), U, c, b, "none", j, e)
                   /\ e.blocks = d.blocks /\ e.usage = d.usage
<1>1. PICK o : /\ wr = Writer(StateOf(b, cur, i), o)
               /\ Becomes("anthropic", U, c, o, d) /\ InStep(b, cur, i, d)
  BY DEF Reaches
<1>2. CASE cur = "none"
  BY <1>1, <1>2, CloseCurrentIs DEF Reaches
<1>3. CASE cur # "none"
  <2> DEFINE e == AnthropicReceives(d, BlockStop(i))
  <2>1. /\ d \in AnthropicClient /\ d.at = "block" /\ Len(d.blocks) = i + 1
        /\ i \in Nat /\ Yes(b)
    BY <1>1, <1>3 DEF InStep
  <2>2. i = Len(d.blocks) - 1 /\ Len(d.blocks) > 0
    BY <2>1
  <2>3. /\ AnthropicAccepts(d, BlockStop(i)) /\ BlockStop(i) \in AnthropicFrame
        /\ Reports(BlockStop(i), U)
        /\ e = [d EXCEPT !.at = "message"] /\ e \in AnthropicClient
    BY <2>1, <2>2, BlockStopArrives DEF BlockStop
  <2> HIDE DEF e
  <2>4. closeCurrent(wr) = Writer(StateOf(b, "none", i + 1), Append(o, BlockStop(i)))
    BY <1>1, <1>3, CloseCurrentIs
  <2>5. Becomes("anthropic", U, c, Append(o, BlockStop(i)), e)
    BY <1>1, <2>3, FrameReaches DEF e
  <2>6. e.at = "message" /\ e.blocks = d.blocks /\ e.usage = d.usage
    BY <2>1, <2>3 DEF AnthropicClient
  <2>7. InStep(b, "none", i + 1, e)
    BY <2>1, <2>3, <2>6 DEF InStep
  <2>8. Reaches(closeCurrent(wr), U, c, b, "none", i + 1, e)
    BY <2>4, <2>5, <2>7 DEF Reaches
  <2> QED
    BY <2>6, <2>8
<1> QED
  BY <1>2, <1>3

LEMMA OpenBlockReaches ==
  ASSUME NEW wr, NEW U, NEW c, NEW b, NEW cur, NEW i, NEW d,
         Yes(b), Reaches(wr, U, c, b, cur, i, d), NEW type \in BlockTypes
  PROVE  \E j, e : /\ Reaches(openBlock(wr, type), U, c, b, type, j, e)
                   /\ e.blocks = Append(d.blocks, [type |-> type, pieces |-> <<>>])
                   /\ e.usage = d.usage
<1> DEFINE new == [type |-> type, pieces |-> <<>>]
<1>1. PICK j, f : /\ Reaches(closeCurrent(wr), U, c, b, "none", j, f)
                  /\ f.blocks = d.blocks /\ f.usage = d.usage
  BY CloseCurrentReaches
<1>2. PICK o : /\ closeCurrent(wr) = Writer(StateOf(b, "none", j), o)
               /\ Becomes("anthropic", U, c, o, f) /\ InStep(b, "none", j, f)
  BY <1>1 DEF Reaches
<1> DEFINE e == AnthropicReceives(f, BlockStart(j, type))
<1>3. f \in AnthropicClient /\ f.at = "message" /\ Len(f.blocks) = j /\ j \in Nat
  BY <1>2 DEF InStep
<1>4. /\ AnthropicAccepts(f, BlockStart(j, type)) /\ BlockStart(j, type) \in AnthropicFrame
      /\ Reports(BlockStart(j, type), U)
      /\ e = [f EXCEPT !.at = "block", !.blocks = Append(@, new)]
      /\ e \in AnthropicClient
  BY <1>3, BlockStartArrives DEF BlockStart
<1> HIDE DEF e, new
<1>5. openBlock(wr, type) = Writer(StateOf(b, type, j), Append(o, BlockStart(j, type)))
  BY <1>2, OpenBlockIs
<1>6. Becomes("anthropic", U, c, Append(o, BlockStart(j, type)), e)
  BY <1>2, <1>4, FrameReaches DEF e
<1>7. e.at = "block" /\ e.blocks = Append(f.blocks, new) /\ e.usage = f.usage
  BY <1>3, <1>4 DEF AnthropicClient
<1>8. Len(e.blocks) = j + 1 /\ LastType(e.blocks) = type
  <2>1. f.blocks \in Seq(Block)
    BY <1>3 DEF AnthropicClient
  <2>2. new \in Block /\ new.type = type
    BY DEF Block, new
  <2>3. Len(Append(f.blocks, new)) = j + 1 /\ Append(f.blocks, new)[j + 1] = new
    BY <1>3, <2>1, <2>2, AppendProperties
  <2> QED
    BY <1>7, <2>2, <2>3 DEF LastType
<1>9. type # "none"
  BY DEF BlockTypes
<1>10. InStep(b, type, j, e)
  BY <1>3, <1>4, <1>7, <1>8, <1>9 DEF InStep
<1>11. Reaches(openBlock(wr, type), U, c, b, type, j, e)
  BY <1>5, <1>6, <1>10 DEF Reaches
<1>12. e.blocks = Append(d.blocks, [type |-> type, pieces |-> <<>>]) /\ e.usage = d.usage
  BY <1>1, <1>7 DEF new
<1> QED
  BY <1>11, <1>12

LEMMA MessageStartReaches ==
  ASSUME NEW wr, NEW U, NEW c, NEW b, NEW cur, NEW i, NEW d,
         Reaches(wr, U, c, b, cur, i, d)
  PROVE  \E t, e : /\ Yes(t) /\ Reaches(emitMessageStart(wr), U, c, t, cur, i, e)
                   /\ e.blocks = d.blocks /\ e.usage = d.usage
<1>1. PICK o : /\ wr = Writer(StateOf(b, cur, i), o)
               /\ Becomes("anthropic", U, c, o, d) /\ InStep(b, cur, i, d)
  BY DEF Reaches
<1>2. Yes(b) \/ No(b)
  BY <1>1 DEF InStep
<1>0. PICK t : Yes(t)
  BY DEF Yes
<1>3. CASE Yes(b)
  <2>1. emitMessageStart(wr) = wr
    BY <1>0, <1>1, <1>2, <1>3, MessageStartIs
  <2> QED
    BY <1>3, <2>1
<1>4. CASE No(b)
  <2> DEFINE f == [name |-> "message_start"]
             e == AnthropicReceives(d, f)
  <2>1. d \in AnthropicClient /\ d.at = "none" /\ cur = "none" /\ Len(d.blocks) = i /\ i \in Nat
    BY <1>1, <1>4 DEF InStep, Yes, No
  <2>2. /\ AnthropicAccepts(d, f) /\ f \in AnthropicFrame /\ Reports(f, U)
        /\ e = [d EXCEPT !.at = "message"] /\ e \in AnthropicClient
    BY <2>1, MessageStartArrives
  <2>3. emitMessageStart(wr) = Writer(StateOf(t, cur, i), Append(o, f))
    BY <1>0, <1>1, <1>2, <1>4, MessageStartIs
  <2> HIDE DEF f, e
  <2>4. Becomes("anthropic", U, c, Append(o, f), e)
    BY <1>1, <2>2, FrameReaches DEF e
  <2>5. e.at = "message" /\ e.blocks = d.blocks /\ e.usage = d.usage
    BY <2>1, <2>2 DEF AnthropicClient
  <2>6. InStep(t, cur, i, e)
    BY <1>0, <2>1, <2>2, <2>5 DEF InStep
  <2>7. Reaches(emitMessageStart(wr), U, c, t, cur, i, e)
    BY <2>3, <2>4, <2>6 DEF Reaches
  <2> QED
    BY <1>0, <2>5, <2>7
<1> QED
  BY <1>2, <1>3, <1>4

LEMMA BlockDeltaReaches ==
  ASSUME NEW wr, NEW U, NEW c, NEW b, NEW cur, NEW i, NEW d,
         Reaches(wr, U, c, b, cur, i, d), NEW piece \in Nat, cur # "none"
  PROVE  \E e : /\ Reaches(BlockDelta(wr, piece), U, c, b, cur, i, e)
                /\ e.blocks = Extended(d.blocks, piece) /\ e.usage = d.usage
<1>1. PICK o : /\ wr = Writer(StateOf(b, cur, i), o)
               /\ Becomes("anthropic", U, c, o, d) /\ InStep(b, cur, i, d)
  BY DEF Reaches
<1> DEFINE f == DeltaFrame(i, cur, piece)
           e == AnthropicReceives(d, f)
<1>2. /\ d \in AnthropicClient /\ d.at = "block" /\ Len(d.blocks) = i + 1
      /\ i \in Nat /\ cur \in BlockTypes /\ Yes(b)
      /\ LastType(d.blocks) = cur
  BY <1>1 DEF InStep
<1>3. i = Len(d.blocks) - 1 /\ Len(d.blocks) > 0 /\ d.blocks \in Seq(Block)
  BY <1>2 DEF AnthropicClient
<1>4. BlockDelta(wr, piece) = Writer(StateOf(b, cur, i), Append(o, f))
  BY <1>1, BlockDeltaIs
<1>5. /\ AnthropicAccepts(d, f) /\ f \in AnthropicFrame /\ Reports(f, U)
      /\ e = [d EXCEPT !.blocks = Extended(@, piece)] /\ e \in AnthropicClient
  BY <1>2, <1>3, BlockDeltaArrives DEF DeltaFrame
<1> HIDE DEF f, e
<1>6. Becomes("anthropic", U, c, Append(o, f), e)
  BY <1>1, <1>5, FrameReaches DEF e
<1>7. e.at = "block" /\ e.blocks = Extended(d.blocks, piece) /\ e.usage = d.usage
  BY <1>2, <1>5 DEF AnthropicClient
<1>8. Len(e.blocks) = Len(d.blocks) /\ LastType(e.blocks) = cur
  BY <1>2, <1>3, <1>7, ExtendedBlocks
<1>9. InStep(b, cur, i, e)
  BY <1>2, <1>5, <1>7, <1>8 DEF InStep
<1>10. Reaches(BlockDelta(wr, piece), U, c, b, cur, i, e)
  BY <1>4, <1>6, <1>9 DEF Reaches
<1> QED
  BY <1>7, <1>10

-----------------------------------------------------------------------------
(* The unary reading.                                                      *)

Accumulated ==
  [blocks : Seq(Block), mergeable : BlockTypes \cup {"none"}, usage : Nat, finished : BOOLEAN]

\* The block deltas may go on in is the last one.
AccOK(a) ==
  /\ a \in Accumulated
  /\ a.mergeable # "none" => Len(a.blocks) > 0 /\ LastType(a.blocks) = a.mergeable

LEMMA AccumulateDelta ==
  ASSUME NEW a, AccOK(a), NEW ev, ev.type \in Deltas, ev.piece \in Nat
  PROVE  LET type == BlockType(ev.type) IN
         /\ AccOK(Accumulate(a, ev)) /\ type \in BlockTypes
         /\ Accumulate(a, ev).blocks =
              IF a.mergeable = type THEN Extended(a.blocks, ev.piece)
              ELSE Append(a.blocks, ContentBlock(type, ev.piece))
         /\ Accumulate(a, ev).mergeable = type
         /\ Accumulate(a, ev).usage = a.usage /\ Accumulate(a, ev).finished = a.finished
<1> DEFINE type == BlockType(ev.type)
           p == ev.piece
           long == Extended(a.blocks, p)
           more == Append(a.blocks, ContentBlock(type, p))
<1>1. type \in BlockTypes
  BY DEF BlockType, BlockTypes, Deltas
<1>2. Accumulate(a, ev) = absorb(a, type, p)
  BY DEF Accumulate, Deltas
<1> HIDE DEF type, p
<1>3. a \in Accumulated /\ a.blocks \in Seq(Block) /\ p \in Nat
  BY DEF AccOK, Accumulated, p
<1>4. type # "none"
  BY <1>1 DEF BlockTypes
<1>5. CASE a.mergeable = type
  <2>1. absorb(a, type, p) = [a EXCEPT !.blocks = long]
    BY <1>5 DEF absorb
  <2>2. long \in Seq(Block) /\ Len(long) > 0 /\ LastType(long) = type
    BY <1>3, <1>4, <1>5, ExtendedBlocks DEF AccOK
  <2> HIDE DEF long
  <2>3. /\ [a EXCEPT !.blocks = long] \in Accumulated
        /\ [a EXCEPT !.blocks = long].blocks = long
        /\ [a EXCEPT !.blocks = long].mergeable = type
        /\ [a EXCEPT !.blocks = long].usage = a.usage
        /\ [a EXCEPT !.blocks = long].finished = a.finished
    BY <1>3, <1>5, <2>2 DEF Accumulated
  <2> QED
    BY <1>1, <1>2, <1>5, <2>1, <2>2, <2>3 DEF AccOK, type, long, p
<1>6. CASE a.mergeable # type
  <2>1. absorb(a, type, p) = [a EXCEPT !.blocks = more, !.mergeable = type]
    BY <1>6 DEF absorb
  <2>2. ContentBlock(type, p) \in Block /\ ContentBlock(type, p).type = type
    BY <1>1, <1>3 DEF ContentBlock, Block
  <2>3. more \in Seq(Block) /\ Len(more) = Len(a.blocks) + 1
        /\ more[Len(a.blocks) + 1] = ContentBlock(type, p)
    BY <1>3, <2>2, AppendProperties
  <2>4. Len(more) > 0 /\ LastType(more) = type
    BY <1>3, <2>2, <2>3 DEF LastType
  <2> HIDE DEF more
  <2>5. /\ [a EXCEPT !.blocks = more, !.mergeable = type] \in Accumulated
        /\ [a EXCEPT !.blocks = more, !.mergeable = type].blocks = more
        /\ [a EXCEPT !.blocks = more, !.mergeable = type].mergeable = type
        /\ [a EXCEPT !.blocks = more, !.mergeable = type].usage = a.usage
        /\ [a EXCEPT !.blocks = more, !.mergeable = type].finished = a.finished
    BY <1>1, <1>3, <2>3 DEF Accumulated
  <2> QED
    BY <1>1, <1>2, <1>6, <2>1, <2>4, <2>5 DEF AccOK, type, more, p
<1> QED
  BY <1>5, <1>6

LEMMA AccumulateToolCall ==
  ASSUME NEW a, AccOK(a), NEW ev, ev.type = "tool-call", ev.piece \in Nat
  PROVE  /\ AccOK(Accumulate(a, ev))
         /\ Accumulate(a, ev).blocks = Append(a.blocks, ContentBlock("tool_use", ev.piece))
         /\ Accumulate(a, ev).mergeable = "none"
         /\ Accumulate(a, ev).usage = a.usage /\ Accumulate(a, ev).finished = a.finished
<1> DEFINE more == Append(a.blocks, ContentBlock("tool_use", ev.piece))
<1>1. Accumulate(a, ev) = [a EXCEPT !.blocks = more, !.mergeable = "none"]
  BY DEF Accumulate, Deltas
<1>2. ContentBlock("tool_use", ev.piece) \in Block
  BY DEF ContentBlock, Block, BlockTypes
<1>3. a \in Accumulated /\ more \in Seq(Block)
  BY <1>2 DEF AccOK, Accumulated
<1> HIDE DEF more
<1>4. /\ [a EXCEPT !.blocks = more, !.mergeable = "none"] \in Accumulated
      /\ [a EXCEPT !.blocks = more, !.mergeable = "none"].blocks = more
      /\ [a EXCEPT !.blocks = more, !.mergeable = "none"].mergeable = "none"
      /\ [a EXCEPT !.blocks = more, !.mergeable = "none"].usage = a.usage
      /\ [a EXCEPT !.blocks = more, !.mergeable = "none"].finished = a.finished
  BY <1>3 DEF Accumulated
<1> QED
  BY <1>1, <1>4 DEF AccOK, more

LEMMA AccumulateEnd ==
  ASSUME NEW a, AccOK(a), NEW ev, ev.piece \in Nat
  PROVE  /\ ev.type = "reasoning-end" =>
              /\ AccOK(Accumulate(a, ev))
              /\ Accumulate(a, ev).blocks = a.blocks
              /\ Accumulate(a, ev).mergeable = "none"
              /\ Accumulate(a, ev).usage = a.usage
              /\ Accumulate(a, ev).finished = a.finished
         /\ ev.type = "finish" =>
              /\ AccOK(Accumulate(a, ev))
              /\ Accumulate(a, ev).blocks = a.blocks
              /\ Accumulate(a, ev).usage = ev.piece
              /\ Accumulate(a, ev).finished = TRUE
         /\ ev.type \in {"start", "error", "other"} => Accumulate(a, ev) = a
<1>1. a \in Accumulated
  BY DEF AccOK
<1>2. ASSUME ev.type = "reasoning-end"
      PROVE  /\ AccOK(Accumulate(a, ev))
             /\ Accumulate(a, ev).blocks = a.blocks
             /\ Accumulate(a, ev).mergeable = "none"
             /\ Accumulate(a, ev).usage = a.usage
             /\ Accumulate(a, ev).finished = a.finished
  <2>1. Accumulate(a, ev) = [a EXCEPT !.mergeable = "none"]
    BY <1>2 DEF Accumulate, Deltas
  <2>2. /\ [a EXCEPT !.mergeable = "none"] \in Accumulated
        /\ [a EXCEPT !.mergeable = "none"].blocks = a.blocks
        /\ [a EXCEPT !.mergeable = "none"].mergeable = "none"
        /\ [a EXCEPT !.mergeable = "none"].usage = a.usage
        /\ [a EXCEPT !.mergeable = "none"].finished = a.finished
    BY <1>1 DEF Accumulated
  <2> QED
    BY <2>1, <2>2 DEF AccOK
<1>3. ASSUME ev.type = "finish"
      PROVE  /\ AccOK(Accumulate(a, ev))
             /\ Accumulate(a, ev).blocks = a.blocks
             /\ Accumulate(a, ev).usage = ev.piece
             /\ Accumulate(a, ev).finished = TRUE
  <2> DEFINE u == ev.piece
             z == [a EXCEPT !.usage = u, !.finished = TRUE]
  <2>1. Accumulate(a, ev) = z
    BY <1>3 DEF Accumulate, Deltas
  <2>2. u \in Nat
    OBVIOUS
  <2> HIDE DEF u
  <2>3. /\ z \in Accumulated
        /\ z.blocks = a.blocks
        /\ z.mergeable = a.mergeable
        /\ z.usage = u
        /\ z.finished = TRUE
    BY <1>1, <2>2 DEF Accumulated
  <2> HIDE DEF z
  <2> QED
    BY <2>1, <2>3 DEF AccOK, u
<1>4. ASSUME ev.type \in {"start", "error", "other"} PROVE Accumulate(a, ev) = a
  BY <1>4 DEF Accumulate, Deltas
<1> QED
  BY <1>2, <1>3, <1>4
-----------------------------------------------------------------------------
(* One event of the Anthropic translator.                                  *)

LEMMA AnthropicEventIs ==
  ASSUME NEW s, NEW ev
  PROVE  /\ ev.type = "start" => AnthropicEvent(s, ev) = emitMessageStart(Writer(s, <<>>))
         /\ ev.type \in Deltas =>
              AnthropicEvent(s, ev) =
                contentDelta(emitMessageStart(Writer(s, <<>>)), BlockType(ev.type), ev.piece)
         /\ ev.type = "reasoning-end" =>
              AnthropicEvent(s, ev) =
                IF s.current = "thinking" THEN closeCurrent(Writer(s, <<>>)) ELSE Writer(s, <<>>)
         /\ ev.type = "tool-call" =>
              AnthropicEvent(s, ev) =
                closeCurrent(BlockDelta(openBlock(emitMessageStart(Writer(s, <<>>)), "tool_use"),
                                        ev.piece))
         /\ ev.type = "finish" =>
              AnthropicEvent(s, ev) =
                Emit(Emit(closeCurrent(Writer(s, <<>>)),
                          [name |-> "message_delta", usage |-> ev.piece]),
                     [name |-> "message_stop"])
         /\ ev.type = "error" => AnthropicEvent(s, ev) = Emit(Writer(s, <<>>), [name |-> "error"])
         /\ ev.type = "other" => AnthropicEvent(s, ev) = Writer(s, <<>>)
BY DEF AnthropicEvent, Writer, Deltas

\* The translator and its client between two events, and the unary reading.
Matched(b, cur, i, a, d) ==
  /\ InStep(b, cur, i, d) /\ AccOK(a) /\ a.finished = FALSE
  /\ d.blocks = a.blocks /\ d.usage = a.usage /\ a.mergeable = cur

LEMMA StartsWritten ==
  ASSUME NEW U, NEW b, NEW cur, NEW i, NEW d, InStep(b, cur, i, d)
  PROVE  Reaches(Writer(StateOf(b, cur, i), <<>>), U, d, b, cur, i, d)
<1>1. d \in ClientOf("anthropic")
  BY DEF InStep, ClientOf
<1> QED
  BY <1>1, BecomesOfNone DEF Reaches

LEMMA ContentDeltaReaches ==
  ASSUME NEW wr, NEW U, NEW c, NEW b, NEW cur, NEW i, NEW d, Yes(b),
         Reaches(wr, U, c, b, cur, i, d), NEW type \in BlockTypes, NEW piece \in Nat
  PROVE  \E j, e : /\ Reaches(contentDelta(wr, type, piece), U, c, b, type, j, e)
                   /\ e.blocks = IF cur = type THEN Extended(d.blocks, piece)
                                 ELSE Append(d.blocks, ContentBlock(type, piece))
                   /\ e.usage = d.usage
<1>1. PICK o : wr = Writer(StateOf(b, cur, i), o) /\ InStep(b, cur, i, d)
  BY DEF Reaches
<1>2. type # "none"
  BY DEF BlockTypes
<1>3. wr.st.current = cur
  BY <1>1 DEF Writer, StateOf
<1>4. CASE cur = type
  <2>1. contentDelta(wr, type, piece) = BlockDelta(wr, piece)
    BY <1>3, <1>4, Zenon DEF contentDelta
  <2>2. \E e : /\ Reaches(BlockDelta(wr, piece), U, c, b, cur, i, e)
               /\ e.blocks = Extended(d.blocks, piece) /\ e.usage = d.usage
    BY <1>2, <1>4, BlockDeltaReaches
  <2> QED
    BY <1>4, <2>1, <2>2
<1>5. CASE cur # type
  <2>1. contentDelta(wr, type, piece) = BlockDelta(openBlock(wr, type), piece)
    BY <1>3, <1>5, Zenon DEF contentDelta
  <2>2. PICK j, f : /\ Reaches(openBlock(wr, type), U, c, b, type, j, f)
                    /\ f.blocks = Append(d.blocks, [type |-> type, pieces |-> <<>>])
                    /\ f.usage = d.usage
    BY OpenBlockReaches
  <2> DEFINE w == openBlock(wr, type)
  <2> HIDE DEF w
  <2>6. Reaches(w, U, c, b, type, j, f)
    BY <2>2 DEF w
  <2>7. \E e : /\ Reaches(BlockDelta(w, piece), U, c, b, type, j, e)
               /\ e.blocks = Extended(f.blocks, piece) /\ e.usage = f.usage
    BY <1>2, <2>6, BlockDeltaReaches
  <2>3. PICK e : /\ Reaches(BlockDelta(openBlock(wr, type), piece), U, c, b, type, j, e)
                 /\ e.blocks = Extended(f.blocks, piece) /\ e.usage = f.usage
    BY <2>7 DEF w
  <2>4. d.blocks \in Seq(Block)
    BY <1>1 DEF InStep, AnthropicClient
  <2>5. e.blocks = Append(d.blocks, ContentBlock(type, piece))
    BY <2>2, <2>3, <2>4, ExtendedNew
  <2> QED
    BY <1>5, <2>1, <2>2, <2>3, <2>5
<1> QED
  BY <1>4, <1>5

\* What an event that is not the last does to both readings.
Carries(wr, U, b, a, d, ev) ==
  \E t, cur, i, e :
    /\ Reaches(wr, U, d, t, cur, i, e) /\ Matched(t, cur, i, a, e)
    /\ Yes(b) \/ ev.type # "other" => Yes(t)
    /\ ev.type = "reasoning-delta" => cur = "thinking"

LEMMA AnthropicDelta ==
  ASSUME NEW U, NEW b, NEW cur, NEW i, NEW a, NEW d, Matched(b, cur, i, a, d),
         NEW ev, ev.type \in Deltas, ev.piece \in Nat
  PROVE  Carries(AnthropicEvent(StateOf(b, cur, i), ev), U, b, Accumulate(a, ev), d, ev)
<1> DEFINE type == BlockType(ev.type)
           p == ev.piece
           wr == AnthropicEvent(StateOf(b, cur, i), ev)
           z == Accumulate(a, ev)
           w == emitMessageStart(Writer(StateOf(b, cur, i), <<>>))
<1>1. /\ AccOK(z) /\ type \in BlockTypes
      /\ z.blocks = IF a.mergeable = type THEN Extended(a.blocks, p)
                    ELSE Append(a.blocks, ContentBlock(type, p))
      /\ z.mergeable = type /\ z.usage = a.usage /\ z.finished = a.finished
  BY AccumulateDelta DEF Matched
<1>0. PICK v : v = Writer(StateOf(b, cur, i), <<>>)
  OBVIOUS
<1>20. Reaches(v, U, d, b, cur, i, d)
  BY <1>0, StartsWritten DEF Matched
<1>21. PICK t, f : /\ Yes(t) /\ Reaches(emitMessageStart(v), U, d, t, cur, i, f)
                   /\ f.blocks = d.blocks /\ f.usage = d.usage
  BY <1>20, MessageStartReaches
<1>2. /\ Yes(t) /\ Reaches(w, U, d, t, cur, i, f)
      /\ f.blocks = d.blocks /\ f.usage = d.usage
  BY <1>0, <1>21
<1>3. wr = contentDelta(w, type, p)
  BY AnthropicEventIs
<1>4. p \in Nat
  OBVIOUS
<1>5. ev.type = "reasoning-delta" => type = "thinking"
  BY DEF BlockType
<1>6. ev.type # "other"
  BY DEF Deltas
<1> HIDE DEF type, p, wr, z, w
<1>7. PICK j, e : /\ Reaches(wr, U, d, t, type, j, e)
                  /\ e.blocks = IF cur = type THEN Extended(f.blocks, p)
                                ELSE Append(f.blocks, ContentBlock(type, p))
                  /\ e.usage = f.usage
  BY <1>1, <1>2, <1>3, <1>4, ContentDeltaReaches
<1>8. InStep(t, type, j, e)
  BY <1>7 DEF Reaches
<1>9. e.blocks = z.blocks /\ e.usage = z.usage
  BY <1>1, <1>2, <1>7 DEF Matched
<1>10. Matched(t, type, j, z, e)
  BY <1>1, <1>8, <1>9 DEF Matched
<1> QED
  BY <1>2, <1>5, <1>6, <1>7, <1>10 DEF Carries, wr, z

LEMMA AnthropicToolCall ==
  ASSUME NEW U, NEW b, NEW cur, NEW i, NEW a, NEW d, Matched(b, cur, i, a, d),
         NEW ev, ev.type = "tool-call", ev.piece \in Nat
  PROVE  Carries(AnthropicEvent(StateOf(b, cur, i), ev), U, b, Accumulate(a, ev), d, ev)
<1> DEFINE p == ev.piece
           wr == AnthropicEvent(StateOf(b, cur, i), ev)
           z == Accumulate(a, ev)
           w == emitMessageStart(Writer(StateOf(b, cur, i), <<>>))
<1>1. /\ AccOK(z)
      /\ z.blocks = Append(a.blocks, ContentBlock("tool_use", p))
      /\ z.mergeable = "none" /\ z.usage = a.usage /\ z.finished = a.finished
  BY AccumulateToolCall DEF Matched
<1>0. PICK v : v = Writer(StateOf(b, cur, i), <<>>)
  OBVIOUS
<1>20. Reaches(v, U, d, b, cur, i, d)
  BY <1>0, StartsWritten DEF Matched
<1>21. PICK t, f : /\ Yes(t) /\ Reaches(emitMessageStart(v), U, d, t, cur, i, f)
                   /\ f.blocks = d.blocks /\ f.usage = d.usage
  BY <1>20, MessageStartReaches
<1>2. /\ Yes(t) /\ Reaches(w, U, d, t, cur, i, f)
      /\ f.blocks = d.blocks /\ f.usage = d.usage
  BY <1>0, <1>21
<1>3. wr = closeCurrent(BlockDelta(openBlock(w, "tool_use"), p))
  BY AnthropicEventIs
<1>4. p \in Nat /\ "tool_use" \in BlockTypes
  BY DEF BlockTypes
<1> HIDE DEF p, wr, z, w
<1>5. PICK j, g : /\ Reaches(openBlock(w, "tool_use"), U, d, t, "tool_use", j, g)
                  /\ g.blocks = Append(f.blocks, [type |-> "tool_use", pieces |-> <<>>])
                  /\ g.usage = f.usage
  BY <1>2, <1>4, OpenBlockReaches
<1>50. PICK x : x = openBlock(w, "tool_use")
  OBVIOUS
<1>51. Reaches(x, U, d, t, "tool_use", j, g) /\ "tool_use" # "none"
  BY <1>5, <1>50
<1>52. PICK h : /\ Reaches(BlockDelta(x, p), U, d, t, "tool_use", j, h)
                /\ h.blocks = Extended(g.blocks, p) /\ h.usage = g.usage
  BY <1>4, <1>51, BlockDeltaReaches
<1>6. /\ Reaches(BlockDelta(openBlock(w, "tool_use"), p), U, d, t, "tool_use", j, h)
      /\ h.blocks = Extended(g.blocks, p) /\ h.usage = g.usage
  BY <1>50, <1>52
<1>7. PICK k, e : /\ Reaches(wr, U, d, t, "none", k, e)
                  /\ e.blocks = h.blocks /\ e.usage = h.usage
  BY <1>3, <1>6, CloseCurrentReaches
<1>8. InStep(t, "none", k, e)
  BY <1>7 DEF Reaches
<1>9. d.blocks \in Seq(Block)
  BY DEF Matched, InStep, AnthropicClient
<1>10. e.blocks = z.blocks /\ e.usage = z.usage
  BY <1>1, <1>2, <1>4, <1>5, <1>6, <1>7, <1>9, ExtendedNew DEF Matched
<1>11. Matched(t, "none", k, z, e)
  BY <1>1, <1>8, <1>10 DEF Matched
<1> QED
  BY <1>2, <1>7, <1>11 DEF Carries, wr, z

LEMMA AnthropicSmall ==
  ASSUME NEW U, NEW b, NEW cur, NEW i, NEW a, NEW d, Matched(b, cur, i, a, d),
         NEW ev, ev.type \in {"start", "reasoning-end", "other"}, ev.piece \in Nat,
         ev.type = "reasoning-end" => cur = "thinking"
  PROVE  Carries(AnthropicEvent(StateOf(b, cur, i), ev), U, b, Accumulate(a, ev), d, ev)
<1> DEFINE wr == AnthropicEvent(StateOf(b, cur, i), ev)
           z == Accumulate(a, ev)
           v == Writer(StateOf(b, cur, i), <<>>)
<1>1. Reaches(v, U, d, b, cur, i, d) /\ InStep(b, cur, i, d) /\ AccOK(a)
  BY StartsWritten DEF Matched
<1>2. CASE ev.type = "start"
  <2>1. PICK t, e : /\ Yes(t) /\ Reaches(emitMessageStart(v), U, d, t, cur, i, e)
                    /\ e.blocks = d.blocks /\ e.usage = d.usage
    BY <1>1, MessageStartReaches
  <2>2. wr = emitMessageStart(v) /\ z = a
    BY <1>1, <1>2, AnthropicEventIs, AccumulateEnd
  <2>3. InStep(t, cur, i, e)
    BY <2>1 DEF Reaches
  <2>4. Matched(t, cur, i, z, e)
    BY <2>1, <2>2, <2>3 DEF Matched
  <2> QED
    BY <1>2, <2>1, <2>2, <2>4 DEF Carries
<1>3. CASE ev.type = "reasoning-end"
  <2>1. PICK j, e : /\ Reaches(closeCurrent(v), U, d, b, "none", j, e)
                    /\ e.blocks = d.blocks /\ e.usage = d.usage
    BY <1>1, CloseCurrentReaches
  <2>2. /\ AccOK(z) /\ z.blocks = a.blocks /\ z.mergeable = "none"
        /\ z.usage = a.usage /\ z.finished = a.finished
    BY <1>1, <1>3, AccumulateEnd
  <2>3. wr = closeCurrent(v)
    <3>1. StateOf(b, cur, i).current = "thinking"
      BY <1>3 DEF StateOf
    <3> QED
      BY <1>3, <3>1, AnthropicEventIs
  <2>4. InStep(b, "none", j, e) /\ Yes(b)
    BY <1>1, <1>3, <2>1 DEF Reaches, InStep
  <2> HIDE DEF wr, z, v
  <2>5. Matched(b, "none", j, z, e)
    BY <2>1, <2>2, <2>4 DEF Matched
  <2> QED
    BY <1>3, <2>1, <2>3, <2>4, <2>5 DEF Carries, wr, z
<1>4. CASE ev.type = "other"
  <2>1. wr = v /\ z = a
    BY <1>1, <1>4, AnthropicEventIs, AccumulateEnd
  <2> QED
    BY <1>1, <1>4, <2>1 DEF Carries
<1> QED
  BY <1>2, <1>3, <1>4

LEMMA EmitIs ==
  ASSUME NEW s, NEW o, NEW f
  PROVE  Emit(Writer(s, o), f) = Writer(s, Append(o, f))
BY DEF Emit, Writer

\* The last words: finish closes the message, error ends it.
LEMMA AnthropicFinish ==
  ASSUME NEW U, NEW b, NEW cur, NEW i, NEW a, NEW d, Matched(b, cur, i, a, d), Yes(b),
         NEW ev, ev.type = "finish", ev.piece \in Nat, ev.piece \in U
  PROVE  \E j, o, e :
           /\ AnthropicEvent(StateOf(b, cur, i), ev) = Writer(StateOf(b, "none", j), o)
           /\ Becomes("anthropic", U, d, o, e)
           /\ e.at = "stopped" /\ e.blocks = a.blocks /\ e.usage = ev.piece
<1> DEFINE u == ev.piece
           v == Writer(StateOf(b, cur, i), <<>>)
           m == [name |-> "message_delta", usage |-> u]
           l == [name |-> "message_stop"]
           wr == AnthropicEvent(StateOf(b, cur, i), ev)
<1>0. Reaches(v, U, d, b, cur, i, d)
  BY StartsWritten DEF Matched
<1>20. wr = Emit(Emit(closeCurrent(v), m), l)
  BY AnthropicEventIs
<1> HIDE DEF v
<1>1. PICK j, f : /\ Reaches(closeCurrent(v), U, d, b, "none", j, f)
                  /\ f.blocks = d.blocks /\ f.usage = d.usage
  BY <1>0, CloseCurrentReaches
<1>2. wr = Emit(Emit(closeCurrent(v), m), l)
  BY <1>20
<1>3. PICK o : /\ closeCurrent(v) = Writer(StateOf(b, "none", j), o)
               /\ Becomes("anthropic", U, d, o, f) /\ InStep(b, "none", j, f)
  BY <1>1 DEF Reaches
<1> DEFINE g == AnthropicReceives(f, m)
           e == AnthropicReceives(g, l)
<1>4. f \in AnthropicClient /\ f.at = "message" /\ u \in Nat
  BY <1>3 DEF InStep
<1>5. Reports(m, U)
  BY DEF Reports
<1> HIDE DEF u
<1>6. /\ AnthropicAccepts(f, m) /\ m \in AnthropicFrame
      /\ g = [f EXCEPT !.at = "delta", !.usage = u] /\ g \in AnthropicClient
  BY <1>4, LastWordsArrive
<1> HIDE DEF m, g
<1>7. g.at = "delta" /\ g.blocks = f.blocks /\ g.usage = u
  BY <1>4, <1>6 DEF AnthropicClient
<1>8. /\ AnthropicAccepts(g, l) /\ l \in AnthropicFrame /\ Reports(l, U)
      /\ e = [g EXCEPT !.at = "stopped"] /\ e \in AnthropicClient
  BY <1>6, <1>7, LastWordsArrive
<1> HIDE DEF l, e, wr
<1>9. e.at = "stopped" /\ e.blocks = g.blocks /\ e.usage = g.usage
  BY <1>6, <1>8 DEF AnthropicClient
<1>10. Becomes("anthropic", U, d, Append(o, m), g)
  BY <1>3, <1>5, <1>6, FrameReaches DEF g
<1>11. Becomes("anthropic", U, d, Append(Append(o, m), l), e)
  BY <1>8, <1>10, FrameReaches DEF e
<1>12. wr = Writer(StateOf(b, "none", j), Append(Append(o, m), l))
  BY <1>2, <1>3, EmitIs
<1>13. e.blocks = a.blocks
  BY <1>1, <1>7, <1>9 DEF Matched
<1> QED
  BY <1>7, <1>9, <1>11, <1>12, <1>13 DEF wr, u

LEMMA AnthropicError ==
  ASSUME NEW b, NEW cur, NEW i, NEW a, NEW d, Matched(b, cur, i, a, d),
         NEW ev, ev.type = "error"
  PROVE  \E o, e :
           /\ AnthropicEvent(StateOf(b, cur, i), ev) = Writer(StateOf(b, cur, i), o)
           /\ \A U : Becomes("anthropic", U, d, o, e)
           /\ e.at = "failed" /\ e.blocks = a.blocks /\ e.usage = a.usage
<1> DEFINE l == [name |-> "error"]
           e == AnthropicReceives(d, l)
<1>1. d \in AnthropicClient /\ d.at \in {"none", "message", "block"}
  BY DEF Matched, InStep
<1>2. /\ AnthropicAccepts(d, l) /\ l \in AnthropicFrame /\ \A U : Reports(l, U)
      /\ e = [d EXCEPT !.at = "failed"] /\ e \in AnthropicClient
  BY <1>1, LastWordsArrive
<1>3. AnthropicEvent(StateOf(b, cur, i), ev) = Emit(Writer(StateOf(b, cur, i), <<>>), l)
  BY AnthropicEventIs
<1> HIDE DEF l, e
<1>4. e.at = "failed" /\ e.blocks = d.blocks /\ e.usage = d.usage
  BY <1>1, <1>2 DEF AnthropicClient
<1>5. \A U : Becomes("anthropic", U, d, <<>>, d)
  BY <1>1, BecomesOfNone DEF ClientOf
<1>6. \A U : Becomes("anthropic", U, d, Append(<<>>, l), e)
  BY <1>2, <1>5, FrameReaches DEF e
<1>7. Emit(Writer(StateOf(b, cur, i), <<>>), l) = Writer(StateOf(b, cur, i), Append(<<>>, l))
  BY DEF Emit, Writer
<1> QED
  BY <1>3, <1>4, <1>6, <1>7 DEF Matched

\* The end of the body.
LEMMA AnthropicLast ==
  ASSUME NEW U, NEW b, NEW cur, NEW i, NEW a, NEW d, Matched(b, cur, i, a, d)
  PROVE  \E j, e :
           /\ Reaches(AnthropicEOF(StateOf(b, cur, i)), U, d, b, "none", j, e)
           /\ e.blocks = a.blocks /\ e.usage = a.usage
<1>1. AnthropicEOF(StateOf(b, cur, i)) = closeCurrent(Writer(StateOf(b, cur, i), <<>>))
  BY DEF AnthropicEOF, Writer
<1>2. PICK v : v = Writer(StateOf(b, cur, i), <<>>)
  OBVIOUS
<1>3. Reaches(v, U, d, b, cur, i, d)
  BY <1>2, StartsWritten DEF Matched
<1>4. PICK j, e : /\ Reaches(closeCurrent(v), U, d, b, "none", j, e)
                  /\ e.blocks = d.blocks /\ e.usage = d.usage
  BY <1>3, CloseCurrentReaches
<1> QED
  BY <1>1, <1>2, <1>4 DEF Matched
-----------------------------------------------------------------------------
(* The pieces of one type that a sequence of blocks holds.                 *)

LEMMA PiecesIfType ==
  ASSUME NEW b \in Block, NEW type
  PROVE  PiecesIf(b, type) \in Seq(Nat)
<1>1. b.pieces \in Seq(Nat) /\ <<>> \in Seq(Nat)
  BY DEF Block
<1> QED
  BY <1>1 DEF PiecesIf

\* What PiecesOf puts together.
LEMMA PiecesOfIs ==
  ASSUME NEW bs \in Seq(Block), NEW type
  PROVE  \E m \in Seq(Seq(Nat)) :
           /\ PiecesOf(bs, type) = FlattenSeq(m) /\ Len(m) = Len(bs)
           /\ \A i \in 1 .. Len(bs) : m[i] = PiecesIf(bs[i], type)
<1>1. PICK m : m = [i \in DOMAIN bs |-> PiecesIf(bs[i], type)]
  OBVIOUS
<1>2. DOMAIN bs = 1 .. Len(bs) /\ Len(bs) \in Nat /\ \A i \in 1 .. Len(bs) : bs[i] \in Block
  BY ElementOfSeq
<1>3. m \in Seq(Seq(Nat)) /\ Len(m) = Len(bs)
  BY <1>1, <1>2, PiecesIfType
<1>4. \A i \in 1 .. Len(bs) : m[i] = PiecesIf(bs[i], type)
  BY <1>1, <1>2
<1>5. PiecesOf(bs, type) = FlattenSeq(m)
  BY <1>1 DEF PiecesOf
<1> QED
  BY <1>3, <1>4, <1>5

LEMMA PiecesOfType ==
  ASSUME NEW bs \in Seq(Block), NEW type
  PROVE  PiecesOf(bs, type) \in Seq(Nat)
  BY PiecesOfIs, FlattenType

LEMMA PiecesOfNone == \A type : PiecesOf(<<>>, type) = <<>>
<1> SUFFICES ASSUME NEW type PROVE PiecesOf(<<>>, type) = <<>>
  OBVIOUS
<1>1. <<>> \in Seq(Block) /\ Len(<<>>) = 0
  OBVIOUS
<1>2. PICK m \in Seq(Seq(Nat)) : PiecesOf(<<>>, type) = FlattenSeq(m) /\ Len(m) = 0
  BY <1>1, PiecesOfIs
<1>3. m = <<>>
  BY <1>2, EmptySeq
<1> QED
  BY <1>2, <1>3, FlattenNone

LEMMA PiecesOfAppend ==
  ASSUME NEW bs \in Seq(Block), NEW b \in Block, NEW type
  PROVE  PiecesOf(Append(bs, b), type) = PiecesOf(bs, type) \o PiecesIf(b, type)
<1>1. PICK as : as = Append(bs, b)
  OBVIOUS
<1>2. /\ as \in Seq(Block) /\ Len(as) = Len(bs) + 1 /\ as[Len(bs) + 1] = b
      /\ \A k \in 1 .. Len(bs) : as[k] = bs[k]
  BY <1>1, AppendProperties
<1>3. PICK m \in Seq(Seq(Nat)) : /\ PiecesOf(bs, type) = FlattenSeq(m) /\ Len(m) = Len(bs)
                                 /\ \A i \in 1 .. Len(bs) : m[i] = PiecesIf(bs[i], type)
  BY PiecesOfIs
<1>4. PICK r \in Seq(Seq(Nat)) : /\ PiecesOf(as, type) = FlattenSeq(r) /\ Len(r) = Len(as)
                                 /\ \A i \in 1 .. Len(as) : r[i] = PiecesIf(as[i], type)
  BY <1>2, PiecesOfIs
<1>5. Len(bs) \in Nat /\ Len(r) = Len(m) + 1 /\ Len(bs) + 1 \in 1 .. Len(as)
  BY <1>2, <1>3, <1>4
<1>6. ASSUME NEW i \in 1 .. Len(m) PROVE r[i] = m[i]
  <2>1. i \in 1 .. Len(bs) /\ i \in 1 .. Len(as)
    BY <1>2, <1>3, <1>5
  <2>2. m[i] = PiecesIf(bs[i], type) /\ r[i] = PiecesIf(as[i], type) /\ as[i] = bs[i]
    BY <1>2, <1>3, <1>4, <2>1, Zenon
  <2> QED
    BY <2>2
<1>7. r[Len(r)] = PiecesIf(b, type)
  BY <1>2, <1>4, <1>5
<1>8. FlattenSeq(r) = FlattenSeq(m) \o r[Len(r)]
  BY <1>5, <1>6, FlattenExtend
<1> QED
  BY <1>1, <1>3, <1>4, <1>7, <1>8

LEMMA PiecesOfExtended ==
  ASSUME NEW bs \in Seq(Block), Len(bs) > 0, NEW piece \in Nat, NEW type
  PROVE  PiecesOf(Extended(bs, piece), type) =
           IF LastType(bs) = type THEN Append(PiecesOf(bs, type), piece)
           ELSE PiecesOf(bs, type)
<1> DEFINE n == Len(bs)
           f == SubSeq(bs, 1, n - 1)
           x == bs[n]
           e == [type |-> x.type, pieces |-> Append(x.pieces, piece)]
<1>1. n \in Nat /\ n > 0 /\ n \in 1 .. Len(bs) /\ x \in Block
  BY ElementOfSeq
<1>2. x.pieces \in Seq(Nat) /\ x.type \in BlockTypes
  BY <1>1 DEF Block
<1>3. e \in Block /\ e.type = x.type /\ e.pieces = Append(x.pieces, piece)
  BY <1>2 DEF Block
<1>4. Extended(bs, piece) = [bs EXCEPT ![n] = e] /\ LastType(bs) = x.type
  BY DEF Extended, LastType
<1> HIDE DEF n, x, e
<1>5. f \in Seq(Block) /\ Len(f) = n - 1 /\ \A k \in 1 .. n - 1 : f[k] = bs[k]
  <2>1. 1 \in 1 .. n + 1 /\ n - 1 \in 0 .. n /\ Len(bs) = n
    BY <1>1 DEF n
  <2> QED
    BY <1>1, <2>1, SubSeqProperties
<1> HIDE DEF f
<1>6. bs = Append(f, x)
  <2>1. PICK t : t = Append(f, x)
    OBVIOUS
  <2>2. t \in Seq(Block) /\ Len(t) = n /\ t[n] = x /\ \A k \in 1 .. n - 1 : t[k] = f[k]
    BY <1>1, <1>5, <2>1, AppendProperties
  <2>3. ASSUME NEW k \in 1 .. Len(bs) PROVE bs[k] = t[k]
    <3>1. k = n \/ k \in 1 .. n - 1
      BY <1>1 DEF n
    <3> QED
      BY <1>5, <2>2, <3>1 DEF x
  <2>4. Len(bs) = Len(t)
    BY <2>2 DEF n
  <2>5. bs = t
    BY <2>2, <2>3, <2>4, SeqEqual
  <2> QED
    BY <2>1, <2>5
<1>7. [bs EXCEPT ![n] = e] = Append(f, e)
  <2>1. Len(f) + 1 = n
    BY <1>1, <1>5
  <2> QED
    BY <1>1, <1>3, <1>5, <1>6, <2>1, ReplaceLast
<1>8. /\ PiecesOf(bs, type) = PiecesOf(f, type) \o PiecesIf(x, type)
      /\ PiecesOf(Append(f, e), type) = PiecesOf(f, type) \o PiecesIf(e, type)
  BY <1>1, <1>3, <1>5, <1>6, PiecesOfAppend
<1>9. PICK s : s = PiecesOf(f, type) /\ s \in Seq(Nat)
  BY <1>5, PiecesOfType
<1>10. CASE x.type = type
  <2>1. PiecesIf(x, type) = x.pieces /\ PiecesIf(e, type) = Append(x.pieces, piece)
    BY <1>3, <1>10 DEF PiecesIf
  <2>2. PICK q : q = x.pieces /\ q \in Seq(Nat)
    BY <1>2
  <2>3. s \o Append(q, piece) = Append(s \o q, piece)
    BY <1>9, <2>2
  <2> QED
    BY <1>4, <1>7, <1>8, <1>9, <1>10, <2>1, <2>2, <2>3
<1>11. CASE x.type # type
  <2>1. PiecesIf(x, type) = <<>> /\ PiecesIf(e, type) = <<>>
    BY <1>3, <1>11 DEF PiecesIf
  <2> QED
    BY <1>4, <1>7, <1>8, <1>9, <1>11, <2>1
<1> QED
  BY <1>10, <1>11

\* From as to bs one piece of the type has come.
Gained(as, bs, type, piece) ==
  \A t \in BlockTypes :
    PiecesOf(bs, t) = IF t = type THEN Append(PiecesOf(as, t), piece) ELSE PiecesOf(as, t)

LEMMA PieceOfBlock ==
  ASSUME NEW bs \in Seq(Block), NEW type \in BlockTypes, NEW piece \in Nat
  PROVE  Gained(bs, Append(bs, ContentBlock(type, piece)), type, piece)
<1>1. PICK b : b = ContentBlock(type, piece)
  OBVIOUS
<1>2. b \in Block /\ b.type = type /\ b.pieces = <<piece>>
  BY <1>1 DEF ContentBlock, Block
<1>3. ASSUME NEW t \in BlockTypes
      PROVE  PiecesOf(Append(bs, b), t) =
               IF t = type THEN Append(PiecesOf(bs, t), piece) ELSE PiecesOf(bs, t)
  <2>1. PiecesOf(Append(bs, b), t) = PiecesOf(bs, t) \o PiecesIf(b, t)
    BY <1>2, PiecesOfAppend
  <2>2. PICK s : s = PiecesOf(bs, t) /\ s \in Seq(Nat)
    BY PiecesOfType
  <2>3. s \o <<piece>> = Append(s, piece) /\ s \o <<>> = s
    BY <2>2
  <2>4. PiecesIf(b, t) = IF t = type THEN <<piece>> ELSE <<>>
    BY <1>2 DEF PiecesIf
  <2> QED
    BY <2>1, <2>2, <2>3, <2>4
<1> QED
  BY <1>1, <1>3 DEF Gained

LEMMA PieceOfDelta ==
  ASSUME NEW a, AccOK(a), NEW ev, ev.type \in Deltas, ev.piece \in Nat
  PROVE  Gained(a.blocks, Accumulate(a, ev).blocks, BlockType(ev.type), ev.piece)
<1> DEFINE type == BlockType(ev.type)
           p == ev.piece
           z == Accumulate(a, ev)
<1>1. /\ type \in BlockTypes
      /\ z.blocks = IF a.mergeable = type THEN Extended(a.blocks, p)
                    ELSE Append(a.blocks, ContentBlock(type, p))
  BY AccumulateDelta
<1>2. p \in Nat
  OBVIOUS
<1> HIDE DEF type, p, z
<1>3. a.blocks \in Seq(Block) /\ type # "none"
  BY <1>1 DEF AccOK, Accumulated, BlockTypes
<1>4. CASE a.mergeable = type
  <2>1. Len(a.blocks) > 0 /\ LastType(a.blocks) = type
    BY <1>3, <1>4 DEF AccOK
  <2>2. \A t \in BlockTypes : PiecesOf(Extended(a.blocks, p), t) =
           IF t = type THEN Append(PiecesOf(a.blocks, t), p) ELSE PiecesOf(a.blocks, t)
    BY <1>2, <1>3, <2>1, PiecesOfExtended
  <2> QED
    BY <1>1, <1>4, <2>2 DEF Gained, type, p, z
<1>5. CASE a.mergeable # type
  <2>1. Gained(a.blocks, Append(a.blocks, ContentBlock(type, p)), type, p)
    BY <1>1, <1>2, <1>3, PieceOfBlock
  <2> QED
    BY <1>1, <1>5, <2>1 DEF type, p, z
<1> QED
  BY <1>4, <1>5
-----------------------------------------------------------------------------
(* The OpenAI translator and its client.                                   *)

RoleState(b, i) == [sentRole |-> b, toolIndex |-> i]

OpenAIInStep(b, i, d) ==
  /\ Yes(b) \/ No(b)
  /\ d \in OpenAIClient
  /\ d.at = IF Yes(b) THEN "message" ELSE "none"
  /\ i = Len(d.tools)

OpenAIReaches(wr, U, c, b, i, d) ==
  \E o : /\ wr = Writer(RoleState(b, i), o)
         /\ Becomes("openai", U, c, o, d)
         /\ OpenAIInStep(b, i, d)

LEMMA ChunkReaches ==
  ASSUME NEW o, NEW U, NEW c, NEW d, NEW f \in OpenAIFrame, Reports(f, U),
         Becomes("openai", U, c, o, d), OpenAIAccepts(d, f),
         OpenAIReceives(d, f) \in OpenAIClient
  PROVE  Becomes("openai", U, c, Append(o, f), OpenAIReceives(d, f))
BY BecomesAppend DEF AcceptsAs, ReceivesAs, ClientOf, FrameOf

\* The arms of OpenAIReceives.
LEMMA RoleArrives ==
  ASSUME NEW d \in OpenAIClient, d.at = "none"
  PROVE  LET f == [name |-> "role"] IN
         /\ OpenAIAccepts(d, f) /\ f \in OpenAIFrame /\ \A U : Reports(f, U)
         /\ OpenAIReceives(d, f) = [d EXCEPT !.at = "message"]
         /\ OpenAIReceives(d, f) \in OpenAIClient
<1> DEFINE f == [name |-> "role"]
<1>1. f.name = "role" /\ f \in OpenAIFrame
  BY DEF OpenAIFrame
<1> HIDE DEF f
<1>2. OpenAIAccepts(d, f)
  BY <1>1 DEF OpenAIAccepts
<1>3. OpenAIReceives(d, f) = [d EXCEPT !.at = "message"]
  BY <1>1, <1>2 DEF OpenAIReceives
<1>4. [d EXCEPT !.at = "message"] \in OpenAIClient
  BY DEF OpenAIClient
<1> QED
  BY <1>1, <1>2, <1>3, <1>4 DEF f, Reports

LEMMA ContentArrives ==
  ASSUME NEW d \in OpenAIClient, d.at = "message", NEW p \in Nat
  PROVE  LET f == [name |-> "content", piece |-> p] IN
         /\ OpenAIAccepts(d, f) /\ f \in OpenAIFrame /\ \A U : Reports(f, U)
         /\ OpenAIReceives(d, f) = [d EXCEPT !.content = Append(@, p)]
         /\ OpenAIReceives(d, f) \in OpenAIClient
<1> DEFINE f == [name |-> "content", piece |-> p]
           s == Append(d.content, p)
<1>1. f.name = "content" /\ f.piece = p /\ f \in OpenAIFrame
  BY DEF OpenAIFrame
<1> HIDE DEF f
<1>2. OpenAIAccepts(d, f)
  BY <1>1 DEF OpenAIAccepts
<1>3. OpenAIReceives(d, f) = [d EXCEPT !.content = s]
  BY <1>1, <1>2 DEF OpenAIReceives
<1>4. s \in Seq(Nat)
  BY DEF OpenAIClient
<1> HIDE DEF s
<1>5. [d EXCEPT !.content = s] \in OpenAIClient
  BY <1>4 DEF OpenAIClient
<1> QED
  BY <1>1, <1>2, <1>3, <1>5 DEF f, s, Reports

LEMMA ReasoningArrives ==
  ASSUME NEW d \in OpenAIClient, d.at = "message", NEW p \in Nat
  PROVE  LET f == [name |-> "reasoning", piece |-> p] IN
         /\ OpenAIAccepts(d, f) /\ f \in OpenAIFrame /\ \A U : Reports(f, U)
         /\ OpenAIReceives(d, f) = [d EXCEPT !.reasoning = Append(@, p)]
         /\ OpenAIReceives(d, f) \in OpenAIClient
<1> DEFINE f == [name |-> "reasoning", piece |-> p]
           s == Append(d.reasoning, p)
<1>1. f.name = "reasoning" /\ f.piece = p /\ f \in OpenAIFrame
  BY DEF OpenAIFrame
<1> HIDE DEF f
<1>2. OpenAIAccepts(d, f)
  BY <1>1 DEF OpenAIAccepts
<1>3. OpenAIReceives(d, f) = [d EXCEPT !.reasoning = s]
  BY <1>1, <1>2 DEF OpenAIReceives
<1>4. s \in Seq(Nat)
  BY DEF OpenAIClient
<1> HIDE DEF s
<1>5. [d EXCEPT !.reasoning = s] \in OpenAIClient
  BY <1>4 DEF OpenAIClient
<1> QED
  BY <1>1, <1>2, <1>3, <1>5 DEF f, s, Reports

LEMMA ToolCallArrives ==
  ASSUME NEW d \in OpenAIClient, d.at = "message", NEW p \in Nat
  PROVE  LET f == [name |-> "tool_call", index |-> Len(d.tools), piece |-> p] IN
         /\ OpenAIAccepts(d, f) /\ f \in OpenAIFrame /\ \A U : Reports(f, U)
         /\ OpenAIReceives(d, f) = [d EXCEPT !.tools = Append(@, p)]
         /\ OpenAIReceives(d, f) \in OpenAIClient
<1> DEFINE f == [name |-> "tool_call", index |-> Len(d.tools), piece |-> p]
           s == Append(d.tools, p)
<1>0. d.tools \in Seq(Nat)
  BY DEF OpenAIClient
<1>1. f.name = "tool_call" /\ f.index = Len(d.tools) /\ f.piece = p /\ f \in OpenAIFrame
  BY <1>0 DEF OpenAIFrame
<1> HIDE DEF f
<1>2. OpenAIAccepts(d, f)
  BY <1>1 DEF OpenAIAccepts
<1>3. OpenAIReceives(d, f) = [d EXCEPT !.tools = s]
  BY <1>1, <1>2 DEF OpenAIReceives
<1>4. s \in Seq(Nat)
  BY <1>0
<1> HIDE DEF s
<1>5. [d EXCEPT !.tools = s] \in OpenAIClient
  BY <1>4 DEF OpenAIClient
<1> QED
  BY <1>1, <1>2, <1>3, <1>5 DEF f, s, Reports

LEMMA FinishArrives ==
  ASSUME NEW d \in OpenAIClient, d.at = "message", NEW u \in Nat
  PROVE  LET f == [name |-> "finish", usage |-> u] IN
         /\ OpenAIAccepts(d, f) /\ f \in OpenAIFrame
         /\ OpenAIReceives(d, f) = [d EXCEPT !.at = "finished", !.usage = u]
         /\ OpenAIReceives(d, f) \in OpenAIClient
<1> DEFINE f == [name |-> "finish", usage |-> u]
<1>1. f.name = "finish" /\ f.usage = u /\ f \in OpenAIFrame
  BY DEF OpenAIFrame
<1> HIDE DEF f
<1>2. OpenAIAccepts(d, f)
  BY <1>1 DEF OpenAIAccepts
<1>3. OpenAIReceives(d, f) = [d EXCEPT !.at = "finished", !.usage = u]
  BY <1>1, <1>2 DEF OpenAIReceives
<1>4. [d EXCEPT !.at = "finished", !.usage = u] \in OpenAIClient
  BY DEF OpenAIClient
<1> QED
  BY <1>1, <1>2, <1>3, <1>4 DEF f

LEMMA DoneArrives ==
  ASSUME NEW d \in OpenAIClient, d.at \in {"message", "finished"}
  PROVE  LET f == [name |-> "[DONE]"] IN
         /\ OpenAIAccepts(d, f) /\ f \in OpenAIFrame /\ \A U : Reports(f, U)
         /\ OpenAIReceives(d, f) = [d EXCEPT !.at = "done"]
         /\ OpenAIReceives(d, f) \in OpenAIClient
<1> DEFINE f == [name |-> "[DONE]"]
<1>1. f.name = "[DONE]" /\ f \in OpenAIFrame
  BY DEF OpenAIFrame
<1> HIDE DEF f
<1>2. OpenAIAccepts(d, f)
  BY <1>1 DEF OpenAIAccepts
<1>3. OpenAIReceives(d, f) = [d EXCEPT !.at = "done"]
  BY <1>1, <1>2 DEF OpenAIReceives
<1>4. [d EXCEPT !.at = "done"] \in OpenAIClient
  BY DEF OpenAIClient
<1> QED
  BY <1>1, <1>2, <1>3, <1>4 DEF f, Reports
-----------------------------------------------------------------------------
(* The OpenAI translator's helpers.                                        *)

LEMMA SendRoleIs ==
  ASSUME NEW b, NEW t, Yes(t), NEW i, NEW o
  PROVE  /\ Yes(b) => sendRole(Writer(RoleState(b, i), o)) = Writer(RoleState(b, i), o)
         /\ No(b) => sendRole(Writer(RoleState(b, i), o))
                       = Writer(RoleState(t, i), Append(o, [name |-> "role"]))
<1>1. ASSUME Yes(b)
      PROVE  sendRole(Writer(RoleState(b, i), o)) = Writer(RoleState(b, i), o)
  BY <1>1 DEF sendRole, Writer, RoleState, Yes
<1>2. ASSUME No(b)
      PROVE  sendRole(Writer(RoleState(b, i), o))
               = Writer(RoleState(t, i), Append(o, [name |-> "role"]))
  BY <1>2 DEF sendRole, Emit, Writer, RoleState, Yes, No
<1> QED
  BY <1>1, <1>2

LEMMA ToolChunkIs ==
  ASSUME NEW b, NEW i, NEW o, NEW p
  PROVE  toolChunk(Writer(RoleState(b, i), o), p) =
           Writer(RoleState(b, i + 1),
                  Append(o, [name |-> "tool_call", index |-> i, piece |-> p]))
<1> DEFINE s == RoleState(b, i)
           f == [name |-> "tool_call", index |-> i, piece |-> p]
           q == Append(o, f)
<1>1. s.toolIndex = i /\ [s EXCEPT !.toolIndex = i + 1] = RoleState(b, i + 1)
  BY DEF RoleState
<1> HIDE DEF s
<1>2. Writer(s, o).st.toolIndex = i /\ Writer(s, q).st.toolIndex = i
  BY <1>1 DEF Writer
<1>3. Emit(Writer(s, o), f) = Writer(s, q)
  BY DEF Emit, Writer
<1> HIDE DEF q
<1>4. toolChunk(Writer(s, o), p) = [Writer(s, q) EXCEPT !.st.toolIndex = i + 1]
  BY <1>2, <1>3, Zenon DEF toolChunk
<1> HIDE DEF f
<1>5. [Writer(s, q) EXCEPT !.st.toolIndex = i + 1] = Writer([s EXCEPT !.toolIndex = i + 1], q)
  BY DEF Writer
<1> QED
  BY <1>1, <1>4, <1>5 DEF s, q, f

Alike(d, e) ==
  /\ e.content = d.content /\ e.reasoning = d.reasoning /\ e.tools = d.tools
  /\ e.usage = d.usage

LEMMA SendRoleReaches ==
  ASSUME NEW wr, NEW U, NEW c, NEW b, NEW i, NEW d, OpenAIReaches(wr, U, c, b, i, d)
  PROVE  \E t, e : Yes(t) /\ OpenAIReaches(sendRole(wr), U, c, t, i, e) /\ Alike(d, e)
<1>1. PICK o : /\ wr = Writer(RoleState(b, i), o)
               /\ Becomes("openai", U, c, o, d) /\ OpenAIInStep(b, i, d)
  BY DEF OpenAIReaches
<1>2. Yes(b) \/ No(b)
  BY <1>1 DEF OpenAIInStep
<1>0. PICK t : Yes(t)
  BY DEF Yes
<1>3. CASE Yes(b)
  <2>1. sendRole(wr) = wr
    BY <1>0, <1>1, <1>3, SendRoleIs
  <2> QED
    BY <1>3, <2>1 DEF Alike
<1>4. CASE No(b)
  <2> DEFINE f == [name |-> "role"]
             e == OpenAIReceives(d, f)
  <2>1. d \in OpenAIClient /\ d.at = "none" /\ i = Len(d.tools)
    BY <1>1, <1>4 DEF OpenAIInStep, Yes, No
  <2>2. /\ OpenAIAccepts(d, f) /\ f \in OpenAIFrame /\ Reports(f, U)
        /\ e = [d EXCEPT !.at = "message"] /\ e \in OpenAIClient
    BY <2>1, RoleArrives
  <2>3. sendRole(wr) = Writer(RoleState(t, i), Append(o, f))
    BY <1>0, <1>1, <1>4, SendRoleIs
  <2> HIDE DEF f, e
  <2>4. Becomes("openai", U, c, Append(o, f), e)
    BY <1>1, <2>2, ChunkReaches DEF e
  <2>5. e.at = "message" /\ Alike(d, e)
    BY <2>1, <2>2 DEF OpenAIClient, Alike
  <2>6. OpenAIInStep(t, i, e)
    BY <1>0, <2>1, <2>2, <2>5 DEF OpenAIInStep, Alike
  <2>7. OpenAIReaches(sendRole(wr), U, c, t, i, e)
    BY <2>3, <2>4, <2>6 DEF OpenAIReaches
  <2> QED
    BY <1>0, <2>5, <2>7
<1> QED
  BY <1>2, <1>3, <1>4

LEMMA ContentReaches ==
  ASSUME NEW wr, NEW U, NEW c, NEW b, NEW i, NEW d, Yes(b),
         OpenAIReaches(wr, U, c, b, i, d), NEW p \in Nat
  PROVE  \E e : /\ OpenAIReaches(Emit(wr, [name |-> "content", piece |-> p]), U, c, b, i, e)
                /\ e.content = Append(d.content, p) /\ e.reasoning = d.reasoning
                /\ e.tools = d.tools /\ e.usage = d.usage
<1>1. PICK o : /\ wr = Writer(RoleState(b, i), o)
               /\ Becomes("openai", U, c, o, d) /\ OpenAIInStep(b, i, d)
  BY DEF OpenAIReaches
<1> DEFINE f == [name |-> "content", piece |-> p]
           e == OpenAIReceives(d, f)
<1>2. d \in OpenAIClient /\ d.at = "message" /\ i = Len(d.tools)
  BY <1>1 DEF OpenAIInStep
<1>3. /\ OpenAIAccepts(d, f) /\ f \in OpenAIFrame /\ Reports(f, U)
      /\ e = [d EXCEPT !.content = Append(@, p)] /\ e \in OpenAIClient
  BY <1>2, ContentArrives
<1> HIDE DEF e
<1>4. /\ e.at = "message" /\ e.content = Append(d.content, p) /\ e.reasoning = d.reasoning
      /\ e.tools = d.tools /\ e.usage = d.usage
  BY <1>2, <1>3 DEF OpenAIClient
<1> HIDE DEF f
<1>5. Emit(wr, f) = Writer(RoleState(b, i), Append(o, f))
  BY <1>1, EmitIs
<1>6. Becomes("openai", U, c, Append(o, f), e)
  BY <1>1, <1>3, ChunkReaches DEF e
<1>7. OpenAIInStep(b, i, e)
  BY <1>2, <1>3, <1>4 DEF OpenAIInStep
<1>8. OpenAIReaches(Emit(wr, f), U, c, b, i, e)
  BY <1>5, <1>6, <1>7 DEF OpenAIReaches
<1> QED
  BY <1>4, <1>8 DEF f

LEMMA ReasoningReaches ==
  ASSUME NEW wr, NEW U, NEW c, NEW b, NEW i, NEW d, Yes(b),
         OpenAIReaches(wr, U, c, b, i, d), NEW p \in Nat
  PROVE  \E e : /\ OpenAIReaches(Emit(wr, [name |-> "reasoning", piece |-> p]), U, c, b, i, e)
                /\ e.content = d.content /\ e.reasoning = Append(d.reasoning, p)
                /\ e.tools = d.tools /\ e.usage = d.usage
<1>1. PICK o : /\ wr = Writer(RoleState(b, i), o)
               /\ Becomes("openai", U, c, o, d) /\ OpenAIInStep(b, i, d)
  BY DEF OpenAIReaches
<1> DEFINE f == [name |-> "reasoning", piece |-> p]
           e == OpenAIReceives(d, f)
<1>2. d \in OpenAIClient /\ d.at = "message" /\ i = Len(d.tools)
  BY <1>1 DEF OpenAIInStep
<1>3. /\ OpenAIAccepts(d, f) /\ f \in OpenAIFrame /\ Reports(f, U)
      /\ e = [d EXCEPT !.reasoning = Append(@, p)] /\ e \in OpenAIClient
  BY <1>2, ReasoningArrives
<1> HIDE DEF e
<1>4. /\ e.at = "message" /\ e.content = d.content /\ e.reasoning = Append(d.reasoning, p)
      /\ e.tools = d.tools /\ e.usage = d.usage
  BY <1>2, <1>3 DEF OpenAIClient
<1> HIDE DEF f
<1>5. Emit(wr, f) = Writer(RoleState(b, i), Append(o, f))
  BY <1>1, EmitIs
<1>6. Becomes("openai", U, c, Append(o, f), e)
  BY <1>1, <1>3, ChunkReaches DEF e
<1>7. OpenAIInStep(b, i, e)
  BY <1>2, <1>3, <1>4 DEF OpenAIInStep
<1>8. OpenAIReaches(Emit(wr, f), U, c, b, i, e)
  BY <1>5, <1>6, <1>7 DEF OpenAIReaches
<1> QED
  BY <1>4, <1>8 DEF f

LEMMA ToolChunkReaches ==
  ASSUME NEW wr, NEW U, NEW c, NEW b, NEW i, NEW d, Yes(b),
         OpenAIReaches(wr, U, c, b, i, d), NEW p \in Nat
  PROVE  \E j, e : /\ OpenAIReaches(toolChunk(wr, p), U, c, b, j, e)
                   /\ e.content = d.content /\ e.reasoning = d.reasoning
                   /\ e.tools = Append(d.tools, p) /\ e.usage = d.usage
<1>1. PICK o : /\ wr = Writer(RoleState(b, i), o)
               /\ Becomes("openai", U, c, o, d) /\ OpenAIInStep(b, i, d)
  BY DEF OpenAIReaches
<1> DEFINE f == [name |-> "tool_call", index |-> i, piece |-> p]
           e == OpenAIReceives(d, f)
<1>2. d \in OpenAIClient /\ d.at = "message" /\ i = Len(d.tools)
  BY <1>1 DEF OpenAIInStep
<1>3. /\ OpenAIAccepts(d, f) /\ f \in OpenAIFrame /\ Reports(f, U)
      /\ e = [d EXCEPT !.tools = Append(@, p)] /\ e \in OpenAIClient
  BY <1>2, ToolCallArrives
<1> HIDE DEF e
<1>4. /\ e.at = "message" /\ e.content = d.content /\ e.reasoning = d.reasoning
      /\ e.tools = Append(d.tools, p) /\ e.usage = d.usage
  BY <1>2, <1>3 DEF OpenAIClient
<1>5. toolChunk(wr, p) = Writer(RoleState(b, i + 1), Append(o, f))
  BY <1>1, ToolChunkIs
<1> HIDE DEF f
<1>6. Becomes("openai", U, c, Append(o, f), e)
  BY <1>1, <1>3, ChunkReaches DEF e
<1>7. i + 1 = Len(e.tools)
  <2>1. d.tools \in Seq(Nat)
    BY <1>2 DEF OpenAIClient
  <2> QED
    BY <1>2, <1>4, <2>1
<1>8. OpenAIInStep(b, i + 1, e)
  BY <1>3, <1>4, <1>7 DEF OpenAIInStep
<1>9. OpenAIReaches(toolChunk(wr, p), U, c, b, i + 1, e)
  BY <1>5, <1>6, <1>8 DEF OpenAIReaches
<1> QED
  BY <1>4, <1>9
-----------------------------------------------------------------------------
(* One event of the OpenAI translator.                                     *)

\* The client has the pieces of the blocks.
Holds(d, bs) ==
  /\ d.content = PiecesOf(bs, "text")
  /\ d.reasoning = PiecesOf(bs, "thinking")
  /\ d.tools = PiecesOf(bs, "tool_use")

OpenAIMatched(b, i, a, d) ==
  /\ OpenAIInStep(b, i, d) /\ AccOK(a) /\ a.finished = FALSE
  /\ Holds(d, a.blocks) /\ d.usage = a.usage

LEMMA OpenAIEventIs ==
  ASSUME NEW s, NEW ev
  PROVE  /\ ev.type = "start" => OpenAIEvent(s, ev) = sendRole(Writer(s, <<>>))
         /\ ev.type = "text-delta" =>
              OpenAIEvent(s, ev) =
                Emit(sendRole(Writer(s, <<>>)), [name |-> "content", piece |-> ev.piece])
         /\ ev.type = "reasoning-delta" =>
              OpenAIEvent(s, ev) =
                Emit(sendRole(Writer(s, <<>>)), [name |-> "reasoning", piece |-> ev.piece])
         /\ ev.type = "tool-call" =>
              OpenAIEvent(s, ev) = toolChunk(sendRole(Writer(s, <<>>)), ev.piece)
         /\ ev.type = "finish" =>
              OpenAIEvent(s, ev) = Emit(Writer(s, <<>>), [name |-> "finish", usage |-> ev.piece])
         /\ ev.type \in {"reasoning-end", "error", "other"} =>
              OpenAIEvent(s, ev) = Writer(s, <<>>)
BY DEF OpenAIEvent, Writer

LEMMA OpenAIStartsWritten ==
  ASSUME NEW U, NEW b, NEW i, NEW d, OpenAIInStep(b, i, d)
  PROVE  OpenAIReaches(Writer(RoleState(b, i), <<>>), U, d, b, i, d)
<1>1. d \in ClientOf("openai")
  BY DEF OpenAIInStep, ClientOf
<1> QED
  BY <1>1, BecomesOfNone DEF OpenAIReaches

OpenAICarries(wr, U, b, a, d, ev) ==
  \E t, i, e :
    /\ OpenAIReaches(wr, U, d, t, i, e) /\ OpenAIMatched(t, i, a, e)
    /\ Yes(b) \/ ev.type \in Deltas \cup {"start", "tool-call"} => Yes(t)

LEMMA OpenAIPiece ==
  ASSUME NEW U, NEW b, NEW i, NEW a, NEW d, OpenAIMatched(b, i, a, d),
         NEW ev, ev.type \in Deltas \cup {"tool-call"}, ev.piece \in Nat
  PROVE  OpenAICarries(OpenAIEvent(RoleState(b, i), ev), U, b, Accumulate(a, ev), d, ev)
<1> DEFINE p == ev.piece
           wr == OpenAIEvent(RoleState(b, i), ev)
           z == Accumulate(a, ev)
<1>1. PICK v : v = Writer(RoleState(b, i), <<>>)
  OBVIOUS
<1>2. OpenAIReaches(v, U, d, b, i, d) /\ AccOK(a) /\ a.finished = FALSE
  BY <1>1, OpenAIStartsWritten DEF OpenAIMatched
<1>3. PICK t, f : Yes(t) /\ OpenAIReaches(sendRole(v), U, d, t, i, f) /\ Alike(d, f)
  BY <1>2, SendRoleReaches
<1>4. PICK w : w = sendRole(v)
  OBVIOUS
<1>5. OpenAIReaches(w, U, d, t, i, f) /\ p \in Nat
  BY <1>3, <1>4
<1>6. Holds(f, a.blocks) /\ f.usage = a.usage
  BY <1>3 DEF OpenAIMatched, Holds, Alike
<1>7. "text" \in BlockTypes /\ "thinking" \in BlockTypes /\ "tool_use" \in BlockTypes
  BY DEF BlockTypes
<1>8. SUFFICES \E j, e : /\ OpenAIReaches(wr, U, d, t, j, e) /\ AccOK(z)
                         /\ z.finished = a.finished /\ Holds(e, z.blocks)
                         /\ e.usage = z.usage
  <2>1. PICK j, e : /\ OpenAIReaches(wr, U, d, t, j, e) /\ AccOK(z)
                    /\ z.finished = a.finished /\ Holds(e, z.blocks)
                    /\ e.usage = z.usage
    BY <1>8
  <2> HIDE DEF wr, z
  <2>2. OpenAIInStep(t, j, e)
    BY <2>1 DEF OpenAIReaches
  <2>3. OpenAIMatched(t, j, z, e)
    BY <1>2, <2>1, <2>2 DEF OpenAIMatched
  <2> QED
    BY <1>3, <2>1, <2>3 DEF OpenAICarries, wr, z
<1>9. CASE ev.type = "text-delta"
  <2>1. wr = Emit(w, [name |-> "content", piece |-> p])
    BY <1>1, <1>4, <1>9, OpenAIEventIs
  <2>2. PICK e : /\ OpenAIReaches(Emit(w, [name |-> "content", piece |-> p]), U, d, t, i, e)
                 /\ e.content = Append(f.content, p) /\ e.reasoning = f.reasoning
                 /\ e.tools = f.tools /\ e.usage = f.usage
    BY <1>3, <1>5, ContentReaches
  <2>3. ev.type \in Deltas /\ BlockType(ev.type) = "text"
    BY <1>9 DEF Deltas, BlockType
  <2>4. AccOK(z) /\ z.finished = a.finished /\ z.usage = a.usage
    BY <1>2, <2>3, AccumulateDelta
  <2>5. Gained(a.blocks, z.blocks, "text", p)
    BY <1>2, <2>3, PieceOfDelta
  <2> HIDE DEF wr, z, p
  <2>6. Holds(e, z.blocks)
    BY <1>6, <1>7, <2>2, <2>5 DEF Holds, Gained
  <2> QED
    BY <1>6, <2>1, <2>2, <2>4, <2>6
<1>10. CASE ev.type = "reasoning-delta"
  <2>1. wr = Emit(w, [name |-> "reasoning", piece |-> p])
    BY <1>1, <1>4, <1>10, OpenAIEventIs
  <2>2. PICK e : /\ OpenAIReaches(Emit(w, [name |-> "reasoning", piece |-> p]), U, d, t, i, e)
                 /\ e.content = f.content /\ e.reasoning = Append(f.reasoning, p)
                 /\ e.tools = f.tools /\ e.usage = f.usage
    BY <1>3, <1>5, ReasoningReaches
  <2>3. ev.type \in Deltas /\ BlockType(ev.type) = "thinking"
    BY <1>10 DEF Deltas, BlockType
  <2>4. AccOK(z) /\ z.finished = a.finished /\ z.usage = a.usage
    BY <1>2, <2>3, AccumulateDelta
  <2>5. Gained(a.blocks, z.blocks, "thinking", p)
    BY <1>2, <2>3, PieceOfDelta
  <2> HIDE DEF wr, z, p
  <2>6. Holds(e, z.blocks)
    BY <1>6, <1>7, <2>2, <2>5 DEF Holds, Gained
  <2> QED
    BY <1>6, <2>1, <2>2, <2>4, <2>6
<1>11. CASE ev.type = "tool-call"
  <2>1. wr = toolChunk(w, p)
    BY <1>1, <1>4, <1>11, OpenAIEventIs
  <2>3. a.blocks \in Seq(Block)
    BY <1>2 DEF AccOK, Accumulated
  <2>4. AccOK(z) /\ z.finished = a.finished /\ z.usage = a.usage
        /\ z.blocks = Append(a.blocks, ContentBlock("tool_use", p))
    BY <1>2, <1>11, AccumulateToolCall
  <2> HIDE DEF wr, z, p
  <2>2. PICK j, e : /\ OpenAIReaches(toolChunk(w, p), U, d, t, j, e)
                    /\ e.content = f.content /\ e.reasoning = f.reasoning
                    /\ e.tools = Append(f.tools, p) /\ e.usage = f.usage
    <3>1. Yes(t) /\ OpenAIReaches(w, U, d, t, i, f)
      BY <1>3, <1>5
    <3>2. PICK q : q = p
      OBVIOUS
    <3>3. q \in Nat
      BY <1>5, <3>2
    <3>4. PICK x : x = toolChunk(w, q)
      OBVIOUS
    <3>5. \E j, e : /\ OpenAIReaches(x, U, d, t, j, e)
                    /\ e.content = f.content /\ e.reasoning = f.reasoning
                    /\ e.tools = Append(f.tools, q) /\ e.usage = f.usage
      BY <3>1, <3>3, <3>4, ToolChunkReaches
    <3> QED
      BY <3>2, <3>4, <3>5
  <2>5. Gained(a.blocks, z.blocks, "tool_use", p)
    BY <1>5, <1>7, <2>3, <2>4, PieceOfBlock
  <2>6. Holds(e, z.blocks)
    BY <1>6, <1>7, <2>2, <2>5 DEF Holds, Gained
  <2> QED
    BY <1>6, <2>1, <2>2, <2>4, <2>6
<1> QED
  BY <1>9, <1>10, <1>11 DEF Deltas

LEMMA OpenAISmall ==
  ASSUME NEW U, NEW b, NEW i, NEW a, NEW d, OpenAIMatched(b, i, a, d),
         NEW ev, ev.type \in {"start", "reasoning-end", "other"}, ev.piece \in Nat
  PROVE  OpenAICarries(OpenAIEvent(RoleState(b, i), ev), U, b, Accumulate(a, ev), d, ev)
<1> DEFINE wr == OpenAIEvent(RoleState(b, i), ev)
           z == Accumulate(a, ev)
<1>1. PICK v : v = Writer(RoleState(b, i), <<>>)
  OBVIOUS
<1>2. OpenAIReaches(v, U, d, b, i, d) /\ AccOK(a) /\ a.finished = FALSE
  BY <1>1, OpenAIStartsWritten DEF OpenAIMatched
<1>3. /\ AccOK(z) /\ z.blocks = a.blocks /\ z.usage = a.usage /\ z.finished = FALSE
  BY <1>2, AccumulateEnd
<1>4. CASE ev.type = "start"
  <2>1. PICK t, e : Yes(t) /\ OpenAIReaches(sendRole(v), U, d, t, i, e) /\ Alike(d, e)
    BY <1>2, SendRoleReaches
  <2>2. wr = sendRole(v)
    BY <1>1, <1>4, OpenAIEventIs
  <2>3. OpenAIInStep(t, i, e)
    BY <2>1 DEF OpenAIReaches
  <2> HIDE DEF wr, z
  <2>4. OpenAIMatched(t, i, z, e)
    BY <1>3, <2>1, <2>3 DEF OpenAIMatched, Holds, Alike
  <2> QED
    BY <2>1, <2>2, <2>4 DEF OpenAICarries, wr, z
<1>5. CASE ev.type # "start"
  <2>1. wr = v
    BY <1>1, <1>5, OpenAIEventIs
  <2>2. ~(ev.type \in Deltas \cup {"start", "tool-call"})
    BY <1>5 DEF Deltas
  <2> HIDE DEF wr, z
  <2>3. OpenAIMatched(b, i, z, d)
    BY <1>3 DEF OpenAIMatched
  <2> QED
    BY <1>2, <2>1, <2>2, <2>3 DEF OpenAICarries, wr, z
<1> QED
  BY <1>4, <1>5

LEMMA OpenAIFinish ==
  ASSUME NEW U, NEW b, NEW i, NEW a, NEW d, OpenAIMatched(b, i, a, d), Yes(b),
         NEW ev, ev.type = "finish", ev.piece \in Nat, ev.piece \in U
  PROVE  \E o, e :
           /\ OpenAIEvent(RoleState(b, i), ev) = Writer(RoleState(b, i), o)
           /\ Becomes("openai", U, d, o, e)
           /\ e.at = "finished" /\ Holds(e, a.blocks) /\ e.usage = ev.piece
<1> DEFINE u == ev.piece
           f == [name |-> "finish", usage |-> u]
           e == OpenAIReceives(d, f)
<1>1. d \in OpenAIClient /\ d.at = "message" /\ u \in Nat /\ Holds(d, a.blocks)
  BY DEF OpenAIMatched, OpenAIInStep
<1>2. Reports(f, U)
  BY DEF Reports
<1>3. OpenAIEvent(RoleState(b, i), ev) = Emit(Writer(RoleState(b, i), <<>>), f)
  BY OpenAIEventIs
<1>4. Becomes("openai", U, d, <<>>, d)
  BY <1>1, BecomesOfNone DEF ClientOf
<1> HIDE DEF u
<1>5. /\ OpenAIAccepts(d, f) /\ f \in OpenAIFrame
      /\ e = [d EXCEPT !.at = "finished", !.usage = u] /\ e \in OpenAIClient
  BY <1>1, FinishArrives
<1> HIDE DEF e, f
<1>6. /\ e.at = "finished" /\ e.content = d.content /\ e.reasoning = d.reasoning
      /\ e.tools = d.tools /\ e.usage = u
  BY <1>1, <1>5 DEF OpenAIClient
<1>7. Becomes("openai", U, d, Append(<<>>, f), e)
  BY <1>2, <1>4, <1>5, ChunkReaches DEF e
<1>8. Emit(Writer(RoleState(b, i), <<>>), f) = Writer(RoleState(b, i), Append(<<>>, f))
  BY EmitIs
<1>9. Holds(e, a.blocks)
  BY <1>1, <1>6 DEF Holds
<1> QED
  BY <1>3, <1>6, <1>7, <1>8, <1>9 DEF u

\* The end of the body, after finish or without it.
LEMMA OpenAILast ==
  ASSUME NEW U, NEW s, NEW d \in OpenAIClient, d.at \in {"message", "finished"}
  PROVE  \E o, e :
           /\ OpenAIEOF(s) = Writer(s, o)
           /\ Becomes("openai", U, d, o, e)
           /\ e.at = "done" /\ Alike(d, e)
<1> DEFINE f == [name |-> "[DONE]"]
           e == OpenAIReceives(d, f)
<1>1. /\ OpenAIAccepts(d, f) /\ f \in OpenAIFrame /\ Reports(f, U)
      /\ e = [d EXCEPT !.at = "done"] /\ e \in OpenAIClient
  BY DoneArrives
<1>2. OpenAIEOF(s) = Emit(Writer(s, <<>>), f)
  BY DEF OpenAIEOF, Writer
<1>3. Becomes("openai", U, d, <<>>, d)
  BY BecomesOfNone DEF ClientOf
<1> HIDE DEF e, f
<1>4. e.at = "done" /\ Alike(d, e)
  BY <1>1 DEF OpenAIClient, Alike
<1>5. Becomes("openai", U, d, Append(<<>>, f), e)
  BY <1>1, <1>3, ChunkReaches DEF e
<1>6. OpenAIEOF(s) = Writer(s, Append(<<>>, f))
  BY <1>2, EmitIs
<1> QED
  BY <1>4, <1>5, <1>6
-----------------------------------------------------------------------------
(* Where the client is once it has read everything written so far: k is the *)
(* type of the last event read, lv what the loop is about to return.       *)

Closing == {"finish", "error"}

AnthropicAt(k, lv, s, a, d) ==
  /\ AccOK(a) /\ d.blocks = a.blocks /\ d.usage = a.usage
  /\ \E b, cur, i :
       /\ s = StateOf(b, cur, i)
       /\ \/ k = "error" /\ lv = "event" /\ d.at = "failed"
          \/ k = "finish" /\ lv \in {"no", "nil"} /\ cur = "none" /\ d.at = "stopped"
          \/ /\ k \notin Closing /\ lv = "no" /\ Matched(b, cur, i, a, d)
             /\ k # "nothing" => Yes(b)
             /\ k = "reasoning-delta" => cur = "thinking"
          \/ k \notin Closing /\ lv = "nil" /\ Yes(b) /\ InStep(b, "none", i, d)

OpenAIAt(k, lv, s, a, d) ==
  /\ AccOK(a) /\ Holds(d, a.blocks) /\ d.usage = a.usage
  /\ \E b, i :
       /\ s = RoleState(b, i)
       /\ \/ k = "error" /\ lv = "event" /\ d.at \notin {"finished", "done"}
          \/ k = "finish" /\ lv = "no" /\ d.at = "finished"
          \/ /\ k \notin Closing /\ lv = "no" /\ OpenAIMatched(b, i, a, d)
             /\ k # "nothing" => Yes(b)
          \/ k # "error" /\ lv = "nil" /\ d.at = "done"

\* An event upstream may send after one of type k; "nothing" while the answer
\* has not been opened.
MayFollow(k, ev) ==
  /\ ev.type \in EventTypes /\ ev.piece \in Nat
  /\ k \notin Closing
  /\ k = "nothing" => ev.type \in Opening \cup {"error"}
  /\ ev.type = "reasoning-end" => k = "reasoning-delta"

After(ev) == IF ev.type = "error" THEN "event" ELSE "no"

LEMMA WriterIs == \A s, o : Writer(s, o).st = s /\ Writer(s, o).out = o
BY DEF Writer

LEMMA EventKinds ==
  ASSUME NEW k, NEW ev, MayFollow(k, ev)
  PROVE  /\ ev.type \in Deltas \/ ev.type = "tool-call" \/ ev.type = "finish" \/ ev.type = "error"
            \/ ev.type \in {"start", "reasoning-end", "other"}
         /\ ev.type = "finish" \/ ev.type = "other" => k # "nothing"
BY DEF MayFollow, EventTypes, Opening, Deltas

LEMMA AnthropicHandles ==
  ASSUME NEW U, NEW k, NEW s, NEW a, NEW d, AnthropicAt(k, "no", s, a, d),
         NEW ev, MayFollow(k, ev), ev.type = "finish" => ev.piece \in U
  PROVE  \E e : /\ Becomes("anthropic", U, d, AnthropicEvent(s, ev).out, e)
                /\ AnthropicAt(ev.type, After(ev), AnthropicEvent(s, ev).st, Accumulate(a, ev), e)
<1> DEFINE wr == AnthropicEvent(s, ev)
           z == Accumulate(a, ev)
<1>1. PICK b, cur, i : /\ s = StateOf(b, cur, i) /\ Matched(b, cur, i, a, d)
                       /\ k # "nothing" => Yes(b)
                       /\ k = "reasoning-delta" => cur = "thinking"
  BY DEF AnthropicAt, MayFollow, Closing
<1>2. ev.piece \in Nat /\ AccOK(a)
  BY <1>1 DEF MayFollow, Matched
<1>3. CASE ev.type = "finish"
  <2>1. Yes(b)
    BY <1>1, <1>3, EventKinds
  <2>2. PICK j, o, e : /\ AnthropicEvent(StateOf(b, cur, i), ev) = Writer(StateOf(b, "none", j), o)
                       /\ Becomes("anthropic", U, d, o, e)
                       /\ e.at = "stopped" /\ e.blocks = a.blocks /\ e.usage = ev.piece
    BY <1>1, <1>2, <1>3, <2>1, AnthropicFinish
  <2>3. wr.st = StateOf(b, "none", j) /\ wr.out = o
    BY <1>1, <2>2, WriterIs
  <2>4. AccOK(z) /\ z.blocks = a.blocks /\ z.usage = ev.piece
    BY <1>2, <1>3, AccumulateEnd
  <2>5. After(ev) = "no"
    BY <1>3 DEF After
  <2> HIDE DEF wr, z
  <2>6. AnthropicAt("finish", "no", wr.st, z, e)
    BY <2>2, <2>3, <2>4 DEF AnthropicAt
  <2> QED
    BY <1>3, <2>2, <2>3, <2>5, <2>6 DEF wr, z
<1>4. CASE ev.type = "error"
  <2>2. PICK o, e : /\ AnthropicEvent(StateOf(b, cur, i), ev) = Writer(StateOf(b, cur, i), o)
                    /\ \A V : Becomes("anthropic", V, d, o, e)
                    /\ e.at = "failed" /\ e.blocks = a.blocks /\ e.usage = a.usage
    <3>1. PICK x : x = AnthropicEvent(StateOf(b, cur, i), ev)
      OBVIOUS
    <3>2. Matched(b, cur, i, a, d)
      BY <1>1
    <3>3. \E o, e : /\ x = Writer(StateOf(b, cur, i), o)
                    /\ \A V : Becomes("anthropic", V, d, o, e)
                    /\ e.at = "failed" /\ e.blocks = a.blocks /\ e.usage = a.usage
      BY <1>4, <3>1, <3>2, AnthropicError
    <3> QED
      BY <3>1, <3>3
  <2>3. wr.st = StateOf(b, cur, i) /\ wr.out = o
    BY <1>1, <2>2, WriterIs
  <2>4. z = a
    BY <1>2, <1>4, AccumulateEnd
  <2>5. After(ev) = "event"
    BY <1>4 DEF After
  <2> HIDE DEF wr, z
  <2>6. AnthropicAt("error", "event", wr.st, z, e)
    BY <1>2, <2>2, <2>3, <2>4 DEF AnthropicAt
  <2> QED
    BY <1>4, <2>2, <2>3, <2>5, <2>6 DEF wr, z
<1>5. CASE ev.type \notin Closing
  <2>1. Carries(AnthropicEvent(StateOf(b, cur, i), ev), U, b, z, d, ev)
    <3>1. ASSUME ev.type \in Deltas PROVE Carries(AnthropicEvent(StateOf(b, cur, i), ev), U, b, z, d, ev)
      BY <1>1, <1>2, <3>1, AnthropicDelta
    <3>2. ASSUME ev.type = "tool-call" PROVE Carries(AnthropicEvent(StateOf(b, cur, i), ev), U, b, z, d, ev)
      BY <1>1, <1>2, <3>2, AnthropicToolCall
    <3>3. ASSUME ev.type \in {"start", "reasoning-end", "other"}
          PROVE  Carries(AnthropicEvent(StateOf(b, cur, i), ev), U, b, z, d, ev)
      <4>1. ev.type = "reasoning-end" => cur = "thinking"
        BY <1>1 DEF MayFollow
      <4> QED
        BY <1>1, <1>2, <3>3, <4>1, AnthropicSmall
    <3> QED
      BY <1>5, <3>1, <3>2, <3>3, EventKinds DEF Closing
  <2>2. PICK t, cu, j, e :
          /\ Reaches(AnthropicEvent(StateOf(b, cur, i), ev), U, d, t, cu, j, e)
          /\ Matched(t, cu, j, z, e)
          /\ Yes(b) \/ ev.type # "other" => Yes(t)
          /\ ev.type = "reasoning-delta" => cu = "thinking"
    BY <2>1 DEF Carries
  <2>3. PICK o : wr = Writer(StateOf(t, cu, j), o) /\ Becomes("anthropic", U, d, o, e)
    BY <1>1, <2>2 DEF Reaches
  <2>4. wr.st = StateOf(t, cu, j) /\ wr.out = o
    BY <2>3, WriterIs
  <2>5. Yes(t)
    BY <1>1, <2>2, EventKinds
  <2>6. After(ev) = "no"
    BY <1>5 DEF After, Closing
  <2>7. AccOK(z) /\ e.blocks = z.blocks /\ e.usage = z.usage
    BY <2>2 DEF Matched
  <2> HIDE DEF wr, z
  <2>8. AnthropicAt(ev.type, "no", wr.st, z, e)
    BY <1>5, <2>2, <2>4, <2>5, <2>7 DEF AnthropicAt
  <2> QED
    BY <2>3, <2>4, <2>6, <2>8 DEF wr, z
<1> QED
  BY <1>3, <1>4, <1>5 DEF Closing

LEMMA AnthropicEnds ==
  ASSUME NEW U, NEW k, k # "nothing", NEW s, NEW a, NEW d \in AnthropicClient,
         AnthropicAt(k, "no", s, a, d)
  PROVE  \E e : /\ Becomes("anthropic", U, d, AnthropicEOF(s).out, e)
                /\ AnthropicAt(k, "nil", AnthropicEOF(s).st, a, e)
<1> DEFINE wr == AnthropicEOF(s)
<1>1. AccOK(a) /\ d.blocks = a.blocks /\ d.usage = a.usage
  BY DEF AnthropicAt
<1>2. PICK b, cur, i :
        /\ s = StateOf(b, cur, i)
        /\ \/ k = "finish" /\ cur = "none" /\ d.at = "stopped"
           \/ k \notin Closing /\ Matched(b, cur, i, a, d) /\ Yes(b)
  BY DEF AnthropicAt
<1>3. CASE k = "finish" /\ cur = "none" /\ d.at = "stopped"
  <2>1. wr = Writer(s, <<>>)
    <3>1. closeCurrent(Writer(StateOf(b, cur, i), <<>>)) = Writer(StateOf(b, cur, i), <<>>)
      BY <1>3, CloseCurrentIs
    <3> QED
      BY <1>2, <3>1 DEF AnthropicEOF, Writer
  <2>2. wr.st = s /\ wr.out = <<>>
    BY <2>1, WriterIs
  <2>3. Becomes("anthropic", U, d, <<>>, d)
    BY BecomesOfNone DEF ClientOf
  <2> HIDE DEF wr
  <2>4. AnthropicAt(k, "nil", s, a, d)
    BY <1>1, <1>2, <1>3 DEF AnthropicAt
  <2> QED
    BY <2>2, <2>3, <2>4 DEF wr
<1>4. CASE k \notin Closing /\ Matched(b, cur, i, a, d) /\ Yes(b)
  <2>1. PICK j, e : /\ Reaches(AnthropicEOF(StateOf(b, cur, i)), U, d, b, "none", j, e)
                    /\ e.blocks = a.blocks /\ e.usage = a.usage
    BY <1>4, AnthropicLast
  <2>2. PICK o : /\ wr = Writer(StateOf(b, "none", j), o) /\ Becomes("anthropic", U, d, o, e)
                 /\ InStep(b, "none", j, e)
    BY <1>2, <2>1 DEF Reaches
  <2>3. wr.st = StateOf(b, "none", j) /\ wr.out = o
    BY <2>2, WriterIs
  <2> HIDE DEF wr
  <2>4. AnthropicAt(k, "nil", wr.st, a, e)
    BY <1>1, <1>4, <2>1, <2>2, <2>3 DEF AnthropicAt
  <2> QED
    BY <2>2, <2>3, <2>4 DEF wr
<1> QED
  BY <1>2, <1>3, <1>4

LEMMA OpenAIHandles ==
  ASSUME NEW U, NEW k, NEW s, NEW a, NEW d, OpenAIAt(k, "no", s, a, d),
         NEW ev, MayFollow(k, ev), ev.type = "finish" => ev.piece \in U
  PROVE  \E e : /\ Becomes("openai", U, d, OpenAIEvent(s, ev).out, e)
                /\ OpenAIAt(ev.type, After(ev), OpenAIEvent(s, ev).st, Accumulate(a, ev), e)
<1> DEFINE wr == OpenAIEvent(s, ev)
           z == Accumulate(a, ev)
<1>1. PICK b, i : /\ s = RoleState(b, i) /\ OpenAIMatched(b, i, a, d)
                  /\ k # "nothing" => Yes(b)
  BY DEF OpenAIAt, MayFollow, Closing
<1>2. ev.piece \in Nat /\ AccOK(a) /\ OpenAIInStep(b, i, d) /\ Holds(d, a.blocks)
      /\ d.usage = a.usage
  BY <1>1 DEF MayFollow, OpenAIMatched
<1>3. CASE ev.type = "finish"
  <2>1. Yes(b)
    BY <1>1, <1>3, EventKinds
  <2>2. PICK o, e : /\ OpenAIEvent(RoleState(b, i), ev) = Writer(RoleState(b, i), o)
                    /\ Becomes("openai", U, d, o, e)
                    /\ e.at = "finished" /\ Holds(e, a.blocks) /\ e.usage = ev.piece
    BY <1>1, <1>2, <1>3, <2>1, OpenAIFinish
  <2>3. wr.st = RoleState(b, i) /\ wr.out = o
    BY <1>1, <2>2, WriterIs
  <2>4. AccOK(z) /\ z.blocks = a.blocks /\ z.usage = ev.piece
    BY <1>2, <1>3, AccumulateEnd
  <2>5. After(ev) = "no"
    BY <1>3 DEF After
  <2> HIDE DEF wr, z
  <2>6. OpenAIAt("finish", "no", wr.st, z, e)
    BY <2>2, <2>3, <2>4 DEF OpenAIAt
  <2> QED
    BY <1>3, <2>2, <2>3, <2>5, <2>6 DEF wr, z
<1>4. CASE ev.type = "error"
  <2>1. z = a
    BY <1>2, <1>4, AccumulateEnd
  <2>2. wr = Writer(s, <<>>)
    BY <1>4, OpenAIEventIs
  <2>3. wr.st = s /\ wr.out = <<>>
    BY <2>2, WriterIs
  <2>4. d \in OpenAIClient /\ d.at \notin {"finished", "done"}
    BY <1>2 DEF OpenAIInStep
  <2>5. After(ev) = "event"
    BY <1>4 DEF After
  <2>6. Becomes("openai", U, d, <<>>, d)
    BY <2>4, BecomesOfNone DEF ClientOf
  <2> HIDE DEF wr, z
  <2>7. OpenAIAt("error", "event", s, a, d)
    BY <1>1, <1>2, <2>4 DEF OpenAIAt
  <2> QED
    BY <1>4, <2>1, <2>3, <2>5, <2>6, <2>7 DEF wr, z
<1>5. CASE ev.type \notin Closing
  <2>1. OpenAICarries(OpenAIEvent(RoleState(b, i), ev), U, b, z, d, ev)
    <3>1. ASSUME ev.type \in Deltas \cup {"tool-call"}
          PROVE  OpenAICarries(OpenAIEvent(RoleState(b, i), ev), U, b, z, d, ev)
      BY <1>1, <1>2, <3>1, OpenAIPiece
    <3>2. ASSUME ev.type \in {"start", "reasoning-end", "other"}
          PROVE  OpenAICarries(OpenAIEvent(RoleState(b, i), ev), U, b, z, d, ev)
      BY <1>1, <1>2, <3>2, OpenAISmall
    <3> QED
      BY <1>5, <3>1, <3>2, EventKinds DEF Closing
  <2>2. PICK t, j, e :
          /\ OpenAIReaches(OpenAIEvent(RoleState(b, i), ev), U, d, t, j, e)
          /\ OpenAIMatched(t, j, z, e)
          /\ Yes(b) \/ ev.type \in Deltas \cup {"start", "tool-call"} => Yes(t)
    BY <2>1 DEF OpenAICarries
  <2>3. PICK o : wr = Writer(RoleState(t, j), o) /\ Becomes("openai", U, d, o, e)
    BY <1>1, <2>2 DEF OpenAIReaches
  <2>4. wr.st = RoleState(t, j) /\ wr.out = o
    BY <2>3, WriterIs
  <2>5. Yes(t)
    <3>1. k # "nothing" \/ ev.type \in Deltas \cup {"start", "tool-call"}
      BY <1>5 DEF MayFollow, Opening, Closing
    <3> QED
      BY <1>1, <2>2, <3>1
  <2>6. After(ev) = "no"
    BY <1>5 DEF After, Closing
  <2>7. AccOK(z) /\ Holds(e, z.blocks) /\ e.usage = z.usage
    BY <2>2 DEF OpenAIMatched
  <2> HIDE DEF wr, z
  <2>8. OpenAIAt(ev.type, "no", wr.st, z, e)
    BY <1>5, <2>2, <2>4, <2>5, <2>7 DEF OpenAIAt
  <2> QED
    BY <2>3, <2>4, <2>6, <2>8 DEF wr, z
<1> QED
  BY <1>3, <1>4, <1>5 DEF Closing

LEMMA OpenAIEnds ==
  ASSUME NEW U, NEW k, k # "nothing", NEW s, NEW a, NEW d \in OpenAIClient,
         OpenAIAt(k, "no", s, a, d)
  PROVE  \E e : /\ Becomes("openai", U, d, OpenAIEOF(s).out, e)
                /\ OpenAIAt(k, "nil", OpenAIEOF(s).st, a, e)
<1> DEFINE wr == OpenAIEOF(s)
<1>1. AccOK(a) /\ Holds(d, a.blocks) /\ d.usage = a.usage
  BY DEF OpenAIAt
<1>2. PICK b, i : /\ s = RoleState(b, i) /\ k # "error"
                  /\ d.at = "finished" \/ (OpenAIMatched(b, i, a, d) /\ Yes(b))
  BY DEF OpenAIAt, Closing
<1>3. d.at \in {"message", "finished"}
  BY <1>2 DEF OpenAIMatched, OpenAIInStep
<1>4. PICK o, e : OpenAIEOF(s) = Writer(s, o) /\ Becomes("openai", U, d, o, e)
                  /\ e.at = "done" /\ Alike(d, e)
  BY <1>3, OpenAILast
<1>5. wr.st = s /\ wr.out = o
  BY <1>4, WriterIs
<1> HIDE DEF wr
<1>6. Holds(e, a.blocks) /\ e.usage = a.usage
  BY <1>1, <1>4 DEF Alike, Holds
<1>7. OpenAIAt(k, "nil", s, a, e)
  BY <1>1, <1>2, <1>4, <1>6 DEF OpenAIAt
<1> QED
  BY <1>4, <1>5, <1>7 DEF wr
-----------------------------------------------------------------------------
(* The invariant.                                                          *)

Kind(log, i) == log[i].type

\* The usages upstream has reported: there is at most one.
Reported(log) == {i \in 1 .. Len(log) : Kind(log, i) = "finish"}

\* What upstream has sent.
LogOK ==
  /\ up \in Seq([type : EventTypes, piece : Nat]) /\ Len(up) > 0
  /\ \A i \in 1 .. Len(up) : up[i].piece = i
  /\ Kind(up, 1) # "error"
  /\ \A i \in 1 .. Len(up) : Kind(up, i) \in Closing => i = Len(up)
  /\ \A i \in 2 .. Len(up) : Kind(up, i) = "reasoning-end" => Kind(up, i - 1) = "reasoning-delta"

\* The type of the last event the loop has read.
LastRead(log, n) == IF n = 1 THEN "nothing" ELSE Kind(log, n - 1)

\* Where the loop is.
LoopOK ==
  /\ protocol \in {"anthropic", "openai"} /\ ctxDone \in BOOLEAN
  /\ next \in Nat /\ 1 <= next /\ next <= Len(up) + 1
  /\ leaving \in {"no", "nil", "event"}
  /\ leaving = "nil" => body = "eof" /\ next > Len(up)
  /\ leaving = "event" <=> LastRead(up, next) = "error"
  /\ Yes(acc.finished) \/ No(acc.finished)
  /\ Yes(acc.finished) <=> LastRead(up, next) = "finish"
  /\ acc.usage = IF LastRead(up, next) = "finish" THEN next - 1 ELSE NoUsage
  /\ outcome # "running" => pending = <<>>
  /\ outcome = "nil" => leaving = "nil"

Place(pr, k, lv, s, a, d) ==
  IF pr = "anthropic" THEN AnthropicAt(k, lv, s, a, d) ELSE OpenAIAt(k, lv, s, a, d)

\* A client still there accepts the frames not yet written and then is where
\* the loop has got to; for one that has left some client would.
Served ==
  \E c, d : /\ Becomes(protocol, Reported(up), c, pending, d)
            /\ Place(protocol, LastRead(up, next), leaving, st, acc, d)
            /\ ctxDone \/ c = client

\* Nothing has been read that writes a first frame.
Bare == ~Opened /\ LastRead(up, next) # "error"

Fresh == IF protocol = "anthropic" THEN AnthropicStart ELSE OpenAIStart

\* Then nothing has happened,
Blank == st = Fresh /\ client = NewClient /\ acc = AccumulateStart /\ pending = <<>>

\* or the answer ends
Ending == LastRead(up, next) = "finish" \/ (protocol = "openai" /\ leaving = "nil")

\* with words that a client who still waits for the first frame refuses.
LastWordsOf(pr, k, u) ==
  LET stop == [name |-> "message_stop"]
      done == [name |-> "[DONE]"]
  IN IF k # "finish" THEN {<<done>>, <<>>}
     ELSE IF pr = "anthropic"
     THEN {<<[name |-> "message_delta", usage |-> u], stop>>, <<stop>>, <<>>}
     ELSE {<<[name |-> "finish", usage |-> u]>>, <<done>>, <<>>}

LastWords == LastWordsOf(protocol, LastRead(up, next), next - 1)

BadClient == [NewClient EXCEPT !.at = "bad"]

Refused ==
  /\ st = Fresh /\ client \in {NewClient, BadClient} /\ acc.blocks = <<>>
  /\ pending \in LastWords
  /\ ctxDone \/ client = BadClient \/ pending # <<>>

Phases == IF ~Bare THEN Served ELSE IF Ending THEN Refused ELSE Blank

Usages == {NoUsage} \cup Reported(up)

\* The client has what the unary reading has.
Whole(pr, a, d) ==
  /\ d.usage = a.usage
  /\ IF pr = "anthropic" THEN d.blocks = a.blocks ELSE Holds(d, a.blocks)

\* What the client was told, and what was kept of it.
Told ==
  /\ client \in ClientOf(protocol) \/ (client.at = "bad" /\ ~Opened)
  /\ ToldComplete => Yes(acc.finished) /\ Whole(protocol, acc, client)
  /\ client.at = "done" => leaving = "nil"
  /\ client.usage \in Usages /\ summary \in Usages
  /\ client.usage # NoUsage => summary = client.usage

Kept ==
  entry # NoEntry =>
    /\ outcome # "running"
    /\ entry = [status |-> IF outcome = "nil" \/ clientGone THEN 200 ELSE 502,
                usage |-> summary]

IInv == LogOK /\ LoopOK /\ Phases /\ Told /\ Kept
-----------------------------------------------------------------------------
(* What upstream has sent.                                                 *)

LEMMA LogInit == Init => LogOK
<1> SUFFICES ASSUME Init PROVE LogOK
  OBVIOUS
<1>1. PICK type \in EventTypes \ {"error"} : up = <<Event(type, 1)>>
  BY DEF Init
<1> DEFINE ev == Event(type, 1)
<1>2. ev \in [type : EventTypes, piece : Nat] /\ ev.type = type /\ ev.piece = 1
  BY DEF Event
<1> HIDE DEF ev
<1>4. up \in Seq([type : EventTypes, piece : Nat]) /\ Len(up) = 1 /\ up[1] = ev
  BY <1>1, <1>2 DEF ev
<1>5. 1 .. Len(up) = {1} /\ 2 .. Len(up) = {}
  BY <1>4
<1>6. Kind(up, 1) = type
  BY <1>2, <1>4 DEF Kind
<1> QED
  BY <1>2, <1>4, <1>5, <1>6 DEF LogOK

LEMMA LogGrows ==
  ASSUME LogOK, NEW type \in EventTypes, UpstreamSends(type)
  PROVE  /\ LogOK' /\ Len(up') = Len(up) + 1 /\ Kind(up, Len(up)) \notin Closing
         /\ \A i \in 1 .. Len(up) : up'[i] = up[i]
         /\ Reported(up) \subseteq Reported(up')
<1> DEFINE n == Len(up)
           ev == Event(type, n + 1)
<1>1. up \in Seq([type : EventTypes, piece : Nat]) /\ n \in Nat /\ n > 0
  BY DEF LogOK
<1>2. ev \in [type : EventTypes, piece : Nat] /\ ev.type = type /\ ev.piece = n + 1
  BY <1>1 DEF Event
<1>3. up' = Append(up, ev) /\ MaySend(type)
  BY DEF UpstreamSends
<1> HIDE DEF ev
<1>4. /\ up' \in Seq([type : EventTypes, piece : Nat]) /\ Len(up') = n + 1 /\ up'[n + 1] = ev
      /\ \A i \in 1 .. n : up'[i] = up[i]
  BY <1>1, <1>2, <1>3, AppendProperties
<1>5. /\ Kind(up, n) \notin Closing
      /\ type = "reasoning-end" => Kind(up, n) = "reasoning-delta"
  BY <1>3 DEF MaySend, Last, Kind, Closing
<1>6. \A i \in 1 .. n : Kind(up', i) = Kind(up, i) /\ Kind(up', n + 1) = type
  BY <1>2, <1>4 DEF Kind
<1>7. \A i \in 1 .. n : Kind(up, i) \notin Closing
  BY <1>5 DEF LogOK
<1> HIDE DEF n
<1>8. \A i \in 1 .. Len(up') : up'[i].piece = i
  <2> SUFFICES ASSUME NEW i \in 1 .. n + 1 PROVE up'[i].piece = i
    BY <1>4
  <2>1. i = n + 1 \/ i \in 1 .. n
    BY <1>1
  <2> QED
    BY <1>2, <1>4, <2>1 DEF LogOK, n
<1>9. \A i \in 1 .. Len(up') : Kind(up', i) \in Closing => i = Len(up')
  <2> SUFFICES ASSUME NEW i \in 1 .. n + 1, Kind(up', i) \in Closing PROVE i = n + 1
    BY <1>4
  <2>1. i = n + 1 \/ i \in 1 .. n
    BY <1>1
  <2> QED
    BY <1>6, <1>7, <2>1
<1>10. \A i \in 2 .. Len(up') :
          Kind(up', i) = "reasoning-end" => Kind(up', i - 1) = "reasoning-delta"
  <2> SUFFICES ASSUME NEW i \in 2 .. n + 1, Kind(up', i) = "reasoning-end"
               PROVE  Kind(up', i - 1) = "reasoning-delta"
    BY <1>4
  <2>1. i - 1 \in 1 .. n
    BY <1>1
  <2>2. CASE i = n + 1
    <3>1. i - 1 = n /\ n \in 1 .. n
      BY <1>1, <2>2
    <3> QED
      BY <1>5, <1>6, <2>2, <3>1
  <2>3. CASE i # n + 1
    <3>1. i \in 2 .. n /\ i \in 1 .. n
      BY <1>1, <2>3
    <3> QED
      BY <1>6, <2>1, <3>1 DEF LogOK, n
  <2> QED
    BY <2>2, <2>3
<1>11. Kind(up', 1) # "error"
  <2>1. 1 \in 1 .. n
    BY <1>1
  <2> QED
    BY <1>6, <2>1 DEF LogOK
<1>12. LogOK'
  BY <1>1, <1>4, <1>8, <1>9, <1>10, <1>11 DEF LogOK
<1>13. Reported(up) \subseteq Reported(up')
  <2> SUFFICES ASSUME NEW i \in 1 .. n, Kind(up, i) = "finish"
               PROVE  i \in 1 .. n + 1 /\ Kind(up', i) = "finish"
    BY <1>4 DEF Reported, n
  <2> QED
    BY <1>1, <1>6
<1> QED
  BY <1>4, <1>5, <1>12, <1>13 DEF n

\* Upstream reports a usage once, in its last event.
LEMMA OneUsage ==
  ASSUME LogOK, NEW u \in Reported(up)
  PROVE  u = Len(up) /\ u \in Nat /\ u # NoUsage
<1>1. Len(up) \in Nat /\ u \in 1 .. Len(up) /\ Kind(up, u) \in Closing
  BY DEF LogOK, Reported, Closing
<1> QED
  BY <1>1 DEF LogOK, NoUsage

\* The event that is read next.
LEMMA EventFollows ==
  ASSUME LogOK, LoopOK, next <= Len(up)
  PROVE  LET ev == up[next] IN
         /\ ev.type \in EventTypes /\ ev.piece \in Nat /\ ev.piece = next
         /\ Kind(up, next) = ev.type /\ LastRead(up, next) \notin Closing
         /\ ev.type = "finish" => ev.piece \in Reported(up)
         /\ next = 1 => ev.type # "error"
         /\ next # 1 => MayFollow(LastRead(up, next), ev)
<1> DEFINE k == LastRead(up, next)
           ev == up[next]
<1>1. next \in 1 .. Len(up) /\ next \in Nat /\ Len(up) \in Nat
  BY DEF LogOK, LoopOK
<1>2. \A i \in 1 .. Len(up) : up[i] \in [type : EventTypes, piece : Nat]
  BY <1>1, ElementOfSeq DEF LogOK
<1>3. ev.type \in EventTypes /\ ev.piece \in Nat /\ ev.piece = next /\ Kind(up, next) = ev.type
  BY <1>1, <1>2 DEF LogOK, Kind
<1>4. ev.type = "finish" => next \in Reported(up)
  BY <1>1, <1>3 DEF Reported
<1>5. CASE next = 1
  <2>1. k = "nothing" /\ ev.type # "error"
    BY <1>3, <1>5 DEF LastRead, LogOK
  <2> HIDE DEF k, ev
  <2>2. k \notin Closing
    BY <2>1 DEF Closing
  <2> QED
    BY <1>3, <1>4, <1>5, <2>1, <2>2 DEF k, ev
<1>6. CASE next # 1
  <2>1. k = Kind(up, next - 1) /\ next - 1 \in 1 .. Len(up) /\ next \in 2 .. Len(up)
    BY <1>1, <1>6 DEF LastRead
  <2>2. k \in EventTypes
    BY <1>2, <2>1 DEF Kind
  <2>3. k # "nothing"
    BY <2>2 DEF EventTypes, Deltas
  <2>4. k \notin Closing
    BY <1>1, <2>1 DEF LogOK
  <2>5. ev.type = "reasoning-end" => k = "reasoning-delta"
    BY <1>3, <2>1 DEF LogOK
  <2> HIDE DEF k, ev
  <2>6. MayFollow(k, ev)
    BY <1>3, <2>3, <2>4, <2>5 DEF MayFollow
  <2> QED
    BY <1>3, <1>4, <1>6, <2>4, <2>6 DEF k, ev
<1> QED
  BY <1>5, <1>6

\* What opens the answer has been read, and stays read.
LEMMA OpenedStays ==
  ASSUME LogOK, LoopOK
  PROVE  /\ Opened => next # 1
         /\ \A i \in 1 .. next - 1 : i \in 1 .. Len(up)
         /\ ~Bare => next # 1
<1>1. next \in Nat /\ 1 <= next /\ next <= Len(up) + 1 /\ Len(up) \in Nat
  BY DEF LogOK, LoopOK
<1>2. Opened => next # 1
  BY <1>1 DEF Opened
<1>3. ~Bare => next # 1
  BY <1>2 DEF Bare, LastRead
<1> QED
  BY <1>1, <1>2, <1>3

LEMMA OpenedByEvent ==
  ASSUME LogOK, LoopOK, next <= Len(up), next' = next + 1, up' = up
  PROVE  Opened' <=> Opened \/ up[next].type \in Opening
<1>1. next \in Nat /\ 1 <= next
  BY DEF LoopOK
<1>2. 1 .. next' - 1 = (1 .. next - 1) \cup {next}
  BY <1>1
<1> QED
  BY <1>2 DEF Opened

LEMMA LastReadSomething ==
  ASSUME LogOK, LoopOK
  PROVE  /\ LastRead(up, next) = "nothing" <=> next = 1
         /\ LastRead(up, next) = "finish" => next - 1 # NoUsage
<1>1. next \in Nat /\ 1 <= next /\ next <= Len(up) + 1 /\ Len(up) \in Nat
  BY DEF LogOK, LoopOK
<1>2. CASE next # 1
  <2>1. next - 1 \in 1 .. Len(up) /\ LastRead(up, next) = Kind(up, next - 1)
    BY <1>1, <1>2 DEF LastRead
  <2>2. up[next - 1] \in [type : EventTypes, piece : Nat]
    BY <2>1, ElementOfSeq DEF LogOK
  <2>3. Kind(up, next - 1) \in EventTypes
    BY <2>2 DEF Kind
  <2> QED
    BY <1>1, <1>2, <2>1, <2>3 DEF EventTypes, Deltas, NoUsage
<1>3. CASE next = 1
  BY <1>3 DEF LastRead
<1> QED
  BY <1>2, <1>3

LEMMA AccumulateOutcome ==
  ASSUME NEW a, AccOK(a), No(a.finished), NEW ev, ev.type \in EventTypes, ev.piece \in Nat
  PROVE  LET z == Accumulate(a, ev) IN
         /\ Yes(z.finished) \/ No(z.finished)
         /\ Yes(z.finished) <=> ev.type = "finish"
         /\ z.usage = IF ev.type = "finish" THEN ev.piece ELSE a.usage
<1> DEFINE z == Accumulate(a, ev)
<1>1. ev.piece \in Nat
  OBVIOUS
<1>2. CASE ev.type \in Deltas
  <2>1. z.usage = a.usage /\ z.finished = a.finished
    BY <1>1, <1>2, AccumulateDelta
  <2> HIDE DEF z
  <2> QED
    BY <1>2, <2>1 DEF z, Deltas, Yes, No
<1>3. CASE ev.type = "tool-call"
  <2>1. z.usage = a.usage /\ z.finished = a.finished
    BY <1>1, <1>3, AccumulateToolCall
  <2> HIDE DEF z
  <2> QED
    BY <1>3, <2>1 DEF z, Yes, No
<1>4. CASE ev.type = "finish"
  <2>1. z.usage = ev.piece /\ z.finished = TRUE
    BY <1>1, <1>4, AccumulateEnd
  <2>2. Yes(z.finished)
    BY <2>1, Zenon DEF Yes
  <2> HIDE DEF z
  <2> QED
    BY <1>4, <2>1, <2>2 DEF z
<1>5. CASE ev.type \in {"start", "reasoning-end", "other", "error"}
  <2>1. z.usage = a.usage /\ z.finished = a.finished
    BY <1>1, <1>5, AccumulateEnd
  <2> HIDE DEF z
  <2> QED
    BY <1>5, <2>1 DEF z, Yes, No
<1>6. \/ ev.type \in Deltas \/ ev.type = "tool-call" \/ ev.type = "finish"
      \/ ev.type \in {"start", "reasoning-end", "other", "error"}
  BY DEF EventTypes
<1> QED
  BY <1>2, <1>3, <1>4, <1>5, <1>6

\* A client that was told the end, by the frames or by nobody.
LEMMA PlaceTold ==
  ASSUME NEW pr, NEW k, NEW lv, NEW s, NEW a, NEW d, d \in ClientOf(pr), Place(pr, k, lv, s, a, d)
  PROVE  /\ AccOK(a) /\ d.usage = a.usage
         /\ d.at \in {"stopped", "finished"} => k = "finish"
         /\ d.at = "done" => lv = "nil"
         /\ Whole(pr, a, d)
<1>1. CASE pr = "anthropic"
  <2>1. AnthropicAt(k, lv, s, a, d) /\ d \in AnthropicClient
    BY <1>1 DEF Place, ClientOf
  <2>2. d.at \notin {"finished", "done"}
    BY <2>1 DEF AnthropicClient
  <2>3. PICK b, cur, i :
          \/ d.at = "failed"
          \/ k = "finish"
          \/ Matched(b, cur, i, a, d)
          \/ InStep(b, "none", i, d)
    BY <2>1 DEF AnthropicAt
  <2>4. d.at = "stopped" => k = "finish"
    BY <2>3 DEF Matched, InStep
  <2>5. Whole(pr, a, d)
    BY <1>1, <2>1 DEF AnthropicAt, Whole
  <2> QED
    BY <2>1, <2>2, <2>4, <2>5 DEF AnthropicAt
<1>2. CASE pr # "anthropic"
  <2>1. OpenAIAt(k, lv, s, a, d) /\ d \in OpenAIClient
    BY <1>2 DEF Place, ClientOf
  <2>2. d.at # "stopped"
    BY <2>1 DEF OpenAIClient
  <2>3. PICK b, i : \/ d.at \notin {"finished", "done"}
                    \/ k = "finish" /\ d.at = "finished"
                    \/ OpenAIMatched(b, i, a, d)
                    \/ lv = "nil" /\ d.at = "done"
    BY <2>1 DEF OpenAIAt
  <2>4. (d.at = "done" => lv = "nil") /\ (d.at = "finished" => k = "finish")
    BY <2>3 DEF OpenAIMatched, OpenAIInStep
  <2>5. Whole(pr, a, d)
    BY <1>2, <2>1 DEF OpenAIAt, Whole
  <2> QED
    BY <2>1, <2>2, <2>4, <2>5 DEF OpenAIAt
<1> QED
  BY <1>1, <1>2

\* The usage a frame brings.
Brings(f) == f.name \in {"message_delta", "finish"}

LEMMA UsageReceived ==
  ASSUME NEW pr, NEW c \in ClientOf(pr), NEW f \in FrameOf(pr), AcceptsAs(pr, c, f)
  PROVE  ReceivesAs(pr, c, f).usage = IF Brings(f) THEN f.usage ELSE c.usage
<1>1. CASE pr = "anthropic"
  <2>1. c \in AnthropicClient /\ f \in AnthropicFrame /\ AnthropicAccepts(c, f)
    BY <1>1 DEF ClientOf, FrameOf, AcceptsAs
  <2>2. f.name \in {"message_start", "message_stop", "error", "content_block_start",
                    "content_block_stop", "content_block_delta", "message_delta"}
    BY <2>1 DEF AnthropicFrame
  <2>3. AnthropicReceives(c, f).usage = IF Brings(f) THEN f.usage ELSE c.usage
    <3>1. ASSUME f.name = "message_delta"
          PROVE  AnthropicReceives(c, f) = [c EXCEPT !.at = "delta", !.usage = f.usage]
      BY <2>1, <3>1 DEF AnthropicReceives
    <3>2. ASSUME f.name = "message_start"
          PROVE  AnthropicReceives(c, f) = [c EXCEPT !.at = "message"]
      BY <2>1, <3>2 DEF AnthropicReceives
    <3>3. ASSUME f.name = "message_stop"
          PROVE  AnthropicReceives(c, f) = [c EXCEPT !.at = "stopped"]
      BY <2>1, <3>3 DEF AnthropicReceives
    <3>4. ASSUME f.name = "error"
          PROVE  AnthropicReceives(c, f) = [c EXCEPT !.at = "failed"]
      BY <2>1, <3>4 DEF AnthropicReceives
    <3>5. ASSUME f.name = "content_block_start"
          PROVE  AnthropicReceives(c, f) =
                   [c EXCEPT !.at = "block",
                             !.blocks = Append(@, [type |-> f.type, pieces |-> <<>>])]
      BY <2>1, <3>5 DEF AnthropicReceives
    <3>6. ASSUME f.name = "content_block_stop"
          PROVE  AnthropicReceives(c, f) = [c EXCEPT !.at = "message"]
      BY <2>1, <3>6 DEF AnthropicReceives
    <3>7. ASSUME f.name = "content_block_delta"
          PROVE  AnthropicReceives(c, f) = [c EXCEPT !.blocks = Extended(@, f.piece)]
      BY <2>1, <3>7 DEF AnthropicReceives
    <3>8. c = [at |-> c.at, blocks |-> c.blocks, usage |-> c.usage]
      BY <2>1 DEF AnthropicClient
    <3> DEFINE e == AnthropicReceives(c, f)
    <3> HIDE DEF e
    <3>9. ASSUME f.name = "message_delta" PROVE e.usage = f.usage
      BY <3>1, <3>8, <3>9 DEF e
    <3>10. ASSUME f.name # "message_delta" PROVE e.usage = c.usage
      BY <2>2, <3>2, <3>3, <3>4, <3>5, <3>6, <3>7, <3>8, <3>10 DEF e
    <3>11. f.name # "finish"
      BY <2>2
    <3> QED
      BY <3>9, <3>10, <3>11 DEF e, Brings
  <2> QED
    BY <1>1, <2>3 DEF ReceivesAs
<1>2. CASE pr # "anthropic"
  <2>1. c \in OpenAIClient /\ f \in OpenAIFrame /\ OpenAIAccepts(c, f)
    BY <1>2 DEF ClientOf, FrameOf, AcceptsAs
  <2>2. f.name \in {"role", "[DONE]", "content", "reasoning", "tool_call", "finish"}
    BY <2>1 DEF OpenAIFrame
  <2>3. OpenAIReceives(c, f).usage = IF Brings(f) THEN f.usage ELSE c.usage
    <3>1. ASSUME f.name = "finish"
          PROVE  OpenAIReceives(c, f) = [c EXCEPT !.at = "finished", !.usage = f.usage]
      BY <2>1, <3>1 DEF OpenAIReceives
    <3>2. ASSUME f.name = "role"
          PROVE  OpenAIReceives(c, f) = [c EXCEPT !.at = "message"]
      BY <2>1, <3>2 DEF OpenAIReceives
    <3>3. ASSUME f.name = "[DONE]"
          PROVE  OpenAIReceives(c, f) = [c EXCEPT !.at = "done"]
      BY <2>1, <3>3 DEF OpenAIReceives
    <3>4. ASSUME f.name = "content"
          PROVE  OpenAIReceives(c, f) = [c EXCEPT !.content = Append(@, f.piece)]
      BY <2>1, <3>4 DEF OpenAIReceives
    <3>5. ASSUME f.name = "reasoning"
          PROVE  OpenAIReceives(c, f) = [c EXCEPT !.reasoning = Append(@, f.piece)]
      BY <2>1, <3>5 DEF OpenAIReceives
    <3>6. ASSUME f.name = "tool_call"
          PROVE  OpenAIReceives(c, f) = [c EXCEPT !.tools = Append(@, f.piece)]
      BY <2>1, <3>6 DEF OpenAIReceives
    <3>7. c = [at |-> c.at, content |-> c.content, reasoning |-> c.reasoning,
               tools |-> c.tools, usage |-> c.usage]
      BY <2>1 DEF OpenAIClient
    <3> DEFINE e == OpenAIReceives(c, f)
    <3> HIDE DEF e
    <3>8. ASSUME f.name = "finish" PROVE e.usage = f.usage
      BY <3>1, <3>7, <3>8 DEF e
    <3>9. ASSUME f.name # "finish" PROVE e.usage = c.usage
      BY <2>2, <3>2, <3>3, <3>4, <3>5, <3>6, <3>7, <3>9 DEF e
    <3>10. f.name # "message_delta"
      BY <2>2
    <3> QED
      BY <3>8, <3>9, <3>10 DEF e, Brings
  <2> QED
    BY <1>2, <2>3 DEF ReceivesAs
<1> QED
  BY <1>1, <1>2

LEMMA EventPlaced ==
  ASSUME NEW pr \in {"anthropic", "openai"}, NEW U, NEW k, NEW s, NEW a, NEW d,
         Place(pr, k, "no", s, a, d),
         NEW ev, MayFollow(k, ev), ev.type = "finish" => ev.piece \in U,
         NEW wr, wr = IF pr = "anthropic" THEN AnthropicEvent(s, ev) ELSE OpenAIEvent(s, ev)
  PROVE  \E e : /\ Becomes(pr, U, d, wr.out, e)
                /\ Place(pr, ev.type, After(ev), wr.st, Accumulate(a, ev), e)
<1>1. CASE pr = "anthropic"
  <2>1. AnthropicAt(k, "no", s, a, d) /\ wr = AnthropicEvent(s, ev)
    BY <1>1 DEF Place
  <2>2. \E e : /\ Becomes("anthropic", U, d, AnthropicEvent(s, ev).out, e)
               /\ AnthropicAt(ev.type, After(ev), AnthropicEvent(s, ev).st, Accumulate(a, ev), e)
    BY <2>1, AnthropicHandles
  <2> QED
    BY <1>1, <2>1, <2>2 DEF Place
<1>2. CASE pr = "openai"
  <2>1. OpenAIAt(k, "no", s, a, d) /\ wr = OpenAIEvent(s, ev)
    BY <1>2 DEF Place
  <2>2. \E e : /\ Becomes("openai", U, d, OpenAIEvent(s, ev).out, e)
               /\ OpenAIAt(ev.type, After(ev), OpenAIEvent(s, ev).st, Accumulate(a, ev), e)
    BY <2>1, OpenAIHandles
  <2> QED
    BY <1>2, <2>1, <2>2 DEF Place
<1> QED
  BY <1>1, <1>2

LEMMA EndPlaced ==
  ASSUME NEW pr \in {"anthropic", "openai"}, NEW U, NEW k, k # "nothing", NEW s, NEW a,
         NEW d \in ClientOf(pr), Place(pr, k, "no", s, a, d),
         NEW wr, wr = IF pr = "anthropic" THEN AnthropicEOF(s) ELSE OpenAIEOF(s)
  PROVE  \E e : /\ Becomes(pr, U, d, wr.out, e)
                /\ Place(pr, k, "nil", wr.st, a, e)
<1>1. CASE pr = "anthropic"
  <2>1. AnthropicAt(k, "no", s, a, d) /\ wr = AnthropicEOF(s) /\ d \in AnthropicClient
    BY <1>1 DEF Place, ClientOf
  <2>2. \E e : /\ Becomes("anthropic", U, d, AnthropicEOF(s).out, e)
               /\ AnthropicAt(k, "nil", AnthropicEOF(s).st, a, e)
    BY <2>1, AnthropicEnds
  <2> QED
    BY <1>1, <2>1, <2>2 DEF Place
<1>2. CASE pr = "openai"
  <2>1. OpenAIAt(k, "no", s, a, d) /\ wr = OpenAIEOF(s) /\ d \in OpenAIClient
    BY <1>2 DEF Place, ClientOf
  <2>2. \E e : /\ Becomes("openai", U, d, OpenAIEOF(s).out, e)
               /\ OpenAIAt(k, "nil", OpenAIEOF(s).st, a, e)
    BY <2>1, OpenAIEnds
  <2> QED
    BY <1>2, <2>1, <2>2 DEF Place
<1> QED
  BY <1>1, <1>2
-----------------------------------------------------------------------------
(* The steps.                                                              *)

LEMMA FreshPlaced ==
  ASSUME Blank, protocol \in {"anthropic", "openai"}
  PROVE  /\ client \in ClientOf(protocol) /\ client.at = "none" /\ client.usage = NoUsage
         /\ AccOK(acc) /\ No(acc.finished) /\ acc.usage = NoUsage /\ acc.blocks = <<>>
         /\ Place(protocol, "nothing", "no", st, acc, client)
<1>1. AccOK(acc) /\ No(acc.finished) /\ acc.usage = NoUsage /\ acc.blocks = <<>>
      /\ acc.mergeable = "none" /\ acc.finished = FALSE
  <2>1. acc = [blocks |-> <<>>, mergeable |-> "none", usage |-> NoUsage, finished |-> FALSE]
    BY DEF Blank, AccumulateStart
  <2>2. acc \in Accumulated /\ acc.mergeable = "none"
    BY <2>1 DEF Accumulated, NoUsage
  <2> QED
    BY <2>1, <2>2 DEF AccOK, No
<1>2. PICK b : No(b) /\ b = FALSE
  BY DEF No
<1>3. CASE protocol = "anthropic"
  <2>1. client = [at |-> "none", blocks |-> <<>>, usage |-> NoUsage]
    BY <1>3 DEF Blank, NewClient
  <2>2. client \in AnthropicClient /\ Len(client.blocks) = 0
    BY <2>1 DEF AnthropicClient, NoUsage
  <2>3. st = StateOf(b, "none", 0)
    BY <1>2, <1>3 DEF Blank, Fresh, AnthropicStart, StateOf
  <2>4. InStep(b, "none", 0, client)
    BY <1>2, <2>1, <2>2 DEF InStep, Yes, No
  <2>5. Matched(b, "none", 0, acc, client)
    BY <1>1, <2>1, <2>4 DEF Matched
  <2>6. AnthropicAt("nothing", "no", st, acc, client)
    BY <1>1, <2>1, <2>3, <2>5 DEF AnthropicAt, Closing
  <2> QED
    BY <1>1, <1>3, <2>1, <2>2, <2>6 DEF Place, ClientOf
<1>4. CASE protocol # "anthropic"
  <2>1. client = [at |-> "none", content |-> <<>>, reasoning |-> <<>>, tools |-> <<>>,
                  usage |-> NoUsage]
    BY <1>4 DEF Blank, NewClient
  <2>2. client \in OpenAIClient /\ Len(client.tools) = 0
    BY <2>1 DEF OpenAIClient, NoUsage
  <2>3. st = RoleState(b, 0)
    BY <1>2, <1>4 DEF Blank, Fresh, OpenAIStart, RoleState
  <2>4. OpenAIInStep(b, 0, client)
    BY <1>2, <2>1, <2>2 DEF OpenAIInStep, Yes, No
  <2>5. Holds(client, acc.blocks)
    BY <1>1, <2>1, PiecesOfNone DEF Holds
  <2>6. OpenAIMatched(b, 0, acc, client)
    BY <1>1, <2>1, <2>4, <2>5 DEF OpenAIMatched
  <2>7. OpenAIAt("nothing", "no", st, acc, client)
    BY <1>1, <2>1, <2>3, <2>5, <2>6 DEF OpenAIAt, Closing
  <2> QED
    BY <1>1, <1>4, <2>1, <2>2, <2>7 DEF Place, ClientOf
<1> QED
  BY <1>3, <1>4

LEMMA InitServes == Init => IInv
<1> SUFFICES ASSUME Init PROVE IInv
  OBVIOUS
<1>1. LogOK
  BY LogInit
<1>2. /\ LastRead(up, next) = "nothing" /\ next = 1 /\ leaving = "no" /\ outcome = "running"
      /\ pending = <<>> /\ summary = NoUsage /\ entry = NoEntry
  BY DEF Init, LastRead
<1>3. protocol \in {"anthropic", "openai"} /\ ctxDone \in BOOLEAN
  BY ProtocolsAssumption DEF Init
<1>4. Blank
  BY DEF Init, Blank, Fresh
<1>5. /\ client \in ClientOf(protocol) /\ client.at = "none" /\ client.usage = NoUsage
      /\ No(acc.finished) /\ acc.usage = NoUsage
  BY <1>3, <1>4, FreshPlaced
<1>6. LoopOK
  <2>1. Len(up) \in Nat
    BY <1>1 DEF LogOK
  <2> QED
    BY <1>2, <1>3, <1>5, <2>1 DEF LoopOK, Yes, No
<1>7. Phases
  <2>1. Bare
    BY <1>1, <1>2, <1>6, OpenedStays
  <2>2. ~Ending
    BY <1>2 DEF Ending
  <2> QED
    BY <1>4, <2>1, <2>2 DEF Phases
<1>8. Told
  BY <1>2, <1>5 DEF Told, Usages, ToldComplete
<1>9. Kept
  BY <1>2 DEF Kept
<1> QED
  BY <1>1, <1>6, <1>7, <1>8, <1>9 DEF IInv

\* What upstream and the client do moves nothing in the loop.
LEMMA PhasesStay ==
  ASSUME LogOK, LoopOK, Phases,
         UNCHANGED <<protocol, next, st, pending, leaving, acc, client>>,
         \A i \in 1 .. Len(up) : up'[i] = up[i], Reported(up) \subseteq Reported(up'),
         ctxDone => ctxDone'
  PROVE  /\ Phases' /\ (Opened' <=> Opened)
         /\ LastRead(up', next') = LastRead(up, next)
<1>1. /\ protocol' = protocol /\ next' = next /\ st' = st /\ pending' = pending
      /\ leaving' = leaving /\ acc' = acc /\ client' = client
  OBVIOUS
<1>2. next \in Nat /\ 1 <= next /\ next <= Len(up) + 1 /\ Len(up) \in Nat
  BY DEF LogOK, LoopOK
<1>3. LastRead(up', next') = LastRead(up, next)
  <2>1. CASE next = 1
    BY <1>1, <2>1 DEF LastRead
  <2>2. CASE next # 1
    <3>1. next - 1 \in 1 .. Len(up)
      BY <1>2, <2>2
    <3> QED
      BY <1>1, <3>1 DEF LastRead, Kind
  <2> QED
    BY <2>1, <2>2
<1>4. Opened' <=> Opened
  <2>1. \A i \in 1 .. next - 1 : up'[i] = up[i]
    BY <1>2
  <2> QED
    BY <1>1, <2>1 DEF Opened
<1>5. (Bare' <=> Bare) /\ (Ending' <=> Ending)
  BY <1>1, <1>3, <1>4 DEF Bare, Ending
<1>6. NewClient' = NewClient /\ BadClient' = BadClient /\ Fresh' = Fresh
  BY <1>1 DEF NewClient, BadClient, Fresh
<1>7. LastWords' = LastWords
  BY <1>1, <1>3 DEF LastWords
<1>8. Served => Served'
  <2> SUFFICES ASSUME Served PROVE Served'
    OBVIOUS
  <2>1. PICK c, d : /\ Becomes(protocol, Reported(up), c, pending, d)
                    /\ Place(protocol, LastRead(up, next), leaving, st, acc, d)
                    /\ ctxDone \/ c = client
    BY DEF Served
  <2>2. Becomes(protocol, Reported(up'), c, pending, d)
    BY <2>1, BecomesWiden
  <2> QED
    BY <1>1, <1>3, <2>1, <2>2 DEF Served
<1>9. Refused => Refused'
  BY <1>1, <1>6, <1>7 DEF Refused
<1>10. Blank => Blank'
  BY <1>1, <1>6 DEF Blank
<1>11. Phases'
  BY <1>5, <1>8, <1>9, <1>10 DEF Phases
<1> QED
  BY <1>3, <1>4, <1>11

LEMMA UpstreamSendsServes ==
  ASSUME IInv, NEW type \in EventTypes, UpstreamSends(type)
  PROVE  IInv'
<1>1. /\ LogOK' /\ Len(up') = Len(up) + 1 /\ Len(up) \in Nat
      /\ \A i \in 1 .. Len(up) : up'[i] = up[i]
      /\ Reported(up) \subseteq Reported(up')
  BY LogGrows DEF IInv, LogOK
<1>2. /\ body = "open" /\ body' = body /\ protocol' = protocol /\ ctxDone' = ctxDone
      /\ next' = next /\ st' = st /\ pending' = pending /\ leaving' = leaving
      /\ outcome' = outcome /\ summary' = summary /\ entry' = entry /\ acc' = acc
      /\ client' = client
  BY DEF UpstreamSends, handler
<1>3. next \in Nat /\ 1 <= next /\ next <= Len(up) + 1 /\ leaving # "nil"
  BY <1>2 DEF IInv, LoopOK
<1>4. Phases' /\ (Opened' <=> Opened) /\ LastRead(up', next') = LastRead(up, next)
  BY <1>1, <1>2, PhasesStay DEF IInv
<1>5. LoopOK'
  BY <1>1, <1>2, <1>3, <1>4 DEF IInv, LoopOK
<1>6. Told'
  <2>1. Usages \subseteq Usages'
    BY <1>1 DEF Usages
  <2>2. ToldComplete' <=> ToldComplete
    BY <1>2 DEF ToldComplete
  <2> QED
    BY <1>2, <1>4, <2>1, <2>2 DEF IInv, Told
<1>7. Kept'
  BY <1>2 DEF IInv, Kept, clientGone
<1> QED
  BY <1>1, <1>4, <1>5, <1>6, <1>7 DEF IInv

LEMMA QuietServes ==
  ASSUME IInv, UNCHANGED <<protocol, up, next, st, pending, leaving, summary, acc, client>>,
         LoopOK', ctxDone => ctxDone', Kept'
  PROVE  IInv'
<1>1. LogOK'
  BY DEF IInv, LogOK
<1>2. Phases' /\ (Opened' <=> Opened)
  BY PhasesStay DEF IInv
<1>3. Told'
  <2>1. ToldComplete' <=> ToldComplete
    BY DEF ToldComplete
  <2> QED
    BY <1>2, <2>1 DEF IInv, Told, Usages
<1> QED
  BY <1>1, <1>2, <1>3 DEF IInv

LEMMA UpstreamEndsServes ==
  ASSUME IInv, NEW how \in {"eof", "broken", "reset"}, UpstreamEnds(how)
  PROVE  IInv'
<1>1. /\ body = "open" /\ protocol' = protocol /\ ctxDone' = ctxDone /\ up' = up
      /\ next' = next /\ st' = st /\ pending' = pending /\ leaving' = leaving
      /\ outcome' = outcome /\ summary' = summary /\ entry' = entry /\ acc' = acc
      /\ client' = client
  BY DEF UpstreamEnds, handler
<1>2. LoopOK'
  BY <1>1 DEF IInv, LoopOK
<1>3. Kept'
  BY <1>1 DEF IInv, Kept, clientGone
<1> QED
  BY <1>1, <1>2, <1>3, QuietServes

LEMMA ClientLeavesServes ==
  ASSUME IInv, ClientLeaves
  PROVE  IInv'
<1>1. /\ entry = NoEntry /\ protocol' = protocol /\ ctxDone' = TRUE /\ up' = up /\ body' = body
      /\ next' = next /\ st' = st /\ pending' = pending /\ leaving' = leaving
      /\ outcome' = outcome /\ summary' = summary /\ entry' = entry /\ acc' = acc
      /\ client' = client
  BY DEF ClientLeaves, handler
<1>2. LoopOK'
  BY <1>1 DEF IInv, LoopOK
<1>3. Kept'
  BY <1>1 DEF Kept
<1> QED
  BY <1>1, <1>2, <1>3, QuietServes

LEMMA ReturnServes ==
  ASSUME IInv,
         (\E how \in {"canceled", "broken", "reset"} : ReadFails(how)) \/ LoopReturns
  PROVE  IInv'
<1>1. /\ outcome = "running" /\ pending = <<>> /\ protocol' = protocol /\ ctxDone' = ctxDone
      /\ up' = up /\ body' = body
      /\ next' = next /\ st' = st /\ pending' = pending /\ leaving' = leaving
      /\ summary' = summary /\ entry' = entry /\ acc' = acc /\ client' = client
  BY DEF ReadFails, LoopReturns, Reading
<1>2. outcome' = "nil" => leaving = "nil"
  BY DEF ReadFails, LoopReturns
<1>3. LoopOK'
  BY <1>1, <1>2 DEF IInv, LoopOK
<1>4. Kept'
  BY <1>1 DEF IInv, Kept
<1> QED
  BY <1>1, <1>3, <1>4, QuietServes

LEMMA RecordTrafficServes ==
  ASSUME IInv, RecordTraffic
  PROVE  IInv'
<1>1. /\ outcome # "running" /\ protocol' = protocol /\ ctxDone' = ctxDone
      /\ up' = up /\ body' = body /\ outcome' = outcome
      /\ next' = next /\ st' = st /\ pending' = pending /\ leaving' = leaving
      /\ summary' = summary /\ acc' = acc /\ client' = client
      /\ entry' = [status |-> IF outcome = "nil" \/ clientGone THEN 200 ELSE 502,
                   usage  |-> summary]
  BY DEF RecordTraffic
<1>2. LoopOK'
  BY <1>1 DEF IInv, LoopOK
<1>3. Kept'
  BY <1>1 DEF Kept, clientGone
<1> QED
  BY <1>1, <1>2, <1>3, QuietServes

\* Between two events nothing is left to write.
LEMMA ServedBetween ==
  ASSUME IInv, ~Bare, pending = <<>>
  PROVE  \E d : /\ d \in ClientOf(protocol)
                /\ Place(protocol, LastRead(up, next), leaving, st, acc, d)
                /\ ctxDone \/ d = client
<1>1. PICK c, d : /\ Becomes(protocol, Reported(up), c, pending, d)
                  /\ Place(protocol, LastRead(up, next), leaving, st, acc, d)
                  /\ ctxDone \/ c = client
  BY DEF IInv, Phases, Served
<1>2. c = d /\ d \in ClientOf(protocol)
  BY <1>1, BecomesEnds
<1> QED
  BY <1>1, <1>2

\* Where the loop may be when it reads the next event.
LEMMA ReadyFor ==
  ASSUME IInv, Reading, LastRead(up, next) \notin Closing
  PROVE  /\ client \in ClientOf(protocol) /\ ~ToldComplete /\ client.at # "done"
         /\ AccOK(acc) /\ No(acc.finished) /\ acc.usage = NoUsage
         /\ Bare => Blank
         /\ Bare <=> ~Opened
<1>1. LogOK /\ LoopOK /\ Phases /\ Told /\ leaving = "no" /\ pending = <<>>
  BY DEF IInv, Reading
<1>2. LastRead(up, next) # "finish" /\ LastRead(up, next) # "error"
  BY DEF Closing
<1>3. No(acc.finished) /\ ~Yes(acc.finished) /\ acc.usage = NoUsage
  BY <1>1, <1>2 DEF LoopOK
<1>4. ~ToldComplete /\ client.at # "done"
  BY <1>1, <1>3 DEF Told
<1>5. Bare <=> ~Opened
  BY <1>2 DEF Bare
<1>6. Bare => Blank
  BY <1>1, <1>2 DEF Phases, Ending
<1>7. CASE Bare
  <2>1. client \in ClientOf(protocol) /\ AccOK(acc)
    BY <1>1, <1>6, <1>7, FreshPlaced DEF LoopOK
  <2> QED
    BY <1>3, <1>4, <1>5, <1>6, <2>1
<1>8. CASE ~Bare
  <2>1. client \in ClientOf(protocol)
    BY <1>1, <1>5, <1>8 DEF Told
  <2>2. PICK d : d \in ClientOf(protocol) /\ Place(protocol, LastRead(up, next), leaving, st, acc, d)
    BY <1>1, <1>8, ServedBetween
  <2>3. AccOK(acc)
    BY <2>2, PlaceTold
  <2> QED
    BY <1>3, <1>4, <1>5, <1>8, <2>1, <2>3
<1> QED
  BY <1>7, <1>8

\* A finish that comes first writes its last words and nothing before them.
LEMMA FreshFinish ==
  ASSUME NEW pr \in {"anthropic", "openai"}, NEW s,
         s = IF pr = "anthropic" THEN AnthropicStart ELSE OpenAIStart,
         NEW ev, ev.type = "finish",
         NEW wr, wr = IF pr = "anthropic" THEN AnthropicEvent(s, ev) ELSE OpenAIEvent(s, ev)
  PROVE  /\ wr.st = s
         /\ wr.out = IF pr = "anthropic"
                     THEN <<[name |-> "message_delta", usage |-> ev.piece], [name |-> "message_stop"]>>
                     ELSE <<[name |-> "finish", usage |-> ev.piece]>>
<1> DEFINE m == [name |-> "message_delta", usage |-> ev.piece]
           l == [name |-> "message_stop"]
           f == [name |-> "finish", usage |-> ev.piece]
<1>1. CASE pr = "anthropic"
  <2>1. wr = Emit(Emit(closeCurrent(Writer(s, <<>>)), m), l)
    BY <1>1, AnthropicEventIs
  <2>2. closeCurrent(Writer(s, <<>>)) = Writer(s, <<>>)
    BY <1>1 DEF closeCurrent, Writer, AnthropicStart
  <2> HIDE DEF m, l
  <2>3. wr = Writer(s, <<m, l>>)
    <3>1. wr = Emit(Emit(Writer(s, <<>>), m), l)
      BY <2>1, <2>2
    <3>2. Emit(Writer(s, <<>>), m) = Writer(s, <<m>>)
      BY DEF Emit, Writer
    <3>3. Emit(Writer(s, <<m>>), l) = Writer(s, <<m, l>>)
      BY DEF Emit, Writer
    <3> QED
      BY <3>1, <3>2, <3>3
  <2> QED
    BY <1>1, <2>3, WriterIs DEF m, l
<1>2. CASE pr = "openai"
  <2>1. wr = Emit(Writer(s, <<>>), f)
    BY <1>2, OpenAIEventIs
  <2> HIDE DEF f
  <2>2. wr = Writer(s, <<f>>)
    BY <2>1 DEF Emit, Writer
  <2> QED
    BY <1>2, <2>2, WriterIs DEF f
<1> QED
  BY <1>1, <1>2

\* What comes before the answer and opens nothing leaves no trace.
LEMMA FreshPasses ==
  ASSUME NEW pr \in {"anthropic", "openai"}, NEW s,
         s = IF pr = "anthropic" THEN AnthropicStart ELSE OpenAIStart,
         NEW ev, ev.type \in {"reasoning-end", "other"},
         NEW wr, wr = IF pr = "anthropic" THEN AnthropicEvent(s, ev) ELSE OpenAIEvent(s, ev)
  PROVE  /\ wr.st = s /\ wr.out = <<>>
         /\ Accumulate(AccumulateStart, ev) = AccumulateStart
<1>1. wr = Writer(s, <<>>)
  <2>1. CASE pr = "anthropic"
    <3>1. s.current # "thinking"
      BY <2>1 DEF AnthropicStart
    <3> QED
      BY <2>1, <3>1, AnthropicEventIs
  <2>2. CASE pr = "openai"
    BY <2>2, OpenAIEventIs
  <2> QED
    BY <2>1, <2>2
<1>2. Accumulate(AccumulateStart, ev) = AccumulateStart
  <2>1. CASE ev.type = "other"
    BY <2>1 DEF Accumulate, Deltas
  <2>2. CASE ev.type = "reasoning-end"
    <3>1. Accumulate(AccumulateStart, ev) = [AccumulateStart EXCEPT !.mergeable = "none"]
      BY <2>2 DEF Accumulate, Deltas
    <3> QED
      BY <3>1 DEF AccumulateStart
  <2> QED
    BY <2>1, <2>2
<1> QED
  BY <1>1, <1>2, WriterIs

LEMMA HandleEventServes ==
  ASSUME IInv, HandleEvent
  PROVE  IInv'
<1> DEFINE ev == up[next]
           k == LastRead(up, next)
           U == Reported(up)
<1>1. PICK wr : /\ wr = IF protocol = "anthropic" THEN AnthropicEvent(st, ev) ELSE OpenAIEvent(st, ev)
                /\ st' = wr.st /\ pending' = wr.out
  BY DEF HandleEvent
<1>2. /\ outcome = "running" /\ leaving = "no" /\ pending = <<>> /\ next <= Len(up)
      /\ leaving' = After(ev) /\ acc' = Accumulate(acc, ev) /\ next' = next + 1
      /\ protocol' = protocol /\ up' = up /\ body' = body /\ outcome' = outcome
      /\ summary' = summary /\ ctxDone' = ctxDone /\ entry' = entry /\ client' = client
  BY DEF HandleEvent, Reading, After
<1>3. LogOK /\ LoopOK /\ Reading /\ protocol \in {"anthropic", "openai"}
  BY DEF IInv, HandleEvent, LoopOK
<1>4. /\ ev.type \in EventTypes /\ ev.piece \in Nat /\ ev.piece = next
      /\ Kind(up, next) = ev.type /\ k \notin Closing
      /\ ev.type = "finish" => ev.piece \in U
      /\ next = 1 => ev.type # "error"
      /\ next # 1 => MayFollow(k, ev)
  BY <1>2, <1>3, EventFollows
<1>5. /\ client \in ClientOf(protocol) /\ ~ToldComplete /\ client.at # "done"
      /\ AccOK(acc) /\ No(acc.finished) /\ acc.usage = NoUsage
      /\ Bare => Blank
      /\ Bare <=> ~Opened
  BY <1>3, <1>4, ReadyFor
<1>6. Opened' <=> Opened \/ ev.type \in Opening
  BY <1>2, <1>3, OpenedByEvent
<1>7. LastRead(up', next') = ev.type
  <2>1. next + 1 # 1 /\ (next + 1) - 1 = next
    BY <1>3 DEF LoopOK
  <2> QED
    BY <1>2, <2>1 DEF LastRead, Kind
<1>8. LoopOK'
  <2>1. next \in Nat /\ 1 <= next /\ next <= Len(up) /\ Len(up) \in Nat
    BY <1>2, <1>3 DEF LoopOK, LogOK
  <2>2. /\ Yes(acc'.finished) \/ No(acc'.finished)
        /\ Yes(acc'.finished) <=> ev.type = "finish"
        /\ acc'.usage = IF ev.type = "finish" THEN next ELSE NoUsage
    BY <1>2, <1>4, <1>5, AccumulateOutcome
  <2>3. next' \in Nat /\ 1 <= next' /\ next' <= Len(up') + 1 /\ next' - 1 = next
    BY <1>2, <2>1
  <2>4. /\ leaving' \in {"no", "event"}
        /\ leaving' = "event" <=> ev.type = "error"
    BY <1>2 DEF After
  <2>5. /\ protocol' \in {"anthropic", "openai"} /\ ctxDone' \in BOOLEAN
        /\ outcome' = "running"
    BY <1>2, <1>3 DEF LoopOK
  <2> HIDE DEF ev
  <2> QED
    BY <1>7, <2>2, <2>3, <2>4, <2>5 DEF LoopOK
<1>9. ASSUME NEW kk, NEW d, Place(protocol, kk, "no", st, acc, d), MayFollow(kk, ev),
             ctxDone \/ d = client
      PROVE  Served'
  <2>1. PICK e : /\ Becomes(protocol, U, d, wr.out, e)
                 /\ Place(protocol, ev.type, After(ev), wr.st, Accumulate(acc, ev), e)
    <3> HIDE DEF ev, U
    <3> QED
      BY <1>1, <1>3, <1>4, <1>9, EventPlaced
  <2>2. Becomes(protocol', Reported(up'), d, pending', e)
    BY <1>1, <1>2, <2>1
  <2>3. Place(protocol', LastRead(up', next'), leaving', st', acc', e)
    BY <1>1, <1>2, <1>7, <2>1
  <2>4. ctxDone' \/ d = client'
    BY <1>2, <1>9
  <2> QED
    BY <2>2, <2>3, <2>4 DEF Served
<1>10. Bare' <=> ~Opened /\ ev.type \notin Opening /\ ev.type # "error"
  BY <1>6, <1>7 DEF Bare
<1>11. Ending' <=> ev.type = "finish"
  <2>1. leaving' # "nil"
    BY <1>2 DEF After
  <2> QED
    BY <1>7, <2>1 DEF Ending
<1>12. Phases'
  <2>1. CASE ~Bare
    <3>1. next # 1 /\ MayFollow(k, ev)
      BY <1>3, <1>4, <2>1, OpenedStays
    <3>2. PICK d : Place(protocol, k, "no", st, acc, d) /\ (ctxDone \/ d = client)
      BY <1>2, <2>1, ServedBetween
    <3>3. Served'
      BY <1>9, <3>1, <3>2
    <3> QED
      BY <1>5, <1>10, <2>1, <3>3 DEF Phases
  <2>2. CASE Bare /\ ev.type \in Opening \cup {"error"}
    <3>1. MayFollow("nothing", ev)
      <4>1. "nothing" \notin Closing /\ ev.type # "reasoning-end"
        BY <2>2 DEF Closing, Opening, Deltas
      <4> HIDE DEF ev
      <4> QED
        BY <1>4, <2>2, <4>1 DEF MayFollow
    <3>2. Place(protocol, "nothing", "no", st, acc, client)
      BY <1>3, <1>5, <2>2, FreshPlaced
    <3>3. Served'
      BY <1>9, <3>1, <3>2
    <3> QED
      BY <1>10, <2>2, <3>3 DEF Phases
  <2>3. CASE Bare /\ ev.type = "finish"
    <3>0. Blank /\ st = Fresh /\ Bare'
      BY <1>5, <1>10, <2>3 DEF Opening, Deltas, Blank
    <3>1. /\ wr.st = st
          /\ wr.out = IF protocol = "anthropic"
                      THEN <<[name |-> "message_delta", usage |-> next], [name |-> "message_stop"]>>
                      ELSE <<[name |-> "finish", usage |-> next]>>
      <4> HIDE DEF ev
      <4> QED
        BY <1>1, <1>3, <1>4, <2>3, <3>0, FreshFinish DEF Fresh
    <3>2. acc'.blocks = <<>>
      <4>1. acc.blocks = <<>>
        BY <3>0 DEF Blank, AccumulateStart
      <4> QED
        BY <1>2, <1>4, <1>5, <2>3, <4>1, AccumulateEnd
    <3>3. next' - 1 = next
      BY <1>2, <1>3 DEF LoopOK
    <3>4. pending' \in LastWords' /\ pending' # <<>>
      <4>1. LastWords' = LastWordsOf(protocol, "finish", next)
        BY <1>2, <1>7, <2>3, <3>3 DEF LastWords
      <4> QED
        BY <1>1, <1>3, <3>1, <4>1 DEF LastWordsOf
    <3>5. st' = Fresh' /\ client' = NewClient'
      BY <1>1, <1>2, <3>0, <3>1 DEF Blank, Fresh, NewClient
    <3>6. Refused'
      BY <3>2, <3>4, <3>5 DEF Refused
    <3> QED
      BY <1>11, <2>3, <3>0, <3>6 DEF Phases
  <2>4. CASE Bare /\ ev.type \in {"reasoning-end", "other"}
    <3>0. /\ Blank /\ st = Fresh /\ acc = AccumulateStart /\ client = NewClient
          /\ Bare' /\ ~Ending'
      BY <1>5, <1>10, <1>11, <2>4 DEF Opening, Deltas, Blank
    <3>1. wr.st = st /\ wr.out = <<>> /\ Accumulate(acc, ev) = acc
      <4> HIDE DEF ev
      <4> QED
        BY <1>1, <1>3, <2>4, <3>0, FreshPasses DEF Fresh
    <3>2. Blank'
      BY <1>1, <1>2, <3>0, <3>1 DEF Blank, Fresh, NewClient
    <3> QED
      BY <3>0, <3>2 DEF Phases
  <2>5. ev.type \in Opening \cup {"error", "finish", "reasoning-end", "other"}
    BY <1>4 DEF EventTypes, Opening
  <2> QED
    BY <2>1, <2>2, <2>3, <2>4, <2>5
<1>13. Told'
  <2>1. ~ToldComplete'
    BY <1>2, <1>5 DEF ToldComplete
  <2> QED
    BY <1>2, <1>5, <2>1 DEF IInv, Told, Usages
<1>14. LogOK' /\ Kept'
  BY <1>2 DEF IInv, LogOK, Kept, clientGone
<1> QED
  BY <1>8, <1>12, <1>13, <1>14 DEF IInv

LEMMA FreshEnds ==
  ASSUME NEW pr \in {"anthropic", "openai"}, NEW s,
         s = IF pr = "anthropic" THEN AnthropicStart ELSE OpenAIStart,
         NEW wr, wr = IF pr = "anthropic" THEN AnthropicEOF(s) ELSE OpenAIEOF(s)
  PROVE  wr.st = s /\ wr.out = IF pr = "anthropic" THEN <<>> ELSE <<[name |-> "[DONE]"]>>
<1>1. CASE pr = "anthropic"
  BY <1>1 DEF AnthropicEOF, closeCurrent, AnthropicStart
<1>2. CASE pr = "openai"
  <2> DEFINE f == [name |-> "[DONE]"]
  <2>1. wr = Emit(Writer(s, <<>>), f)
    BY <1>2 DEF OpenAIEOF, Writer
  <2> HIDE DEF f
  <2>2. wr = Writer(s, <<f>>)
    BY <2>1 DEF Emit, Writer
  <2> QED
    BY <1>2, <2>2, WriterIs DEF f
<1> QED
  BY <1>1, <1>2

LEMMA HandleEOFServes ==
  ASSUME IInv, HandleEOF
  PROVE  IInv'
<1> DEFINE k == LastRead(up, next)
           U == Reported(up)
<1>1. PICK wr : /\ wr = IF protocol = "anthropic" THEN AnthropicEOF(st) ELSE OpenAIEOF(st)
                /\ st' = wr.st /\ pending' = wr.out
  BY DEF HandleEOF
<1>2. /\ outcome = "running" /\ leaving = "no" /\ pending = <<>> /\ next > Len(up)
      /\ body = "eof" /\ leaving' = "nil" /\ acc' = acc /\ next' = next
      /\ protocol' = protocol /\ up' = up /\ body' = body /\ outcome' = outcome
      /\ summary' = summary /\ ctxDone' = ctxDone /\ entry' = entry /\ client' = client
  BY DEF HandleEOF, Reading
<1>3. LogOK /\ LoopOK /\ protocol \in {"anthropic", "openai"}
  BY DEF IInv, LoopOK
<1>4. k # "nothing" /\ k # "error"
  <2>1. next # 1
    BY <1>2, <1>3 DEF LoopOK, LogOK
  <2> QED
    BY <1>2, <1>3, <2>1, LastReadSomething DEF LoopOK
<1>5. LoopOK'
  BY <1>2, <1>3, <1>4 DEF LoopOK
<1>6. (Opened' <=> Opened) /\ (Bare' <=> Bare)
  BY <1>2 DEF Opened, Bare
<1>7. /\ Ending' <=> (k = "finish" \/ protocol = "openai")
      /\ Ending <=> k = "finish"
  BY <1>2 DEF Ending
<1>8. LastWords' = LastWordsOf(protocol, k, next - 1)
  BY <1>2 DEF LastWords
<1>9. Fresh' = Fresh /\ NewClient' = NewClient /\ BadClient' = BadClient
  BY <1>2 DEF Fresh, NewClient, BadClient
<1>10. ASSUME ~Bare PROVE Phases'
  <2>1. PICK d : /\ d \in ClientOf(protocol) /\ Place(protocol, k, "no", st, acc, d)
                 /\ ctxDone \/ d = client
    BY <1>2, <1>10, ServedBetween
  <2>2. PICK e : Becomes(protocol, U, d, wr.out, e) /\ Place(protocol, k, "nil", wr.st, acc, e)
    <3> HIDE DEF k, U
    <3> QED
      BY <1>1, <1>3, <1>4, <2>1, EndPlaced
  <2>3. Becomes(protocol', Reported(up'), d, pending', e)
    BY <1>1, <1>2, <2>2
  <2>4. Place(protocol', LastRead(up', next'), leaving', st', acc', e)
    BY <1>1, <1>2, <2>2
  <2>5. ctxDone' \/ d = client'
    BY <1>2, <2>1
  <2>6. Served'
    BY <2>3, <2>4, <2>5 DEF Served
  <2> QED
    BY <1>6, <1>10, <2>6 DEF Phases
<1>11. ASSUME st = Fresh
       PROVE  /\ st' = Fresh
              /\ pending' = IF protocol = "anthropic" THEN <<>> ELSE <<[name |-> "[DONE]"]>>
  BY <1>1, <1>3, <1>11, FreshEnds DEF Fresh
<1>12. ASSUME Bare, k = "finish" PROVE Phases'
  <2>1. Refused
    BY <1>7, <1>12 DEF IInv, Phases
  <2>2. /\ st' = Fresh
        /\ pending' = IF protocol = "anthropic" THEN <<>> ELSE <<[name |-> "[DONE]"]>>
    BY <1>11, <2>1 DEF Refused
  <2>3. pending' \in LastWords'
    BY <1>3, <1>8, <1>12, <2>2 DEF LastWordsOf
  <2>4. Refused'
    BY <1>2, <1>9, <2>1, <2>2, <2>3 DEF Refused
  <2> QED
    BY <1>6, <1>7, <1>12, <2>4 DEF Phases
<1>13. ASSUME Bare, k # "finish" PROVE Phases'
  <2>1. Blank /\ acc.blocks = <<>>
    BY <1>7, <1>13 DEF IInv, Phases, Blank, AccumulateStart
  <2>2. /\ st' = Fresh
        /\ pending' = IF protocol = "anthropic" THEN <<>> ELSE <<[name |-> "[DONE]"]>>
    BY <1>11, <2>1 DEF Blank
  <2>3. CASE protocol = "anthropic"
    <3>1. Blank'
      BY <1>2, <1>9, <2>1, <2>2, <2>3 DEF Blank
    <3> QED
      BY <1>6, <1>7, <1>13, <2>3, <3>1 DEF Phases
  <2>4. CASE protocol = "openai"
    <3>1. pending' \in LastWords' /\ pending' # <<>>
      BY <1>8, <1>13, <2>2, <2>4 DEF LastWordsOf
    <3>2. Refused'
      BY <1>2, <1>9, <2>1, <2>2, <3>1 DEF Blank, Refused
    <3> QED
      BY <1>6, <1>7, <1>13, <2>4, <3>2 DEF Phases
  <2> QED
    BY <1>3, <2>3, <2>4
<1>14. Told'
  <2>1. ToldComplete' <=> ToldComplete
    BY <1>2 DEF ToldComplete
  <2> QED
    BY <1>2, <1>6, <2>1 DEF IInv, Told, Usages
<1>15. LogOK' /\ Kept'
  BY <1>2 DEF IInv, LogOK, Kept, clientGone
<1> QED
  BY <1>5, <1>10, <1>12, <1>13, <1>14, <1>15 DEF IInv

\* What is kept of a frame that is written, or that fails to be.
LEMMA SummaryKept ==
  ASSUME IInv, NEW f, Reports(f, Reported(up)), f = Head(pending)
  PROVE  /\ Summarised = IF Brings(f) THEN f.usage ELSE summary
         /\ Summarised \in Usages
         /\ client.usage # NoUsage => Summarised = client.usage
<1>1. Summarised = IF Brings(f) THEN f.usage ELSE summary
  BY DEF Summarised, Brings
<1>2. CASE Brings(f)
  <2>1. f.usage \in Reported(up)
    BY <1>2 DEF Reports, Brings
  <2>2. \A u \in Reported(up) : u = Len(up)
    BY OneUsage DEF IInv
  <2>3. client.usage # NoUsage => client.usage \in Reported(up)
    BY DEF IInv, Told, Usages
  <2> QED
    BY <1>1, <1>2, <2>1, <2>2, <2>3 DEF Usages
<1>3. CASE ~Brings(f)
  BY <1>1, <1>3 DEF IInv, Told
<1> QED
  BY <1>2, <1>3

\* The last words of an answer that was never opened are refused.
LEMMA WordsRefused ==
  ASSUME IInv, Bare, pending # <<>>, NEW f, f = Head(pending)
  PROVE  /\ Ending /\ Refused /\ client.at \in {"none", "bad"} /\ client.usage = NoUsage
         /\ Reports(f, Reported(up)) /\ ReceivesAs(protocol, client, f) = BadClient
         /\ Tail(pending) \in LastWords
<1> DEFINE k == LastRead(up, next)
<1>1. LogOK /\ LoopOK /\ Ending /\ Refused /\ protocol \in {"anthropic", "openai"}
  BY DEF IInv, Phases, Blank, LoopOK
<1>2. pending \in LastWordsOf(protocol, k, next - 1) /\ client \in {NewClient, BadClient}
  BY <1>1 DEF Refused, LastWords
<1>3. client.at \in {"none", "bad"} /\ client.usage = NoUsage /\ BadClient = [client EXCEPT !.at = "bad"]
  BY <1>2 DEF NewClient, BadClient
<1>4. k = "finish" => next - 1 \in Reported(up)
  <2> SUFFICES ASSUME k = "finish" PROVE next - 1 \in Reported(up)
    OBVIOUS
  <2>1. next # 1 /\ Kind(up, next - 1) = "finish"
    BY DEF LastRead
  <2>2. next - 1 \in 1 .. Len(up)
    BY <1>1, <2>1 DEF LoopOK, LogOK
  <2> QED
    BY <2>1, <2>2 DEF Reported
<1>8. k # "finish" => protocol = "openai"
  BY <1>1 DEF Ending
<1> HIDE DEF k
<1>5. /\ f.name \in IF protocol = "anthropic" THEN {"message_delta", "message_stop"}
                                             ELSE {"finish", "[DONE]"}
      /\ f.name \in {"message_delta", "finish"} => k = "finish" /\ f.usage = next - 1
      /\ Tail(pending) \in LastWordsOf(protocol, k, next - 1)
  <2> DEFINE m == [name |-> "message_delta", usage |-> next - 1]
             l == [name |-> "message_stop"]
             g == [name |-> "finish", usage |-> next - 1]
             o == [name |-> "[DONE]"]
  <2>1. /\ m.name = "message_delta" /\ m.usage = next - 1 /\ l.name = "message_stop"
        /\ g.name = "finish" /\ g.usage = next - 1 /\ o.name = "[DONE]"
    OBVIOUS
  <2>2. /\ k # "finish" => LastWordsOf(protocol, k, next - 1) = {<<o>>, <<>>}
        /\ k = "finish" => LastWordsOf(protocol, k, next - 1) =
             IF protocol = "anthropic" THEN {<<m, l>>, <<l>>, <<>>} ELSE {<<g>>, <<o>>, <<>>}
    BY DEF LastWordsOf
  <2> HIDE DEF m, l, g, o
  <2>3. CASE protocol = "anthropic"
    <3>1. k = "finish" /\ (pending = <<m, l>> \/ pending = <<l>>)
      BY <1>2, <1>8, <2>2, <2>3
    <3>2. /\ Head(<<m, l>>) = m /\ Tail(<<m, l>>) = <<l>>
          /\ Head(<<l>>) = l /\ Tail(<<l>>) = <<>>
      OBVIOUS
    <3>3. (f = m /\ Tail(pending) = <<l>>) \/ (f = l /\ Tail(pending) = <<>>)
      BY <3>1, <3>2
    <3> QED
      BY <2>1, <2>2, <2>3, <3>1, <3>3
  <2>4. CASE protocol # "anthropic"
    <3>1. (k = "finish" /\ pending = <<g>>) \/ pending = <<o>>
      BY <1>2, <2>2, <2>4
    <3>2. (k = "finish" /\ f = g) \/ f = o
      BY <3>1
    <3>3. Tail(pending) = <<>>
      <4>1. PICK x : pending = <<x>>
        BY <3>1
      <4>2. Tail(<<x>>) = <<>>
        OBVIOUS
      <4> QED
        BY <4>1, <4>2
    <3> QED
      BY <2>1, <2>2, <2>4, <3>2, <3>3
  <2> QED
    BY <2>3, <2>4
<1>6. Reports(f, Reported(up))
  BY <1>4, <1>5 DEF Reports
<1>7. ReceivesAs(protocol, client, f) = BadClient
  <2>1. CASE protocol = "anthropic"
    <3>1. f.name \in {"message_delta", "message_stop"}
      BY <1>5, <2>1
    <3>2. ~AnthropicAccepts(client, f)
      BY <1>3, <3>1 DEF AnthropicAccepts
    <3> QED
      BY <1>3, <2>1, <3>2 DEF ReceivesAs, AnthropicReceives
  <2>2. CASE protocol # "anthropic"
    <3>1. f.name \in {"finish", "[DONE]"}
      BY <1>5, <2>2
    <3>2. ~OpenAIAccepts(client, f)
      BY <1>3, <3>1 DEF OpenAIAccepts
    <3> QED
      BY <1>3, <2>2, <3>2 DEF ReceivesAs, OpenAIReceives
  <2> QED
    BY <2>1, <2>2
<1> QED
  BY <1>1, <1>3, <1>5, <1>6, <1>7 DEF LastWords, k

\* Only the chunk with finish_reason tells an OpenAI client a reason.
LEMMA FinishedBy ==
  ASSUME NEW c \in OpenAIClient, NEW f \in OpenAIFrame, OpenAIAccepts(c, f),
         OpenAIReceives(c, f).at = "finished"
  PROVE  f.name = "finish"
<1>1. f.name \in {"role", "[DONE]", "content", "reasoning", "tool_call", "finish"}
  BY DEF OpenAIFrame
<1>2. ASSUME f.name = "role" PROVE FALSE
  BY <1>2 DEF OpenAIReceives, OpenAIClient
<1>3. ASSUME f.name = "[DONE]" PROVE FALSE
  BY <1>3 DEF OpenAIReceives, OpenAIClient
<1>4. ASSUME f.name \in {"content", "reasoning", "tool_call"} PROVE FALSE
  <2>1. c.at = "message"
    BY <1>4 DEF OpenAIAccepts
  <2>2. OpenAIReceives(c, f).at = c.at
    BY <1>4 DEF OpenAIReceives, OpenAIClient
  <2> QED
    BY <2>1, <2>2
<1> QED
  BY <1>1, <1>2, <1>3, <1>4

\* A client that is told that the answer is complete has all of it.
LEMMA FrameTells ==
  ASSUME NEW pr \in {"anthropic", "openai"}, NEW U, NoUsage \notin U,
         NEW k, NEW lv, NEW s, NEW a, NEW d, Place(pr, k, lv, s, a, d),
         a.usage # NoUsage => k = "finish",
         NEW c, NEW f, AcceptsAs(pr, c, f), Reports(f, U), f \in FrameOf(pr),
         c \in ClientOf(pr), NEW e, e = ReceivesAs(pr, c, f),
         NEW p, Becomes(pr, U, e, p, d)
  PROVE  /\ e.at \in {"stopped", "finished"} \/ (e.at = "done" /\ e.usage # NoUsage) =>
              k = "finish" /\ Whole(pr, a, e)
         /\ e.at = "done" => lv = "nil"
<1>1. d \in ClientOf(pr) /\ e \in ClientOf(pr)
  BY BecomesEnds
<1>2. /\ d.usage = a.usage /\ Whole(pr, a, d)
      /\ d.at \in {"stopped", "finished"} => k = "finish"
      /\ d.at = "done" => lv = "nil"
  BY <1>1, PlaceTold
<1>3. e.at \in {"stopped", "done"} => e = d
  BY BecomesWhenTold
<1>4. ASSUME e.at = "finished" PROVE k = "finish" /\ Whole(pr, a, e)
  <2>1. pr # "anthropic" /\ pr = "openai" /\ e \in OpenAIClient
    BY <1>1, <1>4 DEF ClientOf, AnthropicClient
  <2>2. d = e \/ d = [e EXCEPT !.at = "done"]
    BY <1>4, <2>1, BecomesDone
  <2>3. /\ d.usage = e.usage /\ d.content = e.content /\ d.reasoning = e.reasoning
        /\ d.tools = e.tools
    BY <2>1, <2>2 DEF OpenAIClient
  <2>4. Whole(pr, a, e)
    BY <1>2, <2>1, <2>3 DEF Whole, Holds
  <2>5. c \in OpenAIClient /\ f \in OpenAIFrame /\ OpenAIAccepts(c, f) /\ e = OpenAIReceives(c, f)
    BY <2>1 DEF ClientOf, FrameOf, AcceptsAs, ReceivesAs
  <2>6. f.name = "finish"
    BY <1>4, <2>5, FinishedBy
  <2>7. e.usage = f.usage /\ f.usage \in U
    BY <2>6, UsageReceived DEF Brings, Reports
  <2> QED
    BY <1>2, <2>3, <2>4, <2>7
<1> QED
  BY <1>2, <1>3, <1>4

LEMMA WriteFrameServes ==
  ASSUME IInv, WriteFrame
  PROVE  IInv'
<1> DEFINE f == Head(pending)
           U == Reported(up)
           k == LastRead(up, next)
<1>1. /\ outcome = "running" /\ pending # <<>> /\ pending' = Tail(pending)
      /\ summary' = Summarised
      /\ client' = IF ctxDone THEN client ELSE ReceivesAs(protocol, client, f)
      /\ next' = next /\ st' = st /\ leaving' = leaving /\ acc' = acc
      /\ protocol' = protocol /\ up' = up /\ body' = body /\ outcome' = outcome
      /\ ctxDone' = ctxDone /\ entry' = entry
  BY DEF WriteFrame, Receives, ReceivesAs
<1>2. LogOK /\ LoopOK /\ Phases /\ Told /\ protocol \in {"anthropic", "openai"}
  BY DEF IInv, LoopOK
<1>3. LoopOK'
  BY <1>1 DEF IInv, LoopOK
<1>4. LogOK' /\ Kept'
  BY <1>1 DEF IInv, LogOK, Kept
<1>5. (Opened' <=> Opened) /\ (Bare' <=> Bare) /\ (Ending' <=> Ending) /\ Usages' = Usages
  BY <1>1 DEF Opened, Bare, Ending, Usages
<1>6. ASSUME Reports(f, U)
      PROVE  /\ summary' = IF Brings(f) THEN f.usage ELSE summary
             /\ summary' \in Usages
             /\ client.usage # NoUsage => summary' = client.usage
  <2> HIDE DEF k
  <2> QED
    BY <1>1, <1>6, SummaryKept
<1>7. ASSUME ctxDone, summary' \in Usages, client.usage # NoUsage => summary' = client.usage
      PROVE  Told'
  <2>1. client' = client
    BY <1>1, <1>7
  <2>2. ToldComplete' <=> ToldComplete
    BY <2>1 DEF ToldComplete
  <2> QED
    BY <1>1, <1>2, <1>5, <1>7, <2>1, <2>2 DEF Told
<1>8. CASE Bare
  <2>1. /\ Ending /\ Refused /\ client.at \in {"none", "bad"} /\ client.usage = NoUsage
        /\ Reports(f, U) /\ ReceivesAs(protocol, client, f) = BadClient
        /\ Tail(pending) \in LastWords
    BY <1>1, <1>8, WordsRefused
  <2>2. /\ NewClient' = NewClient /\ BadClient' = BadClient /\ Fresh' = Fresh
        /\ LastWords' = LastWords
    BY <1>1 DEF NewClient, BadClient, Fresh, LastWords
  <2>3. client' = IF ctxDone THEN client ELSE BadClient
    BY <1>1, <2>1
  <2>4. Refused'
    BY <1>1, <2>1, <2>2, <2>3 DEF Refused
  <2>5. Phases'
    BY <1>5, <1>8, <2>1, <2>4 DEF Phases
  <2>6. Told'
    <3>1. CASE ctxDone
      BY <1>6, <1>7, <2>1, <3>1
    <3>2. CASE ~ctxDone
      <4>1. client'.at = "bad" /\ client'.usage = NoUsage
        BY <2>3, <3>2 DEF BadClient, NewClient
      <4>2. ~Opened'
        BY <1>5, <1>8 DEF Bare
      <4>3. ~ToldComplete'
        BY <4>1 DEF ToldComplete
      <4> QED
        BY <1>5, <1>6, <2>1, <4>1, <4>2, <4>3 DEF Told, Usages
    <3> QED
      BY <3>1, <3>2
  <2> QED
    BY <1>3, <1>4, <2>5, <2>6 DEF IInv
<1>9. CASE ~Bare
  <2>1. PICK c, d : /\ Becomes(protocol, U, c, pending, d)
                    /\ Place(protocol, k, leaving, st, acc, d)
                    /\ ctxDone \/ c = client
    BY <1>2, <1>9 DEF Phases, Served
  <2> DEFINE e == ReceivesAs(protocol, c, f)
  <2>2. /\ AcceptsAs(protocol, c, f) /\ Reports(f, U) /\ f \in FrameOf(protocol)
        /\ e \in ClientOf(protocol) /\ Becomes(protocol, U, e, Tail(pending), d)
        /\ c \in ClientOf(protocol)
    BY <1>1, <2>1, BecomesHead, BecomesEnds
  <2>3. ctxDone \/ (c = client /\ client' = e)
    BY <1>1, <2>1
  <2>4. Served'
    <3>1. Becomes(protocol', Reported(up'), e, pending', d)
      BY <1>1, <2>2
    <3>2. Place(protocol', LastRead(up', next'), leaving', st', acc', d)
      BY <1>1, <2>1
    <3>3. ctxDone' \/ e = client'
      BY <1>1, <2>3
    <3> QED
      BY <3>1, <3>2, <3>3 DEF Served
  <2>5. Phases'
    BY <1>5, <1>9, <2>4 DEF Phases
  <2>6. Told'
    <3>1. CASE ctxDone
      BY <1>6, <1>7, <2>2, <3>1
    <3>2. CASE ~ctxDone
      <4>1. c = client /\ client' = e
        BY <2>3, <3>2
      <4>2. acc.usage # NoUsage => k = "finish"
        BY <1>2 DEF LoopOK
      <4>3. NoUsage \notin U
        BY <1>2, OneUsage
      <4>4. k = "finish" => Yes(acc.finished)
        BY <1>2 DEF LoopOK
      <4>5. e.usage = IF Brings(f) THEN f.usage ELSE c.usage
        BY <2>2, UsageReceived
      <4>6. e.usage \in Usages /\ (e.usage # NoUsage => summary' = e.usage)
        <5>1. CASE Brings(f)
          <6>1. f.usage \in Usages
            BY <2>2, <5>1 DEF Reports, Brings, Usages
          <6> QED
            BY <1>6, <2>2, <4>5, <5>1, <6>1
        <5>2. CASE ~Brings(f)
          BY <1>2, <1>6, <2>2, <4>1, <4>5, <5>2 DEF Told
        <5> QED
          BY <5>1, <5>2
      <4> HIDE DEF e, f, k, U
      <4>7. /\ e.at \in {"stopped", "finished"} \/ (e.at = "done" /\ e.usage # NoUsage) =>
                 k = "finish" /\ Whole(protocol, acc, e)
            /\ e.at = "done" => leaving = "nil"
        BY <1>2, <2>1, <2>2, <4>2, <4>3, FrameTells DEF e
      <4>8. ToldComplete' => Yes(acc.finished) /\ Whole(protocol, acc, e)
        BY <4>1, <4>4, <4>7 DEF ToldComplete
      <4> QED
        BY <1>1, <1>5, <1>6, <2>2, <4>1, <4>6, <4>7, <4>8 DEF Told
    <3> QED
      BY <3>1, <3>2
  <2> QED
    BY <1>3, <1>4, <2>5, <2>6 DEF IInv
<1> QED
  BY <1>8, <1>9

LEMMA WriteFailsServes ==
  ASSUME IInv, WriteFails
  PROVE  IInv'
<1> DEFINE f == Head(pending)
           U == Reported(up)
<1>1. /\ outcome = "running" /\ pending # <<>> /\ pending' = <<>> /\ ctxDone
      /\ summary' = Summarised
      /\ outcome' = IF protocol = "anthropic" /\ leaving # "no" THEN leaving ELSE "write"
      /\ next' = next /\ st' = st /\ leaving' = leaving /\ acc' = acc
      /\ protocol' = protocol /\ up' = up /\ body' = body
      /\ ctxDone' = ctxDone /\ entry' = entry /\ client' = client
  BY DEF WriteFails
<1>2. LoopOK'
  BY <1>1 DEF IInv, LoopOK
<1>3. (Opened' <=> Opened) /\ (Bare' <=> Bare) /\ (Ending' <=> Ending) /\ Usages' = Usages
  BY <1>1 DEF Opened, Bare, Ending, Usages
<1>4. Reports(f, U) /\ Phases'
  <2>1. CASE Bare
    <3>1. Ending /\ Refused /\ Reports(f, U)
      BY <1>1, <2>1, WordsRefused
    <3>2. /\ NewClient' = NewClient /\ BadClient' = BadClient /\ Fresh' = Fresh
      BY <1>1 DEF NewClient, BadClient, Fresh
    <3>3. pending' \in LastWords'
      BY <1>1 DEF LastWords, LastWordsOf
    <3>4. Refused'
      BY <1>1, <3>1, <3>2, <3>3 DEF Refused
    <3> QED
      BY <1>3, <2>1, <3>1, <3>4 DEF Phases
  <2>2. CASE ~Bare
    <3>1. PICK c, d : /\ Becomes(protocol, U, c, pending, d)
                      /\ Place(protocol, LastRead(up, next), leaving, st, acc, d)
      BY <2>2 DEF IInv, Phases, Served
    <3>2. Reports(f, U) /\ d \in ClientOf(protocol)
      BY <1>1, <3>1, BecomesHead, BecomesEnds
    <3>3. Becomes(protocol', Reported(up'), d, pending', d)
      BY <1>1, <3>2, BecomesOfNone
    <3>4. Served'
      BY <1>1, <3>1, <3>3 DEF Served
    <3> QED
      BY <1>3, <2>2, <3>2, <3>4 DEF Phases
  <2> QED
    BY <2>1, <2>2
<1>5. summary' \in Usages /\ (client.usage # NoUsage => summary' = client.usage)
  BY <1>1, <1>4, SummaryKept
<1>6. Told'
  <2>1. ToldComplete' <=> ToldComplete
    BY <1>1 DEF ToldComplete
  <2> QED
    BY <1>1, <1>3, <1>5, <2>1 DEF IInv, Told
<1>7. LogOK' /\ Kept'
  BY <1>1 DEF IInv, LogOK, Kept
<1> QED
  BY <1>2, <1>4, <1>6, <1>7 DEF IInv

LEMMA StutterServes ==
  ASSUME IInv, UNCHANGED vars
  PROVE  IInv'
<1>1. UNCHANGED <<protocol, up, next, st, pending, leaving, summary, acc, client>>
      /\ body' = body /\ ctxDone' = ctxDone /\ outcome' = outcome /\ entry' = entry
  BY DEF vars
<1>2. LoopOK'
  BY <1>1 DEF IInv, LoopOK
<1>3. Kept'
  BY <1>1 DEF IInv, Kept, clientGone
<1> QED
  BY <1>1, <1>2, <1>3, QuietServes

LEMMA IInvHolds == Spec => []IInv
<1>1. Init => IInv
  BY InitServes
<1>2. IInv /\ [Next]_vars => IInv'
  <2> SUFFICES ASSUME IInv, [Next]_vars PROVE IInv'
    OBVIOUS
  <2>1. ASSUME NEW type \in EventTypes, UpstreamSends(type) PROVE IInv'
    BY <2>1, UpstreamSendsServes
  <2>2. ASSUME NEW how \in {"eof", "broken", "reset"}, UpstreamEnds(how) PROVE IInv'
    BY <2>2, UpstreamEndsServes
  <2>3. CASE ClientLeaves
    BY <2>3, ClientLeavesServes
  <2>4. CASE HandleEvent
    BY <2>4, HandleEventServes
  <2>5. CASE HandleEOF
    BY <2>5, HandleEOFServes
  <2>6. CASE WriteFrame
    BY <2>6, WriteFrameServes
  <2>7. CASE WriteFails
    BY <2>7, WriteFailsServes
  <2>8. CASE LoopReturns
    BY <2>8, ReturnServes
  <2>9. CASE \E how \in {"canceled", "broken", "reset"} : ReadFails(how)
    BY <2>9, ReturnServes
  <2>10. CASE RecordTraffic
    BY <2>10, RecordTrafficServes
  <2>11. CASE UNCHANGED vars
    BY <2>11, StutterServes
  <2> QED
    BY <2>1, <2>2, <2>3, <2>4, <2>5, <2>6, <2>7, <2>8, <2>9, <2>10, <2>11 DEF Next, Handler
<1> QED
  BY <1>1, <1>2, PTL DEF Spec
-----------------------------------------------------------------------------
(* The theorems.                                                           *)

LEMMA WholeAssembled ==
  ASSUME Whole(protocol, acc, client)
  PROVE  Assembled
BY DEF Whole, Assembled, Holds, buildAnthropicResponse, buildOpenAICompletion

\* However many events upstream sends, whatever comes first, and wherever it
\* stops: a client refuses a frame only of an answer that no event had opened
\* (anthropic.go:337-364, openai.go:401-512).
THEOREM StreamsAreWellFormed == Spec => []ClientAccepts
<1>1. IInv => ClientAccepts
  <2> SUFFICES ASSUME IInv, client.at = "bad" PROVE ~Opened
    BY DEF ClientAccepts
  <2>1. client \notin ClientOf(protocol)
    BY DEF ClientOf, AnthropicClient, OpenAIClient
  <2> QED
    BY <2>1 DEF IInv, Told
<1> QED
  BY <1>1, IInvHolds, PTL

\* A streaming client that refused nothing has at every quiet moment what the
\* unary answer to the same events would hold (stream.go:83-162 against both
\* translators).
THEOREM StreamsAreWhole == Spec => []StreamedEqualsAccumulated
<1>1. IInv => StreamedEqualsAccumulated
  <2> SUFFICES ASSUME IInv, pending = <<>>, ~ctxDone, client.at # "bad"
               PROVE  Whole(protocol, acc, client)
    BY WholeAssembled DEF StreamedEqualsAccumulated, Quiet
  <2>1. CASE ~Bare
    <3>1. /\ client \in ClientOf(protocol)
          /\ Place(protocol, LastRead(up, next), leaving, st, acc, client)
      BY <2>1, ServedBetween
    <3> QED
      BY <3>1, PlaceTold
  <2>2. CASE Bare /\ ~Ending
    <3>1. Blank /\ protocol \in {"anthropic", "openai"}
      BY <2>2 DEF IInv, Phases, LoopOK
    <3>2. client \in ClientOf(protocol) /\ Place(protocol, "nothing", "no", st, acc, client)
      BY <3>1, FreshPlaced
    <3> QED
      BY <3>2, PlaceTold
  <2>3. CASE Bare /\ Ending
    <3>1. client = BadClient
      BY <2>3 DEF IInv, Phases, Refused
    <3> QED
      BY <3>1 DEF BadClient, NewClient
  <2> QED
    BY <2>1, <2>2, <2>3
<1> QED
  BY <1>1, IInvHolds, PTL

\* A client is told that the answer is complete only when upstream said so and
\* the client has all of it, and one that stays to the end of an answer is told
\* whether it is complete (anthropic.go:488-529, openai.go:485-506).
THEOREM CompletionsAreHonest == Spec => []CompletionIsHonest
<1>1. IInv => CompletionIsHonest
  <2> SUFFICES ASSUME IInv PROVE CompletionIsHonest
    OBVIOUS
  <2> DEFINE k == LastRead(up, next)
  <2>1. LogOK /\ LoopOK /\ Told
    BY DEF IInv
  <2>2. ToldComplete => Yes(acc.finished) /\ Assembled
    BY <2>1, WholeAssembled DEF Told
  <2>3. client.at = "done" => body = "eof" /\ next > Len(up) /\ Last(up).type # "error"
    <3> SUFFICES ASSUME client.at = "done"
                 PROVE  body = "eof" /\ next > Len(up) /\ Last(up).type # "error"
      OBVIOUS
    <3>1. leaving = "nil" /\ body = "eof" /\ next > Len(up) /\ k # "error"
      BY <2>1 DEF Told, LoopOK
    <3>2. next # 1 /\ next - 1 = Len(up)
      BY <2>1, <3>1 DEF LoopOK, LogOK
    <3>3. Kind(up, Len(up)) # "error"
      BY <3>1, <3>2 DEF LastRead
    <3> QED
      BY <3>1, <3>3 DEF Kind, Last
  <2>4. ASSUME outcome = "nil", Quiet, Opened
        PROVE  /\ Yes(acc.finished) => ToldComplete
               /\ No(acc.finished) => client.at \in {"message", "done"}
    <3>1. leaving = "nil" /\ ~Bare /\ pending = <<>> /\ ~ctxDone
      BY <2>1, <2>4 DEF Quiet, LoopOK, Bare
    <3>2. /\ client \in ClientOf(protocol)
          /\ Place(protocol, k, "nil", st, acc, client)
      BY <3>1, ServedBetween
    <3> HIDE DEF k
    <3>3. CASE protocol = "anthropic"
      <4>1. PICK b, cur, i :
              \/ k = "finish" /\ client.at = "stopped"
              \/ k \notin Closing /\ Yes(b) /\ InStep(b, "none", i, client)
        BY <3>2, <3>3 DEF Place, AnthropicAt
      <4>2. \/ client.at = "stopped"
            \/ k # "finish" /\ client.at = "message"
        BY <4>1 DEF InStep, Closing
      <4>3. Yes(acc.finished) => k = "finish"
        BY <2>1 DEF LoopOK, k
      <4>4. No(acc.finished) => ~Yes(acc.finished)
        BY DEF No, Yes
      <4>5. client.at = "stopped" => Yes(acc.finished)
        BY <2>2 DEF ToldComplete
      <4> QED
        BY <4>2, <4>3, <4>4, <4>5 DEF ToldComplete
    <3>4. CASE protocol # "anthropic"
      <4>1. client.at = "done" /\ client.usage = acc.usage
        BY <3>2, <3>4 DEF Place, OpenAIAt
      <4>2. Yes(acc.finished) => acc.usage # NoUsage
        BY <2>1, LastReadSomething DEF LoopOK
      <4> QED
        BY <4>1, <4>2 DEF ToldComplete
    <3> QED
      BY <3>3, <3>4
  <2>5. Yes(acc.finished) \/ No(acc.finished)
    BY <2>1 DEF LoopOK
  <2> QED
    BY <2>2, <2>3, <2>4, <2>5, Zenon DEF CompletionIsHonest, Yes, No
<1> QED
  BY <1>1, IInvHolds, PTL

\* The traffic row has the usage the client was sent, and only what upstream
\* reported (anthropic.go:162-198, openai.go:280-314).
THEOREM RowsMatchStreams == Spec => []RowMatchesStream
<1>1. IInv => RowMatchesStream
  <2> SUFFICES ASSUME IInv, entry # NoEntry
               PROVE  /\ client.usage # NoUsage => entry.usage = client.usage
                      /\ entry.usage # NoUsage => up[entry.usage].type = "finish"
                      /\ (outcome \in {"event", "broken"} /\ ~ctxDone) => entry.status = 502
                      /\ outcome = "nil" => entry.status = 200
    BY DEF RowMatchesStream
  <2>1. /\ entry.usage = summary
        /\ entry.status = IF outcome = "nil" \/ clientGone THEN 200 ELSE 502
    BY DEF IInv, Kept
  <2>2. (outcome \in {"event", "broken"} /\ ~ctxDone) => ~clientGone /\ outcome # "nil"
    BY DEF clientGone
  <2>3. summary # NoUsage => up[summary].type = "finish"
    BY DEF IInv, Told, Usages, Reported, Kind
  <2>4. client.usage # NoUsage => summary = client.usage
    BY DEF IInv, Told
  <2> QED
    BY <2>1, <2>2, <2>3, <2>4
<1> QED
  BY <1>1, IInvHolds, PTL
=============================================================================
