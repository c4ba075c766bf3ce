---------------------------- MODULE OneTimeTokens ----------------------------
(***************************************************************************)
(* What the state tokens of the login flow promise, whoever keeps them and *)
(* however they are forgotten: a token admits the first call that presents *)
(* it before it is as old as the TTL, and refuses every other call that    *)
(* presents it.                                                            *)
(***************************************************************************)
EXTENDS Integers

CONSTANTS Tokens, Calls, TTL

Never == -1
NoToken == "no token"

VARIABLES
  now,
  born,      (* token -> the instant it was issued, or Never               *)
  spent,     (* the tokens that have admitted a call                       *)
  presented, (* call -> the token it asked to be admitted with, or NoToken *)
  verdict    (* call -> "none", "admitted", "refused", "dismissed"         *)

vars == <<now, born, spent, presented, verdict>>

Init ==
  /\ now = 0
  /\ born = [t \in Tokens |-> Never]
  /\ spent = {}
  /\ presented = [c \in Calls |-> NoToken]
  /\ verdict = [c \in Calls |-> "none"]

\* Time passes during the operations, too.
TimePasses == now' \in Nat /\ now' >= now

Wait == TimePasses /\ UNCHANGED <<born, spent, presented, verdict>>

Issue(t) ==
  /\ TimePasses
  /\ born[t] = Never
  /\ born' = [born EXCEPT ![t] = now']
  /\ UNCHANGED <<spent, presented, verdict>>

Good(t) == born[t] # Never /\ t \notin spent /\ now' - born[t] < TTL

Ask(c, t) ==
  /\ verdict[c] = "none"
  /\ presented' = [presented EXCEPT ![c] = t]

Admit(c, t) ==
  /\ TimePasses
  /\ Ask(c, t) /\ Good(t)
  /\ spent' = spent \cup {t}
  /\ verdict' = [verdict EXCEPT ![c] = "admitted"]
  /\ UNCHANGED born

\* A call that asks is refused only when its token was never issued, is used
\* or is too old.
Refuse(c, t) ==
  /\ TimePasses
  /\ Ask(c, t) /\ ~Good(t)
  /\ verdict' = [verdict EXCEPT ![c] = "refused"]
  /\ UNCHANGED <<born, spent>>

\* A call that is turned away before it asks: a verdict of its own, which no
\* call gets that has asked about a token, and which spends none.
Dismiss(c) ==
  /\ verdict[c] = "none"
  /\ verdict' = [verdict EXCEPT ![c] = "dismissed"]
  /\ UNCHANGED <<now, born, spent, presented>>

Next ==
  \/ Wait
  \/ \E t \in Tokens : Issue(t)
  \/ \E c \in Calls : Dismiss(c) \/ \E t \in Tokens : Admit(c, t) \/ Refuse(c, t)

Spec == Init /\ [][Next]_vars
=============================================================================
