----------------------------- MODULE OAuthStates -----------------------------
(***************************************************************************)
(* The login flow: cc/auth.go's StateStore between HandleOAuthStart, which *)
(* issues a state token, and HandleOAuthCallback, to which CC Studio's     *)
(* page posts it back with an API key (server/oauth.go).                   *)
(*                                                                         *)
(* Generate and Consume hold the store's lock and read the clock twice:    *)
(* once for the collection of old tokens, once for the token itself; time  *)
(* may pass between the readings (Later).  The readings are monotonic:     *)
(* unlike those of the rolling statistics they are never stripped.         *)
(***************************************************************************)
EXTENDS Integers

CONSTANTS
  Tokens,     (* what rand.Read may yield; never the same token twice      *)
  Calls,      (* POSTs to /callback                                        *)
  TTL,        (* DefaultStateTTL: 5 minutes                                *)
  MaxTime     (* bound: the last instant of the clock                      *)

ASSUME OAuthBounds == TTL \in Nat \ {0} /\ MaxTime \in Nat

Absent == -1

VARIABLES
  now,
  items,      (* StateStore.items: token -> the instant it was created     *)
  phase,      (* call -> "idle", "dismissed", "refused", "verifying",      *)
              (* "added", "failed"                                         *)
  presented,  (* ghost: call -> the token Consume was asked about          *)
  born,       (* ghost: token -> when it was issued, for ever              *)
  used        (* ghost: the tokens that have admitted a call               *)

vars == <<now, items, phase, presented, born, used>>

NoToken == "no token"

ASSUME NoTokenAssumption == NoToken \notin Tokens

Init ==
  /\ now = 0
  /\ items = [t \in Tokens |-> Absent]
  /\ phase = [c \in Calls |-> "idle"]
  /\ presented = [c \in Calls |-> NoToken]
  /\ born = [t \in Tokens |-> Absent]
  /\ used = {}

Later == {t \in 0 .. MaxTime : now <= t /\ t <= now + 1}

Tick == now < MaxTime /\ now' = now + 1 /\ UNCHANGED <<items, phase, presented, born, used>>
-----------------------------------------------------------------------------
(* StateStore.                                                             *)

\* Mutants: nothing is collected; the cutoff is the present.
gcLocked_Not(its) == its
gcLocked_Everything(its) == [t \in Tokens |-> IF its[t] < now THEN Absent ELSE its[t]]

\* A token is collected once it is older than the TTL, not when it is just
\* as old.
gcLocked(its) == [t \in Tokens |-> IF its[t] < now - TTL THEN Absent ELSE its[t]]

Generate(t) == [gcLocked(items) EXCEPT ![t] = now']

Found(t) == gcLocked(items)[t] # Absent

\* Mutant: a token is removed only when it is refused.
Consumed_OnRefusal(t) ==
  IF now' - gcLocked(items)[t] < TTL THEN gcLocked(items)
  ELSE [gcLocked(items) EXCEPT ![t] = Absent]

Fresh(t) == now' - gcLocked(items)[t] < TTL

\* A token that is found is removed, whether it is still good or not.
Consumed(t) == [gcLocked(items) EXCEPT ![t] = Absent]
-----------------------------------------------------------------------------
(* The handlers.                                                           *)

HandleOAuthStart(t) ==
  /\ now' \in Later
  /\ born[t] = Absent
  /\ items' = Generate(t)
  /\ born' = [born EXCEPT ![t] = now']
  /\ UNCHANGED <<phase, presented, used>>

\* The wrong Content-Type, a body that does not parse, the user's refusal as
\* CC Studio reports it, before the store is asked (oauth.go:100-118); and an
\* empty state, which Consume answers before it looks (auth.go:58-60).
ReturnEarly(c) ==
  /\ phase[c] = "idle"
  /\ phase' = [phase EXCEPT ![c] = "dismissed"]
  /\ UNCHANGED <<now, items, presented, born, used>>

InvalidState(c, t) ==
  /\ phase[c] = "idle" /\ now' \in Later
  /\ ~(Found(t) /\ Fresh(t))
  /\ items' = Consumed(t)
  /\ phase' = [phase EXCEPT ![c] = "refused"]
  /\ presented' = [presented EXCEPT ![c] = t]
  /\ UNCHANGED <<born, used>>

\* The key is looked at when the token is already used up.
ConsumeState(c, t) ==
  /\ phase[c] = "idle" /\ now' \in Later
  /\ Found(t) /\ Fresh(t)
  /\ items' = Consumed(t)
  /\ \E looksLikeAPIKey \in BOOLEAN :
       phase' = [phase EXCEPT ![c] = IF looksLikeAPIKey THEN "verifying" ELSE "failed"]
  /\ presented' = [presented EXCEPT ![c] = t]
  /\ used' = used \cup {t}
  /\ UNCHANGED born

\* Whoami within 10 s, then the write (both in detail: module Accounts).
AddAccount(c) ==
  /\ phase[c] = "verifying"
  /\ \E end \in {"added", "failed"} : phase' = [phase EXCEPT ![c] = end]
  /\ UNCHANGED <<now, items, presented, born, used>>

Next ==
  \/ Tick
  \/ \E t \in Tokens : HandleOAuthStart(t)
  \/ \E c \in Calls :
       \/ ReturnEarly(c) \/ AddAccount(c)
       \/ \E t \in Tokens : InvalidState(c, t) \/ ConsumeState(c, t)

Spec == Init /\ [][Next]_vars
-----------------------------------------------------------------------------
TypeOK ==
  /\ now \in 0 .. MaxTime
  /\ items \in [Tokens -> Nat \cup {Absent}]
  /\ phase \in [Calls -> {"idle", "dismissed", "refused", "verifying", "added", "failed"}]
  /\ presented \in [Calls -> Tokens \cup {NoToken}]
  /\ born \in [Tokens -> Nat \cup {Absent}]
  /\ used \subseteq Tokens

\* What the store remembers is what was issued and not yet used; what it has
\* forgotten was used or is too old ever to be good again.
StoreTellsTheTruth ==
  \A t \in Tokens :
    /\ born[t] <= now
    /\ items[t] # Absent => items[t] = born[t] /\ t \notin used
    /\ (items[t] = Absent /\ born[t] # Absent) => (t \in used \/ now - born[t] >= TTL)
    /\ t \in used => born[t] # Absent

Admitted == {c \in Calls : phase[c] \in {"verifying", "added", "failed"}}

\* One start admits one callback: however many are posted with its token, at
\* once or one after the other, and whether the addition then succeeds or
\* not, at most one gets as far as the key (auth.go:57-74, oauth.go:124-127).
OneAdmissionPerStart ==
  /\ \A c \in Admitted : presented[c] \in used
  /\ \A c, d \in Admitted : presented[c] = presented[d] => c = d

\* Tokens nobody comes back for do not pile up: after any use of the store
\* it holds none older than the TTL (auth.go:79-86).
NothingKeptTooLong ==
  [][items' # items => \A t \in Tokens : items'[t] = Absent \/ now - items'[t] <= TTL]_vars

\* The store with its collection, its deletions and its two clock readings
\* admits and refuses, call by call, as if every token were remembered for
\* ever: a call that asks about a token in time and unused is admitted, one
\* that asks about any other is refused (auth.go:57-86, oauth.go:120-128).
Verdict == [c \in Calls |-> CASE phase[c] = "idle" -> "none"
                              [] phase[c] \in {"dismissed", "refused"} -> phase[c]
                              [] OTHER -> "admitted"]

Promised == INSTANCE OneTimeTokens WITH spent <- used, verdict <- Verdict

ImplementsOneTimeTokens == Promised!Spec
=============================================================================
