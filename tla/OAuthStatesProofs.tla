------------------------- MODULE OAuthStatesProofs --------------------------
(***************************************************************************)
(* Proofs about OAuthStates, for any tokens, any calls and any TTL.        *)
(***************************************************************************)
EXTENDS OAuthStates, TLAPS

IInv == TypeOK /\ StoreTellsTheTruth /\ OneAdmissionPerStart

\* What the inductive invariant says of the values the actions compute.
LEMMA LaterIsLater ==
  ASSUME TypeOK, now' \in Later
  PROVE  now' \in 0 .. MaxTime /\ now' >= now /\ now' \in Nat /\ now \in Nat
BY OAuthBounds DEF TypeOK, Later

LEMMA Collected ==
  ASSUME TypeOK, StoreTellsTheTruth, NEW t \in Tokens
  PROVE  /\ gcLocked(items)[t] \in Nat \cup {Absent}
         /\ gcLocked(items)[t] # Absent => gcLocked(items)[t] = items[t]
         /\ gcLocked(items)[t] = Absent =>
              items[t] = Absent \/ now - born[t] > TTL
BY OAuthBounds DEF TypeOK, StoreTellsTheTruth, gcLocked, Absent

LEMMA InitIInv == Init => IInv
BY OAuthBounds, NoTokenAssumption
   DEF Init, IInv, TypeOK, StoreTellsTheTruth, OneAdmissionPerStart, Admitted, Absent

LEMMA NextIInv == IInv /\ [Next]_vars => IInv'
<1> SUFFICES ASSUME IInv, [Next]_vars PROVE IInv'
  OBVIOUS
<1> USE OAuthBounds, NoTokenAssumption
<1>0. TypeOK /\ StoreTellsTheTruth /\ OneAdmissionPerStart
  BY DEF IInv
<1>1. CASE UNCHANGED vars
  BY <1>0, <1>1 DEF IInv, vars, TypeOK, StoreTellsTheTruth, OneAdmissionPerStart, Admitted
<1>2. CASE Tick
  <2>1. now' \in 0 .. MaxTime /\ now' = now + 1 /\ now \in Nat
    BY <1>0, <1>2 DEF Tick, TypeOK
  <2>2. TypeOK'
    BY <1>0, <1>2, <2>1 DEF TypeOK, Tick
  <2>3. StoreTellsTheTruth'
    BY <1>0, <1>2, <2>1 DEF TypeOK, StoreTellsTheTruth, Tick, Absent
  <2>4. OneAdmissionPerStart'
    BY <1>0, <1>2 DEF OneAdmissionPerStart, Admitted, Tick
  <2>5. QED
    BY <2>2, <2>3, <2>4 DEF IInv
<1>3. ASSUME NEW t \in Tokens, HandleOAuthStart(t) PROVE IInv'
  <2>1. now' \in 0 .. MaxTime /\ now' >= now /\ now' \in Nat /\ now \in Nat
    BY <1>0, <1>3, LaterIsLater DEF HandleOAuthStart
  <2>2. /\ items' = [gcLocked(items) EXCEPT ![t] = now']
        /\ born' = [born EXCEPT ![t] = now'] /\ born[t] = Absent
        /\ UNCHANGED <<phase, presented, used>>
    BY <1>3 DEF HandleOAuthStart, Generate
  <2>3. items' \in [Tokens -> Nat \cup {Absent}]
    <3>1. gcLocked(items) \in [Tokens -> Nat \cup {Absent}]
      BY <1>0 DEF TypeOK, gcLocked, Absent
    <3>2. QED
      BY <2>1, <2>2, <3>1
  <2>4. TypeOK'
    BY <1>0, <2>1, <2>2, <2>3 DEF TypeOK
  <2>5. ASSUME NEW u \in Tokens
        PROVE  /\ born'[u] <= now'
               /\ items'[u] # Absent => items'[u] = born'[u] /\ u \notin used'
               /\ (items'[u] = Absent /\ born'[u] # Absent) =>
                     (u \in used' \/ now' - born'[u] >= TTL)
               /\ u \in used' => born'[u] # Absent
    <3>1. CASE u = t
      <4>1. items'[t] = now' /\ born'[t] = now'
        BY <1>0, <2>2 DEF TypeOK, gcLocked
      <4>2. t \notin used /\ used' = used
        BY <1>0, <2>2 DEF StoreTellsTheTruth
      <4>3. now' <= now' /\ now' # Absent
        BY <2>1 DEF Absent
      <4>4. QED
        BY <3>1, <4>1, <4>2, <4>3, Zenon
    <3>2. CASE u # t
      <4>1. items'[u] = gcLocked(items)[u] /\ born'[u] = born[u] /\ used' = used
        BY <1>0, <2>2, <3>2 DEF TypeOK, gcLocked
      <4>2. gcLocked(items)[u] # Absent => gcLocked(items)[u] = items[u]
        BY <1>0, Collected
      <4>3. gcLocked(items)[u] = Absent => items[u] = Absent \/ now - born[u] > TTL
        BY <1>0, Collected
      <4>4. born[u] \in Nat \cup {Absent} /\ TTL \in Nat
        BY <1>0 DEF TypeOK
      <4>5. QED
        BY <1>0, <2>1, <4>1, <4>2, <4>3, <4>4 DEF StoreTellsTheTruth, Absent
    <3>3. QED
      BY <3>1, <3>2
  <2>6. StoreTellsTheTruth'
    BY <2>5 DEF StoreTellsTheTruth
  <2>7. OneAdmissionPerStart'
    BY <1>0, <2>2 DEF OneAdmissionPerStart, Admitted
  <2>8. QED
    BY <2>4, <2>6, <2>7 DEF IInv
<1>4. ASSUME NEW c \in Calls, ReturnEarly(c) PROVE IInv'
  <2>1. TypeOK'
    BY <1>0, <1>4 DEF TypeOK, ReturnEarly
  <2>2. StoreTellsTheTruth'
    BY <1>0, <1>4 DEF StoreTellsTheTruth, ReturnEarly
  <2>3. OneAdmissionPerStart'
    BY <1>0, <1>4 DEF OneAdmissionPerStart, Admitted, ReturnEarly, TypeOK
  <2>4. QED
    BY <2>1, <2>2, <2>3 DEF IInv
<1>5. ASSUME NEW c \in Calls, AddAccount(c) PROVE IInv'
  <2>0. PICK end \in {"added", "failed"} : phase' = [phase EXCEPT ![c] = end]
    BY <1>5 DEF AddAccount
  <2>1. TypeOK'
    BY <1>0, <1>5, <2>0 DEF TypeOK, AddAccount
  <2>2. StoreTellsTheTruth'
    BY <1>0, <1>5 DEF StoreTellsTheTruth, AddAccount
  <2>3. OneAdmissionPerStart'
    BY <1>0, <1>5, <2>0 DEF OneAdmissionPerStart, Admitted, AddAccount, TypeOK
  <2>4. QED
    BY <2>1, <2>2, <2>3 DEF IInv
<1>6. ASSUME NEW c \in Calls, NEW t \in Tokens, InvalidState(c, t) PROVE IInv'
  <2>1. now' \in 0 .. MaxTime /\ now' >= now /\ now' \in Nat /\ now \in Nat
    BY <1>0, <1>6, LaterIsLater DEF InvalidState
  <2>2. /\ items' = [gcLocked(items) EXCEPT ![t] = Absent]
        /\ gcLocked(items)[t] = Absent \/ ~(now' - gcLocked(items)[t] < TTL)
        /\ phase' = [phase EXCEPT ![c] = "refused"]
        /\ presented' = [presented EXCEPT ![c] = t]
        /\ UNCHANGED <<born, used>>
    BY <1>6 DEF InvalidState, Consumed, Found, Fresh
  <2>3. TypeOK'
    <3>1. gcLocked(items) \in [Tokens -> Nat \cup {Absent}]
      BY <1>0 DEF TypeOK, gcLocked, Absent
    <3>2. QED
      BY <1>0, <2>1, <2>2, <3>1 DEF TypeOK
  <2>4. ASSUME NEW u \in Tokens
        PROVE  /\ born'[u] <= now'
               /\ items'[u] # Absent => items'[u] = born'[u] /\ u \notin used'
               /\ (items'[u] = Absent /\ born'[u] # Absent) =>
                     (u \in used' \/ now' - born'[u] >= TTL)
               /\ u \in used' => born'[u] # Absent
    <3>1. items'[u] = IF u = t THEN Absent ELSE gcLocked(items)[u]
      BY <1>0, <2>2 DEF TypeOK, gcLocked
    <3>2. QED
      BY <1>0, <2>1, <2>2, <3>1, Collected DEF TypeOK, StoreTellsTheTruth, Absent
  <2>5. StoreTellsTheTruth'
    BY <2>4 DEF StoreTellsTheTruth
  <2>6. OneAdmissionPerStart'
    BY <1>0, <2>2 DEF OneAdmissionPerStart, Admitted, TypeOK
  <2>7. QED
    BY <2>3, <2>5, <2>6 DEF IInv
<1>7. ASSUME NEW c \in Calls, NEW t \in Tokens, ConsumeState(c, t) PROVE IInv'
  <2>1. now' \in 0 .. MaxTime /\ now' >= now /\ now' \in Nat /\ now \in Nat
    BY <1>0, <1>7, LaterIsLater DEF ConsumeState
  <2>2. /\ items' = [gcLocked(items) EXCEPT ![t] = Absent]
        /\ gcLocked(items)[t] # Absent
        /\ presented' = [presented EXCEPT ![c] = t]
        /\ used' = used \cup {t} /\ born' = born
    BY <1>7 DEF ConsumeState, Consumed, Found
  <2>3. PICK looksLikeAPIKey \in BOOLEAN :
          phase' = [phase EXCEPT ![c] = IF looksLikeAPIKey THEN "verifying" ELSE "failed"]
    BY <1>7 DEF ConsumeState
  <2>4. TypeOK'
    <3>1. gcLocked(items) \in [Tokens -> Nat \cup {Absent}]
      BY <1>0 DEF TypeOK, gcLocked, Absent
    <3>2. QED
      BY <1>0, <2>1, <2>2, <2>3, <3>1 DEF TypeOK
  <2>5. items[t] = born[t] /\ t \notin used /\ born[t] # Absent
    BY <1>0, <2>2, Collected DEF StoreTellsTheTruth
  <2>6. ASSUME NEW u \in Tokens
        PROVE  /\ born'[u] <= now'
               /\ items'[u] # Absent => items'[u] = born'[u] /\ u \notin used'
               /\ (items'[u] = Absent /\ born'[u] # Absent) =>
                     (u \in used' \/ now' - born'[u] >= TTL)
               /\ u \in used' => born'[u] # Absent
    <3>1. items'[u] = IF u = t THEN Absent ELSE gcLocked(items)[u]
      BY <1>0, <2>2 DEF TypeOK, gcLocked
    <3>2. QED
      BY <1>0, <2>1, <2>2, <2>5, <3>1, Collected DEF TypeOK, StoreTellsTheTruth, Absent
  <2>7. StoreTellsTheTruth'
    BY <2>6 DEF StoreTellsTheTruth
  <2>8. OneAdmissionPerStart'
    <3>1. \A d \in Admitted : presented[d] \in used
      BY <1>0 DEF OneAdmissionPerStart, Admitted
    <3>2. QED
      BY <1>0, <2>2, <2>3, <2>5 DEF OneAdmissionPerStart, Admitted, TypeOK
  <2>9. QED
    BY <2>4, <2>7, <2>8 DEF IInv
<1>8. QED
  BY <1>1, <1>2, <1>3, <1>4, <1>5, <1>6, <1>7 DEF Next

\* The inductive invariant.
LEMMA IInvHolds == Spec => []IInv
BY InitIInv, NextIInv, PTL DEF Spec

\* What the store has forgotten was used or is too old ever to be good again,
\* and what it remembers was issued then and not used since: neither the
\* collection nor the two readings of the clock lose a good token
\* (auth.go:34-86).
THEOREM StoreIsTruthful == Spec => []StoreTellsTheTruth
<1>1. IInv => StoreTellsTheTruth
  BY DEF IInv
<1> QED
  BY <1>1, IInvHolds, PTL

\* One start admits one callback, whatever the clock and the callers do
\* (auth.go:57-74, oauth.go:124-127).
THEOREM TokensAdmitOnce == Spec => [](TypeOK /\ OneAdmissionPerStart)
<1>1. IInv => TypeOK /\ OneAdmissionPerStart
  BY DEF IInv
<1> QED
  BY <1>1, IInvHolds, PTL

\* After any use of the store it holds no token older than the TTL: each of
\* the two operations collects before it does anything else (auth.go:79-86).
THEOREM OldTokensGo == Spec => NothingKeptTooLong
<1> DEFINE NoneOld == \A t \in Tokens : items'[t] = Absent \/ now - items'[t] <= TTL
<1>1. ASSUME IInv, [Next]_vars PROVE [items' # items => NoneOld]_vars
  <2>1. /\ now \in Nat /\ TTL \in Nat
        /\ items \in [Tokens -> Nat \cup {Absent}]
    BY <1>1, OAuthBounds DEF IInv, TypeOK
  <2>2. \A t \in Tokens : gcLocked(items)[t] = Absent \/ now - gcLocked(items)[t] <= TTL
    BY <2>1 DEF gcLocked, Absent
  <2>3. gcLocked(items) = [t \in Tokens |-> gcLocked(items)[t]]
    BY DEF gcLocked
  <2>4. ASSUME NEW t \in Tokens, HandleOAuthStart(t) PROVE NoneOld
    <3>1. now' \in Nat /\ now <= now' /\ items' = [gcLocked(items) EXCEPT ![t] = now']
      BY <1>1, <2>4, LaterIsLater DEF HandleOAuthStart, Generate, IInv
    <3> QED
      BY <2>1, <2>2, <2>3, <3>1
  <2>5. ASSUME NEW t \in Tokens, items' = Consumed(t) PROVE NoneOld
    BY <2>2, <2>3, <2>5 DEF Consumed
  <2>6. ASSUME items' # items
        PROVE  \E t \in Tokens : HandleOAuthStart(t) \/ items' = Consumed(t)
    BY <1>1, <2>6 DEF Next, Tick, ReturnEarly, AddAccount, InvalidState, ConsumeState, vars
  <2> QED
    BY <2>4, <2>5, <2>6
<1> QED
  BY <1>1, IInvHolds, PTL DEF Spec, NothingKeptTooLong
-----------------------------------------------------------------------------
(* The store implements the promise.                                       *)

LEMMA InitRefines == Init => Promised!Init
BY DEF Init, Promised!Init, Verdict, Absent, Promised!Never, NoToken, Promised!NoToken

\* Found and fresh is what the promise calls good.
LEMMA FoundIsGood ==
  ASSUME IInv, NEW t \in Tokens, now' \in Later
  PROVE  (Found(t) /\ Fresh(t)) <=> Promised!Good(t)
<1> USE OAuthBounds
<1>1. TypeOK /\ StoreTellsTheTruth
  BY DEF IInv
<1>2. now' \in Nat /\ now \in Nat /\ now' >= now /\ TTL \in Nat
  BY <1>1, LaterIsLater
<1>3. born[t] \in Nat \cup {Absent}
  BY <1>1 DEF TypeOK
<1>4. CASE gcLocked(items)[t] = Absent
  <2>1. items[t] = Absent \/ now - born[t] > TTL
    BY <1>1, <1>4, Collected
  <2>2. born[t] = Absent \/ t \in used \/ now - born[t] >= TTL
    BY <1>1, <1>2, <1>3, <2>1 DEF StoreTellsTheTruth, Absent
  <2>3. QED
    BY <1>2, <1>3, <1>4, <2>2 DEF Found, Promised!Good, Promised!Never, Absent
<1>5. CASE gcLocked(items)[t] # Absent
  <2>1. gcLocked(items)[t] = items[t]
    BY <1>1, <1>5, Collected
  <2>2. items[t] = born[t] /\ t \notin used
    BY <1>1, <1>5, <2>1 DEF StoreTellsTheTruth
  <2>3. QED
    BY <1>5, <2>1, <2>2 DEF Found, Fresh, Promised!Good, Promised!Never, Absent
<1>6. QED
  BY <1>4, <1>5

LEMMA NextRefines == IInv /\ [Next]_vars => [Promised!Next]_(Promised!vars)
<1> SUFFICES ASSUME IInv, [Next]_vars PROVE [Promised!Next]_(Promised!vars)
  OBVIOUS
<1> USE OAuthBounds
<1>0. TypeOK
  BY DEF IInv
<1>1. CASE UNCHANGED vars
  BY <1>1 DEF vars, Promised!vars, Verdict
<1>2. CASE Tick
  <2>1. now' \in Nat /\ now' >= now
    BY <1>0, <1>2 DEF Tick, TypeOK
  <2>2. Promised!Wait
    BY <1>2, <2>1 DEF Tick, Promised!Wait, Promised!TimePasses, Verdict
  <2>3. QED
    BY <2>2 DEF Promised!Next
<1>3. ASSUME NEW t \in Tokens, HandleOAuthStart(t) PROVE Promised!Next
  <2>1. Promised!TimePasses
    BY <1>0, <1>3, LaterIsLater DEF HandleOAuthStart, Promised!TimePasses
  <2>2. Promised!Issue(t)
    BY <1>3, <2>1 DEF HandleOAuthStart, Promised!Issue, Promised!Never, Absent, Verdict
  <2>3. QED
    BY <2>2 DEF Promised!Next
<1>4. ASSUME NEW c \in Calls, ReturnEarly(c) PROVE Promised!Next
  <2>1. Verdict' = [Verdict EXCEPT ![c] = "dismissed"] /\ Verdict[c] = "none"
    BY <1>0, <1>4 DEF ReturnEarly, Verdict, TypeOK
  <2>2. Promised!Dismiss(c)
    BY <1>4, <2>1 DEF ReturnEarly, Promised!Dismiss
  <2>3. QED
    BY <2>2 DEF Promised!Next
<1>5. ASSUME NEW c \in Calls, AddAccount(c) PROVE UNCHANGED Promised!vars
  <2>1. Verdict' = Verdict
    BY <1>0, <1>5 DEF AddAccount, Verdict, TypeOK
  <2>2. QED
    BY <1>5, <2>1 DEF AddAccount, Promised!vars
<1>6. ASSUME NEW c \in Calls, NEW t \in Tokens, InvalidState(c, t) PROVE Promised!Next
  <2>1. Promised!TimePasses /\ ~Promised!Good(t)
    BY <1>0, <1>6, LaterIsLater, FoundIsGood DEF InvalidState, Promised!TimePasses
  <2>2. Verdict' = [Verdict EXCEPT ![c] = "refused"] /\ Verdict[c] = "none"
    BY <1>0, <1>6 DEF InvalidState, Verdict, TypeOK
  <2>3. Promised!Refuse(c, t)
    BY <1>6, <2>1, <2>2 DEF InvalidState, Promised!Refuse, Promised!Ask
  <2>4. QED
    BY <2>3 DEF Promised!Next
<1>7. ASSUME NEW c \in Calls, NEW t \in Tokens, ConsumeState(c, t) PROVE Promised!Next
  <2>1. Promised!TimePasses /\ Promised!Good(t)
    BY <1>0, <1>7, LaterIsLater, FoundIsGood DEF ConsumeState, Promised!TimePasses
  <2>2. Verdict' = [Verdict EXCEPT ![c] = "admitted"] /\ Verdict[c] = "none"
    BY <1>0, <1>7 DEF ConsumeState, Verdict, TypeOK
  <2>3. Promised!Admit(c, t)
    BY <1>7, <2>1, <2>2 DEF ConsumeState, Promised!Admit, Promised!Ask
  <2>4. QED
    BY <2>3 DEF Promised!Next
<1>8. QED
  BY <1>1, <1>2, <1>3, <1>4, <1>5, <1>6, <1>7 DEF Next

(***************************************************************************)
(* The store, with its collection, its deletions and its two readings of   *)
(* the clock (auth.go:43-86), admits a callback that asks about a token in *)
(* time and unused and refuses one that asks about any other, as if tokens *)
(* were never forgotten.                                                   *)
(***************************************************************************)
THEOREM StoreKeepsPromise == Spec => ImplementsOneTimeTokens
<1>1. Init => IInv
  BY InitIInv
<1>2. IInv /\ [Next]_vars => IInv'
  BY NextIInv
<1>3. Init => Promised!Init
  BY InitRefines
<1>4. IInv /\ [Next]_vars => [Promised!Next]_(Promised!vars)
  BY NextRefines
<1>5. QED
  BY <1>1, <1>2, <1>3, <1>4, PTL DEF Spec, ImplementsOneTimeTokens, Promised!Spec
=============================================================================
